--------------------------- MODULE MCBalanceCache ---------------------------
(* Small instances of BalanceCache for TLC. *)
EXTENDS BalanceCache, TLC

CONSTANTS q1, q2, q3, q4

Symmetry == Permutations({q1, q2, q3})
=============================================================================
