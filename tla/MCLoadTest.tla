----------------------------- MODULE MCLoadTest -----------------------------
(* Small instances of LoadTest for TLC. *)
EXTENDS LoadTest, TLC

CONSTANTS w1, w2
=============================================================================
