---------------------------- MODULE MCKafkaQueue ----------------------------
(* Small instances of KafkaQueue for TLC. *)
EXTENDS KafkaQueue, TLC

CONSTANTS p1, f1, a, c1, c2, ok

Symmetry == Permutations({c1, c2})
=============================================================================
