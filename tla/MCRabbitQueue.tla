--------------------------- MODULE MCRabbitQueue ---------------------------
(* Small instances of RabbitQueue for TLC. *)
EXTENDS RabbitQueue, TLC

CONSTANTS p1, p2, f1, c1, c2, ok
=============================================================================
