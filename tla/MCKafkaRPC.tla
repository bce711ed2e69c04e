----------------------------- MODULE MCKafkaRPC -----------------------------
(* Small instances of KafkaRPC for TLC. *)
EXTENDS KafkaRPC, TLC

CONSTANTS ok, refused
=============================================================================
