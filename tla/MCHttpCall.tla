----------------------------- MODULE MCHttpCall -----------------------------
(* Small instances of HttpCall for TLC. *)
EXTENDS HttpCall, TLC
=============================================================================
