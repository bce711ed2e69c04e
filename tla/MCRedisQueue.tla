---------------------------- MODULE MCRedisQueue ----------------------------
(* Small instances of RedisQueue for TLC. *)
EXTENDS RedisQueue, TLC

CONSTANTS p1, p2, c1, c2, ok

Symmetry == Permutations({p1, p2}) \cup Permutations({c1, c2})
=============================================================================
