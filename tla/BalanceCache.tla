---------------------------- MODULE BalanceCache ----------------------------
(***************************************************************************)
(* Queries of one account's balance: HandleBalanceCheck, which reads       *)
(* through a cache where one is installed, and GetMultipleBalances, which  *)
(* never does.  Deposits and withdrawals change the balance meanwhile, and *)
(* none of them touches the cache.                                         *)
(*                                                                         *)
(* A balance is told by its version, the number of its changes; version 0  *)
(* is an account that does not exist yet.                                  *)
(***************************************************************************)
EXTENDS Integers

CONSTANTS
  Query,       \* queries, each one call of a use case
  Cached,      \* those that run where SetCacheRepository has been called
  Multi,       \* those for several users at once
  TTL,         \* how long an entry lives
  FillTime,    \* how long a query may take from its read to its store
  MaxVersion,  \* bound on the changes
  MaxTime      \* bound on the time

ASSUME CacheAssumption ==
  /\ Cached \subseteq Query /\ Multi \subseteq Query
  /\ TTL \in Nat \ {0} /\ FillTime \in Nat /\ MaxVersion \in Nat /\ MaxTime \in Nat

VARIABLES
  now,      \* the time
  version,  \* the current version of the balance
  since,    \* since[v], when version v became current
  cache,    \* the cache's entry, its version and its end
  query     \* query[q], where q is, what it has, when it began, read, ended

vars == <<now, version, since, cache, query>>

Versions == 0 .. MaxVersion
Times == 0 .. MaxTime

TypeOK ==
  /\ now \in Times /\ version \in Versions
  /\ since \in [0 .. version -> Times]
  /\ cache \in [version : 0 .. version, end : 0 .. now + TTL]
  /\ query \in [Query -> [pc : {"new", "read", "store", "done", "failed"}, got : 0 .. version,
                          least : 0 .. version, readAt : 0 .. now, endAt : 0 .. now]]

Init ==
  /\ now = 0 /\ version = 0 /\ since = [v \in {0} |-> 0]
  /\ cache = [version |-> 0, end |-> 0]
  /\ query = [q \in Query |-> [pc |-> "new", got |-> 0, least |-> 0, readAt |-> 0, endAt |-> 0]]

-----------------------------------------------------------------------------
Become(q, r) == query' = [query EXCEPT ![q] = r]

\* The answer: version v.
Answer(q, v) ==
  Become(q, [query[q] EXCEPT !.pc = "done", !.got = v, !.readAt = 0, !.endAt = now])

Live == cache.end > now

\* Mutant of Look: a hit prolongs the entry.
LookAndRenew(q) ==
  /\ query[q].pc = "new"
  /\ \/ /\ q \in Cached \ Multi /\ Live
        /\ cache' = [cache EXCEPT !.end = now + TTL]
        /\ Become(q, [query[q] EXCEPT !.pc = "done", !.got = cache.version, !.least = version, !.endAt = now])
     \/ Become(q, [query[q] EXCEPT !.pc = "read", !.least = version]) /\ UNCHANGED cache
  /\ UNCHANGED <<now, version, since>>

\* Mutant of Look: a query for several users asks the cache as well.
LookAlways(q) ==
  /\ query[q].pc = "new"
  /\ \/ /\ Live
        /\ Become(q, [query[q] EXCEPT !.pc = "done", !.got = cache.version, !.least = version, !.endAt = now])
     \/ Become(q, [query[q] EXCEPT !.pc = "read", !.least = version])
  /\ UNCHANGED <<now, version, since, cache>>

\* The cache is asked, if there is one: it answers, or it fails, or has no live
\* entry, and the query goes on to the database.
Look(q) ==
  /\ query[q].pc = "new"
  /\ \/ /\ q \in Cached \ Multi /\ Live
        /\ Become(q, [query[q] EXCEPT !.pc = "done", !.got = cache.version, !.least = version, !.endAt = now])
     \/ Become(q, [query[q] EXCEPT !.pc = "read", !.least = version])
  /\ UNCHANGED <<now, version, since, cache>>

\* The database is read.  A missing account is not stored: the query ends.
Read(q) ==
  /\ query[q].pc = "read"
  /\ IF q \in Cached \ Multi /\ version > 0
     THEN Become(q, [query[q] EXCEPT !.pc = "store", !.got = version, !.readAt = now])
     ELSE Answer(q, version)
  /\ UNCHANGED <<now, version, since, cache>>

ReadFails(q) ==
  /\ query[q].pc = "read"
  /\ Become(q, [query[q] EXCEPT !.pc = "failed"])
  /\ UNCHANGED <<now, version, since, cache>>

\* What was read is stored, over whatever is there by now; an error is ignored.
Store(q) ==
  /\ query[q].pc = "store"
  /\ cache' \in {cache, [version |-> query[q].got, end |-> now + TTL]}
  /\ Answer(q, query[q].got)
  /\ UNCHANGED <<now, version, since>>

\* A deposit or a withdrawal commits, or the member is created.
Change ==
  /\ version < MaxVersion
  /\ version' = version + 1
  /\ since' = [v \in 0 .. version + 1 |-> IF v <= version THEN since[v] ELSE now]
  /\ UNCHANGED <<now, cache, query>>

Tick ==
  /\ now < MaxTime
  /\ \A q \in Query : query[q].pc = "store" => now < query[q].readAt + FillTime
  /\ now' = now + 1
  /\ UNCHANGED <<version, since, cache, query>>

Next == Change \/ Tick \/ \E q \in Query : Look(q) \/ Read(q) \/ ReadFails(q) \/ Store(q)

Spec == Init /\ [][Next]_vars

-----------------------------------------------------------------------------
(* Properties *)

Answered == {q \in Query : query[q].pc = "done"}

\* A query that reads the database tells a balance at least as recent as its
\* call, whatever other processes hold in a cache (GetMultipleBalances,
\* getAccountBalanceWithCache with no cache).
FreshRead == \A q \in Answered : q \notin Cached \ Multi => query[q].got >= query[q].least

\* A query through the cache tells a balance that was current some time within
\* the entry's life and the time it took another query to fill it, although no
\* writer invalidates it and a slow query stores what it read before others.
StaleBounded ==
  \A q \in Answered :
    query[q].got = version \/ since[query[q].got + 1] > query[q].endAt - TTL - FillTime
=============================================================================
