------------------------- MODULE BalanceCacheProofs -------------------------
(***************************************************************************)
(* Proofs about BalanceCache for any queries, any life of an entry and any *)
(* time that a query takes to fill it.                                     *)
(***************************************************************************)
EXTENDS BalanceCache, TLAPS

\* Version v is the current one, or was at time t or later.
CurrentAt(v, t) == v = version \/ since[v + 1] >= t

\* The version in the cache was current when the entry was read, which is at
\* most FillTime before it was stored.
Entry == CurrentAt(cache.version, cache.end - TTL - FillTime)

\* So is what a query is about to store, and what one has answered.
Held == \A q \in Query :
  /\ query[q].pc = "store" =>
       /\ q \in Cached \ Multi
       /\ now <= query[q].readAt + FillTime
       /\ CurrentAt(query[q].got, query[q].readAt)
  /\ query[q].pc = "done" => CurrentAt(query[q].got, query[q].endAt - TTL - FillTime + 1)

Inv == TypeOK /\ Entry /\ Held /\ FreshRead

-----------------------------------------------------------------------------
\* The type of a query.
Queries(v, n) ==
  [pc : {"new", "read", "store", "done", "failed"}, got : 0 .. v, least : 0 .. v,
   readAt : 0 .. n, endAt : 0 .. n]

LEMMA QueriesGrow ==
  ASSUME NEW v \in Nat, NEW n \in Nat, NEW w \in Nat, NEW k \in Nat, v <= w, n <= k,
         NEW r \in Queries(v, n)
  PROVE  r \in Queries(w, k)
BY DEF Queries

\* What the type says of the parts, one by one.
LEMMA Parts ==
  ASSUME TypeOK
  PROVE  /\ version \in Nat /\ now \in Nat /\ TTL \in Nat \ {0} /\ FillTime \in Nat
         /\ since \in [0 .. version -> Nat]
         /\ cache.version \in 0 .. version /\ cache.end \in 0 .. now + TTL
         /\ query \in [Query -> Queries(version, now)]
         /\ \A q \in Query :
              /\ query[q] \in Queries(version, now)
              /\ query[q].got \in 0 .. version /\ query[q].least \in 0 .. version
              /\ query[q].readAt \in 0 .. now /\ query[q].endAt \in 0 .. now
              /\ DOMAIN query[q] = {"pc", "got", "least", "readAt", "endAt"}
<1>1. version \in Nat /\ now \in Nat /\ TTL \in Nat \ {0} /\ FillTime \in Nat
  BY CacheAssumption DEF TypeOK, Versions, Times
<1>2. since \in [0 .. version -> Nat]
  BY CacheAssumption DEF TypeOK, Times
<1>3. cache.version \in 0 .. version /\ cache.end \in 0 .. now + TTL
  BY DEF TypeOK
<1>4. query \in [Query -> Queries(version, now)]
  BY DEF TypeOK, Queries
<1>5. ASSUME NEW q \in Query
      PROVE  /\ query[q] \in Queries(version, now)
             /\ query[q].got \in 0 .. version /\ query[q].least \in 0 .. version
             /\ query[q].readAt \in 0 .. now /\ query[q].endAt \in 0 .. now
             /\ DOMAIN query[q] = {"pc", "got", "least", "readAt", "endAt"}
  <2>1. query[q] \in Queries(version, now)
    BY <1>4
  <2> QED
    BY <2>1 DEF Queries
<1> QED
  BY <1>1, <1>2, <1>3, <1>4, <1>5

LEMMA InitInv == Init => Inv
<1> SUFFICES ASSUME Init PROVE Inv
  OBVIOUS
<1>1. TypeOK
  BY CacheAssumption DEF Init, TypeOK, Versions, Times
<1>2. Entry /\ Held /\ FreshRead
  BY DEF Init, Entry, Held, FreshRead, Answered, CurrentAt
<1> QED
  BY <1>1, <1>2 DEF Inv

LEMMA TypeStep == TypeOK /\ [Next]_vars => TypeOK'
<1> SUFFICES ASSUME TypeOK, [Next]_vars PROVE TypeOK'
  OBVIOUS
<1> USE CacheAssumption DEF Versions, Times
<1>n. version \in Nat /\ now \in Nat
  BY Parts
<1>1. ASSUME NEW q \in Query, Look(q) \/ Read(q) \/ ReadFails(q) \/ Store(q) PROVE TypeOK'
  <2> DEFINE R == Queries(version, now)
  <2>1. query \in [Query -> R] /\ query[q] \in R
    BY DEF TypeOK, Queries
  <2>2. UNCHANGED <<now, version, since>>
    BY <1>1 DEF Look, Read, ReadFails, Store
  <2>3. cache' \in [version : 0 .. version, end : 0 .. now + TTL]
    BY <1>1, <1>n, <2>1 DEF Look, Read, ReadFails, Store, TypeOK, Queries
  <2>r. query[q].got \in 0 .. version /\ cache.version \in 0 .. version
        /\ version \in 0 .. version /\ 0 \in 0 .. now /\ now \in 0 .. now
    BY <1>n, Parts
  <2>4. \E r \in R : query' = [query EXCEPT ![q] = r]
    <3>1. CASE Look(q)
      <4>1. PICK g \in 0 .. version, p \in {"done", "read"}, e \in 0 .. now :
              Become(q, [query[q] EXCEPT !.pc = p, !.got = g, !.least = version, !.endAt = e])
        <5>1. CASE Become(q, [query[q] EXCEPT
                     !.pc = "done", !.got = cache.version, !.least = version, !.endAt = now])
          BY <5>1, <2>r
        <5>2. CASE Become(q, [query[q] EXCEPT !.pc = "read", !.least = version])
          <6>1. [query[q] EXCEPT !.pc = "read", !.least = version]
                = [query[q] EXCEPT !.pc = "read", !.got = query[q].got, !.least = version,
                                   !.endAt = query[q].endAt]
            BY <2>1 DEF Queries
          <6>2. query[q].endAt \in 0 .. now
            BY Parts
          <6> QED
            BY <5>2, <6>1, <6>2, <2>r
        <5> QED
          BY <3>1, <5>1, <5>2 DEF Look
      <4>2. [query[q] EXCEPT !.pc = p, !.got = g, !.least = version, !.endAt = e] \in R
        BY <2>1, <2>r DEF Queries
      <4> QED
        BY <4>1, <4>2 DEF Become
    <3>2. CASE Read(q)
      <4>1. [query[q] EXCEPT !.pc = "store", !.got = version, !.readAt = now] \in R
        BY <2>1, <2>r DEF Queries
      <4>2. [query[q] EXCEPT !.pc = "done", !.got = version, !.readAt = 0, !.endAt = now] \in R
        BY <2>1, <2>r DEF Queries
      <4> QED
        BY <3>2, <4>1, <4>2 DEF Read, Become, Answer
    <3>3. CASE ReadFails(q)
      <4>1. [query[q] EXCEPT !.pc = "failed"] \in R
        BY <2>1 DEF Queries
      <4> QED
        BY <3>3, <4>1 DEF ReadFails, Become
    <3>4. CASE Store(q)
      <4>1. [query[q] EXCEPT !.pc = "done", !.got = query[q].got, !.readAt = 0, !.endAt = now] \in R
        BY <2>1, <2>r DEF Queries
      <4> QED
        BY <3>4, <4>1 DEF Store, Become, Answer
    <3> QED
      BY <1>1, <3>1, <3>2, <3>3, <3>4
  <2>5. query' \in [Query -> R]
    BY <2>1, <2>4
  <2> QED
    BY <2>2, <2>3, <2>5 DEF TypeOK, Queries
<1>2. CASE Change
  <2>1. query' \in [Query -> Queries(version', now')]
    BY <1>2, <1>n, QueriesGrow DEF Change, TypeOK, Queries
  <2>2. since' \in [0 .. version' -> Times]
    BY <1>2, <1>n DEF Change, TypeOK
  <2> QED
    BY <1>2, <1>n, <2>1, <2>2 DEF Change, TypeOK, Queries
<1>3. CASE Tick
  <2>1. query' \in [Query -> Queries(version', now')]
    BY <1>3, <1>n DEF Tick, TypeOK, Queries
  <2> QED
    BY <1>3, <1>n, <2>1 DEF Tick, TypeOK, Queries
<1>4. CASE UNCHANGED vars
  BY <1>4 DEF vars, TypeOK
<1> QED
  BY <1>1, <1>2, <1>3, <1>4 DEF Next

\* A change makes the version that was current one that was current till now.
LEMMA CurrentStays ==
  ASSUME TypeOK, Change, NEW v \in 0 .. version, NEW t \in Int, t <= now, CurrentAt(v, t)
  PROVE  CurrentAt(v, t)'
<1>1. version \in Nat /\ now \in Nat /\ since \in [0 .. version -> Nat] /\ t' = t /\ v' = v
  BY CacheAssumption DEF TypeOK, Versions, Times
<1>2. version' = version + 1
      /\ since' = [i \in 0 .. version + 1 |-> IF i <= version THEN since[i] ELSE now]
  BY DEF Change
<1>3. CASE v = version
  <2>1. since'[v + 1] = now
    BY <1>1, <1>2, <1>3
  <2> QED
    BY <1>1, <2>1 DEF CurrentAt
<1>4. CASE v # version
  <2>1. v + 1 \in 0 .. version /\ since'[v + 1] = since[v + 1]
    BY <1>1, <1>2, <1>4
  <2> QED
    BY <1>1, <1>4, <2>1 DEF CurrentAt
<1> QED
  BY <1>3, <1>4

LEMMA CurrentLater ==
  ASSUME TypeOK, NEW v \in 0 .. version, NEW t \in Int, NEW u \in Int, u <= t, CurrentAt(v, t)
  PROVE  CurrentAt(v, u)
<1>1. CASE v = version
  BY <1>1 DEF CurrentAt
<1>2. CASE v # version
  <2>1. v + 1 \in 0 .. version /\ since \in [0 .. version -> Nat]
    BY <1>2, CacheAssumption DEF TypeOK, Versions, Times
  <2> QED
    BY <1>2, <2>1 DEF CurrentAt
<1> QED
  BY <1>1, <1>2

LEMMA EntryStep == TypeOK /\ Entry /\ Held /\ [Next]_vars => Entry'
<1> SUFFICES ASSUME TypeOK, Entry, Held, [Next]_vars PROVE Entry'
  OBVIOUS
<1>n. /\ version \in Nat /\ now \in Nat /\ cache.version \in 0 .. version
      /\ cache.end \in Int /\ cache.end <= now + TTL /\ TTL \in Nat /\ FillTime \in Nat
  BY CacheAssumption DEF TypeOK, Versions, Times
<1>1. CASE UNCHANGED <<version, since, cache>>
  BY <1>1 DEF Entry, CurrentAt
<1>2. CASE Change
  <2>1. cache.end - TTL - FillTime <= now /\ cache.end - TTL - FillTime \in Int
    BY <1>n
  <2> DEFINE t == cache.end - TTL - FillTime
  <2>2. PICK u \in Int : u = t
    BY <2>1
  <2>3. PICK v \in 0 .. version : v = cache.version
    BY <1>n
  <2>4. CurrentAt(v, u)'
    BY <1>2, <2>1, <2>2, <2>3, CurrentStays DEF Entry
  <2>5. cache' = cache
    BY <1>2 DEF Change
  <2>6. /\ v = version' \/ since'[v + 1] >= u
        /\ cache'.version = v /\ cache'.end - TTL - FillTime = u
    BY <2>2, <2>3, <2>4, <2>5 DEF CurrentAt
  <2> QED
    BY <2>6 DEF Entry, CurrentAt
<1>3. ASSUME NEW q \in Query, Store(q), cache' = [version |-> query[q].got, end |-> now + TTL]
      PROVE  Entry'
  <2>1. /\ query[q].got \in 0 .. version /\ query[q].readAt \in Nat
        /\ now <= query[q].readAt + FillTime /\ CurrentAt(query[q].got, query[q].readAt)
    BY <1>3, <1>n DEF Store, Held, TypeOK
  <2>2. CurrentAt(query[q].got, now - FillTime)
    BY <1>n, <2>1, CurrentLater
  <2>4. UNCHANGED <<version, since>>
    BY <1>3 DEF Store
  <2>c. cache'.version = query[q].got /\ cache'.end = now + TTL
    BY <1>3
  <2>5. cache'.version = query[q].got /\ cache'.end - TTL - FillTime = now - FillTime
    <3> DEFINE e == cache'.end
    <3>1. e = now + TTL
      BY <2>c
    <3> HIDE DEF e
    <3>2. e - TTL - FillTime = now - FillTime
      BY <1>n, <3>1
    <3> QED
      BY <2>c, <3>2 DEF e
  <2>6. query[q].got = version' \/ since'[query[q].got + 1] >= now - FillTime
    BY <2>2, <2>4 DEF CurrentAt
  <2> QED
    BY <2>5, <2>6 DEF Entry, CurrentAt
<1> QED
  BY <1>1, <1>2, <1>3 DEF Next, vars, Tick, Look, Read, ReadFails, Store

\* A query that has not moved keeps what it has.
LEMMA HeldStays ==
  ASSUME TypeOK, TypeOK', Held, Change \/ Tick \/ UNCHANGED <<now, version, since>>,
         NEW q \in Query, query'[q] = query[q]
  PROVE  /\ query'[q].pc = "store" =>
              /\ q \in Cached \ Multi
              /\ now' <= query'[q].readAt + FillTime
              /\ CurrentAt(query[q].got, query[q].readAt)'
         /\ query'[q].pc = "done" =>
              CurrentAt(query[q].got, query[q].endAt - TTL - FillTime + 1)'
<1>n. /\ version \in Nat /\ now \in Nat /\ query[q].got \in 0 .. version
      /\ query[q].readAt \in 0 .. now /\ query[q].endAt \in 0 .. now
      /\ TTL \in Nat \ {0} /\ FillTime \in Nat
  BY Parts
<1>h. /\ query[q].pc = "store" =>
           /\ q \in Cached \ Multi
           /\ now <= query[q].readAt + FillTime
           /\ CurrentAt(query[q].got, query[q].readAt)
      /\ query[q].pc = "done" =>
           CurrentAt(query[q].got, query[q].endAt - TTL - FillTime + 1)
  BY DEF Held
<1>1. PICK v \in 0 .. version : v = query[q].got
  BY <1>n
<1>2. PICK t \in Int : t = query[q].readAt
  BY <1>n
<1>3. PICK u \in Int : u = query[q].endAt - TTL - FillTime + 1
  BY <1>n
<1>4. t <= now /\ u <= now
  BY <1>n, <1>2, <1>3
<1>5. /\ CurrentAt(v, t) => CurrentAt(v, t)'
      /\ CurrentAt(v, u) => CurrentAt(v, u)'
  <2>1. CASE Change
    BY <2>1, <1>4, CurrentStays
  <2>2. CASE UNCHANGED <<version, since>>
    BY <2>2 DEF CurrentAt
  <2> QED
    BY <2>1, <2>2 DEF Tick
<1>6. query[q].pc = "store" => now' <= query[q].readAt + FillTime
  <2>1. CASE Tick
    BY <2>1, <1>n DEF Tick
  <2>2. CASE UNCHANGED now
    BY <2>2, <1>h
  <2> QED
    BY <2>1, <2>2 DEF Change
<1>7. /\ query[q].pc = "store" => CurrentAt(v, t)'
      /\ query[q].pc = "done" => CurrentAt(v, u)'
  BY <1>1, <1>2, <1>3, <1>5, <1>h
<1> QED
  BY <1>1, <1>2, <1>3, <1>6, <1>7, <1>h DEF CurrentAt

LEMMA HeldStep == TypeOK /\ TypeOK' /\ Entry /\ Held /\ [Next]_vars => Held'
<1> SUFFICES ASSUME TypeOK, TypeOK', Entry, Held, [Next]_vars PROVE Held'
  OBVIOUS
<1>1. CASE Change \/ Tick \/ UNCHANGED vars
  <2>1. UNCHANGED query
    BY <1>1 DEF Change, Tick, vars
  <2> SUFFICES ASSUME NEW q \in Query
               PROVE  /\ query'[q].pc = "store" =>
                           /\ q \in Cached \ Multi
                           /\ now' <= query'[q].readAt + FillTime
                           /\ CurrentAt(query[q].got, query[q].readAt)'
                      /\ query'[q].pc = "done" =>
                           CurrentAt(query[q].got, query[q].endAt - TTL - FillTime + 1)'
    BY DEF Held
  <2> QED
    BY <1>1, <2>1, HeldStays DEF vars
<1>2. ASSUME NEW p \in Query, Look(p) \/ Read(p) \/ ReadFails(p) \/ Store(p) PROVE Held'
  <2>n. /\ version \in Nat /\ now \in Nat /\ query[p].got \in 0 .. version
        /\ query[p].readAt \in 0 .. now /\ cache.version \in 0 .. version
        /\ cache.end \in 0 .. now + TTL /\ TTL \in Nat \ {0} /\ FillTime \in Nat
        /\ DOMAIN query = Query /\ DOMAIN query[p] = {"pc", "got", "least", "readAt", "endAt"}
    BY Parts
  <2>1. UNCHANGED <<now, version, since>>
    BY <1>2 DEF Look, Read, ReadFails, Store
  <2>2. ASSUME NEW q \in Query, q # p PROVE query'[q] = query[q]
    BY <1>2, <2>2, <2>n DEF Look, Read, ReadFails, Store, Become, Answer
  <2>3. /\ query'[p].pc = "store" =>
             /\ p \in Cached \ Multi
             /\ now' <= query'[p].readAt + FillTime
             /\ CurrentAt(query[p].got, query[p].readAt)'
        /\ query'[p].pc = "done" =>
             CurrentAt(query[p].got, query[p].endAt - TTL - FillTime + 1)'
    <3>1. CASE Look(p)
      <4>1. CASE Live /\ Become(p, [query[p] EXCEPT
                   !.pc = "done", !.got = cache.version, !.least = version, !.endAt = now])
        <5>1. /\ query'[p].pc = "done" /\ query'[p].got = cache.version
              /\ query'[p].endAt = now
          BY <4>1, <2>n DEF Become
        <5>2. PICK v \in 0 .. version : v = cache.version
          BY <2>n
        <5>3. PICK t \in Int : t = cache.end - TTL - FillTime
          BY <2>n
        <5>4. PICK u \in Int : u = now - TTL - FillTime + 1
          BY <2>n
        <5>5. u <= t
          BY <2>n, <4>1, <5>3, <5>4 DEF Live
        <5>6. CurrentAt(v, u)
          BY <5>2, <5>3, <5>5, CurrentLater DEF Entry
        <5> QED
          BY <2>1, <5>1, <5>2, <5>4, <5>6 DEF CurrentAt
      <4>2. CASE Become(p, [query[p] EXCEPT !.pc = "read", !.least = version])
        BY <4>2, <2>n DEF Become
      <4> QED
        BY <3>1, <4>1, <4>2 DEF Look
    <3>2. CASE Read(p)
      <4>1. query'[p].got = version
        BY <3>2, <2>n DEF Read, Become, Answer
      <4>2. query'[p].pc = "store" =>
              p \in Cached \ Multi /\ query'[p].readAt = now
        BY <3>2, <2>n DEF Read, Become, Answer
      <4> QED
        BY <2>1, <2>n, <4>1, <4>2 DEF CurrentAt
    <3>3. CASE ReadFails(p)
      BY <3>3, <2>n DEF ReadFails, Become
    <3>4. CASE Store(p)
      <4>1. query'[p].pc = "done" /\ query'[p].got = query[p].got /\ query'[p].endAt = now
        BY <3>4, <2>n DEF Store, Become, Answer
      <4>2. PICK v \in 0 .. version : v = query[p].got
        BY <2>n
      <4>3. PICK t \in Int : t = query[p].readAt
        BY <2>n
      <4>4. PICK u \in Int : u = now - TTL - FillTime + 1
        BY <2>n
      <4>5. CurrentAt(v, t) /\ u <= t
        BY <3>4, <2>n, <4>2, <4>3, <4>4 DEF Store, Held
      <4>6. CurrentAt(v, u)
        BY <4>5, CurrentLater
      <4> QED
        BY <2>1, <4>1, <4>2, <4>4, <4>6 DEF CurrentAt
    <3> QED
      BY <1>2, <3>1, <3>2, <3>3, <3>4
  <2>4. ASSUME NEW q \in Query, q # p
        PROVE  /\ query'[q].pc = "store" =>
                    /\ q \in Cached \ Multi
                    /\ now' <= query'[q].readAt + FillTime
                    /\ CurrentAt(query[q].got, query[q].readAt)'
               /\ query'[q].pc = "done" =>
                    CurrentAt(query[q].got, query[q].endAt - TTL - FillTime + 1)'
    BY <2>1, <2>2, <2>4, HeldStays
  <2> QED
    BY <2>3, <2>4 DEF Held
<1> QED
  BY <1>1, <1>2 DEF Next

\* A query that never asks the cache reads the version of its moment.
LEMMA FreshStep == TypeOK /\ Held /\ FreshRead /\ [Next]_vars => FreshRead'
<1> SUFFICES ASSUME TypeOK, Held, FreshRead, [Next]_vars,
                    NEW q \in Query, query'[q].pc = "done", q \notin Cached \ Multi
             PROVE  query'[q].got >= query'[q].least
  BY DEF FreshRead, Answered
<1>1. CASE query'[q] = query[q]
  BY <1>1 DEF FreshRead, Answered
<1>2. ASSUME NEW p \in Query, Look(p) \/ Read(p) \/ ReadFails(p) \/ Store(p), p # q
      PROVE  query'[q] = query[q]
  BY <1>2 DEF Look, Read, ReadFails, Store, Become, Answer, TypeOK
<1>3. CASE Look(q) \/ ReadFails(q)
  BY <1>3 DEF Look, ReadFails, Become, TypeOK
<1>4. CASE Read(q)
  <2>1. DOMAIN query = Query /\ DOMAIN query[q] = {"pc", "got", "least", "readAt", "endAt"}
    BY Parts
  <2>2. query'[q].got = version /\ query'[q].least = query[q].least
    BY <1>4, <2>1 DEF Read, Become, Answer
  <2>3. query[q].least \in 0 .. version /\ version \in Nat
    BY Parts
  <2> QED
    BY <2>2, <2>3
<1>5. CASE Store(q)
  BY <1>5 DEF Store, Held
<1>6. CASE Change \/ Tick \/ UNCHANGED vars
  BY <1>1, <1>6 DEF Change, Tick, vars
<1> QED
  BY <1>1, <1>2, <1>3, <1>4, <1>5, <1>6 DEF Next

LEMMA InvCorrect == Spec => []Inv
<1>1. Init => Inv
  BY InitInv
<1>2. Inv /\ [Next]_vars => Inv'
  <2>1. Inv /\ [Next]_vars => TypeOK' /\ Entry' /\ FreshRead'
    BY TypeStep, EntryStep, FreshStep DEF Inv
  <2>2. Inv /\ [Next]_vars => Held'
    BY <2>1, HeldStep DEF Inv
  <2> QED
    BY <2>1, <2>2 DEF Inv
<1> QED
  BY <1>1, <1>2, PTL DEF Spec

-----------------------------------------------------------------------------
\* The state is always of its type: among others no query has a version that
\* was never current, and no entry outlives its TTL.
THEOREM TypeCorrect == Spec => []TypeOK
<1>1. Inv => TypeOK
  BY DEF Inv
<1> QED
  BY <1>1, InvCorrect, PTL

\* A query that reads the database tells a balance at least as recent as its
\* call (GetMultipleBalances, and getAccountBalanceWithCache with no cache).
THEOREM FreshReadCorrect == Spec => []FreshRead
<1>1. Inv => FreshRead
  BY DEF Inv
<1> QED
  BY <1>1, InvCorrect, PTL

\* A query through the cache tells a balance that was current some time within
\* the entry's life and the time it took to fill it (getAccountBalanceWithCache).
THEOREM StaleBoundedCorrect == Spec => []StaleBounded
<1>1. Inv => StaleBounded
  <2> SUFFICES ASSUME Inv, NEW q \in Answered
               PROVE  query[q].got = version
                      \/ since[query[q].got + 1] > query[q].endAt - TTL - FillTime
    BY DEF StaleBounded
  <2>1. CurrentAt(query[q].got, query[q].endAt - TTL - FillTime + 1)
    BY DEF Inv, Held, Answered
  <2>p. /\ query[q].got \in 0 .. version /\ version \in Nat /\ since \in [0 .. version -> Nat]
        /\ query[q].endAt \in 0 .. now /\ now \in Nat /\ TTL \in Nat /\ FillTime \in Nat
    BY Parts DEF Inv, Answered
  <2>2. CASE query[q].got # version
    <3>1. /\ query[q].got + 1 \in 0 .. version /\ since \in [0 .. version -> Nat]
          /\ query[q].endAt \in Nat /\ TTL \in Nat /\ FillTime \in Nat
      BY <2>2, <2>p
    <3>2. since[query[q].got + 1] \in Nat
      BY <3>1
    <3> QED
      BY <2>1, <2>2, <3>1, <3>2 DEF CurrentAt
  <2> QED
    BY <2>2
<1> QED
  BY <1>1, InvCorrect, PTL
=============================================================================
