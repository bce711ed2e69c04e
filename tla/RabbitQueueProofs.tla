------------------------- MODULE RabbitQueueProofs --------------------------
(***************************************************************************)
(* Proofs about RabbitQueue for any sets of calls, consumers and results,  *)
(* and any number of lost connections.                                     *)
(***************************************************************************)
EXTENDS RabbitQueue, FiniteSetTheorems, TLAPS

\* The elements of a sequence, and that it has none twice.
Members(s) == {s[i] : i \in DOMAIN s}
NoRepeat(s) == \A i, j \in DOMAIN s : s[i] = s[j] => i = j

\* The consumers whose handler is still to run m.
Holders(m) == {c \in Consumer : inHand[c] = m /\ stage[c] = "handle"}

\* A message is in one place: once in the queue, at one consumer that has its
\* connection, acknowledged, or gone.  A deaf consumer may have it besides.
OnePlace ==
  /\ NoRepeat(queue)
  /\ Members(queue) \cap (acked \cup gone) = {}
  /\ acked \cap gone = {}
  /\ \A c \in Consuming : inHand[c] \notin Members(queue) \cup acked \cup gone
  /\ \A c, d \in Consuming : inHand[c] = inHand[d] /\ inHand[c] # None => c = d

\* What a consumer has in hand, and what it knows of it.
Hand(c) ==
  /\ inHand[c] # None => status[c] \in {"consuming", "deaf"}
  /\ stage[c] # "handle" => inHand[c] # None /\ outcome[c] \in Members(done[inHand[c]])
  /\ stage[c] = "respond" => inHand[c] \in Rpc

\* A call not yet published, or refused, has left no trace, and one under way to
\* the broker none behind it.
Unpublished == {"new", "declaring", "rejected"}
Traceless(m) ==
  /\ caller[m] \in Unpublished => m \notin wire
  /\ caller[m] \in Unpublished \/ m \in wire =>
       /\ m \notin Members(queue) \cup acked \cup gone
       /\ \A c \in Consumer : inHand[c] # m
       /\ done[m] = <<>>

\* A response in a response queue is the result of a run of its call.
Own(m) == reply[m] # None => reply[m] \in Members(done[m])

\* Each run of m, made or still to come, is paid for by an interruption, but
\* for one.
Counted(m) ==
  /\ IsFiniteSet(Holders(m))
  /\ Len(done[m]) + Cardinality(Holders(m)) + (IF m \in Members(queue) THEN 1 ELSE 0)
       <= interrupted[m] + 1

\* A caller that waits has its response before its message is acknowledged.
Served(m) ==
  /\ m \in acked => done[m] # <<>>
  /\ m \in Rpc /\ linked /\ caller[m] = "waiting" =>
       /\ m \in acked => reply[m] # None
       /\ \A c \in Consuming : inHand[c] = m /\ stage[c] = "ack" => reply[m] # None

\* A consumer that is subscribed keeps the queue from being deleted.
Kept == Consuming # {} => declared

Inv ==
  /\ TypeOK
  /\ OnePlace
  /\ \A c \in Consumer : Hand(c)
  /\ \A m \in Call : Traceless(m)
  /\ \A m \in Call : Own(m)
  /\ \A m \in Call : Counted(m)
  /\ \A m \in Call : Served(m)
  /\ Kept

-----------------------------------------------------------------------------
(* What the queue's operations do to its elements. *)

LEMMA AppendMembers ==
  ASSUME NEW S, NEW s \in Seq(S), NEW e \in S
  PROVE  /\ Append(s, e) \in Seq(S) /\ Len(Append(s, e)) = Len(s) + 1
         /\ Members(Append(s, e)) = Members(s) \cup {e}
         /\ NoRepeat(s) /\ e \notin Members(s) => NoRepeat(Append(s, e))
<1> DEFINE t == Append(s, e)
<1>1. /\ t \in Seq(S) /\ Len(t) = Len(s) + 1 /\ Len(s) \in Nat
      /\ DOMAIN s = 1 .. Len(s) /\ DOMAIN t = 1 .. (Len(s) + 1)
      /\ t[Len(s) + 1] = e /\ \A i \in DOMAIN s : t[i] = s[i]
  OBVIOUS
<1> HIDE DEF t
<1>2. DOMAIN t = DOMAIN s \cup {Len(s) + 1} /\ Len(s) + 1 \notin DOMAIN s
  BY <1>1
<1>3. Members(t) = Members(s) \cup {e}
  BY <1>1, <1>2 DEF Members
<1>4. NoRepeat(s) /\ e \notin Members(s) => NoRepeat(t)
  BY <1>1, <1>2 DEF Members, NoRepeat
<1> QED
  BY <1>1, <1>3, <1>4 DEF t

LEMMA TailMembers ==
  ASSUME NEW S, NEW s \in Seq(S), s # <<>>
  PROVE  /\ Head(s) \in Members(s) /\ Head(s) \in S /\ Tail(s) \in Seq(S)
         /\ NoRepeat(s) => NoRepeat(Tail(s)) /\ Members(Tail(s)) = Members(s) \ {Head(s)}
<1> DEFINE t == Tail(s)
<1>1. /\ t \in Seq(S) /\ Head(s) \in S /\ Len(s) \in Nat \ {0} /\ Len(t) = Len(s) - 1
      /\ DOMAIN s = 1 .. Len(s) /\ DOMAIN t = 1 .. (Len(s) - 1)
      /\ Head(s) = s[1] /\ \A i \in DOMAIN t : t[i] = s[i + 1]
  OBVIOUS
<1> HIDE DEF t
<1>2. Head(s) \in Members(s)
  BY <1>1 DEF Members
<1>3. NoRepeat(s) => NoRepeat(t)
  BY <1>1, SMTT(20) DEF NoRepeat
<1>4. ASSUME NoRepeat(s), NEW x \in Members(t) PROVE x \in Members(s) \ {Head(s)}
  BY <1>1, <1>4 DEF Members, NoRepeat
<1>5. ASSUME NEW x \in Members(s) \ {Head(s)} PROVE x \in Members(t)
  <2>1. PICK i \in DOMAIN s : x = s[i]
    BY DEF Members
  <2>2. i - 1 \in DOMAIN t /\ t[i - 1] = x
    BY <1>1, <1>5, <2>1
  <2> QED
    BY <2>2 DEF Members
<1> QED
  BY <1>1, <1>2, <1>3, <1>4, <1>5 DEF t

LEMMA ConsMembers ==
  ASSUME NEW S, NEW s \in Seq(S), NEW e \in S
  PROVE  /\ <<e>> \o s \in Seq(S)
         /\ Members(<<e>> \o s) = Members(s) \cup {e}
         /\ NoRepeat(s) /\ e \notin Members(s) => NoRepeat(<<e>> \o s)
<1> DEFINE t == <<e>> \o s
<1>1. /\ t \in Seq(S) /\ Len(s) \in Nat
      /\ DOMAIN s = 1 .. Len(s) /\ DOMAIN t = 1 .. (Len(s) + 1)
      /\ t[1] = e /\ \A i \in DOMAIN s : t[i + 1] = s[i]
  OBVIOUS
<1> HIDE DEF t
<1>2. \A i \in DOMAIN t : i = 1 \/ (i - 1 \in DOMAIN s /\ t[i] = s[i - 1])
  <2> SUFFICES ASSUME NEW i \in DOMAIN t, i # 1 PROVE i - 1 \in DOMAIN s /\ t[i] = s[i - 1]
    OBVIOUS
  <2>1. i - 1 \in DOMAIN s /\ (i - 1) + 1 = i
    BY <1>1
  <2> QED
    BY <1>1, <2>1
<1>3. \A i \in DOMAIN s : i + 1 \in DOMAIN t
  BY <1>1
<1>4. Members(t) = Members(s) \cup {e}
  <2>1. Members(t) \subseteq Members(s) \cup {e}
    BY <1>1, <1>2 DEF Members
  <2>2. Members(s) \cup {e} \subseteq Members(t)
    BY <1>1, <1>3 DEF Members
  <2> QED
    BY <2>1, <2>2
<1>5. ASSUME NoRepeat(s), e \notin Members(s) PROVE NoRepeat(t)
  <2> SUFFICES ASSUME NEW i \in DOMAIN t, NEW j \in DOMAIN t, t[i] = t[j] PROVE i = j
    BY DEF NoRepeat
  <2>1. \A k \in DOMAIN s : s[k] # e
    BY <1>5 DEF Members
  <2> QED
    BY <1>1, <1>2, <1>5, <2>1 DEF NoRepeat
<1> QED
  BY <1>1, <1>4, <1>5 DEF t

LEMMA RpcIsCall == Rpc \subseteq Call
BY DEF Call

LEMMA EmptyMembers == Members(<<>>) = {} /\ NoRepeat(<<>>)
BY DEF Members, NoRepeat

-----------------------------------------------------------------------------
LEMMA InitInv == Init => Inv
<1> SUFFICES ASSUME Init PROVE Inv
  OBVIOUS
<1>1. TypeOK
  BY CallAssumption DEF Init, TypeOK
<1>2. OnePlace /\ Kept
  BY CallAssumption, EmptyMembers DEF Init, OnePlace, Kept, Consuming
<1>3. \A c \in Consumer : Hand(c)
  BY DEF Init, Hand
<1>4. \A m \in Call : Traceless(m) /\ Own(m) /\ Served(m)
  BY CallAssumption, EmptyMembers DEF Init, Traceless, Unpublished, Own, Served
<1>5. ASSUME NEW m \in Call PROVE Counted(m)
  <2>1. Holders(m) = {}
    BY CallAssumption DEF Init, Holders
  <2> QED
    BY <2>1, FS_EmptySet, EmptyMembers DEF Init, Counted
<1> QED
  BY <1>1, <1>2, <1>3, <1>4, <1>5 DEF Inv

\* Each step keeps the type invariant.
LEMMA TypeStep == TypeOK /\ [Next]_vars => TypeOK'
<1> SUFFICES ASSUME TypeOK, [Next]_vars PROVE TypeOK'
  OBVIOUS
<1> USE DEF TypeOK, callers, server, broker, work, failures
<1>1. ASSUME NEW m \in Rpc, Declare(m) \/ Take(m) \/ GiveUp(m) PROVE TypeOK'
  BY <1>1 DEF Declare, Take, GiveUp, Become, Call
<1>2. ASSUME NEW m \in Call, Publish(m) \/ LoseOnWire(m) PROVE TypeOK'
  BY <1>2 DEF Publish, LoseOnWire, Become
<1>13. ASSUME NEW m \in Call, Arrive(m) PROVE TypeOK'
  <2>1. Append(queue, m) \in Seq(Call)
    OBVIOUS
  <2>2. \/ queue' = Append(queue, m) /\ gone' = gone
        \/ queue' = queue /\ gone' = gone \cup {m}
    BY <1>13 DEF Arrive
  <2>3. queue' \in Seq(Call) /\ gone' \subseteq Call
    BY <2>1, <2>2
  <2> QED
    BY <1>13, <2>3 DEF Arrive
<1>3. ASSUME NEW m \in Call, Reject(m) PROVE TypeOK'
  BY <1>3 DEF Reject, Become
<1>4. CASE LoseServer
  BY <1>4 DEF LoseServer
<1>5. CASE Expire
  <2>1. Tail(queue) \in Seq(Call) /\ Head(queue) \in Call
    BY <1>5, TailMembers DEF Expire
  <2> QED
    BY <1>5, <2>1 DEF Expire
<1>6. ASSUME NEW c \in Consumer, Connect(c) \/ Subscribe(c) \/ Exit(c) PROVE TypeOK'
  BY <1>6 DEF Connect, Subscribe, Exit, TurnTo
<1>7. ASSUME NEW c \in Consumer, Deliver(c) PROVE TypeOK'
  <2>1. Tail(queue) \in Seq(Call) /\ Head(queue) \in Call
    BY <1>7, TailMembers DEF Deliver
  <2> QED
    BY <1>7, <2>1 DEF Deliver, TurnTo
<1>8. ASSUME NEW c \in Consumer, Handle(c) PROVE TypeOK'
  <2>1. inHand[c] \in Call
    BY <1>8 DEF Handle
  <2>2. PICK x \in Result : /\ outcome' = [outcome EXCEPT ![c] = x]
                            /\ done' = [done EXCEPT ![inHand[c]] = Append(@, x)]
    BY <1>8 DEF Handle
  <2>3. Append(done[inHand[c]], x) \in Seq(Result)
    BY <2>1
  <2>4. done' \in [Call -> Seq(Result)]
    BY <2>1, <2>2, <2>3
  <2> QED
    BY <1>8, <2>2, <2>4 DEF Handle
<1>9. ASSUME NEW c \in Consumer, Respond(c) PROVE TypeOK'
  BY <1>9 DEF Respond
<1>10. ASSUME NEW c \in Consumer, Ack(c) PROVE TypeOK'
  BY <1>10 DEF Ack, TurnTo
<1>11. ASSUME NEW c \in Consumer, LoseConnection(c) PROVE TypeOK'
  <2> DEFINE held == status[c] = "consuming" /\ inHand[c] # None
             back == IF held THEN <<inHand[c]>> \o queue ELSE queue
  <2>1. back \in Seq(Call)
    BY ConsMembers
  <2>2. {back[i] : i \in DOMAIN back} \subseteq Call
    BY <2>1, SMTT(20)
  <2>3. <<>> \in Seq(Call)
    OBVIOUS
  <2>4. losses' \in 0 .. MaxLosses
    BY <1>11, CallAssumption DEF LoseConnection
  <2>5. \/ queue' = back /\ gone' = gone /\ declared' = declared
        \/ queue' = <<>> /\ declared' = FALSE
           /\ gone' = gone \cup {back[i] : i \in DOMAIN back}
    BY <1>11 DEF LoseConnection, Leave
  <2>6. interrupted' \in [Call -> Nat]
    BY <1>11 DEF LoseConnection, Leave
  <2>7. status' \in [Consumer -> {"off", "connected", "consuming", "deaf"}]
    BY <1>11 DEF LoseConnection, Leave
  <2> HIDE DEF back
  <2> QED
    BY <1>11, <2>1, <2>2, <2>3, <2>4, <2>5, <2>6, <2>7 DEF LoseConnection, Leave
<1>12. CASE UNCHANGED vars
  BY <1>12 DEF vars
<1> QED
  BY <1>1, <1>2, <1>3, <1>4, <1>5, <1>6, <1>7, <1>8, <1>9, <1>10, <1>11, <1>12, <1>13 DEF Next, Work

-----------------------------------------------------------------------------
(* What the steps that move messages do to the places of messages. *)

LEMMA ArriveEffect ==
  ASSUME TypeOK, NEW m \in Call, Arrive(m), m \notin Members(queue), NoRepeat(queue)
  PROVE  /\ NoRepeat(queue') /\ acked' = acked /\ declared' = declared
         /\ \/ Members(queue') = Members(queue) \cup {m} /\ gone' = gone
            \/ ~declared /\ queue' = queue /\ gone' = gone \cup {m}
         /\ wire' = wire \ {m}
<1>1. \/ queue' = Append(queue, m) /\ gone' = gone
      \/ ~declared /\ queue' = queue /\ gone' = gone \cup {m}
  BY DEF Arrive, TypeOK
<1>2. NoRepeat(Append(queue, m)) /\ Members(Append(queue, m)) = Members(queue) \cup {m}
  BY AppendMembers DEF TypeOK
<1> QED
  BY <1>1, <1>2 DEF Arrive

LEMMA HeadEffect ==
  ASSUME TypeOK, NoRepeat(queue), queue # <<>>, queue' = Tail(queue)
  PROVE  /\ Head(queue) \in Call /\ Head(queue) \in Members(queue)
         /\ NoRepeat(queue') /\ Members(queue') = Members(queue) \ {Head(queue)}
BY TailMembers DEF TypeOK

\* What c had in hand, if its connection was there, is back in the queue, or
\* gone with all of it.
LEMMA LeaveEffect ==
  ASSUME TypeOK, OnePlace, NEW c \in Consumer, Leave(c)
  PROVE  LET back == IF status[c] = "consuming" /\ inHand[c] # None THEN {inHand[c]} ELSE {}
         IN  /\ status' = [status EXCEPT ![c] = "deaf"]
             /\ NoRepeat(queue')
             /\ \/ Members(queue') = Members(queue) \cup back /\ gone' = gone
                \/ /\ Members(queue') = {} /\ gone' = gone \cup Members(queue) \cup back
                   /\ declared' = FALSE
             /\ declared' = declared \/ declared' = FALSE
             /\ UNCHANGED <<callers, server, acked, work>>
<1> DEFINE held == status[c] = "consuming" /\ inHand[c] # None
           back == IF held THEN <<inHand[c]>> \o queue ELSE queue
           back2 == IF held THEN {inHand[c]} ELSE {}
<1>1. Members(back) = Members(queue) \cup back2 /\ NoRepeat(back)
  <2>1. CASE held
    <3>1. c \in Consuming /\ inHand[c] \in Call /\ inHand[c] \notin Members(queue)
      BY <2>1 DEF Consuming, TypeOK, OnePlace
    <3> QED
      BY <2>1, <3>1, ConsMembers DEF TypeOK, OnePlace
  <2>2. CASE ~held
    BY <2>2 DEF OnePlace
  <2> QED
    BY <2>1, <2>2
<1>2. \/ queue' = back /\ gone' = gone /\ declared' = declared
      \/ queue' = <<>> /\ declared' = FALSE /\ gone' = gone \cup Members(back)
  BY DEF Leave, Members
<1>3. status' = [status EXCEPT ![c] = "deaf"] /\ UNCHANGED <<callers, server, acked, work>>
  BY DEF Leave
<1> HIDE DEF back, back2
<1>4. /\ NoRepeat(queue')
      /\ \/ Members(queue') = Members(queue) \cup back2 /\ gone' = gone
         \/ /\ Members(queue') = {} /\ gone' = gone \cup Members(queue) \cup back2
            /\ declared' = FALSE
      /\ declared' = declared \/ declared' = FALSE
  <2>1. CASE queue' = back /\ gone' = gone /\ declared' = declared
    BY <2>1, <1>1
  <2>2. CASE queue' = <<>> /\ declared' = FALSE /\ gone' = gone \cup Members(back)
    BY <2>2, <1>1, EmptyMembers
  <2> QED
    BY <1>2, <2>1, <2>2
<1> QED
  BY <1>3, <1>4 DEF back2

\* A message stays in one place.
LEMMA OnePlaceStep == Inv /\ [Next]_vars => OnePlace'
<1> SUFFICES ASSUME Inv, [Next]_vars PROVE OnePlace'
  OBVIOUS
<1> USE DEF callers, server, broker, work, failures
<1>t. /\ TypeOK /\ OnePlace /\ TypeOK'
      /\ \A c \in Consumer : Hand(c)
      /\ \A m \in Call : Traceless(m)
  BY TypeStep DEF Inv
<1>n. None \notin Call /\ Members(queue) \subseteq Call
  BY <1>t, CallAssumption DEF TypeOK, Members
<1>1. CASE UNCHANGED <<broker, status, inHand>>
  BY <1>1, <1>t DEF OnePlace, Consuming
<1>2. ASSUME NEW m \in Call, Arrive(m) \/ LoseOnWire(m) PROVE OnePlace'
  <2>1. m \notin Members(queue) \cup acked \cup gone /\ \A c \in Consumer : inHand[c] # m
    BY <1>2, <1>t DEF Arrive, LoseOnWire, Traceless
  <2>2. /\ NoRepeat(queue') /\ acked' = acked
        /\ \/ Members(queue') = Members(queue) \cup {m} /\ gone' = gone
           \/ queue' = queue /\ gone' = gone \cup {m}
    BY <1>2, <1>t, <2>1, ArriveEffect DEF LoseOnWire, OnePlace
  <2>3. UNCHANGED <<status, inHand>>
    BY <1>2 DEF Arrive, LoseOnWire
  <2> QED
    BY <2>1, <2>2, <2>3, <1>t DEF OnePlace, Consuming
<1>3. CASE Expire
  <2>1. /\ Head(queue) \in Members(queue)
        /\ NoRepeat(queue') /\ Members(queue') = Members(queue) \ {Head(queue)}
    BY <1>3, <1>t, HeadEffect DEF Expire, OnePlace
  <2> QED
    BY <1>3, <2>1, <1>t DEF Expire, OnePlace, Consuming
<1>4. ASSUME NEW c \in Consumer, Connect(c) \/ Subscribe(c) PROVE OnePlace'
  <2>1. inHand[c] = None
    BY <1>4, <1>t DEF Hand, Connect, Subscribe
  <2>2. Consuming' \subseteq Consuming \cup {c}
    BY <1>4, <1>t DEF Connect, Subscribe, Consuming, TypeOK
  <2>3. UNCHANGED <<queue, acked, gone, inHand>>
    BY <1>4 DEF Connect, Subscribe
  <2> QED
    BY <2>1, <2>2, <2>3, <1>t, <1>n DEF OnePlace, TypeOK
<1>5. ASSUME NEW c \in Consumer, Deliver(c) PROVE OnePlace'
  <2>1. /\ Head(queue) \in Members(queue)
        /\ NoRepeat(queue') /\ Members(queue') = Members(queue) \ {Head(queue)}
    BY <1>5, <1>t, HeadEffect DEF Deliver, OnePlace
  <2>2. inHand' = [inHand EXCEPT ![c] = Head(queue)] /\ UNCHANGED <<acked, gone, status>>
    BY <1>5 DEF Deliver, TurnTo
  <2> QED
    BY <2>1, <2>2, <1>t DEF OnePlace, Consuming, TypeOK
<1>6. ASSUME NEW c \in Consumer, Ack(c) PROVE OnePlace'
  <2>1. inHand' = [inHand EXCEPT ![c] = None] /\ UNCHANGED <<queue, gone, status>>
    BY <1>6 DEF Ack, TurnTo
  <2>2. \/ acked' = acked
        \/ c \in Consuming /\ acked' = acked \cup {inHand[c]}
    BY <1>6 DEF Ack, Consuming
  <2>3. inHand[c] # None
    BY <1>6 DEF Ack
  <2> QED
    BY <2>1, <2>2, <2>3, <1>t, <1>n DEF OnePlace, Consuming, TypeOK
<1>7. ASSUME NEW c \in Consumer, LoseConnection(c) PROVE OnePlace'
  <2> DEFINE back == IF status[c] = "consuming" /\ inHand[c] # None THEN {inHand[c]} ELSE {}
  <2>1. Leave(c)
    BY <1>7 DEF LoseConnection
  <2>2. /\ NoRepeat(queue')
        /\ \/ Members(queue') = Members(queue) \cup back /\ gone' = gone
           \/ Members(queue') = {} /\ gone' = gone \cup Members(queue) \cup back
        /\ UNCHANGED <<acked, inHand>>
    BY <2>1, <1>t, LeaveEffect
  <2>3. Consuming' = Consuming \ {c}
    <3>1. status' = [status EXCEPT ![c] = "deaf"]
      BY <2>1 DEF Leave
    <3> QED
      BY <3>1, <1>t DEF Consuming, TypeOK
  <2>4. \A d \in Consuming : back \subseteq {inHand[c]} /\ (inHand[d] \in back => d = c)
    BY <1>t DEF OnePlace, Consuming
  <2>5. back \cap (Members(queue) \cup acked \cup gone) = {}
    BY <1>t DEF OnePlace, Consuming
  <2> HIDE DEF back
  <2> QED
    BY <2>2, <2>3, <2>4, <2>5, <1>t DEF OnePlace
<1>8. ASSUME NEW c \in Consumer, Exit(c) PROVE OnePlace'
  <2>1. Consuming' = Consuming /\ c \notin Consuming
    BY <1>8, <1>t DEF Exit, Consuming, TypeOK
  <2>2. inHand' = [inHand EXCEPT ![c] = None] /\ UNCHANGED <<queue, acked, gone>>
    BY <1>8 DEF Exit, TurnTo
  <2>3. \A d \in Consuming : inHand'[d] = inHand[d]
    BY <2>1, <2>2, <1>t DEF TypeOK, Consuming
  <2> QED
    BY <2>1, <2>2, <2>3, <1>t DEF OnePlace
<1> QED
  BY <1>1, <1>2, <1>3, <1>4, <1>5, <1>6, <1>7, <1>8
  DEF Next, Work, vars, Declare, Publish, Take, GiveUp, Reject, LoseServer, Handle, Respond

\* What a consumer has in hand stays accounted for.
LEMMA HandStep == Inv /\ [Next]_vars => \A c \in Consumer : Hand(c)'
<1> SUFFICES ASSUME Inv, [Next]_vars, NEW d \in Consumer PROVE Hand(d)'
  OBVIOUS
<1> USE DEF callers, server, broker, work, failures
<1>t. TypeOK /\ Hand(d) /\ None \notin Call
  BY CallAssumption DEF Inv
<1>1. CASE UNCHANGED <<status, work>>
  BY <1>1, <1>t DEF Hand
<1>2. ASSUME NEW c \in Consumer, Connect(c) \/ Subscribe(c) \/ LoseConnection(c) PROVE Hand(d)'
  BY <1>2, <1>t DEF Connect, Subscribe, LoseConnection, Leave, Hand, TypeOK
<1>3. ASSUME NEW c \in Consumer, Deliver(c) PROVE Hand(d)'
  BY <1>3, <1>t DEF Deliver, TurnTo, Hand, TypeOK
<1>4. ASSUME NEW c \in Consumer, Handle(c) PROVE Hand(d)'
  <2>1. inHand[c] \in Call /\ inHand' = inHand /\ status' = status
    BY <1>4, <1>t DEF Handle, TypeOK
  <2>2. PICK x \in Result : /\ outcome' = [outcome EXCEPT ![c] = x]
                            /\ done' = [done EXCEPT ![inHand[c]] = Append(@, x)]
    BY <1>4 DEF Handle
  <2>3. /\ \A m \in Call : Members(done[m]) \subseteq Members(done'[m])
        /\ x \in Members(done'[inHand[c]])
    BY <2>1, <2>2, <1>t, AppendMembers DEF TypeOK
  <2>4. stage' = [stage EXCEPT ![c] = IF inHand[c] \in Rpc THEN "respond" ELSE "ack"]
    BY <1>4 DEF Handle
  <2>5. CASE d = c
    BY <2>1, <2>2, <2>3, <2>4, <2>5, <1>t DEF Hand, TypeOK
  <2>6. CASE d # c
    BY <2>1, <2>2, <2>3, <2>4, <2>6, <1>t DEF Hand, TypeOK
  <2> QED
    BY <2>5, <2>6
<1>5. ASSUME NEW c \in Consumer, Respond(c) PROVE Hand(d)'
  BY <1>5, <1>t DEF Respond, Hand, TypeOK
<1>6. ASSUME NEW c \in Consumer, Ack(c) \/ Exit(c) PROVE Hand(d)'
  BY <1>6, <1>t DEF Ack, Exit, TurnTo, Hand, TypeOK
<1> QED
  BY <1>1, <1>2, <1>3, <1>4, <1>5, <1>6
  DEF Next, Work, vars, Declare, Take, GiveUp, Reject, LoseServer, Expire, Publish,
      Arrive, LoseOnWire

\* A step adds results to the runs of a call, and takes none away.
LEMMA RunsGrow == ASSUME Inv, [Next]_vars, NEW m \in Call
                  PROVE  Members(done[m]) \subseteq Members(done'[m])
<1> USE DEF callers, server, broker, work, failures
<1>1. CASE done' = done
  BY <1>1
<1>2. ASSUME NEW c \in Consumer, Handle(c) PROVE Members(done[m]) \subseteq Members(done'[m])
  <2>1. inHand[c] \in Call /\ \E x \in Result : done' = [done EXCEPT ![inHand[c]] = Append(@, x)]
    BY <1>2 DEF Handle, Inv, TypeOK
  <2> QED
    BY <2>1, AppendMembers DEF Inv, TypeOK
<1> QED
  BY <1>1, <1>2
  DEF Next, Work, vars, Declare, Take, GiveUp, Reject, LoseServer, Expire, Publish,
      Arrive, LoseOnWire,
      Connect, Subscribe, Deliver, Respond, Ack, LoseConnection, Leave, Exit, TurnTo

\* A call not published leaves no trace.
LEMMA TracelessStep == Inv /\ [Next]_vars => \A m \in Call : Traceless(m)'
<1> SUFFICES ASSUME Inv, [Next]_vars, NEW m \in Call PROVE Traceless(m)'
  OBVIOUS
<1> USE DEF callers, server, broker, work, failures
<1>t. TypeOK /\ OnePlace /\ (\A n \in Call : Traceless(n)) /\ None \notin Call
  BY CallAssumption DEF Inv
<1>1. ASSUME NEW n \in Call, Publish(n)
      PROVE  caller[n] \in Unpublished /\ caller'[n] \notin Unpublished
             /\ wire' = wire \cup {n} /\ \A k \in Call \ {n} : caller'[k] = caller[k]
  BY <1>1, <1>t, CallAssumption DEF Publish, Become, TypeOK, Unpublished
<1>2. ASSUME caller'[m] \in Unpublished PROVE caller[m] \in Unpublished
  <2>1. ASSUME NEW n \in Call, Declare(n) \/ Reject(n)
        PROVE  caller[m] \in Unpublished
    <3>1. /\ caller[n] \in {"new", "declaring"}
          /\ \E place : caller' = [caller EXCEPT ![n] = place]
      BY <2>1 DEF Declare, Reject, Become
    <3> QED
      BY <3>1, <1>2, <1>t DEF TypeOK, Unpublished
  <2>2. ASSUME NEW n \in Call, Take(n) \/ GiveUp(n)
        PROVE  caller[m] \in Unpublished
    <3>1. \E place \in {"answered", "gaveUp"} : caller' = [caller EXCEPT ![n] = place]
      BY <2>2 DEF Take, GiveUp, Become
    <3> QED
      BY <3>1, <1>2, <1>t DEF TypeOK, Unpublished
  <2>3. ASSUME NEW n \in Call, Publish(n)
        PROVE  caller[m] \in Unpublished
    BY <1>1, <1>2, <2>3
  <2>4. CASE caller' = caller
    BY <1>2, <2>4
  <2> QED
    BY <2>1, <2>2, <2>3, <2>4, CallAssumption
    DEF Next, Work, vars, LoseServer, Expire, Arrive, LoseOnWire, Connect, Subscribe,
        Deliver, Handle, Respond, Ack, LoseConnection, Leave, Exit, Call
<1>3. wire' \subseteq wire \/ \E n \in Call : Publish(n)
  BY DEF Next, Work, vars, Declare, Take, GiveUp, Reject, LoseServer, Expire, Arrive,
         LoseOnWire, Connect, Subscribe, Deliver, Handle, Respond, Ack, LoseConnection,
         Leave, Exit
<1>4. caller'[m] \in Unpublished => m \notin wire'
  BY <1>1, <1>2, <1>3, <1>t DEF Traceless
<1>5. SUFFICES ASSUME caller'[m] \in Unpublished \/ m \in wire'
               PROVE  /\ m \notin (Members(queue) \cup acked \cup gone)'
                      /\ \A c \in Consumer : inHand'[c] # m
                      /\ done'[m] = <<>>
  BY <1>4 DEF Traceless
<1>6. caller[m] \in Unpublished \/ m \in wire
  BY <1>1, <1>2, <1>3, <1>5
<1>7. ASSUME NEW n \in Call, n \in wire, wire' = wire \ {n}, caller' = caller PROVE n # m
  BY <1>5, <1>7, <1>t DEF Traceless
<1>8. /\ m \notin Members(queue) \cup acked \cup gone
      /\ \A c \in Consumer : inHand[c] # m
      /\ done[m] = <<>>
  BY <1>6, <1>t DEF Traceless
<1>9. CASE UNCHANGED <<queue, acked, gone, inHand, done>>
  BY <1>9, <1>8
<1>10. ASSUME NEW n \in Call, Arrive(n) \/ LoseOnWire(n)
       PROVE  m \notin (Members(queue) \cup acked \cup gone)' /\ UNCHANGED <<inHand, done>>
  <2>1. n \in wire /\ n # m /\ n \notin Members(queue)
    BY <1>7, <1>10, <1>t DEF Arrive, LoseOnWire, Traceless
  <2>2. CASE Arrive(n)
    BY <1>8, <1>t, <2>1, <2>2, ArriveEffect DEF Arrive, OnePlace
  <2>3. CASE LoseOnWire(n)
    BY <1>8, <2>1, <2>3 DEF LoseOnWire
  <2> QED
    BY <1>10, <2>2, <2>3
<1>11. CASE Expire
  BY <1>8, <1>11, <1>t, HeadEffect DEF Expire, OnePlace
<1>12. ASSUME NEW c \in Consumer, Deliver(c) PROVE m \notin (Members(queue) \cup acked \cup gone)'
                                                  /\ \A d \in Consumer : inHand'[d] # m
  BY <1>8, <1>12, <1>t, HeadEffect DEF Deliver, TurnTo, OnePlace, TypeOK
<1>13. ASSUME NEW c \in Consumer, Handle(c) PROVE done'[m] = done[m]
  BY <1>8, <1>13, <1>t DEF Handle, TypeOK
<1>14. ASSUME NEW c \in Consumer, Ack(c) \/ Exit(c)
      PROVE  m \notin acked' /\ \A d \in Consumer : inHand'[d] # m
  BY <1>8, <1>14, <1>t DEF Ack, Exit, TurnTo, TypeOK
<1>15. ASSUME NEW c \in Consumer, LoseConnection(c)
       PROVE  /\ m \notin (Members(queue) \cup acked \cup gone)'
              /\ UNCHANGED <<inHand, done>>
  <2> DEFINE back == IF status[c] = "consuming" /\ inHand[c] # None THEN {inHand[c]} ELSE {}
  <2>1. /\ \/ Members(queue') = Members(queue) \cup back /\ gone' = gone
           \/ Members(queue') = {} /\ gone' = gone \cup Members(queue) \cup back
        /\ UNCHANGED <<acked, inHand, done>>
    BY <1>15, <1>t, LeaveEffect DEF LoseConnection
  <2>2. m \notin back
    BY <1>8
  <2> HIDE DEF back
  <2> QED
    BY <2>1, <2>2, <1>8
<1> QED
  BY <1>8, <1>9, <1>10, <1>11, <1>12, <1>13, <1>14, <1>15
  DEF Next, Work, vars, Declare, Take, GiveUp, Reject, LoseServer, Expire, Publish,
      Connect, Subscribe, Deliver, Handle, Respond, Ack, Exit, TurnTo

\* A response is the result of a run of its call.
LEMMA OwnStep == Inv /\ [Next]_vars => \A m \in Call : Own(m)'
<1> SUFFICES ASSUME Inv, [Next]_vars, NEW m \in Call, reply'[m] # None
             PROVE  reply'[m] \in Members(done'[m])
  BY DEF Own
<1>1. reply[m] # None => reply[m] \in Members(done'[m])
  BY RunsGrow DEF Inv, Own
<1>2. CASE reply' = reply
  BY <1>1, <1>2
<1>3. ASSUME NEW c \in Consumer, Respond(c) PROVE reply'[m] \in Members(done'[m])
  <2>1. outcome[c] \in Members(done'[inHand[c]]) /\ inHand[c] \in Call
    BY <1>3, RunsGrow DEF Respond, Inv, TypeOK, Hand
  <2> QED
    BY <1>1, <1>3, <2>1 DEF Respond, Inv, TypeOK
<1> QED
  BY <1>2, <1>3
  DEF Next, Work, vars, Declare, Take, GiveUp, Reject, LoseServer, Expire, Publish,
      Arrive, LoseOnWire,
      Connect, Subscribe, Deliver, Handle, Ack, LoseConnection, Leave, Exit,
      callers, server, broker, work, failures

\* The queue stays while a consumer is subscribed.
LEMMA KeptStep == Inv /\ [Next]_vars => Kept'
<1> SUFFICES ASSUME Inv, [Next]_vars PROVE Kept'
  OBVIOUS
<1> USE DEF callers, server, broker, work, failures
<1>t. TypeOK /\ Kept
  BY DEF Inv
<1>1. CASE UNCHANGED <<declared, status>>
  BY <1>1, <1>t DEF Kept, Consuming
<1>2. ASSUME NEW c \in Consumer, Connect(c) PROVE Kept'
  BY <1>2 DEF Connect, Kept
<1>3. ASSUME NEW c \in Consumer, Subscribe(c) PROVE Kept'
  BY <1>3, <1>t DEF Subscribe, Kept, Consuming, TypeOK
<1>4. ASSUME NEW c \in Consumer, LoseConnection(c) PROVE Kept'
  <2>1. Consuming' = Consuming \ {c} /\ (declared' = declared \/ Consuming = {c})
    BY <1>4, <1>t DEF LoseConnection, Leave, Consuming, TypeOK
  <2> QED
    BY <2>1, <1>t DEF Kept
<1>5. ASSUME NEW c \in Consumer, Exit(c) PROVE Kept'
  BY <1>5, <1>t DEF Exit, Kept, Consuming, TypeOK
<1> QED
  BY <1>1, <1>2, <1>3, <1>4, <1>5
  DEF Next, Work, vars, Declare, Publish, Take, GiveUp, Reject, LoseServer, Arrive,
      LoseOnWire, Expire, Deliver, Handle, Respond, Ack, TurnTo

\* The runs of a call stay paid for.
LEMMA CountedStep == Inv /\ [Next]_vars => \A m \in Call : Counted(m)'
<1> SUFFICES ASSUME Inv, [Next]_vars, NEW m \in Call PROVE Counted(m)'
  OBVIOUS
<1> USE DEF callers, server, broker, work, failures
<1>t. /\ TypeOK /\ OnePlace /\ Counted(m) /\ None \notin Call
      /\ (\A n \in Call : Traceless(n)) /\ (\A c \in Consumer : Hand(c))
  BY CallAssumption DEF Inv
<1>c. IsFiniteSet(Holders(m)) /\ Cardinality(Holders(m)) \in Nat
  BY <1>t, FS_CardinalityType DEF Counted
<1>n. Len(done[m]) \in Nat /\ interrupted[m] \in Nat
  BY <1>t DEF TypeOK
<1>1. ASSUME Holders(m)' = Holders(m), done'[m] = done[m], interrupted'[m] = interrupted[m],
             m \in Members(queue') => m \in Members(queue)
      PROVE  Counted(m)'
  BY <1>1, <1>t, <1>c, <1>n DEF Counted
<1>2. CASE UNCHANGED <<queue, inHand, stage, done, interrupted>>
  BY <1>1, <1>2 DEF Holders
<1>3. ASSUME NEW n \in Call, Arrive(n) PROVE Counted(m)'
  <2>1. Holders(m)' = Holders(m) /\ done'[m] = done[m] /\ interrupted'[m] = interrupted[m]
    BY <1>3 DEF Arrive, Holders
  <2>2. CASE m = n
    <3>1. done[m] = <<>> /\ Holders(m) = {}
      BY <1>3, <1>t, <2>2 DEF Arrive, Traceless, Holders
    <3> QED
      BY <2>1, <3>1, <1>n, FS_EmptySet DEF Counted
  <2>3. CASE m # n
    <3>1. n \notin Members(queue)
      BY <1>3, <1>t DEF Arrive, Traceless
    <3> QED
      BY <1>1, <1>3, <1>t, <2>1, <2>3, <3>1, ArriveEffect DEF OnePlace
  <2> QED
    BY <2>2, <2>3
<1>4. CASE Expire
  BY <1>1, <1>4, <1>t, HeadEffect DEF Expire, OnePlace, Holders
<1>5. ASSUME NEW c \in Consumer, Deliver(c) PROVE Counted(m)'
  <2>1. /\ Head(queue) \in Call /\ Head(queue) \in Members(queue)
        /\ Members(queue') = Members(queue) \ {Head(queue)}
    BY <1>5, <1>t, HeadEffect DEF Deliver, OnePlace
  <2>2. /\ inHand[c] = None /\ inHand' = [inHand EXCEPT ![c] = Head(queue)]
        /\ stage' = [stage EXCEPT ![c] = "handle"] /\ UNCHANGED <<done, interrupted>>
    BY <1>5 DEF Deliver, TurnTo
  <2>3. CASE m = Head(queue)
    <3>1. Holders(m)' = Holders(m) \cup {c} /\ c \notin Holders(m)
      BY <2>2, <2>3, <1>t DEF Holders, TypeOK
    <3>2. IsFiniteSet(Holders(m)') /\ Cardinality(Holders(m)') = Cardinality(Holders(m)) + 1
      BY <3>1, <1>c, FS_AddElement
    <3> QED
      BY <2>1, <2>2, <2>3, <3>2, <1>t, <1>c, <1>n DEF Counted
  <2>4. CASE m # Head(queue)
    <3>1. Holders(m)' = Holders(m)
      BY <2>2, <2>4, <1>t DEF Holders, TypeOK
    <3> QED
      BY <1>1, <2>1, <2>2, <3>1
  <2> QED
    BY <2>3, <2>4
<1>6. ASSUME NEW c \in Consumer, Handle(c) PROVE Counted(m)'
  <2>1. /\ inHand[c] \in Call /\ stage[c] = "handle"
        /\ stage' = [stage EXCEPT ![c] = IF inHand[c] \in Rpc THEN "respond" ELSE "ack"]
        /\ UNCHANGED <<queue, inHand, interrupted>>
    BY <1>6, <1>t DEF Handle, TypeOK
  <2>2. PICK x \in Result : done' = [done EXCEPT ![inHand[c]] = Append(@, x)]
    BY <1>6 DEF Handle
  <2>3. CASE m = inHand[c]
    <3>1. Holders(m)' = Holders(m) \ {c} /\ c \in Holders(m)
      BY <2>1, <2>3, <1>t DEF Holders, TypeOK
    <3>2. IsFiniteSet(Holders(m)') /\ Cardinality(Holders(m)') = Cardinality(Holders(m)) - 1
      BY <3>1, <1>c, FS_RemoveElement
    <3>3. Len(done'[m]) = Len(done[m]) + 1
      BY <2>2, <2>3, <1>t, AppendMembers DEF TypeOK
    <3> QED
      BY <2>1, <3>2, <3>3, <1>t, <1>c, <1>n DEF Counted
  <2>4. CASE m # inHand[c]
    <3>1. Holders(m)' = Holders(m)
      BY <2>1, <2>4, <1>t DEF Holders, TypeOK
    <3> QED
      BY <1>1, <2>1, <2>2, <2>4, <3>1, <1>t DEF TypeOK
  <2> QED
    BY <2>3, <2>4
<1>7. ASSUME NEW c \in Consumer, Respond(c) PROVE Counted(m)'
  <2>1. Holders(m)' = Holders(m)
    BY <1>7, <1>t DEF Respond, Holders, TypeOK
  <2> QED
    BY <1>1, <1>7, <2>1 DEF Respond
<1>8. ASSUME NEW c \in Consumer, Ack(c) PROVE Counted(m)'
  <2>1. Holders(m)' = Holders(m)
    BY <1>8, <1>t DEF Ack, TurnTo, Holders, TypeOK
  <2> QED
    BY <1>1, <1>8, <2>1 DEF Ack
<1>9. ASSUME NEW c \in Consumer, LoseConnection(c) PROVE Counted(m)'
  <2> DEFINE held == status[c] = "consuming" /\ inHand[c] # None
             back == IF held THEN {inHand[c]} ELSE {}
  <2>1. Leave(c)
    BY <1>9 DEF LoseConnection
  <2>2. /\ Members(queue') = Members(queue) \cup back \/ Members(queue') = {}
        /\ UNCHANGED <<inHand, stage, done>>
    BY <2>1, <1>t, LeaveEffect
  <2>3. interrupted'[m] = IF m = inHand[c] /\ status[c] = "consuming"
                          THEN interrupted[m] + 1 ELSE interrupted[m]
    BY <2>1 DEF Leave
  <2>4. Holders(m)' = Holders(m)
    BY <2>2 DEF Holders
  <2>5. CASE m = inHand[c] /\ status[c] = "consuming"
    <3>1. m \notin Members(queue)
      BY <2>5, <1>t DEF OnePlace, Consuming
    <3> QED
      BY <2>2, <2>3, <2>4, <2>5, <3>1, <1>t, <1>c, <1>n DEF Counted
  <2>6. CASE ~(m = inHand[c] /\ status[c] = "consuming")
    <3>1. m \notin back
      BY <2>6
    <3> HIDE DEF back
    <3> QED
      BY <1>1, <2>2, <2>3, <2>4, <2>6, <3>1
  <2> QED
    BY <2>5, <2>6
<1>10. ASSUME NEW c \in Consumer, Exit(c) PROVE Counted(m)'
  <2>1. Holders(m)' = Holders(m) \ {c}
    BY <1>10, <1>t DEF Exit, TurnTo, Holders, TypeOK
  <2>2. /\ IsFiniteSet(Holders(m)')
        /\ Cardinality(Holders(m)') \in Nat
        /\ Cardinality(Holders(m)') <= Cardinality(Holders(m))
    <3>1. Holders(m)' \in SUBSET Holders(m)
      BY <2>1
    <3> QED
      BY <3>1, <1>c, FS_Subset, FS_CardinalityType
  <2> QED
    BY <1>10, <2>2, <1>t, <1>c, <1>n DEF Exit, Counted
<1> QED
  BY <1>2, <1>3, <1>4, <1>5, <1>6, <1>7, <1>8, <1>9, <1>10
  DEF Next, Work, vars, Declare, Publish, Take, GiveUp, Reject, LoseServer, LoseOnWire,
      Connect, Subscribe

\* A caller that waits has its response before the acknowledgement.
LEMMA ServedStep == Inv /\ [Next]_vars => \A m \in Call : Served(m)'
<1> SUFFICES ASSUME Inv, [Next]_vars, NEW m \in Call PROVE Served(m)'
  OBVIOUS
<1> USE DEF callers, server, broker, work, failures
<1>t. /\ TypeOK /\ OnePlace /\ Served(m) /\ Traceless(m) /\ None \notin Call \cup Result
      /\ \A c \in Consumer : Hand(c)
  BY CallAssumption DEF Inv
<1>d. ASSUME done'[m] = <<>> PROVE done[m] = <<>>
  <2>1. Members(done[m]) = {}
    BY <1>d, RunsGrow, EmptyMembers
  <2>2. ASSUME done[m] # <<>> PROVE Head(done[m]) \in Members(done[m])
    BY <1>t, <2>2, TailMembers DEF TypeOK
  <2> QED
    BY <2>1, <2>2
<1>1. CASE UNCHANGED <<caller, reply, linked, acked, status, inHand, stage>>
  BY <1>1, <1>d, <1>t DEF Served, Consuming
<1>2. ASSUME NEW n \in Call, Publish(n) PROVE Served(m)'
  <2>1. UNCHANGED <<reply, linked, acked, status, inHand, stage, done>>
    BY <1>2 DEF Publish
  <2>2. CASE n = m
    BY <1>2, <2>1, <2>2, <1>t DEF Publish, Traceless, Unpublished, Served, Consuming
  <2>3. CASE n # m
    <3>1. caller'[m] = caller[m]
      BY <1>2, <2>3, <1>t DEF Publish, Become, TypeOK
    <3> QED
      BY <2>1, <3>1, <1>t DEF Served, Consuming
  <2> QED
    BY <2>2, <2>3
<1>3. ASSUME NEW n \in Call, Declare(n) \/ Take(n) \/ GiveUp(n) \/ Reject(n) PROVE Served(m)'
  BY <1>3, <1>t DEF Declare, Take, GiveUp, Reject, Become, Served, Consuming, TypeOK
<1>4. CASE LoseServer
  BY <1>4, <1>t DEF LoseServer, Served, Consuming
<1>5. ASSUME NEW c \in Consumer, Connect(c) \/ Subscribe(c) PROVE Served(m)'
  <2>1. inHand[c] = None
    BY <1>5, <1>t DEF Hand, Connect, Subscribe
  <2>2. Consuming' \subseteq Consuming \cup {c}
    BY <1>5, <1>t DEF Connect, Subscribe, Consuming, TypeOK
  <2>3. UNCHANGED <<caller, reply, linked, acked, inHand, stage, done>>
    BY <1>5 DEF Connect, Subscribe
  <2> QED
    BY <2>1, <2>2, <2>3, <1>t DEF Served
<1>6. ASSUME NEW c \in Consumer, Deliver(c) PROVE Served(m)'
  BY <1>6, <1>t DEF Deliver, TurnTo, Served, Consuming, TypeOK
<1>7. ASSUME NEW c \in Consumer, Handle(c) PROVE Served(m)'
  BY <1>7, <1>d, <1>t DEF Handle, Served, Consuming, TypeOK
<1>8. ASSUME NEW c \in Consumer, Respond(c) PROVE Served(m)'
  <2>1. /\ inHand[c] \in Call /\ outcome[c] # None
        /\ UNCHANGED <<caller, linked, acked, status, inHand, done>>
        /\ stage' = [stage EXCEPT ![c] = "ack"]
        /\ reply' = [reply EXCEPT ![inHand[c]] = IF Reaches(c, inHand[c]) THEN outcome[c] ELSE @]
    <3>1. outcome[c] \in Members(done[inHand[c]]) /\ inHand[c] \in Call
      BY <1>8, <1>t DEF Respond, Hand, TypeOK
    <3>2. Members(done[inHand[c]]) \subseteq Result
      BY <3>1, <1>t DEF Members, TypeOK
    <3> QED
      BY <1>8, <3>1, <3>2, <1>t DEF Respond
  <2>2. reply[m] # None => reply'[m] # None
    BY <2>1, <1>t DEF TypeOK
  <2>3. inHand[c] = m /\ c \in Consuming /\ linked /\ caller[m] = "waiting" => reply'[m] # None
    BY <2>1, <1>t DEF TypeOK, Reaches, Consuming
  <2> QED
    BY <2>1, <2>2, <2>3, <1>t DEF Served, Consuming, TypeOK
<1>9. ASSUME NEW c \in Consumer, Ack(c) PROVE Served(m)'
  <2>1. /\ inHand[c] # None /\ stage[c] = "ack" /\ inHand' = [inHand EXCEPT ![c] = None]
        /\ stage' = [stage EXCEPT ![c] = "handle"]
        /\ UNCHANGED <<caller, reply, linked, status, done>>
        /\ acked' = acked \/ (c \in Consuming /\ acked' = acked \cup {inHand[c]})
    BY <1>9 DEF Ack, TurnTo, Consuming
  <2>2. inHand[c] \in Call /\ Members(done[inHand[c]]) # {}
    BY <2>1, <1>t DEF Hand, TypeOK
  <2>3. inHand[c] = m => done[m] # <<>>
    BY <2>2, EmptyMembers
  <2> QED
    BY <2>1, <2>3, <1>t DEF Served, Consuming, TypeOK
<1>10. ASSUME NEW c \in Consumer, LoseConnection(c) PROVE Served(m)'
  <2>1. status' = [status EXCEPT ![c] = "deaf"]
        /\ UNCHANGED <<caller, reply, linked, acked, inHand, stage, done>>
    BY <1>10 DEF LoseConnection, Leave
  <2> QED
    BY <2>1, <1>t DEF Served, Consuming, TypeOK
<1>11. ASSUME NEW c \in Consumer, Exit(c) PROVE Served(m)'
  BY <1>11, <1>t DEF Exit, TurnTo, Served, Consuming, TypeOK
<1> QED
  BY <1>1, <1>2, <1>3, <1>4, <1>5, <1>6, <1>7, <1>8, <1>9, <1>10, <1>11, RpcIsCall
  DEF Next, Work, vars, Expire, Arrive, LoseOnWire

LEMMA InvStep == Inv /\ [Next]_vars => Inv'
BY TypeStep, OnePlaceStep, HandStep, TracelessStep, OwnStep, CountedStep, ServedStep, KeptStep
DEF Inv

LEMMA InvCorrect == Spec => []Inv
<1>1. Init => Inv
  BY InitInv
<1>2. Inv /\ [Next]_vars => Inv'
  BY InvStep
<1> QED
  BY <1>1, <1>2, PTL DEF Spec

-----------------------------------------------------------------------------
(* The invariants of the runs. *)

\* The state is always of its type.
THEOREM TypeCorrect == Spec => []TypeOK
<1>1. Inv => TypeOK
  BY DEF Inv
<1> QED
  BY <1>1, InvCorrect, PTL

\* A message is acknowledged only when its handler has run, and its caller, if
\* it still waits, has a response (the order of handleMessage's steps).
THEOREM AckedCorrect == Spec => []AckedIsServed
<1>1. Inv => AckedIsServed
  BY DEF Inv, AckedIsServed, Served, TypeOK
<1> QED
  BY <1>1, InvCorrect, PTL

\* A call runs at most once more than consumers were lost with it in hand (the
\* acknowledgement at the end of handleMessage).
THEOREM RepeatsCorrect == Spec => []RepeatsAccounted
<1> SUFFICES Inv => RepeatsAccounted
  BY InvCorrect, PTL
<1> SUFFICES ASSUME Inv, NEW m \in Call PROVE Len(done[m]) <= interrupted[m] + 1
  BY DEF RepeatsAccounted
<1>1. Counted(m) /\ Len(done[m]) \in Nat /\ interrupted[m] \in Nat
  BY DEF Inv, TypeOK
<1>2. Cardinality(Holders(m)) \in Nat
  BY <1>1, FS_CardinalityType DEF Counted
<1> QED
  BY <1>1, <1>2 DEF Counted

\* A fire-and-forget call is lost only on the way, with the server's connection, or
\* while no consumer is subscribed (setupQueue on both sides; no expiration and no
\* confirmation in PublishTransactionFireAndForget).
THEOREM LossCorrect == Spec => LostOnlyUnconsumed
<1> DEFINE Excused == \A m \in Fire :
                        m \in gone' \ gone => (m \in wire /\ ~linked) \/ Consuming' = {}
<1>1. ASSUME Inv, Next PROVE Excused
  <2> USE DEF callers, server, broker, work, failures
  <2>t. TypeOK /\ Kept /\ Rpc \cap Fire = {}
    BY <1>1, CallAssumption DEF Inv
  <2>1. CASE gone' = gone
    BY <2>1
  <2>2. ASSUME NEW n \in Call, Arrive(n) PROVE Excused
    BY <2>2, <2>t DEF Arrive, Kept, Consuming
  <2>3. ASSUME NEW n \in Call, LoseOnWire(n) PROVE Excused
    BY <2>3 DEF LoseOnWire
  <2>4. CASE Expire
    BY <2>4, <2>t DEF Expire
  <2>5. ASSUME NEW c \in Consumer, LoseConnection(c) PROVE Excused
    BY <2>5, <2>t DEF LoseConnection, Leave, Consuming, TypeOK
  <2> QED
    BY <1>1, <2>1, <2>2, <2>3, <2>4, <2>5
    DEF Next, Work, Declare, Publish, Take, GiveUp, Reject, LoseServer, Connect, Subscribe,
        Deliver, Handle, Respond, Ack, Exit, TurnTo
<1>2. Inv /\ [Next]_vars => [Excused]_vars
  BY <1>1
<1> QED
  BY <1>2, InvCorrect, PTL DEF Spec, LostOnlyUnconsumed

-----------------------------------------------------------------------------
(* The refinement of QueuePort. *)

Stated == [m \in Call |-> CASE caller[m] \in {"new", "declaring"} -> "new"
                            [] caller[m] \in {"waiting", "sent"} -> "open"
                            [] OTHER -> caller[m]]
Ran == [m \in Call |-> {done[m][i] : i \in DOMAIN done[m]}]

\* The runs of a call as the port sees them.
LEMMA RanMembers == \A m \in Call : Ran[m] = Members(done[m])
BY DEF Ran, Members

LEMMA PortInit == Init => Port!Init
BY CallAssumption DEF Init, Port!Init

\* What a move of a caller is to the port.
LEMMA PortMove ==
  ASSUME TypeOK, NEW m \in Call, NEW place \in {"declaring", "waiting", "sent",
                                                "answered", "gaveUp", "rejected"},
         Become(m, place)
  PROVE  Stated' = [Stated EXCEPT ![m] = CASE place = "declaring" -> "new"
                                           [] place \in {"waiting", "sent"} -> "open"
                                           [] OTHER -> place]
BY DEF TypeOK, Become, Stated

\* A step of the adapter is a step of the port, or none that it can see.
LEMMA PortStep == Inv /\ [Next]_vars => [Port!Next]_(Port!vars)
<1> SUFFICES ASSUME Inv, [Next]_vars PROVE Port!Next \/ UNCHANGED <<Stated, Ran, answer>>
  BY DEF Port!vars, Stated, Ran
<1> USE DEF callers, server, broker, work, failures
<1>t. TypeOK /\ Rpc \subseteq Call
  BY DEF Inv, Call
<1>1. CASE UNCHANGED <<caller, done, answer>>
  BY <1>1 DEF Stated, Ran
<1>2. ASSUME NEW m \in Rpc, Declare(m) PROVE UNCHANGED <<Stated, Ran, answer>>
  <2>1. Stated' = [Stated EXCEPT ![m] = "new"]
    BY <1>2, <1>t, PortMove DEF Declare
  <2>2. Stated[m] = "new" /\ Stated = [n \in Call |-> Stated[n]]
    BY <1>2, <1>t DEF Declare, Stated
  <2>3. Stated' = Stated
    BY <2>1, <2>2
  <2> QED
    BY <1>2, <2>3 DEF Declare, Ran
<1>3. ASSUME NEW m \in Call, Publish(m) PROVE Port!Submit(m)
  <2>1. Stated' = [Stated EXCEPT ![m] = "open"]
    BY <1>3, <1>t, PortMove DEF Publish
  <2>2. Stated[m] = "new" /\ UNCHANGED <<Ran, answer>>
    BY <1>3 DEF Publish, Stated, Ran
  <2> QED
    BY <2>1, <2>2 DEF Port!Submit, Port!Become, Stated, Ran
<1>4. ASSUME NEW m \in Call, Reject(m) PROVE Port!Reject(m)
  <2>1. Stated' = [Stated EXCEPT ![m] = "rejected"]
    BY <1>4, <1>t, PortMove DEF Reject
  <2>2. Stated[m] = "new" /\ UNCHANGED <<Ran, answer>>
    BY <1>4 DEF Reject, Stated, Ran
  <2> QED
    BY <2>1, <2>2 DEF Port!Reject, Port!Become, Stated, Ran
<1>5. ASSUME NEW m \in Rpc, GiveUp(m) PROVE Port!GiveUp(m)
  <2>1. Stated' = [Stated EXCEPT ![m] = "gaveUp"]
    BY <1>5, <1>t, PortMove DEF GiveUp
  <2>2. Stated[m] = "open" /\ UNCHANGED <<Ran, answer>>
    BY <1>5, <1>t DEF GiveUp, Stated, Ran
  <2> QED
    BY <2>1, <2>2 DEF Port!GiveUp, Port!Become, Stated, Ran
<1>6. ASSUME NEW m \in Rpc, Take(m) PROVE reply[m] \in Result /\ Port!Answer(m, reply[m])
  <2>1. Stated' = [Stated EXCEPT ![m] = "answered"]
    BY <1>6, <1>t, PortMove DEF Take
  <2>2. Stated[m] = "open" /\ UNCHANGED Ran /\ answer' = [answer EXCEPT ![m] = reply[m]]
    BY <1>6, <1>t DEF Take, Stated, Ran
  <2>3. reply[m] \in Ran[m] /\ reply[m] \in Result
    BY <1>6, <1>t, RanMembers DEF Inv, Own, Take, TypeOK
  <2> QED
    BY <2>1, <2>2, <2>3 DEF Port!Answer, Port!Become, Stated, Ran
<1>7. ASSUME NEW c \in Consumer, Handle(c)
      PROVE  \E m \in Call, x \in Result : Port!Run(m, x)
  <2> DEFINE m == inHand[c]
  <2>1. m \in Call
    BY <1>7, <1>t DEF Handle, TypeOK
  <2>2. PICK x \in Result : done' = [done EXCEPT ![m] = Append(@, x)]
    BY <1>7 DEF Handle
  <2>3. Stated' = Stated /\ answer' = answer
    BY <1>7 DEF Handle, Stated
  <2>4. Stated[m] \notin {"new", "rejected"}
    BY <2>1, <1>t DEF Inv, Traceless, Unpublished, Stated, TypeOK
  <2>5. \A n \in Call : Members(done'[n]) = IF n = m THEN Members(done[n]) \cup {x}
                                                     ELSE Members(done[n])
    <3>1. Members(Append(done[m], x)) = Members(done[m]) \cup {x}
      BY <2>1, <1>t, AppendMembers DEF TypeOK
    <3>2. \A n \in Call : done'[n] = IF n = m THEN Append(done[m], x) ELSE done[n]
      BY <2>1, <2>2, <1>t DEF TypeOK
    <3> HIDE DEF m
    <3> QED
      BY <3>1, <3>2
  <2>6. Ran' = [Ran EXCEPT ![m] = @ \cup {x}]
    <3>1. Ran = [n \in Call |-> Members(done[n])] /\ Ran' = [n \in Call |-> Members(done'[n])]
      BY DEF Ran, Members
    <3> QED
      BY <2>1, <2>5, <3>1
  <2> QED
    BY <2>1, <2>3, <2>4, <2>6 DEF Port!Run, Stated, Ran
<1> QED
  BY <1>1, <1>2, <1>3, <1>4, <1>5, <1>6, <1>7, <1>t
  DEF Port!Next, Next, Work, vars, LoseServer, Expire, Arrive, LoseOnWire, Connect, Subscribe, Deliver,
      Respond, Ack, LoseConnection, Leave, Exit, TurnTo

\* Every behaviour of the adapter is one the port allows: an answer is the
\* result of a run of the caller's own call, and a refused call never runs.
THEOREM Refinement == Spec => PortSpec
<1>1. Init => Port!Init
  BY PortInit
<1>2. Inv /\ [Next]_vars => [Port!Next]_(Port!vars)
  BY PortStep
<1> QED
  BY <1>1, <1>2, InvCorrect, PTL DEF Spec, PortSpec, Port!Spec
=============================================================================
