-------------------------- MODULE RedisQueueProofs --------------------------
(***************************************************************************)
(* Proofs about RedisQueue for any sets of calls, consumers and results,   *)
(* and any numbers of starts, crashes and lost replies.                    *)
(***************************************************************************)
EXTENDS RedisQueue, FiniteSetTheorems, TLAPS

\* The elements of a sequence.
Members(s) == {s[i] : i \in DOMAIN s}

\* What the goroutine of c has in hand, by its stage.
Hand(c) ==
  /\ inHand[c] = 0 <=> stage[c] \in {"idle", "read"}
  /\ stage[c] \in {"handle", "push", "expire"} => stream[inHand[c]] \in Rpc
  /\ stage[c] = "push" => outcome[c] \in Members(done[stream[inHand[c]]])

\* An entry is in one hand at the most.
OneHand == \A c, d \in Consumer : inHand[c] = inHand[d] /\ inHand[c] # 0 => c = d

\* The entries of m that were handed out, but for those still to be handled.
Spent(m) == {i \in 1 .. last :
  stream[i] = m /\ ~ \E c \in Consumer : inHand[c] = i /\ stage[c] = "handle"}

\* A call has run at most once for each of them.
Counted(m) == Len(done[m]) <= Cardinality(Spent(m))

\* A call not yet made is not in the stream; one tried again has met a fault.
Traceless(m) ==
  /\ caller[m] = "new" => \A i \in DOMAIN stream : stream[i] # m
  /\ caller[m] \in {"retrying", "rejected"} => faults > 0

\* A response under a call's key is the result of a run of the call.
Own(m) == Members(list[m]) \subseteq Members(done[m])

\* m has been handled, and its caller has a response if it waits for one.
ServedCall(m) ==
  /\ done[m] # <<>>
  /\ faults = 0 /\ caller[m] = "waiting" => list[m] # <<>>

\* So it is when its goroutine is about to acknowledge, and ever after.
Served ==
  /\ \A c \in Consumer : stage[c] \in {"push", "expire", "ack"} /\ stream[inHand[c]] # Marker =>
       done[stream[inHand[c]]] # <<>>
  /\ \A c \in Consumer : stage[c] \in {"expire", "ack"} /\ stream[inHand[c]] # Marker =>
       ServedCall(stream[inHand[c]])
  /\ \A i \in (1 .. last) \ pending : stream[i] # Marker => ServedCall(stream[i])

Inv ==
  /\ TypeOK
  /\ \A c \in Consumer : Hand(c)
  /\ OneHand
  /\ \A m \in Rpc : Counted(m)
  /\ \A m \in Rpc : Traceless(m)
  /\ \A m \in Rpc : Own(m)
  /\ Served
  /\ NothingAbandoned
  /\ KeysExpire

-----------------------------------------------------------------------------
LEMMA AppendMembers ==
  ASSUME NEW S, NEW s \in Seq(S), NEW e \in S
  PROVE  /\ Append(s, e) \in Seq(S) /\ Len(Append(s, e)) = Len(s) + 1 /\ Len(s) \in Nat
         /\ Append(s, e) # <<>> /\ \A i \in 1 .. Len(s) : Append(s, e)[i] = s[i]
         /\ Append(s, e)[Len(s) + 1] = e
         /\ Members(Append(s, e)) = Members(s) \cup {e}
<1> DEFINE t == Append(s, e)
<1>1. /\ t \in Seq(S) /\ Len(t) = Len(s) + 1 /\ Len(s) \in Nat /\ t # <<>>
      /\ DOMAIN s = 1 .. Len(s) /\ DOMAIN t = 1 .. (Len(s) + 1)
      /\ t[Len(s) + 1] = e /\ \A i \in 1 .. Len(s) : t[i] = s[i]
  OBVIOUS
<1> HIDE DEF t
<1>2. DOMAIN t = DOMAIN s \cup {Len(s) + 1}
  BY <1>1
<1>3. Members(t) = Members(s) \cup {e}
  BY <1>1, <1>2 DEF Members
<1> QED
  BY <1>1, <1>3 DEF t

LEMMA TailMembers ==
  ASSUME NEW S, NEW s \in Seq(S), s # <<>>
  PROVE  /\ Head(s) \in Members(s) /\ Head(s) \in S /\ Tail(s) \in Seq(S)
         /\ Members(Tail(s)) \subseteq Members(s)
         /\ Len(s) = 1 <=> Tail(s) = <<>>
<1>1. /\ Tail(s) \in Seq(S) /\ Head(s) \in S /\ Len(s) \in Nat \ {0} /\ Len(Tail(s)) = Len(s) - 1
      /\ DOMAIN s = 1 .. Len(s) /\ DOMAIN Tail(s) = 1 .. (Len(s) - 1)
      /\ Head(s) = s[1] /\ \A i \in DOMAIN Tail(s) : Tail(s)[i] = s[i + 1]
  OBVIOUS
<1>4. Len(s) = 1 <=> Tail(s) = <<>>
  <2>1. \A t \in Seq(S) : t = <<>> <=> Len(t) = 0
    OBVIOUS
  <2> QED
    BY <1>1, <2>1, SMTT(20)
<1>2. Head(s) \in Members(s)
  BY <1>1 DEF Members
<1>3. ASSUME NEW x \in Members(Tail(s)) PROVE x \in Members(s)
  <2>1. PICK i \in DOMAIN Tail(s) : x = Tail(s)[i]
    BY DEF Members
  <2>2. i + 1 \in DOMAIN s /\ s[i + 1] = x
    BY <1>1, <2>1
  <2> QED
    BY <2>2 DEF Members
<1> QED
  BY <1>1, <1>2, <1>3, <1>4

LEMMA PairMembers ==
  ASSUME NEW S, NEW s \in Seq(S), NEW e \in S
  PROVE  /\ s \o <<e, e>> \in Seq(S) /\ s \o <<e, e>> # <<>>
         /\ Members(s \o <<e, e>>) = Members(s) \cup {e}
<1> DEFINE t == s \o <<e, e>>
<1>1. t = Append(Append(s, e), e)
  <2> DEFINE u == Append(Append(s, e), e)
  <2>1. /\ Len(s) \in Nat /\ DOMAIN t = 1 .. (Len(s) + 2)
        /\ \A i \in 1 .. (Len(s) + 2) : t[i] = IF i <= Len(s) THEN s[i] ELSE e
    OBVIOUS
  <2>2. /\ DOMAIN u = 1 .. (Len(s) + 2)
        /\ \A i \in 1 .. (Len(s) + 2) : u[i] = IF i <= Len(s) THEN s[i] ELSE e
    OBVIOUS
  <2>3. t \in Seq(S) /\ u \in Seq(S) /\ Len(t) = Len(s) + 2 /\ Len(u) = Len(s) + 2
    OBVIOUS
  <2> HIDE DEF t, u
  <2>4. t = u
    BY <2>1, <2>2, <2>3
  <2> QED
    BY <2>4 DEF u
<1>2. Append(s, e) \in Seq(S) /\ Members(Append(s, e)) = Members(s) \cup {e}
  BY AppendMembers
<1>3. /\ Append(Append(s, e), e) \in Seq(S) /\ Append(Append(s, e), e) # <<>>
      /\ Members(Append(Append(s, e), e)) = Members(Append(s, e)) \cup {e}
  <2> DEFINE u == Append(s, e)
  <2>1. u \in Seq(S)
    BY <1>2
  <2> HIDE DEF u
  <2>2. /\ Append(u, e) \in Seq(S) /\ Append(u, e) # <<>>
        /\ Members(Append(u, e)) = Members(u) \cup {e}
    BY <2>1, AppendMembers
  <2> QED
    BY <2>2 DEF u
<1> HIDE DEF t
<1>4. t \in Seq(S) /\ t # <<>> /\ Members(t) = Members(s) \cup {e}
  BY <1>1, <1>2, <1>3
<1> QED
  BY <1>4 DEF t

LEMMA EmptyMembers == Members(<<>>) = {}
BY DEF Members

-----------------------------------------------------------------------------
LEMMA InitInv == Init => Inv
<1> SUFFICES ASSUME Init PROVE Inv
  OBVIOUS
<1>1. TypeOK
  <2>1. <<Marker>> \in Seq(Rpc \cup {Marker}) /\ Len(<<Marker>>) = 1
    OBVIOUS
  <2>2. <<>> \in Seq(Result)
    OBVIOUS
  <2> QED
    BY <2>1, <2>2, RedisAssumption DEF Init, TypeOK
<1>2. \A c \in Consumer : Hand(c)
  BY DEF Init, Hand
<1>3. OneHand /\ Served /\ NothingAbandoned /\ KeysExpire
  BY DEF Init, OneHand, Served, NothingAbandoned, KeysExpire
<1>4. ASSUME NEW m \in Rpc PROVE Counted(m)
  <2>1. Spent(m) = {} /\ Len(done[m]) = 0
    BY <1>4 DEF Init, Spent
  <2> QED
    BY <2>1, FS_EmptySet DEF Counted
<1>5. ASSUME NEW m \in Rpc PROVE Traceless(m)
  BY RedisAssumption DEF Init, Traceless
<1>6. ASSUME NEW m \in Rpc PROVE Own(m)
  BY EmptyMembers DEF Init, Own
<1> QED
  BY <1>1, <1>2, <1>3, <1>4, <1>5, <1>6 DEF Inv

-----------------------------------------------------------------------------
(* What the steps do to the stream, to keys and to runs. *)

\* A response is pushed once, or a reply of the server is lost.
LEMMA PushEffect ==
  ASSUME NEW c \in Consumer, Push(c)
  PROVE  \/ Fault
         \/ UNCHANGED bounds /\ list' = [list EXCEPT ![stream[inHand[c]]] = Append(@, outcome[c])]
BY DEF Push

\* Entries and faults are never taken back.
LEMMA StreamGrows ==
  ASSUME TypeOK, [Next]_vars
  PROVE  /\ stream' \in Seq(Rpc \cup {Marker}) /\ Len(stream) <= Len(stream')
         /\ \A i \in 1 .. Len(stream) : stream'[i] = stream[i]
         /\ last <= last' /\ last' \in 0 .. Len(stream')
         /\ faults <= faults' /\ crashes <= crashes'
         /\ faults' \in 0 .. MaxFaults /\ crashes' \in 0 .. MaxCrashes
<1> USE DEF TypeOK, callers, keys, group, work, bounds
<1>1. \A e \in Rpc \cup {Marker} :
        /\ Append(stream, e) \in Seq(Rpc \cup {Marker})
        /\ Len(Append(stream, e)) = Len(stream) + 1 /\ Len(stream) \in Nat
        /\ \A i \in 1 .. Len(stream) : Append(stream, e)[i] = stream[i]
  BY AppendMembers
<1>2. \/ stream' = stream \/ \E e \in Rpc \cup {Marker} : stream' = Append(stream, e)
      \/ stream' = Append(Append(stream, Marker), Marker)
  BY DEF Next, Work, vars, Publish, Reject, Take, GiveUp, Vanish, Start, Read, ReadNothing,
         Fetch, Handle, Push, Expire, Ack, Finish, Stop, Crash, Off
<1>3. last' = last \/ (last' = last + 1 /\ last < Len(stream))
  BY DEF Next, Work, vars, Publish, Reject, Take, GiveUp, Vanish, Start, Read, ReadNothing,
         Fetch, Handle, Push, Expire, Ack, Finish, Stop, Crash, Off
<1>4. /\ faults' = faults \/ (faults < MaxFaults /\ faults' = faults + 1)
      /\ crashes' = crashes \/ (crashes < MaxCrashes /\ crashes' = crashes + 1)
  BY DEF Next, Work, vars, Publish, Reject, Take, GiveUp, Vanish, Start, Read, ReadNothing,
         Fetch, Handle, Push, Expire, Ack, Finish, Stop, Crash, Off, Fault
<1>5. /\ stream' \in Seq(Rpc \cup {Marker}) /\ Len(stream) <= Len(stream') /\ Len(stream') \in Nat
      /\ Len(stream) \in Nat /\ \A i \in 1 .. Len(stream) : stream'[i] = stream[i]
  <2>1. CASE stream' = stream
    <3>1. Len(stream) \in Nat
      OBVIOUS
    <3> QED
      BY <2>1, <3>1
  <2>2. ASSUME NEW e \in Rpc \cup {Marker}, stream' = Append(stream, e)
        PROVE  /\ stream' \in Seq(Rpc \cup {Marker}) /\ Len(stream') = Len(stream) + 1
               /\ Len(stream) \in Nat /\ \A i \in 1 .. Len(stream) : stream'[i] = stream[i]
    BY <1>1, <2>2
  <2>3. ASSUME NEW e \in Rpc \cup {Marker}, stream' = Append(stream, e)
        PROVE  Len(stream) <= Len(stream') /\ Len(stream') \in Nat
    BY <2>2, <2>3
  <2>4. CASE stream' = Append(Append(stream, Marker), Marker)
    <3> DEFINE s == Append(stream, Marker)
    <3>1. /\ s \in Seq(Rpc \cup {Marker}) /\ Len(s) = Len(stream) + 1 /\ Len(stream) \in Nat
          /\ \A i \in 1 .. Len(stream) : s[i] = stream[i]
      BY <1>1
    <3> HIDE DEF s
    <3>2. /\ Append(s, Marker) \in Seq(Rpc \cup {Marker}) /\ Len(Append(s, Marker)) = Len(s) + 1
          /\ \A i \in 1 .. Len(s) : Append(s, Marker)[i] = s[i]
      BY <3>1, AppendMembers
    <3>3. stream' = Append(s, Marker)
      BY <2>4 DEF s
    <3>4. \A i \in 1 .. Len(stream) : i \in 1 .. Len(s)
      BY <3>1
    <3>5. Len(stream) <= Len(stream') /\ Len(stream') \in Nat
      BY <3>1, <3>2, <3>3
    <3> QED
      BY <3>1, <3>2, <3>3, <3>4, <3>5
  <2> QED
    BY <1>2, <2>1, <2>2, <2>3, <2>4
<1> QED
  BY <1>3, <1>4, <1>5, RedisAssumption, SMTT(20)

\* What the goroutine of c works on.
LEMMA Holding ==
  ASSUME TypeOK, NEW c \in Consumer, Hand(c)
  PROVE  /\ inHand[c] # 0 => inHand[c] \in pending /\ inHand[c] \in 1 .. last
         /\ stage[c] \in {"handle", "push", "expire", "ack"} => inHand[c] # 0
         /\ stage[c] \in {"handle", "push", "expire"} => stream[inHand[c]] \in Rpc
         /\ inHand[c] # 0 => inHand[c] \in Nat
<1>1. inHand[c] \in {0} \cup pending /\ pending \subseteq 1 .. last /\ last \in Nat
  BY DEF TypeOK
<1>2. ASSUME inHand[c] # 0
      PROVE  inHand[c] \in pending /\ inHand[c] \in 1 .. last /\ inHand[c] \in Nat
  <2>1. inHand[c] \in pending
    BY <1>1, <1>2
  <2>2. inHand[c] \in 1 .. last
    BY <1>1, <2>1
  <2> QED
    BY <1>1, <2>1, <2>2
<1>3. stage[c] \in {"handle", "push", "expire", "ack"} => inHand[c] # 0
  BY DEF Hand
<1> QED
  BY <1>2, <1>3 DEF Hand

\* Each step keeps the type invariant.
LEMMA TypeStep ==
  TypeOK /\ OneHand /\ (\A c \in Consumer : Hand(c)) /\ [Next]_vars => TypeOK'
<1> SUFFICES ASSUME TypeOK, OneHand, \A c \in Consumer : Hand(c), [Next]_vars PROVE TypeOK'
  OBVIOUS
<1>g. /\ stream' \in Seq(Rpc \cup {Marker}) /\ last' \in 0 .. Len(stream')
      /\ faults' \in 0 .. MaxFaults /\ crashes' \in 0 .. MaxCrashes
  BY StreamGrows
<1> USE <1>g DEF callers, keys, group, work, bounds
<1>1. ASSUME NEW m \in Rpc, Publish(m) \/ Reject(m) \/ GiveUp(m) PROVE TypeOK'
  BY <1>1 DEF TypeOK, Publish, Reject, GiveUp, Become, Fault
<1>2. ASSUME NEW m \in Rpc, Take(m) PROVE TypeOK'
  <2>1. list[m] \in Seq(Result) /\ list[m] # <<>>
    BY <1>2 DEF TypeOK, Take
  <2>2. Tail(list[m]) \in Seq(Result) /\ Head(list[m]) \in Result
    BY <2>1, TailMembers
  <2>3. list' \in [Rpc -> Seq(Result)] /\ expires' \subseteq Rpc
    BY <1>2, <2>2 DEF TypeOK, Take, Pop
  <2>4. answer' \in [Rpc -> Result \cup {None}]
    BY <1>2, <2>2 DEF TypeOK, Take
  <2> QED
    BY <1>2, <2>3, <2>4 DEF TypeOK, Take, Become, Fault
<1>3. ASSUME NEW m \in Rpc, Vanish(m) PROVE TypeOK'
  <2>1. <<>> \in Seq(Result)
    OBVIOUS
  <2> QED
    BY <1>3, <2>1 DEF TypeOK, Vanish
<1>4. ASSUME NEW c \in Consumer, Start(c) PROVE TypeOK'
  BY <1>4, RedisAssumption, SMTT(20) DEF TypeOK, Start
<1>5. ASSUME NEW c \in Consumer, Read(c) \/ ReadNothing(c) PROVE TypeOK'
  BY <1>5 DEF TypeOK, Read, ReadNothing, Goto
<1>6. ASSUME NEW c \in Consumer, Fetch(c) PROVE TypeOK'
  <2>1. pending' = pending \cup {last + 1} /\ last' = last + 1 /\ last \in Nat
    BY <1>6 DEF TypeOK, Fetch
  <2>2. pending' \subseteq 1 .. last'
    BY <2>1 DEF TypeOK
  <2>3. inHand' = inHand \/ inHand' = [inHand EXCEPT ![c] = last + 1]
    BY <1>6 DEF Fetch, Hold
  <2>4. inHand' \in [Consumer -> {0} \cup pending']
    BY <2>1, <2>3 DEF TypeOK
  <2>5. stage' \in [Consumer -> {"idle", "read", "handle", "push", "expire", "ack"}]
    BY <1>6 DEF TypeOK, Fetch, Hold, Goto
  <2> QED
    BY <1>6, <2>2, <2>4, <2>5 DEF TypeOK, Fetch, Fault
<1>7. ASSUME NEW c \in Consumer, Handle(c) PROVE TypeOK'
  <2> DEFINE m == stream[inHand[c]]
  <2>1. m \in Rpc
    BY <1>7 DEF Handle, Hand
  <2>2. PICK x \in Result : /\ outcome' = [outcome EXCEPT ![c] = x]
                            /\ done' = [done EXCEPT ![m] = Append(@, x)]
    BY <1>7 DEF Handle
  <2>3. Append(done[m], x) \in Seq(Result)
    BY <2>1 DEF TypeOK
  <2> HIDE DEF m
  <2>4. done' \in [Rpc -> Seq(Result)] /\ outcome' \in [Consumer -> Result \cup {None}]
    BY <2>1, <2>2, <2>3 DEF TypeOK
  <2> QED
    BY <1>7, <2>4 DEF TypeOK, Handle, Goto
<1>8. ASSUME NEW c \in Consumer, Push(c) PROVE TypeOK'
  <2> DEFINE m == stream[inHand[c]]
             s == list[m]
             e == outcome[c]
  <2>1. m \in Rpc /\ s \in Seq(Result) /\ e \in Result
    <3>1. m \in Rpc /\ s \in Seq(Result) /\ done[m] \in Seq(Result)
      BY <1>8 DEF Push, Hand, TypeOK
    <3>2. e \in Members(done[m])
      BY <1>8 DEF Push, Hand
    <3> QED
      BY <3>1, <3>2 DEF Members
  <2>2. \/ list' = list \/ list' = [list EXCEPT ![m] = Append(s, e)]
        \/ list' = [list EXCEPT ![m] = s \o <<e, e>>]
    BY <1>8 DEF Push
  <2>3. Append(s, e) \in Seq(Result) /\ s \o <<e, e>> \in Seq(Result)
    BY <2>1, PairMembers
  <2> HIDE DEF m, s, e
  <2>4. list' \in [Rpc -> Seq(Result)]
    BY <2>1, <2>2, <2>3 DEF TypeOK
  <2> QED
    BY <1>8, <2>4 DEF TypeOK, Push, Goto, Fault
<1>9. ASSUME NEW c \in Consumer, Expire(c) PROVE TypeOK'
  <2>1. stream[inHand[c]] \in Rpc
    BY <1>9 DEF Expire, Hand
  <2>2. expires' \subseteq Rpc
    BY <1>9, <2>1 DEF TypeOK, Expire
  <2> QED
    BY <1>9, <2>2 DEF TypeOK, Expire, Goto, Fault
<1>10. ASSUME NEW c \in Consumer, Ack(c) PROVE TypeOK'
  <2>1. \A d \in Consumer : d # c => inHand[d] = 0 \/ inHand[d] # inHand[c]
    BY DEF OneHand
  <2>2. pending' = pending \ {inHand[c]} \/ pending' = pending
    BY <1>10 DEF Ack
  <2>3. inHand' = [inHand EXCEPT ![c] = 0]
    BY <1>10 DEF Ack
  <2>4. inHand' \in [Consumer -> {0} \cup pending']
    BY <2>1, <2>2, <2>3 DEF TypeOK
  <2> QED
    BY <1>10, <2>2, <2>4 DEF TypeOK, Ack, Goto, Fault
<1>11. ASSUME NEW c \in Consumer, Finish(c) \/ Stop(c) \/ Crash(c) PROVE TypeOK'
  BY <1>11 DEF TypeOK, Finish, Stop, Crash, Off, Goto
<1>12. CASE UNCHANGED vars
  BY <1>12 DEF TypeOK, vars
<1> QED
  BY <1>1, <1>2, <1>3, <1>4, <1>5, <1>6, <1>7, <1>8, <1>9, <1>10, <1>11, <1>12 DEF Next, Work

\* No run of a call is taken back.
LEMMA RunsGrow ==
  ASSUME Inv, [Next]_vars, NEW m \in Rpc
  PROVE  /\ Members(done[m]) \subseteq Members(done'[m])
         /\ done[m] # <<>> => done'[m] # <<>>
<1> USE DEF callers, keys, group, work, bounds
<1>t. TypeOK
  BY DEF Inv
<1>1. CASE UNCHANGED done
  BY <1>1
<1>2. ASSUME NEW c \in Consumer, Handle(c)
      PROVE  /\ Members(done[m]) \subseteq Members(done'[m])
             /\ done[m] # <<>> => done'[m] # <<>>
  <2>1. PICK x \in Result : done' = [done EXCEPT ![stream[inHand[c]]] = Append(@, x)]
    BY <1>2 DEF Handle
  <2>2. done[m] \in Seq(Result) /\ (done'[m] = done[m] \/ done'[m] = Append(done[m], x))
    BY <2>1, <1>t DEF TypeOK
  <2>3. Members(Append(done[m], x)) = Members(done[m]) \cup {x} /\ Append(done[m], x) # <<>>
    BY <2>2, AppendMembers
  <2> QED
    BY <2>2, <2>3
<1> QED
  BY <1>1, <1>2
  DEF Next, Work, vars, Publish, Reject, Take, GiveUp, Vanish, Start, Read, ReadNothing,
      Fetch, Push, Expire, Ack, Finish, Stop, Crash, Off

LEMMA HandStep == Inv /\ [Next]_vars => \A c \in Consumer : Hand(c)'
<1> SUFFICES ASSUME Inv, [Next]_vars, NEW c \in Consumer PROVE Hand(c)'
  OBVIOUS
<1> USE DEF callers, keys, group, work, bounds
<1>t. TypeOK /\ Hand(c)
  BY DEF Inv
<1>h. /\ inHand[c] # 0 => inHand[c] \in pending /\ inHand[c] \in 1 .. last
      /\ stage[c] \in {"handle", "push", "expire", "ack"} => inHand[c] # 0
      /\ stage[c] \in {"handle", "push", "expire"} => stream[inHand[c]] \in Rpc
      /\ inHand[c] # 0 => inHand[c] \in Nat
  BY <1>t, Holding
<1>g. inHand[c] # 0 => stream'[inHand[c]] = stream[inHand[c]]
  <2>1. inHand[c] # 0 => inHand[c] \in 1 .. Len(stream)
    BY <1>h, <1>t DEF TypeOK
  <2> QED
    BY <2>1, <1>t, StreamGrows
<1>1. ASSUME UNCHANGED <<stage, inHand, outcome>> PROVE Hand(c)'
  BY <1>1, <1>h, <1>g, <1>t, RunsGrow DEF Hand
<1>2. ASSUME NEW d \in Consumer, Read(d) \/ ReadNothing(d) PROVE Hand(c)'
  BY <1>2, <1>h, <1>g, <1>t, RunsGrow DEF Hand, Read, ReadNothing, Goto, TypeOK
<1>3. ASSUME NEW d \in Consumer, Fetch(d) PROVE Hand(c)'
  <2>1. /\ stage[d] = "read" /\ stream' = stream /\ outcome' = outcome /\ done' = done
        /\ last + 1 \in DOMAIN stream /\ last + 1 # 0 /\ DOMAIN stream = 1 .. Len(stream)
    BY <1>3, <1>t DEF Fetch, TypeOK
  <2>2. stream[last + 1] \in Rpc \cup {Marker}
    BY <2>1, <1>t DEF TypeOK
  <2>3. CASE Hold(d, last + 1)
    BY <2>1, <2>2, <2>3, <1>t DEF Hold, Goto, Hand, TypeOK
  <2>4. CASE stage' \in {stage, [stage EXCEPT ![d] = "idle"]} /\ UNCHANGED inHand
    BY <2>1, <2>4, <1>t DEF Hand, TypeOK
  <2> QED
    BY <1>3, <2>3, <2>4 DEF Fetch
<1>4. ASSUME NEW d \in Consumer, Handle(d) PROVE Hand(c)'
  <2> DEFINE m == stream[inHand[d]]
  <2>1. /\ stage[d] = "handle" /\ stage' = [stage EXCEPT ![d] = "push"]
        /\ inHand' = inHand /\ stream' = stream /\ Hand(d)
    BY <1>4 DEF Handle, Goto, Inv
  <2>2. PICK x \in Result : /\ outcome' = [outcome EXCEPT ![d] = x]
                            /\ done' = [done EXCEPT ![m] = Append(@, x)]
    BY <1>4 DEF Handle
  <2>3. m \in Rpc /\ x \in Members(done'[m])
    <3>1. m \in Rpc /\ done[m] \in Seq(Result)
      BY <2>1, <1>t DEF Hand, TypeOK
    <3> HIDE DEF m
    <3>2. done'[m] = Append(done[m], x)
      BY <2>2, <3>1, <1>t DEF TypeOK
    <3> QED
      BY <3>1, <3>2, AppendMembers
  <2>4. CASE c = d
    BY <2>1, <2>2, <2>3, <2>4, <1>t DEF Hand, TypeOK
  <2>5. CASE c # d
    <3>1. stage'[c] = stage[c] /\ inHand'[c] = inHand[c] /\ outcome'[c] = outcome[c]
      BY <2>1, <2>2, <2>5, <1>t DEF TypeOK
    <3> QED
      BY <2>1, <3>1, <1>t, <1>h, RunsGrow DEF Hand
  <2> QED
    BY <2>4, <2>5
<1>5. ASSUME NEW d \in Consumer, Push(d) \/ Expire(d) PROVE Hand(c)'
  <2>1. /\ \/ stage[d] = "push" /\ stage' = [stage EXCEPT ![d] = "expire"]
           \/ stage[d] = "expire" /\ stage' = [stage EXCEPT ![d] = "ack"]
        /\ UNCHANGED <<inHand, stream, outcome, done>>
    BY <1>5 DEF Push, Expire, Goto
  <2> QED
    BY <2>1, <1>t DEF Hand, TypeOK
<1>6. ASSUME NEW d \in Consumer, Ack(d) \/ Finish(d) \/ Crash(d) PROVE Hand(c)'
  <2>1. /\ stage' = [stage EXCEPT ![d] = "idle"] /\ inHand' = [inHand EXCEPT ![d] = 0]
        /\ UNCHANGED <<stream, outcome, done>>
    BY <1>6 DEF Ack, Finish, Crash, Off, Goto
  <2> QED
    BY <2>1, <1>t DEF Hand, TypeOK
<1> QED
  BY <1>1, <1>2, <1>3, <1>4, <1>5, <1>6
  DEF Next, Work, vars, Publish, Reject, Take, GiveUp, Vanish, Start, Stop

\* An entry handed out now is in no other hand.
LEMMA OneHandStep == Inv /\ [Next]_vars => OneHand'
<1> SUFFICES ASSUME Inv, [Next]_vars PROVE OneHand'
  OBVIOUS
<1> USE DEF callers, keys, group, work, bounds
<1>t. TypeOK /\ OneHand /\ last \in Nat
  BY DEF Inv, TypeOK
<1>1. CASE UNCHANGED inHand
  BY <1>1, <1>t DEF OneHand
<1>2. ASSUME NEW c \in Consumer, Fetch(c) PROVE OneHand'
  <2>1. inHand' = inHand \/ inHand' = [inHand EXCEPT ![c] = last + 1]
    BY <1>2 DEF Fetch, Hold
  <2>d. DOMAIN inHand = Consumer
    BY <1>t DEF TypeOK
  <2>2. \A d \in Consumer : inHand[d] # last + 1
    <3>1. \A d \in Consumer : inHand[d] \in {0} \cup (1 .. last)
      BY <1>t DEF TypeOK
    <3> QED
      BY <3>1, <1>t
  <2>3. CASE inHand' = inHand
    BY <2>3, <1>t DEF OneHand
  <2>4. CASE inHand' = [inHand EXCEPT ![c] = last + 1]
    <3>1. inHand'[c] = last + 1 /\ \A d \in Consumer \ {c} : inHand'[d] = inHand[d]
      BY <2>4, <2>d
    <3> QED
      BY <3>1, <2>2, <1>t DEF OneHand
  <2> QED
    BY <2>1, <2>3, <2>4
<1>3. ASSUME NEW c \in Consumer, Ack(c) \/ Finish(c) \/ Crash(c) PROVE OneHand'
  <2>1. inHand' = [inHand EXCEPT ![c] = 0]
    BY <1>3 DEF Ack, Finish, Crash, Off
  <2>2. DOMAIN inHand = Consumer
    BY <1>t DEF TypeOK
  <2>3. inHand'[c] = 0 /\ \A d \in Consumer \ {c} : inHand'[d] = inHand[d]
    BY <2>1, <2>2
  <2> QED
    BY <2>3, <1>t DEF OneHand
<1> QED
  BY <1>1, <1>2, <1>3
  DEF Next, Work, vars, Publish, Reject, Take, GiveUp, Vanish, Start, Stop, Read,
      ReadNothing, Handle, Push, Expire

\* A run is of an entry that was handed out for it.
LEMMA CountedStep == Inv /\ [Next]_vars => \A m \in Rpc : Counted(m)'
<1> SUFFICES ASSUME Inv, [Next]_vars, NEW m \in Rpc PROVE Counted(m)'
  OBVIOUS
<1> USE DEF callers, keys, group, work, bounds
<1>i. TypeOK /\ TypeOK' /\ OneHand /\ Counted(m) /\ \A c \in Consumer : Hand(c)
  BY TypeStep DEF Inv
<1>n. last \in Nat /\ last' \in Nat /\ Len(stream) \in Nat /\ last <= Len(stream)
  BY <1>i DEF TypeOK
<1>t. /\ TypeOK /\ TypeOK' /\ OneHand /\ Counted(m) /\ last \in Nat /\ last' \in Nat
      /\ \A c \in Consumer : Hand(c)
  BY <1>i, <1>n
<1>g. /\ \A i \in 1 .. last : i \in 1 .. last' /\ stream'[i] = stream[i]
      /\ \A i \in 1 .. last : i # last + 1
  <2>1. last <= last' /\ \A i \in 1 .. Len(stream) : stream'[i] = stream[i]
    BY <1>i, StreamGrows
  <2> QED
    BY <1>n, <2>1
<1>f. /\ IsFiniteSet(Spent(m)) /\ IsFiniteSet(Spent(m)')
      /\ Cardinality(Spent(m)) \in Nat /\ Cardinality(Spent(m)') \in Nat
  <2>1. IsFiniteSet(1 .. last) /\ IsFiniteSet(1 .. last')
    BY <1>t, FS_Interval
  <2>2. Spent(m) \subseteq 1 .. last /\ Spent(m)' \subseteq 1 .. last'
    BY DEF Spent
  <2>3. IsFiniteSet(Spent(m)) /\ IsFiniteSet(Spent(m)')
    BY <2>1, <2>2, FS_Subset
  <2> QED
    BY <2>3, FS_CardinalityType
<1>1. ASSUME UNCHANGED done,
             \A c \in Consumer : stage'[c] = "handle" /\ inHand'[c] \in 1 .. last =>
               stage[c] = "handle" /\ inHand'[c] = inHand[c]
      PROVE  Counted(m)'
  <2>1. Spent(m) \subseteq Spent(m)'
    BY <1>1, <1>g DEF Spent
  <2>2. Cardinality(Spent(m)) <= Cardinality(Spent(m)')
    BY <2>1, <1>f, FS_Subset
  <2>3. Len(done[m]) \in Nat /\ Len(done[m]) <= Cardinality(Spent(m))
    BY <1>t DEF Counted, TypeOK
  <2> QED
    BY <1>1, <2>2, <2>3, <1>f DEF Counted
<1>2. CASE UNCHANGED <<done, stage, inHand>>
  BY <1>1, <1>2
<1>3. ASSUME NEW c \in Consumer,
             \/ Read(c) \/ ReadNothing(c) \/ Push(c) \/ Expire(c)
             \/ Ack(c) \/ Finish(c) \/ Crash(c)
      PROVE  Counted(m)'
  <2>1. /\ UNCHANGED done
        /\ \E place \in {"idle", "read", "expire", "ack"} : stage' = [stage EXCEPT ![c] = place]
        /\ inHand' = inHand \/ inHand' = [inHand EXCEPT ![c] = 0]
    BY <1>3 DEF Read, ReadNothing, Push, Expire, Ack, Finish, Crash, Off, Goto
  <2> QED
    BY <2>1, <1>1, <1>t, SMTT(20) DEF TypeOK
<1>4. ASSUME NEW c \in Consumer, Fetch(c) PROVE Counted(m)'
  <2>1. /\ UNCHANGED done
        /\ \A d \in Consumer : d # c => stage'[d] = stage[d] /\ inHand'[d] = inHand[d]
        /\ stage[c] = "read"
        /\ \/ inHand'[c] = last + 1
           \/ stage'[c] \in {"read", "idle"}
    BY <1>4, <1>t DEF Fetch, Hold, Goto, TypeOK
  <2> QED
    BY <2>1, <1>1, <1>g
<1>5. ASSUME NEW c \in Consumer, Handle(c) PROVE Counted(m)'
  <2> DEFINE i == inHand[c]
  <2>1. /\ stage[c] = "handle" /\ stage' = [stage EXCEPT ![c] = "push"] /\ i \in 1 .. last
        /\ UNCHANGED <<inHand, stream, last>>
    BY <1>5, <1>t, Holding DEF Handle, Goto
  <2>2. PICK x \in Result : done' = [done EXCEPT ![stream[i]] = Append(@, x)]
    BY <1>5 DEF Handle
  <2>3. CASE m = stream[i]
    <3>1. i \notin Spent(m)
      BY <2>1 DEF Spent
    <3>2. Spent(m)' = Spent(m) \cup {i}
      <4>1. \A d \in Consumer : d # c => inHand[d] # i
        BY <2>1, <1>t, Holding DEF OneHand
      <4>2. /\ \A d \in Consumer : d # c => stage'[d] = stage[d]
            /\ stage'[c] = "push"
        BY <2>1, <1>t DEF TypeOK
      <4> HIDE DEF i
      <4>3. i \in Spent(m)'
        BY <2>1, <2>3, <4>1, <4>2 DEF Spent
      <4>4. \A j \in 1 .. last : j # i => (j \in Spent(m)' <=> j \in Spent(m))
        <5> SUFFICES ASSUME NEW j \in 1 .. last, j # i
                     PROVE  j \in Spent(m)' <=> j \in Spent(m)
          OBVIOUS
        <5>1. \A d \in Consumer : inHand'[d] = j /\ stage'[d] = "handle"
                                  <=> inHand[d] = j /\ stage[d] = "handle"
          BY <2>1, <4>2 DEF i
        <5> QED
          BY <2>1, <5>1 DEF Spent
      <4>5. Spent(m) \subseteq 1 .. last /\ Spent(m)' \subseteq 1 .. last
        BY <2>1 DEF Spent
      <4> QED
        BY <4>3, <4>4, <4>5
    <3>3. Cardinality(Spent(m)') = Cardinality(Spent(m)) + 1
      BY <3>1, <3>2, <1>f, FS_AddElement
    <3>4. done[m] \in Seq(Result) /\ done'[m] = Append(done[m], x)
      BY <2>2, <2>3, <1>t DEF TypeOK
    <3>5. Len(done'[m]) = Len(done[m]) + 1 /\ Len(done[m]) \in Nat
      BY <3>4, AppendMembers
    <3> QED
      BY <3>3, <3>5, <1>t, <1>f DEF Counted
  <2>4. CASE m # stream[i]
    <3>1. Spent(m)' = Spent(m)
      <4>1. \A d \in Consumer : d # c => stage'[d] = stage[d] /\ inHand'[d] = inHand[d]
        BY <2>1, <1>t DEF TypeOK
      <4>2. \A j \in 1 .. last : stream[j] = m => j # i
        BY <2>4
      <4>3. inHand'[c] = i /\ inHand[c] = i
        BY <2>1
      <4> HIDE DEF i
      <4> QED
        BY <2>1, <4>1, <4>2, <4>3 DEF Spent
    <3>2. done'[m] = done[m]
      BY <2>2, <2>4, <1>t DEF TypeOK
    <3> QED
      BY <3>1, <3>2, <1>t DEF Counted
  <2> QED
    BY <2>3, <2>4
<1> QED
  BY <1>2, <1>3, <1>4, <1>5
  DEF Next, Work, vars, Publish, Reject, Take, GiveUp, Vanish, Start, Stop

LEMMA TracelessStep == Inv /\ [Next]_vars => \A m \in Rpc : Traceless(m)'
<1> SUFFICES ASSUME Inv, [Next]_vars, NEW m \in Rpc PROVE Traceless(m)'
  OBVIOUS
<1> USE DEF callers, keys, group, work, bounds
<1>t. TypeOK /\ Traceless(m) /\ m # Marker
  BY RedisAssumption DEF Inv
<1>f. faults \in Nat /\ faults' \in Nat /\ faults <= faults'
  <2>1. faults \in 0 .. MaxFaults
    BY <1>t DEF TypeOK
  <2>2. faults' \in 0 .. MaxFaults /\ faults <= faults'
    BY <1>t, StreamGrows
  <2> QED
    BY <2>1, <2>2, RedisAssumption
<1>a. ASSUME NEW e \in Rpc \cup {Marker}, e # m, caller[m] = "new"
      PROVE  \A i \in DOMAIN Append(stream, e) : Append(stream, e)[i] # m
  <2>1. /\ Len(Append(stream, e)) = Len(stream) + 1 /\ Append(stream, e)[Len(stream) + 1] = e
        /\ \A i \in 1 .. Len(stream) : Append(stream, e)[i] = stream[i]
        /\ DOMAIN stream = 1 .. Len(stream) /\ Len(stream) \in Nat
        /\ DOMAIN Append(stream, e) = 1 .. Len(stream) + 1
    BY <1>t DEF TypeOK
  <2>2. \A i \in 1 .. Len(stream) + 1 : i = Len(stream) + 1 \/ i \in 1 .. Len(stream)
    BY <2>1
  <2> QED
    BY <1>t, <1>a, <2>1, <2>2 DEF Traceless
<1>1. ASSUME UNCHANGED <<caller, stream>> PROVE Traceless(m)'
  BY <1>1, <1>t, <1>f DEF Traceless
<1>2. ASSUME NEW n \in Rpc, Publish(n) PROVE Traceless(m)'
  <2>1. CASE n = m
    BY <1>2, <2>1, <1>t, <1>f DEF Publish, Become, Fault, Traceless, TypeOK
  <2>2. CASE n # m
    <3>1. caller'[m] = caller[m] /\ (stream' = stream \/ stream' = Append(stream, n))
      BY <1>2, <2>2, <1>t DEF Publish, Become, TypeOK
    <3> QED
      BY <2>2, <3>1, <1>a, <1>t, <1>f DEF Traceless
  <2> QED
    BY <2>1, <2>2
<1>3. ASSUME NEW n \in Rpc, Reject(n) \/ Take(n) \/ GiveUp(n) PROVE Traceless(m)'
  <2>1. /\ stream' = stream
        /\ \/ caller' = caller
           \/ caller' = [caller EXCEPT ![n] = "answered"]
           \/ caller' = [caller EXCEPT ![n] = "gaveUp"]
           \/ caller[n] = "retrying" /\ caller' = [caller EXCEPT ![n] = "rejected"]
    BY <1>3 DEF Reject, Take, GiveUp, Become
  <2> QED
    BY <2>1, <1>t, <1>f DEF Traceless, TypeOK
<1>4. ASSUME NEW c \in Consumer, Start(c) PROVE Traceless(m)'
  <2> DEFINE s == Append(stream, Marker)
  <2>1. caller' = caller /\ stream' \in {stream, s, Append(s, Marker)}
    BY <1>4 DEF Start
  <2>2. ASSUME caller[m] = "new"
        PROVE  /\ \A i \in DOMAIN s : s[i] # m
               /\ \A i \in DOMAIN Append(s, Marker) : Append(s, Marker)[i] # m
    <3>1. Marker # m /\ stream \in Seq(Rpc \cup {Marker})
      BY <1>t, RedisAssumption DEF TypeOK
    <3>2. \A i \in DOMAIN s : s[i] # m
      BY <1>a, <2>2, <3>1
    <3>3. s \in Seq(Rpc \cup {Marker})
      BY <3>1, AppendMembers
    <3> HIDE DEF s
    <3>4. /\ DOMAIN Append(s, Marker) = 1 .. Len(s) + 1 /\ Append(s, Marker)[Len(s) + 1] = Marker
          /\ \A i \in 1 .. Len(s) : Append(s, Marker)[i] = s[i]
          /\ DOMAIN s = 1 .. Len(s) /\ Len(s) \in Nat
      BY <3>3
    <3>5. \A i \in 1 .. Len(s) + 1 : i = Len(s) + 1 \/ i \in 1 .. Len(s)
      BY <3>4
    <3> QED
      BY <3>1, <3>2, <3>4, <3>5
  <2> HIDE DEF s
  <2> QED
    BY <2>1, <2>2, <1>t, <1>f DEF Traceless
<1> QED
  BY <1>1, <1>2, <1>3, <1>4
  DEF Next, Work, vars, Vanish, Stop, Read, ReadNothing, Fetch, Handle, Push, Expire, Ack,
      Finish, Crash, Off

\* A response is pushed by a goroutine whose handler has just made it.
LEMMA OwnStep == Inv /\ [Next]_vars => \A m \in Rpc : Own(m)'
<1> SUFFICES ASSUME Inv, [Next]_vars, NEW m \in Rpc PROVE Own(m)'
  OBVIOUS
<1> USE DEF callers, keys, group, work, bounds
<1>t. TypeOK /\ Own(m) /\ Members(done[m]) \subseteq Members(done'[m])
  BY RunsGrow DEF Inv
<1>1. ASSUME UNCHANGED list PROVE Own(m)'
  BY <1>1, <1>t DEF Own
<1>2. ASSUME NEW n \in Rpc, Take(n) PROVE Own(m)'
  <2>1. list[n] \in Seq(Result) /\ list[n] # <<>> /\ list' = [list EXCEPT ![n] = Tail(list[n])]
    BY <1>2, <1>t DEF Take, Pop, TypeOK
  <2>2. Members(Tail(list[n])) \subseteq Members(list[n])
    BY <2>1, TailMembers
  <2>3. Members(list'[m]) \subseteq Members(list[m])
    BY <2>1, <2>2, <1>t DEF TypeOK
  <2> QED
    BY <2>3, <1>t DEF Own
<1>3. ASSUME NEW n \in Rpc, Vanish(n) PROVE Own(m)'
  <2>1. list'[m] = list[m] \/ list'[m] = <<>>
    BY <1>3, <1>t DEF Vanish, TypeOK
  <2> QED
    BY <2>1, <1>t, EmptyMembers DEF Own
<1>4. ASSUME NEW c \in Consumer, Push(c) PROVE Own(m)'
  <2> DEFINE n == stream[inHand[c]]
             e == outcome[c]
  <2>p. stage[c] = "push" /\ Hand(c)
    BY <1>4 DEF Push, Inv
  <2>q. n \in Rpc /\ e \in Members(done[n])
    BY <2>p DEF Hand
  <2>r. Members(done[n]) \subseteq Result
    <3>1. done[n] \in Seq(Result)
      BY <2>q, <1>t DEF TypeOK
    <3> QED
      BY <3>1 DEF Members
  <2>1. n \in Rpc /\ e \in Members(done[n]) /\ Members(done[n]) \subseteq Result
    BY <2>q, <2>r
  <2>2. \/ list' = list \/ list' = [list EXCEPT ![n] = Append(@, e)]
        \/ list' = [list EXCEPT ![n] = @ \o <<e, e>>]
    BY <1>4 DEF Push
  <2> HIDE DEF n, e
  <2>3. list[n] \in Seq(Result) /\ e \in Result
    BY <2>1, <1>t DEF TypeOK
  <2>4. /\ Members(Append(list[n], e)) = Members(list[n]) \cup {e}
        /\ Members(list[n] \o <<e, e>>) = Members(list[n]) \cup {e}
    BY <2>3, AppendMembers, PairMembers
  <2>5. list'[m] = list[m] \/ (m = n /\ Members(list'[m]) = Members(list[m]) \cup {e})
    BY <2>1, <2>2, <2>4, <1>t DEF TypeOK
  <2> QED
    BY <2>1, <2>5, <1>t DEF Own
<1> QED
  BY <1>1, <1>2, <1>3, <1>4
  DEF Next, Work, vars, Publish, Reject, GiveUp, Start, Stop, Read, ReadNothing, Fetch,
      Handle, Expire, Ack, Finish, Crash, Off

\* A call in the stream that has been served stays so: nobody but its caller
\* takes its response, and a key that its caller waits for does not expire.
LEMMA ServedCallStep ==
  ASSUME Inv, [Next]_vars, NEW m \in Rpc, ServedCall(m), caller[m] # "new"
  PROVE  ServedCall(m)'
<1> USE DEF callers, keys, group, work, bounds
<1>t. TypeOK /\ Traceless(m) /\ done'[m] # <<>>
  BY RunsGrow DEF Inv, ServedCall
<1>f. faults \in Nat /\ faults' \in Nat /\ faults <= faults'
  <2>1. faults \in 0 .. MaxFaults
    BY <1>t DEF TypeOK
  <2>2. faults' \in 0 .. MaxFaults /\ faults <= faults'
    BY <1>t, StreamGrows
  <2> QED
    BY <2>1, <2>2, RedisAssumption
<1> SUFFICES ASSUME faults' = 0, caller'[m] = "waiting" PROVE list'[m] # <<>>
  BY <1>t DEF ServedCall
<1>1. faults = 0 /\ UNCHANGED faults
  BY <1>f
<1>2. caller[m] = "waiting"
  <2>1. caller[m] # "retrying"
    BY <1>1, <1>t DEF Traceless
  <2>2. ASSUME caller'[m] # caller[m] PROVE FALSE
    <3>1. PICK n \in Rpc, place \in {"answered", "gaveUp", "rejected", "waiting", "retrying"} :
            /\ caller' = [caller EXCEPT ![n] = place]
            /\ place \in {"waiting", "retrying"} => caller[n] \in {"new", "retrying"}
      BY <2>2 DEF Next, Work, vars, Publish, Reject, Take, GiveUp, Become, Vanish, Start, Stop, Read,
          ReadNothing, Fetch, Handle, Push, Expire, Ack, Finish, Crash, Off
    <3> QED
      BY <2>1, <2>2, <3>1, <1>t DEF TypeOK
  <2> QED
    BY <2>2
<1>3. list[m] # <<>>
  BY <1>1, <1>2 DEF ServedCall
<1>4. ASSUME NEW n \in Rpc, Take(n) PROVE list'[m] # <<>>
  <2>1. n # m
    BY <1>4, <1>1, <1>2, <1>t DEF Take, Become, Fault, TypeOK
  <2> QED
    BY <1>3, <1>4, <2>1, <1>t DEF Take, Pop, TypeOK
<1>5. ASSUME NEW n \in Rpc, Vanish(n) PROVE list'[m] # <<>>
  BY <1>2, <1>3, <1>5, <1>t DEF Vanish, TypeOK
<1>6. ASSUME NEW c \in Consumer, Push(c) PROVE list'[m] # <<>>
  <2>1. list' = [list EXCEPT ![stream[inHand[c]]] = Append(@, outcome[c])]
    BY <1>1, <1>6, <1>f DEF Push, Fault
  <2>2. list[stream[inHand[c]]] \in Seq(Result) /\ outcome[c] \in Result
    <3>1. stream[inHand[c]] \in Rpc /\ outcome[c] \in Members(done[stream[inHand[c]]])
      BY <1>6 DEF Inv, Hand, Push
    <3>2. done[stream[inHand[c]]] \in Seq(Result) /\ list[stream[inHand[c]]] \in Seq(Result)
      BY <3>1, <1>t DEF TypeOK
    <3> QED
      BY <3>1, <3>2 DEF Members
  <2>3. Append(list[stream[inHand[c]]], outcome[c]) # <<>>
    BY <2>2, AppendMembers
  <2> QED
    BY <1>3, <2>1, <2>3, <1>t DEF TypeOK
<1> QED
  BY <1>3, <1>4, <1>5, <1>6
  DEF Next, Work, vars, Publish, Reject, GiveUp, Start, Stop, Read, ReadNothing, Fetch,
      Handle, Expire, Ack, Finish, Crash, Off

\* Handled before the response, the response before the acknowledgement.
LEMMA ServedStep == Inv /\ [Next]_vars => Served'
<1> SUFFICES ASSUME Inv, [Next]_vars PROVE Served'
  OBVIOUS
<1> USE DEF callers, keys, group, work, bounds
<1>t. TypeOK /\ Served /\ (\A c \in Consumer : Hand(c)) /\ Marker \notin Rpc
  BY RedisAssumption DEF Inv
<1>n. last \in Nat /\ last <= Len(stream) /\ Len(stream) \in Nat
  BY <1>t DEF TypeOK
<1>e. ASSUME NEW i \in 1 .. last, stream'[i] # Marker
      PROVE  stream'[i] = stream[i] /\ stream[i] \in Rpc /\ caller[stream[i]] # "new"
  <2>1. i \in 1 .. Len(stream) /\ DOMAIN stream = 1 .. Len(stream)
    BY <1>n, <1>t DEF TypeOK
  <2>2. stream'[i] = stream[i] /\ stream[i] \in Rpc
    BY <1>e, <1>t, <2>1, StreamGrows DEF TypeOK
  <2> QED
    BY <2>1, <2>2 DEF Inv, Traceless
<1>s. ASSUME NEW i \in 1 .. last, stream'[i] # Marker, ServedCall(stream[i])
      PROVE  ServedCall(stream[i])'
  <2>1. PICK m \in Rpc : m = stream[i] /\ m = stream'[i] /\ caller[m] # "new"
    BY <1>e, <1>s
  <2>2. ServedCall(m)'
    BY <2>1, <1>s, ServedCallStep
  <2> QED
    BY <2>1, <2>2 DEF ServedCall
<1>k. \A c \in Consumer : stage[c] \in {"push", "expire", "ack"} => inHand[c] \in 1 .. last
  BY <1>t, Holding
<1>m. ASSUME NEW c \in Consumer
      PROVE  \/ stage'[c] = stage[c] /\ inHand'[c] = inHand[c]
             \/ stage'[c] \in {"idle", "read"}
             \/ Fetch(c) /\ Hold(c, last + 1)
             \/ Handle(c) \/ Push(c) \/ Expire(c)
  <2>1. CASE UNCHANGED <<stage, inHand>>
    BY <2>1
  <2>2. ASSUME NEW d \in Consumer, Read(d) \/ ReadNothing(d) \/ Ack(d) \/ Finish(d) \/ Crash(d)
        PROVE  \/ stage'[c] = stage[c] /\ inHand'[c] = inHand[c]
               \/ stage'[c] \in {"idle", "read"}
    <3>1. /\ \E place \in {"idle", "read"} : stage' = [stage EXCEPT ![d] = place]
          /\ inHand' = inHand \/ inHand' = [inHand EXCEPT ![d] = 0]
      BY <2>2 DEF Read, ReadNothing, Ack, Finish, Crash, Off, Goto
    <3> QED
      BY <3>1, <1>t DEF TypeOK
  <2>3. ASSUME NEW d \in Consumer, Handle(d) \/ Push(d) \/ Expire(d), d # c
        PROVE  stage'[c] = stage[c] /\ inHand'[c] = inHand[c]
    BY <2>3, <1>t DEF Handle, Push, Expire, Goto, TypeOK
  <2>4. ASSUME NEW d \in Consumer, Fetch(d)
        PROVE  \/ stage'[c] = stage[c] /\ inHand'[c] = inHand[c]
               \/ stage'[c] \in {"idle", "read"}
               \/ d = c /\ Hold(c, last + 1)
    <3>1. CASE Hold(d, last + 1)
      BY <3>1, <1>t DEF Hold, Goto, TypeOK
    <3>2. CASE stage' \in {stage, [stage EXCEPT ![d] = "idle"]} /\ UNCHANGED inHand
      BY <3>2, <1>t DEF TypeOK
    <3> QED
      BY <2>4, <3>1, <3>2 DEF Fetch
  <2> QED
    BY <2>1, <2>2, <2>3, <2>4
    DEF Next, Work, vars, Publish, Reject, Take, GiveUp, Vanish, Start, Stop
<1>f. ASSUME NEW c \in Consumer, Fetch(c), Hold(c, last + 1),
             stream'[inHand'[c]] # Marker
      PROVE  stage'[c] = "handle"
  BY <1>f, <1>t DEF Fetch, Hold, Goto, TypeOK
<1>1. ASSUME NEW c \in Consumer, stage'[c] \in {"push", "expire", "ack"},
             stream'[inHand'[c]] # Marker
      PROVE  done'[stream'[inHand'[c]]] # <<>>
  <2>1. ASSUME inHand'[c] = inHand[c], stage[c] \in {"push", "expire", "ack"}
        PROVE  done'[stream'[inHand'[c]]] # <<>>
    <3>1. PICK i \in 1 .. last : i = inHand[c]
      BY <2>1, <1>k
    <3>2. stream'[i] = stream[i] /\ stream[i] \in Rpc /\ done[stream[i]] # <<>>
      BY <1>1, <2>1, <3>1, <1>e, <1>t DEF Served
    <3>3. done'[stream[i]] # <<>>
      BY <3>2, RunsGrow
    <3> QED
      BY <2>1, <3>1, <3>2, <3>3
  <2>2. CASE Handle(c)
    <3>1. PICK x \in Result : done' = [done EXCEPT ![stream[inHand[c]]] = Append(@, x)]
      BY <2>2 DEF Handle
    <3>2. stream[inHand[c]] \in Rpc /\ UNCHANGED <<stream, inHand>>
      BY <2>2, <1>t DEF Handle, Hand
    <3>3. done[stream[inHand[c]]] \in Seq(Result)
      BY <3>2, <1>t DEF TypeOK
    <3>4. Append(done[stream[inHand[c]]], x) # <<>>
      BY <3>3, AppendMembers
    <3> QED
      BY <3>1, <3>2, <3>4, <1>t DEF TypeOK
  <2> QED
    BY <1>1, <1>m, <1>f, <2>1, <2>2 DEF Push, Expire
<1>2. ASSUME NEW c \in Consumer, stage'[c] \in {"expire", "ack"},
             stream'[inHand'[c]] # Marker
      PROVE  ServedCall(stream[inHand[c]])'
  <2>1. ASSUME inHand'[c] = inHand[c], stage[c] \in {"expire", "ack"}
        PROVE  ServedCall(stream[inHand[c]])'
    <3>1. PICK i \in 1 .. last : i = inHand[c]
      BY <2>1, <1>k
    <3>2. ServedCall(stream[i])
      BY <1>2, <2>1, <3>1, <1>e, <1>t DEF Served
    <3>3. ServedCall(stream[i])'
      BY <1>2, <2>1, <3>1, <3>2, <1>s
    <3> QED
      BY <2>1, <3>1, <3>3 DEF ServedCall
  <2>2. CASE Push(c)
    <3>1. PICK m \in Rpc : m = stream[inHand[c]] /\ m = stream'[inHand'[c]]
      BY <2>2, <1>t DEF Push, Hand
    <3>2. done'[m] # <<>>
      BY <1>1, <1>2, <3>1
    <3>3. faults' > 0 \/ list' = [list EXCEPT ![m] = Append(@, outcome[c])]
      <4>1. faults \in Nat
        BY <1>t, RedisAssumption DEF TypeOK
      <4>2. Fault \/ list' = [list EXCEPT ![m] = Append(@, outcome[c])]
        BY <2>2, <3>1, PushEffect
      <4>3. Fault => faults' > 0
        BY <4>1 DEF Fault
      <4> QED
        BY <4>2, <4>3
    <3>4. list[m] \in Seq(Result) /\ outcome[c] \in Result
      <4>1. done[m] \in Seq(Result) /\ outcome[c] \in Members(done[m])
        BY <2>2, <3>1, <1>t DEF Push, Hand, TypeOK
      <4> QED
        BY <4>1, <1>t DEF TypeOK, Members
    <3>5. Append(list[m], outcome[c]) # <<>>
      BY <3>4, AppendMembers
    <3>6. faults' = 0 => list'[m] # <<>>
      BY <3>3, <3>5, <1>t DEF TypeOK
    <3> QED
      BY <3>1, <3>2, <3>6 DEF ServedCall
  <2>3. Expire(c) => inHand'[c] = inHand[c] /\ stage[c] = "expire"
    BY DEF Expire
  <2>4. Handle(c) => stage'[c] = "push"
    BY <1>t DEF Handle, Goto, TypeOK
  <2> QED
    BY <1>2, <1>m, <1>f, <2>1, <2>2, <2>3, <2>4
<1>3. ASSUME NEW i \in (1 .. last') \ pending', stream'[i] # Marker
      PROVE  ServedCall(stream[i])'
  <2>1. i \in 1 .. last
    <3>1. (last' = last) \/ (last' = last + 1 /\ pending' = pending \cup {last + 1})
      BY DEF Next, Work, vars, Publish, Reject, Take, GiveUp, Vanish, Start, Stop, Read,
             ReadNothing, Fetch, Handle, Push, Expire, Ack, Finish, Crash, Off
    <3>2. last + 1 \in pending' \/ last' = last
      BY <3>1
    <3> QED
      BY <1>3, <1>n, <3>1, <3>2
  <2>2. CASE i \notin pending
    BY <1>3, <2>1, <2>2, <1>e, <1>s, <1>t DEF Served
  <2>3. CASE i \in pending
    <3>1. PICK c \in Consumer : i = inHand[c] /\ stage[c] = "ack"
      BY <1>3, <2>3
      DEF Next, Work, vars, Publish, Reject, Take, GiveUp, Vanish, Start, Stop, Read,
          ReadNothing, Fetch, Handle, Push, Expire, Ack, Finish, Crash, Off
    <3> QED
      BY <1>3, <2>1, <3>1, <1>e, <1>s, <1>t DEF Served
  <2> QED
    BY <2>2, <2>3
<1> QED
  BY <1>1, <1>2, <1>3 DEF Served

\* Unless something fails, what is pending is in hand.
LEMMA NothingAbandonedStep == Inv /\ [Next]_vars => NothingAbandoned'
<1> SUFFICES ASSUME Inv, [Next]_vars, ~Failed'
             PROVE  pending' = {inHand'[c] : c \in Consumer} \ {0}
  BY DEF NothingAbandoned
<1> USE DEF callers, keys, group, work, bounds
<1>t. TypeOK /\ OneHand /\ \A c \in Consumer : Hand(c)
  BY DEF Inv
<1>f. UNCHANGED <<faults, crashes>> /\ ~Failed
  <2>1. /\ faults \in 0 .. MaxFaults /\ crashes \in 0 .. MaxCrashes
        /\ faults' \in 0 .. MaxFaults /\ crashes' \in 0 .. MaxCrashes
        /\ faults <= faults' /\ crashes <= crashes'
    BY <1>t, StreamGrows DEF TypeOK
  <2>2. faults' = 0 /\ crashes' = 0
    BY <2>1, RedisAssumption DEF Failed
  <2> QED
    BY <2>1, <2>2, RedisAssumption DEF Failed
<1>n. last \in Nat /\ faults \in Nat /\ crashes \in Nat
  BY <1>t, RedisAssumption DEF TypeOK
<1>p. pending = {inHand[c] : c \in Consumer} \ {0}
  BY <1>f DEF Inv, NothingAbandoned
<1>1. CASE UNCHANGED <<pending, inHand>>
  BY <1>1, <1>p
<1>2. ASSUME NEW c \in Consumer, Fetch(c) PROVE pending' = {inHand'[d] : d \in Consumer} \ {0}
  <2>1. pending' = pending \cup {last + 1} /\ inHand' = [inHand EXCEPT ![c] = last + 1]
    BY <1>2, <1>f, <1>n DEF Fetch, Hold, Fault
  <2>2. inHand[c] = 0 /\ last + 1 # 0
    BY <1>2, <1>t, <1>n DEF Fetch, Hand
  <2>3. \A d \in Consumer : inHand'[d] = IF d = c THEN last + 1 ELSE inHand[d]
    BY <2>1, <1>t DEF TypeOK
  <2> QED
    BY <2>1, <2>2, <2>3, <1>p
<1>3. ASSUME NEW c \in Consumer, Ack(c) PROVE pending' = {inHand'[d] : d \in Consumer} \ {0}
  <2>1. pending' = pending \ {inHand[c]} /\ inHand' = [inHand EXCEPT ![c] = 0]
    BY <1>3, <1>f, <1>n DEF Ack, Fault
  <2>2. \A d \in Consumer : inHand'[d] = IF d = c THEN 0 ELSE inHand[d]
    BY <2>1, <1>t DEF TypeOK
  <2>3. \A d \in Consumer : d # c => inHand[d] = 0 \/ inHand[d] # inHand[c]
    BY <1>t DEF OneHand
  <2> QED
    BY <2>1, <2>2, <2>3, <1>p
<1>4. ASSUME NEW c \in Consumer, Finish(c) PROVE pending' = {inHand'[d] : d \in Consumer} \ {0}
  <2>1. inHand[c] = 0 /\ inHand' = [inHand EXCEPT ![c] = 0] /\ pending' = pending
    BY <1>4, <1>t DEF Finish, Off, Hand
  <2>2. \A d \in Consumer : inHand'[d] = inHand[d]
    BY <2>1, <1>t DEF TypeOK
  <2> QED
    BY <2>1, <2>2, <1>p
<1>5. ASSUME NEW c \in Consumer, Crash(c) PROVE FALSE
  BY <1>5, <1>f, <1>n DEF Crash
<1> QED
  BY <1>1, <1>2, <1>3, <1>4, <1>5
  DEF Next, Work, vars, Publish, Reject, Take, GiveUp, Vanish, Start, Stop, Read, ReadNothing,
      Handle, Push, Expire

\* Unless something fails, a key without a time to live is about to get one.
LEMMA KeysExpireStep == Inv /\ [Next]_vars => KeysExpire'
<1> SUFFICES ASSUME Inv, [Next]_vars, ~Failed',
                    NEW m \in Rpc, list'[m] # <<>>, m \notin expires'
             PROVE  \E c \in Consumer : stage'[c] = "expire" /\ stream'[inHand'[c]] = m
  BY DEF KeysExpire
<1> USE DEF callers, keys, group, work, bounds
<1>t. TypeOK /\ \A c \in Consumer : Hand(c)
  BY DEF Inv
<1>f. UNCHANGED <<faults, crashes>> /\ ~Failed /\ faults \in Nat /\ crashes \in Nat
  <2>1. /\ faults \in 0 .. MaxFaults /\ crashes \in 0 .. MaxCrashes
        /\ faults' \in 0 .. MaxFaults /\ crashes' \in 0 .. MaxCrashes
        /\ faults <= faults' /\ crashes <= crashes'
    BY <1>t, StreamGrows DEF TypeOK
  <2>2. faults' = 0 /\ crashes' = 0
    BY <2>1, RedisAssumption DEF Failed
  <2> QED
    BY <2>1, <2>2, RedisAssumption DEF Failed
<1>k. list[m] # <<>> /\ m \notin expires =>
        \E c \in Consumer : stage[c] = "expire" /\ stream[inHand[c]] = m
  BY <1>f DEF Inv, KeysExpire
<1>w. ASSUME list[m] # <<>>, m \notin expires,
             \A d \in Consumer : stage[d] = "expire" /\ stream[inHand[d]] = m =>
                                   stage'[d] = "expire" /\ inHand'[d] = inHand[d]
      PROVE  \E c \in Consumer : stage'[c] = "expire" /\ stream'[inHand'[c]] = m
  <2>1. PICK d \in Consumer : stage[d] = "expire" /\ stream[inHand[d]] = m
    BY <1>w, <1>k
  <2>2. inHand[d] \in 1 .. last
    BY <2>1, <1>t, Holding
  <2>3. inHand[d] \in 1 .. Len(stream)
    BY <2>2, <1>t DEF TypeOK
  <2>4. stream'[inHand[d]] = m
    BY <2>1, <2>3, <1>t, StreamGrows
  <2> QED
    BY <1>w, <2>1, <2>4
<1>1. CASE UNCHANGED <<list, expires, stage, inHand>>
  BY <1>1, <1>w
<1>2. ASSUME NEW n \in Rpc, Take(n) PROVE list[m] # <<>> /\ m \notin expires
  <2>1. /\ list[n] \in Seq(Result) /\ list[n] # <<>> /\ list' = [list EXCEPT ![n] = Tail(@)]
        /\ expires' = IF Len(list[n]) = 1 THEN expires \ {n} ELSE expires
    BY <1>2, <1>t DEF Take, Pop, TypeOK
  <2>2. Len(list[n]) = 1 <=> Tail(list[n]) = <<>>
    BY <2>1, TailMembers
  <2> QED
    BY <2>1, <2>2, <1>t DEF TypeOK
<1>3. ASSUME NEW n \in Rpc, Vanish(n) PROVE list[m] # <<>> /\ m \notin expires
  BY <1>3, <1>t DEF Vanish, TypeOK
<1>4. ASSUME NEW c \in Consumer, stage[c] # "expire", UNCHANGED <<list, expires>>,
             \A d \in Consumer : d # c => stage'[d] = stage[d] /\ inHand'[d] = inHand[d]
      PROVE  \E d \in Consumer : stage'[d] = "expire" /\ stream'[inHand'[d]] = m
  BY <1>4, <1>w
<1>5. ASSUME NEW c \in Consumer, Read(c) \/ ReadNothing(c) \/ Handle(c) \/ Ack(c) \/ Finish(c)
      PROVE  \E d \in Consumer : stage'[d] = "expire" /\ stream'[inHand'[d]] = m
  BY <1>4, <1>5, <1>t DEF Read, ReadNothing, Handle, Ack, Finish, Off, Goto, TypeOK
<1>6. ASSUME NEW c \in Consumer, Fetch(c)
      PROVE  \E d \in Consumer : stage'[d] = "expire" /\ stream'[inHand'[d]] = m
  <2>1. Hold(c, last + 1)
    BY <1>6, <1>f DEF Fetch, Fault
  <2> QED
    BY <1>4, <1>6, <2>1, <1>t DEF Fetch, Hold, Goto, TypeOK
<1>7. ASSUME NEW c \in Consumer, Push(c)
      PROVE  \E d \in Consumer : stage'[d] = "expire" /\ stream'[inHand'[d]] = m
  <2>f. list' = [list EXCEPT ![stream[inHand[c]]] = Append(@, outcome[c])]
    BY <1>7, <1>f, PushEffect DEF Fault, bounds
  <2>1. /\ stage[c] = "push" /\ stage' = [stage EXCEPT ![c] = "expire"]
        /\ UNCHANGED <<expires, stream, inHand>>
    BY <1>7 DEF Push, Goto
  <2>2. CASE m = stream[inHand[c]]
    BY <2>1, <2>2, <1>t DEF TypeOK
  <2>3. CASE m # stream[inHand[c]]
    <3>1. list[m] # <<>> /\ m \notin expires
      BY <2>f, <2>1, <2>3, <1>t DEF TypeOK
    <3> QED
      BY <2>1, <3>1, <1>w, <1>t DEF TypeOK
  <2> QED
    BY <2>2, <2>3
<1>8. ASSUME NEW c \in Consumer, Expire(c)
      PROVE  \E d \in Consumer : stage'[d] = "expire" /\ stream'[inHand'[d]] = m
  <2> DEFINE n == stream[inHand[c]]
  <2>1. /\ stage' = [stage EXCEPT ![c] = "ack"]
        /\ expires' = IF list[n] # <<>> THEN expires \cup {n} ELSE expires
        /\ UNCHANGED <<list, stream, inHand>>
    BY <1>8, <1>f DEF Expire, Fault, Goto
  <2>2. m # n /\ list[m] # <<>> /\ m \notin expires
    BY <2>1
  <2> QED
    BY <2>1, <2>2, <1>w, <1>t DEF TypeOK
<1>9. ASSUME NEW c \in Consumer, Crash(c) PROVE FALSE
  BY <1>9, <1>f DEF Crash
<1>10. ASSUME NEW n \in Rpc, Take(n) \/ Vanish(n)
       PROVE  \E d \in Consumer : stage'[d] = "expire" /\ stream'[inHand'[d]] = m
  BY <1>2, <1>3, <1>10, <1>w DEF Take, Vanish
<1> QED
  BY <1>1, <1>5, <1>6, <1>7, <1>8, <1>9, <1>10
  DEF Next, Work, vars, Publish, Reject, GiveUp, Start, Stop

LEMMA InvStep == Inv /\ [Next]_vars => Inv'
BY TypeStep, HandStep, OneHandStep, CountedStep, TracelessStep, OwnStep, ServedStep,
   NothingAbandonedStep, KeysExpireStep
DEF Inv

LEMMA InvCorrect == Spec => []Inv
<1>1. Init => Inv
  BY InitInv
<1>2. Inv /\ [Next]_vars => Inv'
  BY InvStep
<1> QED
  BY <1>1, <1>2, PTL DEF Spec

-----------------------------------------------------------------------------
(* The invariants of the runs. *)

\* The state is always of its type.
THEOREM TypeCorrect == Spec => []TypeOK
<1>1. Inv => TypeOK
  BY DEF Inv
<1> QED
  BY <1>1, InvCorrect, PTL

\* No entry is handled twice: a call runs at most as often as its entries were
\* handed out (the ">" of consumeMessages).
THEOREM RunsCorrect == Spec => []RunsAccounted
<1> SUFFICES Inv => RunsAccounted
  BY InvCorrect, PTL
<1> SUFFICES ASSUME Inv, NEW m \in Rpc
             PROVE  Len(done[m]) <= Cardinality({i \in 1 .. last : stream[i] = m})
  BY DEF RunsAccounted
<1> DEFINE entries == {i \in 1 .. last : stream[i] = m}
<1>1. Counted(m) /\ Len(done[m]) \in Nat /\ last \in Nat
  BY DEF Inv, TypeOK
<1>2. Spent(m) \subseteq entries /\ entries \subseteq 1 .. last
  BY DEF Spent
<1>3. IsFiniteSet(entries)
  <2>1. IsFiniteSet(1 .. last)
    BY <1>1, FS_Interval
  <2> QED
    BY <1>2, <2>1, FS_Subset
<1>4. /\ Cardinality(Spent(m)) \in Nat /\ Cardinality(entries) \in Nat
      /\ Cardinality(Spent(m)) <= Cardinality(entries)
  BY <1>2, <1>3, FS_Subset, FS_CardinalityType
<1> QED
  BY <1>1, <1>4 DEF Counted

\* An entry that is no longer pending has been handled, and a caller that still
\* waits for it has a response to find (XACK comes after handleMessage).
THEOREM SettledCorrect == Spec => []SettledWasServed
<1>1. Inv => SettledWasServed
  BY DEF Inv, Served, ServedCall, SettledWasServed
<1> QED
  BY <1>1, InvCorrect, PTL

\* Without a failure a stop abandons no entry (StopConsumer waits).
THEOREM AbandonedCorrect == Spec => []NothingAbandoned
<1>1. Inv => NothingAbandoned
  BY DEF Inv
<1> QED
  BY <1>1, InvCorrect, PTL

\* Without a failure every key with a response expires, or is about to be made
\* to (RPUSH and EXPIRE of sendResponse).
THEOREM KeysCorrect == Spec => []KeysExpire
<1>1. Inv => KeysExpire
  BY DEF Inv
<1> QED
  BY <1>1, InvCorrect, PTL

-----------------------------------------------------------------------------
(* The refinement of QueuePort. *)

Stated == [m \in Rpc |-> CASE caller[m] \in {"retrying", "waiting"} -> "open"
                           [] caller[m] = "rejected" -> "gaveUp"
                           [] OTHER -> caller[m]]
Ran == [m \in Rpc |-> {done[m][i] : i \in DOMAIN done[m]}]

\* The runs of a call as the port sees them.
LEMMA RanMembers == \A m \in Rpc : Ran[m] = Members(done[m])
BY DEF Ran, Members

LEMMA PortInit == Init => Port!Init
BY DEF Init, Port!Init

\* What a move of a caller is to the port.
LEMMA PortMove ==
  ASSUME TypeOK, NEW m \in Rpc, NEW place \in {"retrying", "waiting", "answered",
                                               "gaveUp", "rejected"},
         Become(m, place)
  PROVE  Stated' = [Stated EXCEPT ![m] = CASE place \in {"retrying", "waiting"} -> "open"
                                           [] place = "rejected" -> "gaveUp"
                                           [] OTHER -> place]
BY DEF TypeOK, Become, Stated

\* A step of the adapter is a step of the port, or none that it can see: a
\* publication is submitted at its first try.
LEMMA PortStep == Inv /\ [Next]_vars => [Port!Next]_(Port!vars)
<1> SUFFICES ASSUME Inv, [Next]_vars PROVE Port!Next \/ UNCHANGED <<Stated, Ran, answer>>
  BY DEF Port!vars, Stated, Ran
<1> USE DEF callers, keys, group, work, bounds
<1>t. TypeOK /\ (\A c \in Consumer : Hand(c)) /\ DOMAIN Stated = Rpc
  BY DEF Inv, Stated
<1>1. CASE UNCHANGED <<caller, done, answer>>
  BY <1>1 DEF Stated, Ran
<1>2. ASSUME NEW m \in Rpc, Publish(m)
      PROVE  Port!Submit(m) \/ UNCHANGED <<Stated, Ran, answer>>
  <2>1. Stated' = [Stated EXCEPT ![m] = "open"]
    BY <1>2, <1>t, PortMove DEF Publish
  <2>2. (Stated[m] = "new" \/ Stated[m] = "open") /\ UNCHANGED <<Ran, answer>>
    BY <1>2 DEF Publish, Stated, Ran
  <2>3. CASE Stated[m] = "new"
    BY <2>1, <2>2, <2>3 DEF Port!Submit, Port!Become, Stated, Ran
  <2>4. CASE Stated[m] = "open"
    <3>1. Stated = [n \in Rpc |-> Stated[n]]
      BY DEF Stated
    <3> QED
      BY <2>1, <2>2, <2>4, <3>1
  <2> QED
    BY <2>2, <2>3, <2>4
<1>3. ASSUME NEW m \in Rpc, Reject(m) \/ GiveUp(m) PROVE Port!GiveUp(m)
  <2>1. Stated' = [Stated EXCEPT ![m] = "gaveUp"]
    BY <1>3, <1>t, PortMove DEF Reject, GiveUp
  <2>2. Stated[m] = "open" /\ UNCHANGED <<Ran, answer>>
    BY <1>3 DEF Reject, GiveUp, Stated, Ran
  <2> QED
    BY <2>1, <2>2 DEF Port!GiveUp, Port!Become, Stated, Ran
<1>4. ASSUME NEW m \in Rpc, Take(m), ~UNCHANGED callers
      PROVE  Head(list[m]) \in Result /\ Port!Answer(m, Head(list[m]))
  <2>1. Become(m, "answered") /\ answer' = [answer EXCEPT ![m] = Head(list[m])]
    BY <1>4 DEF Take
  <2>2. Stated' = [Stated EXCEPT ![m] = "answered"]
    BY <2>1, <1>t, PortMove
  <2>3. Stated[m] = "open" /\ UNCHANGED Ran
    BY <1>4, <1>t DEF Take, Stated, Ran
  <2>4. Head(list[m]) \in Ran[m] /\ Head(list[m]) \in Result
    <3>1. list[m] \in Seq(Result) /\ list[m] # <<>>
      BY <1>4, <1>t DEF Take, TypeOK
    <3>2. Head(list[m]) \in Members(list[m]) /\ Head(list[m]) \in Result
      BY <3>1, TailMembers
    <3> QED
      BY <3>2, RanMembers DEF Inv, Own
  <2> QED
    BY <2>1, <2>2, <2>3, <2>4 DEF Port!Answer, Port!Become, Stated, Ran
<1>5. ASSUME NEW c \in Consumer, Handle(c)
      PROVE  \E m \in Rpc, x \in Result : Port!Run(m, x)
  <2> DEFINE m == stream[inHand[c]]
  <2>1. m \in Rpc
    BY <1>5, <1>t DEF Handle, Hand
  <2>2. PICK x \in Result : done' = [done EXCEPT ![m] = Append(@, x)]
    BY <1>5 DEF Handle
  <2>3. Stated' = Stated /\ answer' = answer
    BY <1>5 DEF Handle, Stated
  <2>4. Stated[m] \notin {"new", "rejected"}
    <3>1. inHand[c] \in 1 .. last
      BY <1>5, <1>t, Holding DEF Handle
    <3>2. inHand[c] \in DOMAIN stream
      BY <3>1, <1>t DEF TypeOK
    <3>3. caller[m] # "new"
      BY <2>1, <3>2 DEF Inv, Traceless
    <3> HIDE DEF m
    <3> QED
      BY <2>1, <3>3, <1>t DEF Stated, TypeOK
  <2> HIDE DEF m
  <2>5. Members(Append(done[m], x)) = Members(done[m]) \cup {x}
    BY <2>1, <1>t, AppendMembers DEF TypeOK
  <2>6. \A n \in Rpc : Members(done'[n]) = IF n = m THEN Members(done[n]) \cup {x}
                                                    ELSE Members(done[n])
    <3>1. \A n \in Rpc : done'[n] = IF n = m THEN Append(done[m], x) ELSE done[n]
      BY <2>1, <2>2, <1>t DEF TypeOK
    <3> QED
      BY <2>5, <3>1
  <2>7. Ran' = [Ran EXCEPT ![m] = @ \cup {x}]
    <3>1. Ran = [n \in Rpc |-> Members(done[n])] /\ Ran' = [n \in Rpc |-> Members(done'[n])]
      BY DEF Ran, Members
    <3> QED
      BY <2>1, <2>6, <3>1
  <2> QED
    BY <2>1, <2>3, <2>4, <2>7 DEF Port!Run, Stated, Ran
<1> QED
  BY <1>1, <1>2, <1>3, <1>4, <1>5
  DEF Port!Next, Next, Work, vars, Take, Vanish, Start, Stop, Read, ReadNothing, Fetch,
      Push, Expire, Ack, Finish, Crash, Off

\* Every behaviour of the adapter is one the port allows: an answer is the
\* result of a run of the caller's own call, and no call runs that was not made.
THEOREM Refinement == Spec => PortSpec
<1>1. Init => Port!Init
  BY PortInit
<1>2. Inv /\ [Next]_vars => [Port!Next]_(Port!vars)
  BY PortStep
<1> QED
  BY <1>1, <1>2, InvCorrect, PTL DEF Spec, PortSpec, Port!Spec
=============================================================================
