-------------------------- MODULE KafkaQueueProofs --------------------------
(***************************************************************************)
(* Proofs about KafkaQueue for any sets of calls, partitions, consumers    *)
(* and results, and any numbers of starts, crashes, assignments and        *)
(* failures; and, at the end, about KafkaRPC for any results and runs.     *)
(***************************************************************************)
EXTENDS KafkaQueue, FiniteSetTheorems, SequenceTheorems, TLAPS

\* The consumers whose handler is still to run the entry i of p.
Holders(p, i) == {c \in Consumer : inHand[c] = <<p, i>> /\ stage[c] = "handle"}

\* The entry i of p has been handled, and answered.
Settled(p, i) ==
  /\ runs[p][i] > 0
  /\ faults = 0 /\ log[p][i] \in Rpc => replies[log[p][i]] # <<>>

\* What the goroutine of c has in hand, by its stage: all before it is settled.
Hand(c) ==
  /\ inHand[c] # None <=> stage[c] \in {"handle", "respond", "commit"}
  /\ inHand[c] # None => \A j \in 1 .. inHand[c][2] - 1 : Settled(inHand[c][1], j)
  /\ stage[c] = "respond" =>
       runs[inHand[c][1]][inHand[c][2]] > 0 /\ Request(c) \in Rpc /\ outcome[c] \in Result
  /\ stage[c] = "commit" => Settled(inHand[c][1], inHand[c][2])

\* An entry handed out since the assignment is settled, or in its owner's hand.
HandedOut(p) == \A i \in 1 .. pos[p] :
  Settled(p, i) \/ \E c \in Consumer : owner[p] = c /\ inHand[c] = <<p, i>>

\* What is committed is settled.
Kept(p) == \A i \in 1 .. committed[p] : Settled(p, i)

\* Each run of an entry, made or still to come, is paid for by an assignment
\* that went back before it, but for one.
Counted(p, i) ==
  /\ IsFiniteSet(Holders(p, i))
  /\ runs[p][i] + Cardinality(Holders(p, i)) + (IF i > pos[p] THEN 1 ELSE 0) <= rewound[p][i] + 1

Inv ==
  /\ TypeOK
  /\ \A c \in Consumer : Hand(c)
  /\ \A p \in Partition : HandedOut(p)
  /\ \A p \in Partition : Kept(p)
  /\ \A p \in Partition : \A i \in DOMAIN log[p] : Counted(p, i)

-----------------------------------------------------------------------------
LEMMA AppendEffect ==
  ASSUME NEW S, NEW s \in Seq(S), NEW e \in S
  PROVE  /\ Append(s, e) \in Seq(S) /\ Len(Append(s, e)) = Len(s) + 1 /\ Append(s, e) # <<>>
         /\ Len(s) \in Nat /\ Append(s, e)[Len(s) + 1] = e
         /\ \A i \in 1 .. Len(s) : Append(s, e)[i] = s[i]
OBVIOUS

\* A request is written at the end of one partition.
LEMMA WriteEffect ==
  ASSUME TypeOK, NEW m \in Call, Write(m)
  PROVE  /\ log' \in [Partition -> Seq(Call)]
         /\ runs' \in [Partition -> Seq(Nat)] /\ rewound' \in [Partition -> Seq(Nat)]
         /\ \A p \in Partition :
              /\ Len(log[p]) \in Nat /\ Len(log'[p]) \in Nat /\ Len(log[p]) <= Len(log'[p])
              /\ Len(runs'[p]) = Len(log'[p]) /\ Len(rewound'[p]) = Len(log'[p])
              /\ \A i \in 1 .. Len(log[p]) : /\ log'[p][i] = log[p][i]
                                             /\ runs'[p][i] = runs[p][i]
                                             /\ rewound'[p][i] = rewound[p][i]
              /\ \A i \in 1 .. Len(log'[p]) : i \in 1 .. Len(log[p]) \/
                   (i = Len(log[p]) + 1 /\ runs'[p][i] = 0 /\ rewound'[p][i] = 0)
<1>1. PICK q \in Partition : /\ log' = [log EXCEPT ![q] = Append(@, m)]
                             /\ runs' = [runs EXCEPT ![q] = Append(@, 0)]
                             /\ rewound' = [rewound EXCEPT ![q] = Append(@, 0)]
  BY DEF Write
<1>2. /\ log \in [Partition -> Seq(Call)]
      /\ runs \in [Partition -> Seq(Nat)] /\ rewound \in [Partition -> Seq(Nat)]
      /\ \A p \in Partition : Len(runs[p]) = Len(log[p]) /\ Len(rewound[p]) = Len(log[p])
      /\ \A p \in Partition : Len(log[p]) \in Nat
  BY DEF TypeOK
<1> DEFINE l == Append(log[q], m)
           r == Append(runs[q], 0)
           w == Append(rewound[q], 0)
<1>3. /\ l \in Seq(Call) /\ Len(l) = Len(log[q]) + 1
      /\ \A i \in 1 .. Len(log[q]) : l[i] = log[q][i]
  BY <1>2, AppendEffect
<1>4. /\ r \in Seq(Nat) /\ Len(r) = Len(log[q]) + 1 /\ r[Len(log[q]) + 1] = 0
      /\ \A i \in 1 .. Len(log[q]) : r[i] = runs[q][i]
  <2>1. runs[q] \in Seq(Nat) /\ Len(runs[q]) = Len(log[q]) /\ 0 \in Nat
    BY <1>2
  <2> QED
    BY <2>1, AppendEffect
<1>5. /\ w \in Seq(Nat) /\ Len(w) = Len(log[q]) + 1 /\ w[Len(log[q]) + 1] = 0
      /\ \A i \in 1 .. Len(log[q]) : w[i] = rewound[q][i]
  <2>1. rewound[q] \in Seq(Nat) /\ Len(rewound[q]) = Len(log[q]) /\ 0 \in Nat
    BY <1>2
  <2> QED
    BY <2>1, AppendEffect
<1>6. /\ \A p \in Partition : log'[p] = IF p = q THEN l ELSE log[p]
      /\ \A p \in Partition : runs'[p] = IF p = q THEN r ELSE runs[p]
      /\ \A p \in Partition : rewound'[p] = IF p = q THEN w ELSE rewound[p]
      /\ log' = [log EXCEPT ![q] = l] /\ runs' = [runs EXCEPT ![q] = r]
      /\ rewound' = [rewound EXCEPT ![q] = w]
  BY <1>1, <1>2
<1> HIDE DEF l, r, w
<1>7. /\ log' \in [Partition -> Seq(Call)] /\ runs' \in [Partition -> Seq(Nat)]
      /\ rewound' \in [Partition -> Seq(Nat)]
  BY <1>2, <1>3, <1>4, <1>5, <1>6
<1>8. ASSUME NEW p \in Partition
      PROVE  /\ Len(log[p]) \in Nat /\ Len(log'[p]) \in Nat /\ Len(log[p]) <= Len(log'[p])
             /\ Len(runs'[p]) = Len(log'[p]) /\ Len(rewound'[p]) = Len(log'[p])
             /\ \A i \in 1 .. Len(log[p]) : /\ log'[p][i] = log[p][i]
                                            /\ runs'[p][i] = runs[p][i]
                                            /\ rewound'[p][i] = rewound[p][i]
             /\ \A i \in 1 .. Len(log'[p]) : i \in 1 .. Len(log[p]) \/
                  (i = Len(log[p]) + 1 /\ runs'[p][i] = 0 /\ rewound'[p][i] = 0)
  <2>1. CASE p = q
    BY <1>2, <1>3, <1>4, <1>5, <1>6, <2>1
  <2>2. CASE p # q
    BY <1>2, <1>6, <2>2
  <2> QED
    BY <2>1, <2>2
<1> QED
  BY <1>7, <1>8

\* An assignment resumes at the committed offsets, and counts what it repeats.
LEMMA AssignEffect ==
  ASSUME TypeOK, NEW members \in SUBSET Consumer, Assign(members)
  PROVE  /\ owner' \in [Partition -> Consumer \cup {None}]
         /\ pos' = committed /\ generation' = generation + 1
         /\ rewound' \in [Partition -> Seq(Nat)]
         /\ \A p \in Partition : Len(rewound'[p]) = Len(log[p])
         /\ \A p \in Partition : \A i \in 1 .. Len(log[p]) :
              rewound'[p][i] = rewound[p][i] + IF committed[p] < i /\ i <= pos[p] THEN 1 ELSE 0
<1>1. ASSUME NEW p \in Partition
      PROVE  /\ rewound'[p] \in Seq(Nat) /\ Len(rewound'[p]) = Len(log[p])
             /\ \A i \in 1 .. Len(log[p]) :
                  rewound'[p][i] = rewound[p][i] + IF committed[p] < i /\ i <= pos[p] THEN 1 ELSE 0
  <2> DEFINE n == Len(log[p])
             s == [i \in 1 .. n |->
                     rewound[p][i] + IF committed[p] < i /\ i <= pos[p] THEN 1 ELSE 0]
  <2>1. rewound'[p] = s /\ n \in Nat
    BY DEF Assign, TypeOK
  <2>2. \A i \in 1 .. n : rewound[p][i] \in Nat
    BY SMTT(20) DEF TypeOK
  <2>3. s \in [1 .. n -> Nat]
    BY <2>2
  <2>4. s \in Seq(Nat)
    BY <2>1, <2>3, SeqDef
  <2>5. DOMAIN s = 1 .. n /\ DOMAIN s = 1 .. Len(s) /\ Len(s) \in Nat
    BY <2>4
  <2>6. Len(s) = n
    BY <2>1, <2>5
  <2> QED
    BY <2>1, <2>4, <2>6
<1>2. rewound' \in [Partition -> Seq(Nat)]
  BY <1>1 DEF Assign
<1>3. owner' \in [Partition -> Consumer \cup {None}]
  BY DEF Assign
<1> QED
  BY <1>1, <1>2, <1>3 DEF Assign

\* What is in hand is an entry.
LEMMA Holding ==
  ASSUME TypeOK, NEW c \in Consumer, inHand[c] # None
  PROVE  \E q \in Partition, k \in Nat :
           /\ inHand[c] = <<q, k>> /\ inHand[c][1] = q /\ inHand[c][2] = k
           /\ k \in 1 .. Len(log[q]) /\ Len(log[q]) \in Nat
<1>1. inHand[c] \in Partition \X Nat /\ inHand[c][2] \in DOMAIN log[inHand[c][1]]
  BY DEF TypeOK
<1>2. PICK q \in Partition, k \in Nat : inHand[c] = <<q, k>> /\ inHand[c][1] = q /\ inHand[c][2] = k
  BY <1>1
<1>3. log[q] \in Seq(Call)
  BY <1>2 DEF TypeOK
<1> QED
  BY <1>1, <1>2, <1>3

\* A run is counted at the entry in hand.
LEMMA HandleEffect ==
  ASSUME TypeOK, NEW c \in Consumer, Hand(c), Handle(c)
  PROVE  /\ runs' \in [Partition -> Seq(Nat)]
         /\ \A p \in Partition : Len(runs'[p]) = Len(runs[p])
         /\ \A p \in Partition : \A i \in 1 .. Len(log[p]) :
              runs'[p][i] = IF inHand[c] = <<p, i>> THEN runs[p][i] + 1 ELSE runs[p][i]
<1>1. inHand[c] # None
  BY DEF Hand, Handle
<1>2. PICK q \in Partition, k \in Nat :
        /\ inHand[c] = <<q, k>> /\ inHand[c][1] = q /\ inHand[c][2] = k
        /\ k \in 1 .. Len(log[q])
  BY <1>1, Holding
<1> DEFINE s == [runs[q] EXCEPT ![k] = @ + 1]
<1>3. runs[q] \in Seq(Nat) /\ Len(runs[q]) = Len(log[q]) /\ runs[q][k] \in Nat
  <2>1. runs[q] \in Seq(Nat) /\ Len(runs[q]) = Len(log[q])
    BY <1>2 DEF TypeOK
  <2> QED
    BY <1>2, <2>1
<1>4. s \in Seq(Nat) /\ Len(s) = Len(runs[q])
      /\ \A i \in 1 .. Len(runs[q]) : s[i] = IF i = k THEN runs[q][k] + 1 ELSE runs[q][i]
  BY <1>2, <1>3, ExceptSeq
<1>5. runs' = [runs EXCEPT ![q] = s]
  BY <1>2 DEF Handle
<1> HIDE DEF s
<1>6. runs' \in [Partition -> Seq(Nat)] /\ \A p \in Partition : runs'[p] = IF p = q THEN s ELSE runs[p]
  BY <1>4, <1>5 DEF TypeOK
<1>7. ASSUME NEW p \in Partition, NEW i \in 1 .. Len(log[p])
      PROVE  runs'[p][i] = IF inHand[c] = <<p, i>> THEN runs[p][i] + 1 ELSE runs[p][i]
  <2>1. CASE p = q
    <3>1. runs'[p][i] = IF i = k THEN runs[q][k] + 1 ELSE runs[q][i]
      BY <1>3, <1>4, <1>6, <2>1
    <3>2. inHand[c] = <<p, i>> <=> i = k
      BY <1>2, <2>1
    <3> QED
      BY <2>1, <3>1, <3>2
  <2>2. CASE p # q
    BY <1>2, <1>6, <2>2
  <2> QED
    BY <2>1, <2>2
<1> QED
  BY <1>4, <1>6, <1>7

LEMMA MemberIsConsumer == Member \in SUBSET Consumer
BY DEF Member

-----------------------------------------------------------------------------
LEMMA InitInv == Init => Inv
<1> SUFFICES ASSUME Init PROVE Inv
  OBVIOUS
<1> USE DEF Init
<1>1. <<>> \in Seq(Call) /\ <<>> \in Seq(Nat) /\ <<>> \in Seq(Result) /\ Len(<<>>) = 0
  OBVIOUS
<1>2. TypeOK
  BY <1>1, KafkaAssumption DEF TypeOK
<1>3. \A c \in Consumer : Hand(c)
  BY DEF Hand
<1>4. \A p \in Partition : HandedOut(p) /\ Kept(p)
  BY DEF HandedOut, Kept
<1>5. \A p \in Partition : \A i \in DOMAIN log[p] : Counted(p, i)
  BY <1>1
<1> QED
  BY <1>2, <1>3, <1>4, <1>5 DEF Inv

LEMMA BoundsGrow ==
  ASSUME TypeOK, [Next]_vars
  PROVE  /\ starts' \in 0 .. MaxStarts /\ crashes' \in 0 .. MaxCrashes
         /\ rebalances' \in 0 .. MaxRebalances /\ faults' \in 0 .. MaxFaults
         /\ faults \in Nat /\ faults' \in Nat /\ faults <= faults'
<1>1. /\ starts \in 0 .. MaxStarts /\ crashes \in 0 .. MaxCrashes
      /\ rebalances \in 0 .. MaxRebalances /\ faults \in 0 .. MaxFaults
      /\ MaxStarts \in Nat /\ MaxCrashes \in Nat /\ MaxRebalances \in Nat /\ MaxFaults \in Nat
  BY KafkaAssumption DEF TypeOK
<1>2. /\ starts' = starts \/ (starts < MaxStarts /\ starts' = starts + 1)
      /\ crashes' = crashes \/ (crashes < MaxCrashes /\ crashes' = crashes + 1)
      /\ rebalances' = rebalances \/ (rebalances < MaxRebalances /\ rebalances' = rebalances + 1)
      /\ faults' = faults \/ (faults < MaxFaults /\ faults' = faults + 1)
  BY DEF Next, Work, vars, bounds, Publish, Reject, WriteLate, Rebalance, Start, Stop, Loop, Fetch,
         FetchCancelled, Handle, Respond, Commit, Finish, Crash, Fault
<1> QED
  BY <1>1, <1>2

\* Each step keeps the type invariant.
LEMMA TypeStep ==
  TypeOK /\ (\A c \in Consumer : Hand(c)) /\ [Next]_vars => TypeOK'
<1> SUFFICES ASSUME TypeOK, \A c \in Consumer : Hand(c), [Next]_vars PROVE TypeOK'
  OBVIOUS
<1> USE DEF assignment, work, bounds
<1>l. \A p \in Partition : log[p] \in Seq(Call) /\ DOMAIN log[p] = 1 .. Len(log[p]) /\ Len(log[p]) \in Nat
  BY DEF TypeOK
<1>b. /\ starts' \in 0 .. MaxStarts /\ crashes' \in 0 .. MaxCrashes
      /\ rebalances' \in 0 .. MaxRebalances /\ faults' \in 0 .. MaxFaults
  BY BoundsGrow
<1>1. ASSUME NEW m \in Call, Publish(m) \/ WriteLate(m) PROVE TypeOK'
  <2>3. caller' \in [Call -> {"new", "retrying", "sent", "rejected", "late"}]
    <3>1. caller' \in {[caller EXCEPT ![m] = state] : state \in {"sent", "retrying", "late"}}
      BY <1>1 DEF Publish, WriteLate
    <3> QED
      BY <3>1 DEF TypeOK
  <2>1. CASE Write(m)
    <3>1. /\ log' \in [Partition -> Seq(Call)]
          /\ runs' \in [Partition -> Seq(Nat)] /\ rewound' \in [Partition -> Seq(Nat)]
          /\ \A p \in Partition :
               /\ Len(log[p]) <= Len(log'[p]) /\ Len(log'[p]) \in Nat
               /\ Len(runs'[p]) = Len(log'[p]) /\ Len(rewound'[p]) = Len(log'[p])
      BY <2>1, WriteEffect
    <3>2. \A p \in Partition : pos'[p] <= Len(log'[p]) /\ committed'[p] <= Len(log'[p])
      BY <1>1, <3>1, <1>l, SMTT(20) DEF Publish, WriteLate, TypeOK
    <3>3. \A c \in Consumer : inHand'[c] # None => inHand'[c][2] \in DOMAIN log'[inHand'[c][1]]
      <4> SUFFICES ASSUME NEW c \in Consumer, inHand[c] # None
                   PROVE  inHand[c][2] \in DOMAIN log'[inHand[c][1]]
        BY <1>1 DEF Publish, WriteLate
      <4>1. PICK q \in Partition, k \in Nat :
              inHand[c][1] = q /\ inHand[c][2] = k /\ k \in 1 .. Len(log[q])
        BY Holding
      <4>2. log'[q] \in Seq(Call) /\ Len(log[q]) <= Len(log'[q])
        BY <3>1
      <4>3. k \in DOMAIN log'[q]
        BY <4>1, <4>2, <1>l
      <4> QED
        BY <4>1, <4>3
    <3> QED
      BY <1>1, <1>b, <3>1, <3>2, <3>3, <2>3 DEF Publish, WriteLate, TypeOK
  <2>2. CASE UNCHANGED <<log, runs, rewound>>
    BY <1>1, <1>b, <2>2, <2>3 DEF Publish, WriteLate, TypeOK
  <2> QED
    BY <1>1, <2>1, <2>2 DEF Publish, WriteLate
<1>2. ASSUME NEW m \in Call, Reject(m) PROVE TypeOK'
  BY <1>2 DEF Reject, TypeOK
<1>3. ASSUME NEW members \in SUBSET Consumer, Assign(members),
             UNCHANGED <<caller, log, replies, committed, runs>>,
             UNCHANGED work \/ \E c \in Consumer : Drop(c),
             status' \in [Consumer -> {"off", "running", "stopping"}],
             starts' \in 0 .. MaxStarts, crashes' \in 0 .. MaxCrashes,
             rebalances' \in 0 .. MaxRebalances, faults' \in 0 .. MaxFaults
      PROVE  TypeOK'
  <2>1. /\ owner' \in [Partition -> Consumer \cup {None}]
        /\ pos' = committed /\ generation' = generation + 1
        /\ rewound' \in [Partition -> Seq(Nat)]
        /\ \A p \in Partition : Len(rewound'[p]) = Len(log[p])
    BY <1>3, AssignEffect
  <2>2. /\ fetchedIn' \in [Consumer -> 0 .. generation'] /\ generation' \in Nat
        /\ outcome' \in [Consumer -> Result \cup {None}]
    <3>1. CASE UNCHANGED work
      BY <2>1, <3>1 DEF TypeOK
    <3>2. ASSUME NEW c \in Consumer, Drop(c)
          PROVE  /\ fetchedIn' \in [Consumer -> 0 .. generation'] /\ generation' \in Nat
                 /\ outcome' \in [Consumer -> Result \cup {None}]
      BY <2>1, <3>2 DEF Drop, TypeOK
    <3> QED
      BY <1>3, <3>1, <3>2
  <2>3. /\ inHand' \in [Consumer -> {None} \cup (Partition \X Nat)]
        /\ \A c \in Consumer : inHand'[c] # None => inHand'[c][2] \in DOMAIN log'[inHand'[c][1]]
        /\ stage' \in [Consumer -> {"idle", "fetch", "handle", "respond", "commit"}]
    <3>1. CASE UNCHANGED work
      BY <1>3, <3>1 DEF TypeOK
    <3>2. ASSUME NEW c \in Consumer, Drop(c)
          PROVE  /\ inHand' \in [Consumer -> {None} \cup (Partition \X Nat)]
                 /\ \A d \in Consumer :
                      inHand'[d] # None => inHand'[d][2] \in DOMAIN log'[inHand'[d][1]]
                 /\ stage' \in [Consumer -> {"idle", "fetch", "handle", "respond", "commit"}]
      BY <1>3, <3>2 DEF Drop, Goto, TypeOK
    <3> QED
      BY <1>3, <3>1, <3>2
  <2>4. pos' \in [Partition -> Nat] /\ committed' \in [Partition -> Nat]
    BY <1>3, <2>1 DEF TypeOK
  <2>5. \A p \in Partition : pos'[p] <= Len(log'[p]) /\ committed'[p] <= Len(log'[p])
    BY <1>3, <2>1 DEF TypeOK
  <2> QED
    BY <1>3, <2>1, <2>2, <2>3, <2>4, <2>5 DEF TypeOK
<1>4. CASE Rebalance
  <2>1. status' \in [Consumer -> {"off", "running", "stopping"}]
    BY <1>4 DEF Rebalance, TypeOK
  <2> QED
    BY <1>3, <1>4, <1>b, <2>1, MemberIsConsumer DEF Rebalance
<1>5. ASSUME NEW c \in Consumer, Start(c) PROVE TypeOK'
  <2>1. Member \cup {c} \in SUBSET Consumer
    BY MemberIsConsumer
  <2>2. status' \in [Consumer -> {"off", "running", "stopping"}]
    BY <1>5 DEF Start, TypeOK
  <2> QED
    BY <1>3, <1>5, <1>b, <2>1, <2>2 DEF Start
<1>6. ASSUME NEW c \in Consumer, Finish(c) \/ Crash(c) PROVE TypeOK'
  <2>1. Member \ {c} \in SUBSET Consumer
    BY MemberIsConsumer
  <2>2. Off(c)
    BY <1>6 DEF Finish, Crash
  <2>3. status' \in [Consumer -> {"off", "running", "stopping"}]
    BY <2>2 DEF Off, TypeOK
  <2> QED
    BY <1>3, <1>b, <2>1, <2>2, <2>3 DEF Off
<1>7. ASSUME NEW c \in Consumer, Loop(c) \/ FetchCancelled(c) \/ Stop(c) PROVE TypeOK'
  <2>1. stage' \in [Consumer -> {"idle", "fetch", "handle", "respond", "commit"}]
    <3>1. \/ stage' = stage
          \/ \E place \in {"fetch", "idle"} : stage' = [stage EXCEPT ![c] = place]
      BY <1>7 DEF Loop, FetchCancelled, Stop, Goto
    <3> QED
      BY <3>1 DEF TypeOK
  <2>2. status' \in [Consumer -> {"off", "running", "stopping"}]
    <3>1. status' = status \/ status' = [status EXCEPT ![c] = "stopping"]
      BY <1>7 DEF Loop, FetchCancelled, Stop
    <3> QED
      BY <3>1 DEF TypeOK
  <2>3. UNCHANGED <<caller, log, replies, assignment, committed, inHand,
                    fetchedIn, outcome, runs, bounds>>
    BY <1>7 DEF Loop, FetchCancelled, Stop
  <2> QED
    BY <2>1, <2>2, <2>3 DEF TypeOK
<1>8. ASSUME NEW c \in Consumer, Fetch(c) PROVE TypeOK'
  <2>1. PICK p \in Partition : /\ pos[p] < Len(log[p])
                               /\ pos' = [pos EXCEPT ![p] = @ + 1]
                               /\ inHand' = [inHand EXCEPT ![c] = <<p, pos[p] + 1>>]
    BY <1>8 DEF Fetch
  <2>2. pos[p] \in Nat /\ pos[p] + 1 \in DOMAIN log[p] /\ pos[p] + 1 <= Len(log[p])
    BY <2>1, <1>l, SMTT(20) DEF TypeOK
  <2>3. pos' \in [Partition -> Nat] /\ \A q \in Partition : pos'[q] <= Len(log[q])
    <3>1. pos' = [pos EXCEPT ![p] = pos[p] + 1] /\ pos[p] + 1 \in Nat
      BY <2>1, <2>2
    <3>2. pos \in [Partition -> Nat] /\ \A q \in Partition : pos[q] <= Len(log[q])
      BY DEF TypeOK
    <3> QED
      BY <2>2, <3>1, <3>2
  <2>4. inHand' \in [Consumer -> {None} \cup (Partition \X Nat)]
    <3>1. <<p, pos[p] + 1>> \in Partition \X Nat
      BY <2>2
    <3> QED
      BY <2>1, <3>1 DEF TypeOK
  <2>5. \A d \in Consumer : inHand'[d] # None => inHand'[d][2] \in DOMAIN log[inHand'[d][1]]
    BY <2>1, <2>2 DEF TypeOK
  <2>6. /\ stage' \in [Consumer -> {"idle", "fetch", "handle", "respond", "commit"}]
        /\ fetchedIn' \in [Consumer -> 0 .. generation]
    <3>1. generation \in 0 .. generation
      BY DEF TypeOK
    <3> QED
      BY <1>8, <3>1 DEF Fetch, Goto, TypeOK
  <2> QED
    BY <1>8, <2>3, <2>4, <2>5, <2>6 DEF Fetch, TypeOK
<1>9. ASSUME NEW c \in Consumer, Handle(c) PROVE TypeOK'
  <2>1. /\ runs' \in [Partition -> Seq(Nat)]
        /\ \A p \in Partition : Len(runs'[p]) = Len(runs[p])
    BY <1>9, HandleEffect
  <2>2. stage' \in [Consumer -> {"idle", "fetch", "handle", "respond", "commit"}]
    BY <1>9 DEF Handle, Goto, TypeOK
  <2>3. PICK x \in Result : outcome' = [outcome EXCEPT ![c] = x]
    BY <1>9 DEF Handle
  <2>4. outcome' \in [Consumer -> Result \cup {None}]
    BY <2>3 DEF TypeOK
  <2> QED
    BY <1>9, <2>1, <2>2, <2>4 DEF Handle, TypeOK
<1>10. ASSUME NEW c \in Consumer, Respond(c) PROVE TypeOK'
  <2> DEFINE m == Request(c)
  <2>1. m \in Rpc /\ outcome[c] \in Result
    BY <1>10 DEF Respond, Hand
  <2>2. replies' = replies \/ replies' = [replies EXCEPT ![m] = Append(@, outcome[c])]
    BY <1>10 DEF Respond
  <2> HIDE DEF m
  <2>3. Append(replies[m], outcome[c]) \in Seq(Result)
    BY <2>1, AppendEffect DEF TypeOK
  <2>4. replies' \in [Rpc -> Seq(Result)]
    BY <2>1, <2>2, <2>3 DEF TypeOK
  <2>5. stage' \in [Consumer -> {"idle", "fetch", "handle", "respond", "commit"}]
    BY <1>10 DEF Respond, Goto, TypeOK
  <2> QED
    BY <1>10, <1>b, <2>4, <2>5 DEF Respond, TypeOK
<1>11. ASSUME NEW c \in Consumer, Commit(c) PROVE TypeOK'
  <2>1. inHand[c] # None
    BY <1>11 DEF Commit, Hand
  <2>2. PICK q \in Partition, k \in Nat :
          inHand[c][1] = q /\ inHand[c][2] = k /\ k \in 1 .. Len(log[q])
    BY <2>1, Holding
  <2>3. committed' = committed \/ committed' = [committed EXCEPT ![q] = k]
    BY <1>11, <2>2 DEF Commit, CommitIt
  <2>4. committed' \in [Partition -> Nat] /\ \A p \in Partition : committed'[p] <= Len(log[p])
    <3>1. committed \in [Partition -> Nat] /\ \A p \in Partition : committed[p] <= Len(log[p])
      BY DEF TypeOK
    <3>2. k <= Len(log[q])
      BY <2>2, <1>l
    <3> QED
      BY <2>2, <2>3, <3>1, <3>2
  <2>5. /\ stage' \in [Consumer -> {"idle", "fetch", "handle", "respond", "commit"}]
        /\ inHand' \in [Consumer -> {None} \cup (Partition \X Nat)]
        /\ \A d \in Consumer : inHand'[d] # None => inHand'[d][2] \in DOMAIN log[inHand'[d][1]]
    BY <1>11 DEF Commit, Done, Drop, Goto, TypeOK
  <2>6. fetchedIn' \in [Consumer -> 0 .. generation] /\ outcome' \in [Consumer -> Result \cup {None}]
    BY <1>11 DEF Commit, Done, Drop, TypeOK
  <2> QED
    BY <1>11, <1>b, <2>4, <2>5, <2>6 DEF Commit, Done, TypeOK
<1>12. CASE UNCHANGED vars
  BY <1>12 DEF vars, TypeOK
<1> QED
  BY <1>1, <1>2, <1>4, <1>5, <1>6, <1>7, <1>8, <1>9, <1>10, <1>11, <1>12 DEF Next, Work

-----------------------------------------------------------------------------
(* Nothing that was done is undone. *)

LEMMA RepliesGrow ==
  ASSUME Inv, [Next]_vars, NEW m \in Rpc, replies[m] # <<>>
  PROVE  replies'[m] # <<>>
<1> USE DEF assignment, work, bounds
<1>1. CASE UNCHANGED replies
  BY <1>1
<1>2. ASSUME NEW c \in Consumer, Respond(c) PROVE replies'[m] # <<>>
  <2>1. Request(c) \in Rpc /\ outcome[c] \in Result
    BY <1>2 DEF Inv, Hand, Respond
  <2>2. replies' = replies \/ replies' = [replies EXCEPT ![Request(c)] = Append(@, outcome[c])]
    BY <1>2 DEF Respond
  <2>3. replies \in [Rpc -> Seq(Result)]
    BY DEF Inv, TypeOK
  <2>4. Append(replies[Request(c)], outcome[c]) # <<>>
    BY <2>1, <2>3, AppendEffect
  <2> QED
    BY <2>1, <2>2, <2>3, <2>4
<1> QED
  BY <1>1, <1>2
  DEF Next, Work, vars, Publish, Reject, WriteLate, Rebalance, Start, Stop, Loop, Fetch,
      FetchCancelled, Handle, Commit, Done, Finish, Crash, Off, Drop

LEMMA EntriesStay ==
  ASSUME Inv, [Next]_vars, NEW p \in Partition, NEW i \in 1 .. Len(log[p])
  PROVE  /\ i \in 1 .. Len(log'[p]) /\ log'[p][i] = log[p][i]
         /\ runs[p][i] \in Nat /\ runs'[p][i] \in Nat /\ runs[p][i] <= runs'[p][i]
<1> USE DEF assignment, work, bounds
<1>t. TypeOK /\ \A c \in Consumer : Hand(c)
  BY DEF Inv
<1>n. runs[p][i] \in Nat
  <2>1. runs[p] \in Seq(Nat) /\ Len(runs[p]) = Len(log[p])
    BY <1>t DEF TypeOK
  <2> QED
    BY <2>1
<1>1. CASE UNCHANGED <<log, runs>>
  BY <1>1, <1>n
<1>2. ASSUME NEW m \in Call, Write(m)
      PROVE  i \in 1 .. Len(log'[p]) /\ log'[p][i] = log[p][i] /\ runs'[p][i] = runs[p][i]
  <2>1. /\ Len(log[p]) \in Nat /\ Len(log'[p]) \in Nat /\ Len(log[p]) <= Len(log'[p])
        /\ log'[p][i] = log[p][i] /\ runs'[p][i] = runs[p][i]
    BY <1>2, <1>t, WriteEffect
  <2> QED
    BY <2>1
<1>3. ASSUME NEW c \in Consumer, Handle(c)
      PROVE  log' = log /\ runs'[p][i] \in Nat /\ runs[p][i] <= runs'[p][i]
  <2>1. runs'[p][i] = IF inHand[c] = <<p, i>> THEN runs[p][i] + 1 ELSE runs[p][i]
    BY <1>3, <1>t, HandleEffect
  <2> QED
    BY <1>3, <1>n, <2>1 DEF Handle
<1>4. UNCHANGED <<log, runs>> \/ (\E m \in Call : Write(m)) \/ \E c \in Consumer : Handle(c)
  BY DEF Next, Work, vars, Publish, Reject, WriteLate, Rebalance, Start, Stop, Loop, Fetch,
         FetchCancelled, Respond, Commit, Done, Finish, Crash, Off, Drop
<1>5. runs'[p][i] = runs[p][i] => runs'[p][i] \in Nat /\ runs[p][i] <= runs'[p][i]
  BY <1>n
<1> QED
  BY <1>n, <1>1, <1>2, <1>3, <1>4, <1>5

LEMMA SettledStays ==
  ASSUME Inv, [Next]_vars, NEW p \in Partition, NEW i \in 1 .. Len(log[p]), Settled(p, i)
  PROVE  Settled(p, i)'
<1>1. /\ log'[p][i] = log[p][i] /\ runs[p][i] > 0
      /\ runs[p][i] \in Nat /\ runs'[p][i] \in Nat /\ runs[p][i] <= runs'[p][i]
  BY EntriesStay DEF Settled
<1>2. faults \in Nat /\ faults' \in Nat /\ faults <= faults'
  BY BoundsGrow DEF Inv
<1>3. runs'[p][i] > 0 /\ (faults' = 0 => faults = 0)
  BY <1>1, <1>2
<1> QED
  BY <1>1, <1>3, RepliesGrow DEF Settled

-----------------------------------------------------------------------------
\* A consumer works on an entry only when all before it are settled.
LEMMA HandStep == Inv /\ [Next]_vars => \A c \in Consumer : Hand(c)'
<1> SUFFICES ASSUME Inv, [Next]_vars, NEW c \in Consumer PROVE Hand(c)'
  OBVIOUS
<1> USE DEF assignment, work, bounds
<1>t. TypeOK /\ Hand(c) /\ None \notin Partition \X Nat
  BY KafkaAssumption DEF Inv
<1>e. ASSUME inHand[c] # None
      PROVE  \E q \in Partition, k \in Nat :
               /\ inHand[c] = <<q, k>> /\ inHand[c][1] = q /\ inHand[c][2] = k
               /\ k \in 1 .. Len(log[q]) /\ Request(c) = log[q][k] /\ log'[q][k] = log[q][k]
               /\ runs[q][k] > 0 => runs'[q][k] > 0
               /\ Settled(q, k) => Settled(q, k)'
               /\ \A j \in 1 .. k - 1 : Settled(q, j)'
  <2>1. PICK q \in Partition, k \in Nat :
               /\ inHand[c] = <<q, k>> /\ inHand[c][1] = q /\ inHand[c][2] = k
               /\ k \in 1 .. Len(log[q]) /\ Len(log[q]) \in Nat
    BY <1>e, <1>t, Holding
  <2>2. log'[q][k] = log[q][k] /\ (runs[q][k] > 0 => runs'[q][k] > 0)
    BY <2>1, EntriesStay
  <2>3. Settled(q, k) => Settled(q, k)'
    BY <2>1, SettledStays
  <2>4. ASSUME NEW j \in 1 .. k - 1 PROVE Settled(q, j)'
    <3>1. j \in 1 .. Len(log[q])
      BY <2>1
    <3>2. Settled(q, j)
      BY <1>e, <1>t, <2>1 DEF Hand
    <3> QED
      BY <3>1, <3>2, SettledStays
  <2> QED
    BY <2>1, <2>2, <2>3, <2>4 DEF Request
<1>1. ASSUME inHand'[c] = inHand[c], stage'[c] = stage[c], outcome'[c] = outcome[c]
      PROVE  Hand(c)'
  <2>1. CASE inHand[c] = None
    BY <1>1, <1>t, <2>1 DEF Hand
  <2>2. CASE inHand[c] # None
    <3>1. PICK q \in Partition, k \in Nat :
               /\ inHand[c] = <<q, k>> /\ inHand[c][1] = q /\ inHand[c][2] = k
               /\ Request(c) = log[q][k] /\ log'[q][k] = log[q][k]
               /\ runs[q][k] > 0 => runs'[q][k] > 0
               /\ Settled(q, k) => Settled(q, k)'
               /\ \A j \in 1 .. k - 1 : Settled(q, j)'
      BY <2>2, <1>e
    <3>2. inHand'[c][1] = q /\ inHand'[c][2] = k /\ Request(c)' = Request(c)
      BY <1>1, <3>1 DEF Request
    <3>3. \A j \in 1 .. inHand'[c][2] - 1 : Settled(inHand[c][1], j)'
      BY <3>1, <3>2 DEF Settled
    <3>4. stage[c] = "commit" => Settled(inHand[c][1], inHand[c][2])'
      BY <3>1, <3>2, <1>t DEF Settled, Hand
    <3> QED
      BY <1>1, <1>t, <3>1, <3>2, <3>3, <3>4 DEF Hand
  <2> QED
    BY <2>1, <2>2
<1>2. ASSUME inHand'[c] = None, stage'[c] \in {"idle", "fetch"} PROVE Hand(c)'
  BY <1>2 DEF Hand
<1>3. ASSUME Fetch(c) PROVE Hand(c)'
  <2>1. PICK p \in Partition : /\ owner[p] = c /\ pos[p] < Len(log[p])
                               /\ inHand' = [inHand EXCEPT ![c] = <<p, pos[p] + 1>>]
    BY <1>3 DEF Fetch
  <2>2. inHand[c] = None /\ stage' = [stage EXCEPT ![c] = "handle"]
    BY <1>3, <1>t DEF Fetch, Goto, Hand
  <2>3. pos[p] \in Nat /\ log[p] \in Seq(Call) /\ Len(log[p]) \in Nat
    BY <1>t DEF TypeOK
  <2>4. ASSUME NEW j \in 1 .. pos[p] PROVE Settled(p, j)'
    <3>1. j \in 1 .. Len(log[p]) /\ <<p, j>> # None
      BY <2>1, <2>3, <1>t
    <3>2. Settled(p, j) \/ \E d \in Consumer : owner[p] = d /\ inHand[d] = <<p, j>>
      BY DEF Inv, HandedOut
    <3>3. Settled(p, j)
      BY <2>1, <2>2, <3>1, <3>2
    <3> QED
      BY <3>1, <3>3, SettledStays
  <2>5. /\ inHand'[c] = <<p, pos[p] + 1>> /\ inHand'[c][1] = p /\ inHand'[c][2] = pos[p] + 1
        /\ stage'[c] = "handle" /\ inHand'[c] # None
    <3>1. <<p, pos[p] + 1>> \in Partition \X Nat
      BY <2>3
    <3> QED
      BY <2>1, <2>2, <3>1, <1>t DEF TypeOK
  <2>6. (pos[p] + 1) - 1 = pos[p]
    BY <2>3
  <2>7. \A j \in 1 .. inHand'[c][2] - 1 : Settled(inHand[c][1], j)'
    BY <2>4, <2>5, <2>6 DEF Settled
  <2> QED
    BY <2>5, <2>7 DEF Hand
<1>4. ASSUME Handle(c) PROVE Hand(c)'
  <2>1. inHand[c] # None
    BY <1>4, <1>t DEF Handle, Hand
  <2>2. PICK q \in Partition, k \in Nat :
               /\ inHand[c] = <<q, k>> /\ inHand[c][1] = q /\ inHand[c][2] = k
               /\ k \in 1 .. Len(log[q]) /\ Request(c) = log[q][k] /\ log'[q][k] = log[q][k]
               /\ \A j \in 1 .. k - 1 : Settled(q, j)'
    BY <2>1, <1>e
  <2>3. runs'[q][k] > 0
    <3>1. runs'[q][k] = runs[q][k] + 1
      BY <1>4, <1>t, <2>2, HandleEffect
    <3> QED
      BY <2>2, <3>1, EntriesStay
  <2>4. /\ inHand'[c] = inHand[c] /\ Request(c)' = Request(c)
        /\ stage'[c] = IF Request(c) \in Rpc THEN "respond" ELSE "commit"
        /\ outcome'[c] \in Result
    BY <1>4, <1>t, <2>2 DEF Handle, Goto, Request, TypeOK
  <2>5. \A j \in 1 .. inHand'[c][2] - 1 : Settled(inHand[c][1], j)'
    BY <2>2, <2>4 DEF Settled
  <2>6. Request(c) \notin Rpc => Settled(inHand[c][1], inHand[c][2])'
    BY <2>2, <2>3, <2>4 DEF Settled, Request
  <2> QED
    BY <2>1, <2>2, <2>3, <2>4, <2>5, <2>6 DEF Hand
<1>5. ASSUME Respond(c) PROVE Hand(c)'
  <2>1. inHand[c] # None /\ stage[c] = "respond" /\ Request(c) \in Rpc /\ outcome[c] \in Result
    BY <1>5, <1>t DEF Respond, Hand
  <2>2. PICK q \in Partition, k \in Nat :
               /\ inHand[c] = <<q, k>> /\ inHand[c][1] = q /\ inHand[c][2] = k
               /\ Request(c) = log[q][k] /\ log'[q][k] = log[q][k]
               /\ runs[q][k] > 0 => runs'[q][k] > 0
               /\ \A j \in 1 .. k - 1 : Settled(q, j)'
    BY <2>1, <1>e
  <2>3. runs'[q][k] > 0
    BY <2>1, <2>2, <1>t DEF Hand
  <2>4. faults' = 0 => replies'[log[q][k]] # <<>>
    <3>1. replies \in [Rpc -> Seq(Result)] /\ faults \in Nat
      BY <1>t, BoundsGrow DEF TypeOK
    <3>2. Append(replies[Request(c)], outcome[c]) # <<>>
      BY <2>1, <3>1, AppendEffect
    <3>3. \/ replies' = [replies EXCEPT ![Request(c)] = Append(@, outcome[c])]
          \/ faults' = faults + 1
      BY <1>5 DEF Respond, Fault
    <3> QED
      BY <2>1, <2>2, <3>1, <3>2, <3>3
  <2>5. inHand'[c] = inHand[c] /\ stage'[c] = "commit"
    BY <1>5, <1>t DEF Respond, Goto, TypeOK
  <2>6. \A j \in 1 .. inHand'[c][2] - 1 : Settled(inHand[c][1], j)'
    BY <2>2, <2>5 DEF Settled
  <2>7. Settled(inHand[c][1], inHand[c][2])'
    BY <2>2, <2>3, <2>4, <2>5 DEF Settled
  <2> QED
    BY <2>1, <2>5, <2>6, <2>7 DEF Hand
<1>6. \/ inHand'[c] = inHand[c] /\ stage'[c] = stage[c] /\ outcome'[c] = outcome[c]
      \/ inHand'[c] = None /\ stage'[c] \in {"idle", "fetch"}
      \/ Fetch(c) \/ Handle(c) \/ Respond(c)
  <2>1. CASE UNCHANGED <<inHand, stage, outcome>>
    BY <2>1
  <2>2. ASSUME NEW d \in Consumer, Fetch(d) \/ Handle(d) \/ Respond(d), d # c
        PROVE  inHand'[c] = inHand[c] /\ stage'[c] = stage[c] /\ outcome'[c] = outcome[c]
    BY <2>2, <1>t DEF Fetch, Handle, Respond, Goto, TypeOK
  <2>3. ASSUME NEW d \in Consumer, Loop(d) \/ FetchCancelled(d) \/ Commit(d) \/ Finish(d) \/ Crash(d)
        PROVE  \/ inHand'[c] = inHand[c] /\ stage'[c] = stage[c] /\ outcome'[c] = outcome[c]
               \/ inHand'[c] = None /\ stage'[c] \in {"idle", "fetch"}
    <3>1. /\ \E place \in {"idle", "fetch"} : stage' = [stage EXCEPT ![d] = place]
          /\ \/ UNCHANGED <<inHand, outcome>> /\ stage[d] \in {"idle", "fetch"}
             \/ /\ inHand' = [inHand EXCEPT ![d] = None]
                /\ outcome' = [outcome EXCEPT ![d] = None]
      BY <2>3 DEF Loop, FetchCancelled, Commit, Done, Finish, Crash, Off, Drop, Goto
    <3> QED
      BY <3>1, <1>t DEF TypeOK, Hand
  <2> QED
    BY <2>1, <2>2, <2>3 DEF Next, Work, vars, Publish, Reject, WriteLate, Rebalance, Start, Stop
<1> QED
  BY <1>1, <1>2, <1>3, <1>4, <1>5, <1>6

\* What is committed is settled: a commit is of an entry behind its consumer.
LEMMA KeptStep == Inv /\ [Next]_vars => \A p \in Partition : Kept(p)'
<1> SUFFICES ASSUME Inv, [Next]_vars, NEW p \in Partition, NEW i \in 1 .. committed'[p]
             PROVE  Settled(p, i)'
  BY DEF Kept
<1> USE DEF assignment, work, bounds
<1>i. TypeOK /\ \A c \in Consumer : Hand(c)
  BY DEF Inv
<1>n. committed[p] \in Nat /\ committed[p] <= Len(log[p]) /\ Len(log[p]) \in Nat
  BY <1>i DEF TypeOK
<1>t. /\ TypeOK /\ \A c \in Consumer : Hand(c)
      /\ committed[p] \in Nat /\ committed[p] <= Len(log[p]) /\ Len(log[p]) \in Nat
  BY <1>i, <1>n
<1>1. CASE committed'[p] = committed[p]
  <2>1. Settled(p, i) /\ i \in 1 .. Len(log[p])
    BY <1>1, <1>t DEF Inv, Kept
  <2> QED
    BY <2>1, SettledStays
<1>2. ASSUME NEW c \in Consumer, Commit(c), committed'[p] # committed[p]
      PROVE  Settled(p, i)'
  <2>1. stage[c] = "commit" /\ inHand[c] # None /\ CommitIt(c)
    BY <1>2, <1>t DEF Commit, Hand
  <2>2. PICK q \in Partition, k \in Nat :
          inHand[c][1] = q /\ inHand[c][2] = k /\ k \in 1 .. Len(log[q])
    BY <2>1, <1>t, Holding
  <2>3. p = q /\ committed'[p] = k
    BY <1>2, <1>t, <2>1, <2>2 DEF CommitIt, TypeOK
  <2>4. i \in 1 .. k - 1 \/ i = k
    BY <2>2, <2>3
  <2>5. Settled(p, i)
    BY <1>t, <2>1, <2>2, <2>3, <2>4 DEF Hand
  <2>6. i \in 1 .. Len(log[p])
    BY <1>t, <2>2, <2>3
  <2> QED
    BY <2>5, <2>6, SettledStays
<1> QED
  BY <1>1, <1>2
  DEF Next, Work, vars, Publish, Reject, WriteLate, Rebalance, Start, Stop, Loop, Fetch,
      FetchCancelled, Handle, Respond, Finish, Crash, Off, Drop

\* An owner works through its partitions in order from the committed offsets.
LEMMA HandedOutStep == Inv /\ [Next]_vars => \A p \in Partition : HandedOut(p)'
<1> SUFFICES ASSUME Inv, [Next]_vars, NEW p \in Partition, NEW i \in 1 .. pos'[p]
             PROVE  Settled(p, i)' \/ \E c \in Consumer : owner'[p] = c /\ inHand'[c] = <<p, i>>
  BY DEF HandedOut
<1> USE DEF assignment, work, bounds
<1>i. TypeOK /\ (\A c \in Consumer : Hand(c)) /\ HandedOut(p) /\ Kept(p)
  BY DEF Inv
<1>n. /\ committed[p] \in Nat /\ committed[p] <= Len(log[p]) /\ Len(log[p]) \in Nat
      /\ pos[p] \in Nat /\ pos[p] <= Len(log[p])
  BY <1>i DEF TypeOK
<1>t. /\ TypeOK /\ (\A c \in Consumer : Hand(c)) /\ HandedOut(p) /\ Kept(p)
      /\ committed[p] \in Nat /\ committed[p] <= Len(log[p]) /\ Len(log[p]) \in Nat
      /\ pos[p] \in Nat /\ pos[p] <= Len(log[p])
  BY <1>i, <1>n
<1>1. ASSUME i \in 1 .. pos[p], owner'[p] = owner[p],
             \A c \in Consumer : inHand[c] = <<p, i>> =>
               inHand'[c] = inHand[c] \/ Settled(p, i)
      PROVE  Settled(p, i)' \/ \E c \in Consumer : owner'[p] = c /\ inHand'[c] = <<p, i>>
  <2>1. i \in 1 .. Len(log[p])
    BY <1>1, <1>t
  <2>2. Settled(p, i) => Settled(p, i)'
    BY <2>1, SettledStays
  <2> QED
    BY <1>1, <1>t, <2>2 DEF HandedOut
<1>2. ASSUME NEW members \in SUBSET Consumer, Assign(members) PROVE Settled(p, i)'
  <2>1. i \in 1 .. committed[p]
    BY <1>2 DEF Assign
  <2>2. Settled(p, i) /\ i \in 1 .. Len(log[p])
    BY <2>1, <1>t DEF Kept
  <2> QED
    BY <2>2, SettledStays
<1>3. ASSUME NEW c \in Consumer, Fetch(c)
      PROVE  Settled(p, i)' \/ \E d \in Consumer : owner'[p] = d /\ inHand'[d] = <<p, i>>
  <2>1. PICK q \in Partition : /\ owner[q] = c /\ pos' = [pos EXCEPT ![q] = @ + 1]
                               /\ inHand' = [inHand EXCEPT ![c] = <<q, pos[q] + 1>>]
    BY <1>3 DEF Fetch
  <2>2. owner' = owner /\ inHand[c] = None
    BY <1>3, <1>t DEF Fetch, Hand
  <2>3. CASE i \in 1 .. pos[p]
    <3>1. <<p, i>> # None
      BY <2>3, KafkaAssumption
    <3> QED
      BY <1>1, <2>1, <2>2, <2>3, <3>1, <1>t DEF TypeOK
  <2>4. CASE i \notin 1 .. pos[p]
    <3>1. p = q /\ i = pos[p] + 1
      BY <2>1, <2>4, <1>t DEF TypeOK
    <3> QED
      BY <2>1, <2>2, <3>1, <1>t DEF TypeOK
  <2> QED
    BY <2>3, <2>4
<1>4. ASSUME NEW c \in Consumer, Commit(c)
      PROVE  Settled(p, i)' \/ \E d \in Consumer : owner'[p] = d /\ inHand'[d] = <<p, i>>
  <2>1. /\ UNCHANGED <<pos, owner>> /\ stage[c] = "commit"
        /\ inHand' = [inHand EXCEPT ![c] = None]
    BY <1>4 DEF Commit, Done, Drop
  <2>2. inHand[c] = <<p, i>> => Settled(p, i)
    BY <2>1, <1>t DEF Hand
  <2> QED
    BY <1>1, <2>1, <2>2, <1>t DEF TypeOK
<1>5. CASE UNCHANGED <<pos, owner, inHand>>
  BY <1>1, <1>5
<1>6. ASSUME NEW c \in Consumer, Start(c) \/ Finish(c) \/ Crash(c)
      PROVE  \E members \in SUBSET Consumer : Assign(members)
  BY <1>6, MemberIsConsumer DEF Start, Finish, Crash, Off, Drop
<1>7. Rebalance => \E members \in SUBSET Consumer : Assign(members)
  BY MemberIsConsumer DEF Rebalance
<1> QED
  BY <1>2, <1>3, <1>4, <1>5, <1>6, <1>7
  DEF Next, Work, vars, Publish, Reject, WriteLate, Stop, Loop, FetchCancelled, Handle, Respond

\* Going back from o to o1 is counted at the entries between.
LEMMA Paid ==
  ASSUME NEW r \in Nat, NEW n \in Nat, NEW n1 \in Nat, NEW w \in Nat,
         NEW i \in Nat, NEW o \in Nat, NEW o1 \in Nat,
         n1 <= n, r + n + (IF i > o THEN 1 ELSE 0) <= w + 1
  PROVE  r + n1 + (IF i > o1 THEN 1 ELSE 0)
           <= (w + IF o1 < i /\ i <= o THEN 1 ELSE 0) + 1
OBVIOUS

\* A run is of an entry that the assignment handed out once.
LEMMA CountedStep ==
  Inv /\ [Next]_vars => \A p \in Partition : \A i \in DOMAIN log'[p] : Counted(p, i)'
<1> SUFFICES ASSUME Inv, [Next]_vars, NEW p \in Partition, NEW i \in DOMAIN log'[p]
             PROVE  Counted(p, i)'
  OBVIOUS
<1> USE DEF assignment, work, bounds
<1>i. TypeOK /\ (\A c \in Consumer : Hand(c)) /\ None \notin Partition \X Nat
  BY KafkaAssumption DEF Inv
<1>p. /\ committed[p] \in Nat /\ pos[p] \in Nat /\ pos[p] <= Len(log[p]) /\ Len(log[p]) \in Nat
      /\ DOMAIN log[p] = 1 .. Len(log[p])
  BY <1>i DEF TypeOK
<1>g. /\ log'[p] \in Seq(Call)
      /\ DOMAIN log'[p] = 1 .. Len(log'[p])
  <2>1. TypeOK'
    BY <1>i, TypeStep
  <2>2. log'[p] \in Seq(Call)
    BY <2>1 DEF TypeOK
  <2> QED
    BY <2>2
\* An entry that was there before.
<1>1. ASSUME i \in 1 .. Len(log[p]) PROVE Counted(p, i)'
  <2> DEFINE H == Holders(p, i)
             ahead == IF i > pos[p] THEN 1 ELSE 0
  <2>c. /\ IsFiniteSet(H) /\ Cardinality(H) \in Nat
        /\ runs[p][i] + Cardinality(H) + ahead <= rewound[p][i] + 1
    BY <1>1, <1>p, FS_CardinalityType DEF Inv, Counted
  <2>n. runs[p][i] \in Nat /\ rewound[p][i] \in Nat /\ ahead \in 0 .. 1
    <3>1. /\ runs[p] \in Seq(Nat) /\ Len(runs[p]) = Len(log[p])
          /\ rewound[p] \in Seq(Nat) /\ Len(rewound[p]) = Len(log[p])
      BY <1>i DEF TypeOK
    <3> QED
      BY <1>1, <3>1, SMTT(20)
  <2>1. ASSUME runs'[p][i] = runs[p][i], Holders(p, i)' \in SUBSET H,
               \/ rewound'[p][i] = rewound[p][i] /\ pos'[p] = pos[p]
               \/ /\ pos' = committed
                  /\ rewound'[p][i] = rewound[p][i]
                                      + IF committed[p] < i /\ i <= pos[p] THEN 1 ELSE 0
        PROVE  Counted(p, i)'
    <3>1. /\ IsFiniteSet(Holders(p, i)') /\ Cardinality(Holders(p, i)') \in Nat
          /\ Cardinality(Holders(p, i)') <= Cardinality(H)
      BY <2>1, <2>c, FS_Subset, FS_CardinalityType
    <3>2. PICK o \in Nat :
            /\ pos'[p] = o
            /\ rewound'[p][i] = rewound[p][i] + IF o < i /\ i <= pos[p] THEN 1 ELSE 0
      <4>1. CASE rewound'[p][i] = rewound[p][i] /\ pos'[p] = pos[p]
        <5>1. rewound[p][i] + 0 = rewound[p][i] /\ ~(pos[p] < i /\ i <= pos[p]) /\ pos[p] \in Nat
          BY <1>1, <1>p, <2>n
        <5> QED
          BY <4>1, <5>1
      <4> QED
        BY <1>p, <2>1, <4>1
    <3>3. /\ i \in Nat /\ runs'[p][i] = runs[p][i]
          /\ runs[p][i] + Cardinality(H) + (IF i > pos[p] THEN 1 ELSE 0) <= rewound[p][i] + 1
      BY <1>1, <2>1, <2>c
    <3> HIDE DEF H
    <3>4. PICK r \in Nat, n \in Nat, n1 \in Nat, w \in Nat :
            /\ r = runs[p][i] /\ n = Cardinality(H) /\ n1 = Cardinality(Holders(p, i)')
            /\ w = rewound[p][i]
      BY <2>n, <2>c, <3>1
    <3>5. n1 <= n /\ r + n + (IF i > pos[p] THEN 1 ELSE 0) <= w + 1
      BY <3>1, <3>3, <3>4
    <3>6. r + n1 + (IF i > o THEN 1 ELSE 0) <= (w + IF o < i /\ i <= pos[p] THEN 1 ELSE 0) + 1
      BY <1>p, <3>3, <3>5, Paid
    <3>7. runs'[p][i] + Cardinality(Holders(p, i)') + (IF i > pos'[p] THEN 1 ELSE 0)
            <= rewound'[p][i] + 1
      BY <3>2, <3>3, <3>4, <3>6
    <3> QED
      BY <3>1, <3>7 DEF Counted
  <2>2. ASSUME UNCHANGED <<runs, rewound, pos>>, Holders(p, i)' \in SUBSET H
        PROVE  Counted(p, i)'
    BY <2>1, <2>2
  <2>3. ASSUME UNCHANGED <<inHand, stage>> PROVE Holders(p, i)' = H
    BY <2>3 DEF Holders
  <2>4. ASSUME NEW m \in Call, Publish(m) \/ WriteLate(m) PROVE Counted(p, i)'
    <3>1. UNCHANGED <<runs, rewound>> \/ Write(m)
      BY <2>4 DEF Publish, WriteLate
    <3>2. Write(m) => runs'[p][i] = runs[p][i] /\ rewound'[p][i] = rewound[p][i]
      BY <1>1, <1>i, WriteEffect
    <3>3. UNCHANGED <<inHand, stage, pos>>
      BY <2>4 DEF Publish, WriteLate
    <3> QED
      BY <2>1, <2>3, <3>1, <3>2, <3>3
  <2>5. ASSUME NEW members \in SUBSET Consumer, Assign(members), UNCHANGED runs,
               \/ UNCHANGED <<inHand, stage>>
               \/ \E c \in Consumer : /\ inHand' = [inHand EXCEPT ![c] = None]
                                      /\ stage' = [stage EXCEPT ![c] = "idle"]
        PROVE  Counted(p, i)'
    <3>1. Holders(p, i)' \in SUBSET H
      BY <2>5, <1>i DEF Holders, TypeOK
    <3>2. /\ pos' = committed
          /\ rewound'[p][i] = rewound[p][i] + IF committed[p] < i /\ i <= pos[p] THEN 1 ELSE 0
      BY <1>1, <1>i, <2>5, AssignEffect
    <3> QED
      BY <2>1, <2>5, <3>1, <3>2
  <2>6. ASSUME NEW c \in Consumer,
               Loop(c) \/ FetchCancelled(c) \/ Respond(c) \/ Commit(c)
        PROVE  Counted(p, i)'
    <3>1. /\ UNCHANGED <<runs, rewound, pos>>
          /\ \E place \in {"idle", "fetch", "commit"} : stage' = [stage EXCEPT ![c] = place]
          /\ inHand' = inHand \/ inHand' = [inHand EXCEPT ![c] = None]
      BY <2>6 DEF Loop, FetchCancelled, Respond, Commit, Done, Drop, Goto
    <3>2. Holders(p, i)' \in SUBSET H
      BY <3>1, <1>i DEF Holders, TypeOK
    <3> QED
      BY <2>2, <3>1, <3>2
  <2>7. ASSUME NEW c \in Consumer, Fetch(c) PROVE Counted(p, i)'
    <3>1. PICK q \in Partition : /\ pos' = [pos EXCEPT ![q] = @ + 1]
                                 /\ inHand' = [inHand EXCEPT ![c] = <<q, pos[q] + 1>>]
      BY <2>7 DEF Fetch
    <3>2. /\ stage[c] = "fetch" /\ stage' = [stage EXCEPT ![c] = "handle"]
          /\ UNCHANGED <<runs, rewound>>
      BY <2>7 DEF Fetch, Goto
    <3>3. CASE p = q /\ i = pos[p] + 1
      <4>1. Holders(p, i)' = H \cup {c} /\ c \notin H
        BY <3>1, <3>2, <3>3, <1>i DEF Holders, TypeOK
      <4>2. IsFiniteSet(Holders(p, i)') /\ Cardinality(Holders(p, i)') = Cardinality(H) + 1
        BY <4>1, <2>c, FS_AddElement
      <4>3. pos'[p] = pos[p] + 1 /\ ahead = 1 /\ ~ (i > pos'[p])
        BY <3>1, <3>3, <1>i, <1>p DEF TypeOK
      <4> HIDE DEF H, ahead
      <4> QED
        BY <2>c, <2>n, <3>2, <4>2, <4>3 DEF Counted
    <3>4. CASE ~(p = q /\ i = pos[p] + 1)
      <4>1. <<p, i>> # <<q, pos[q] + 1>>
        BY <3>4
      <4>2. Holders(p, i)' = H
        BY <3>1, <3>2, <4>1, <1>i DEF Holders, TypeOK
      <4>3. i > pos'[p] <=> i > pos[p]
        <5>1. pos'[p] = IF p = q THEN pos[p] + 1 ELSE pos[p]
          BY <3>1, <1>i DEF TypeOK
        <5> QED
          BY <1>1, <1>p, <3>4, <5>1
      <4> QED
        BY <2>c, <3>2, <4>2, <4>3 DEF Counted
    <3> QED
      BY <3>3, <3>4
  <2>8. ASSUME NEW c \in Consumer, Handle(c) PROVE Counted(p, i)'
    <3>1. runs'[p][i] = IF inHand[c] = <<p, i>> THEN runs[p][i] + 1 ELSE runs[p][i]
      BY <1>1, <1>i, <2>8, HandleEffect
    <3>2. /\ stage[c] = "handle" /\ UNCHANGED <<inHand, pos, rewound>>
          /\ \E place \in {"respond", "commit"} : stage' = [stage EXCEPT ![c] = place]
      BY <2>8 DEF Handle, Goto
    <3>3. CASE inHand[c] = <<p, i>>
      <4>1. Holders(p, i)' = H \ {c} /\ c \in H
        BY <3>2, <3>3, <1>i DEF Holders, TypeOK
      <4>2. IsFiniteSet(Holders(p, i)') /\ Cardinality(Holders(p, i)') = Cardinality(H) - 1
        BY <4>1, <2>c, FS_RemoveElement
      <4>3. ahead = IF i > pos'[p] THEN 1 ELSE 0
        BY <3>2
      <4> HIDE DEF H, ahead
      <4> QED
        BY <2>c, <2>n, <3>1, <3>2, <3>3, <4>2, <4>3 DEF Counted
    <3>4. CASE inHand[c] # <<p, i>>
      <4>1. Holders(p, i)' = H
        BY <3>2, <3>4, <1>i DEF Holders, TypeOK
      <4> QED
        BY <2>2, <3>1, <3>2, <3>4, <4>1, <2>1
    <3> QED
      BY <3>3, <3>4
  <2>9. ASSUME NEW c \in Consumer, Start(c) PROVE Counted(p, i)'
    <3>1. Member \cup {c} \in SUBSET Consumer
      BY MemberIsConsumer
    <3> QED
      BY <2>5, <2>9, <3>1 DEF Start
  <2>10. ASSUME NEW c \in Consumer, Finish(c) \/ Crash(c) PROVE Counted(p, i)'
    <3>1. Member \ {c} \in SUBSET Consumer
      BY MemberIsConsumer
    <3>2. Off(c)
      BY <2>10 DEF Finish, Crash
    <3> QED
      BY <2>5, <3>1, <3>2 DEF Off, Drop, Goto
  <2>11. CASE Rebalance
    BY <2>5, <2>11, MemberIsConsumer DEF Rebalance
  <2>12. CASE UNCHANGED <<inHand, stage, runs, rewound, pos>>
    BY <2>2, <2>3, <2>12
  <2> QED
    BY <2>4, <2>6, <2>7, <2>8, <2>9, <2>10, <2>11, <2>12 DEF Next, Work, vars, Reject, Stop
\* A new one.
<1>2. ASSUME i \notin 1 .. Len(log[p]) PROVE Counted(p, i)'
  <2>1. PICK m \in Call : Write(m) /\ UNCHANGED <<inHand, stage, pos>>
    BY <1>2, <1>g
    DEF Next, Work, vars, Publish, Reject, WriteLate, Rebalance, Start, Stop, Loop, Fetch,
        FetchCancelled, Handle, Respond, Commit, Done, Finish, Crash, Off, Drop
  <2>2. runs'[p][i] = 0 /\ rewound'[p][i] = 0
    BY <1>2, <1>g, <1>i, <2>1, WriteEffect
  <2>3. Holders(p, i)' = {}
    <3> SUFFICES ASSUME NEW c \in Consumer, inHand[c] = <<p, i>> PROVE FALSE
      BY <2>1 DEF Holders
    <3>1. i \in Nat
      BY <1>g
    <3>2. inHand[c] # None
      BY <1>i, <3>1
    <3>3. PICK q \in Partition, k \in Nat : inHand[c] = <<q, k>> /\ k \in 1 .. Len(log[q])
      BY <1>i, <3>2, Holding
    <3> QED
      BY <1>2, <3>3
  <2>4. IsFiniteSet(Holders(p, i)') /\ Cardinality(Holders(p, i)') = 0
    BY <2>3, FS_EmptySet
  <2> QED
    BY <2>2, <2>4 DEF Counted
<1> QED
  BY <1>1, <1>2

LEMMA InvStep == Inv /\ [Next]_vars => Inv'
BY TypeStep, HandStep, HandedOutStep, KeptStep, CountedStep DEF Inv

LEMMA InvCorrect == Spec => []Inv
<1>1. Init => Inv
  BY InitInv
<1>2. Inv /\ [Next]_vars => Inv'
  BY InvStep
<1> QED
  BY <1>1, <1>2, PTL DEF Spec

-----------------------------------------------------------------------------
(* The invariants of the run. *)

\* The state is always of its type.
THEOREM TypeCorrect == Spec => []TypeOK
<1>1. Inv => TypeOK
  BY DEF Inv
<1> QED
  BY <1>1, InvCorrect, PTL

\* Nothing is committed that was not handled, although commits of an earlier
\* owner may come late and set the offset back (consumeMessages).
THEOREM CommittedCorrect == Spec => []CommittedWasHandled
<1>1. Inv => CommittedWasHandled
  BY DEF Inv, Kept, Settled, CommittedWasHandled
<1> QED
  BY <1>1, InvCorrect, PTL

\* A committed call has a response in its topic unless a write failed
\* (handleMessage responds before the commit).
THEOREM AnsweredCorrect == Spec => []CommittedWasAnswered
<1>1. Inv => CommittedWasAnswered
  BY DEF Inv, Kept, Settled, CommittedWasAnswered
<1> QED
  BY <1>1, InvCorrect, PTL

\* No request that an owner was handed is passed over, however often the
\* partitions move (an assignment reads on from the committed offsets).
THEOREM SkippedCorrect == Spec => []NothingSkipped
<1> SUFFICES Inv => NothingSkipped
  BY InvCorrect, PTL
<1> SUFFICES ASSUME Inv, NEW p \in Partition, NEW i \in 1 .. pos[p],
                    NEW c \in Consumer, inHand[c] = <<p, i>>, ~(runs[p][i] > 0)
             PROVE  stage[c] = "handle"
  BY DEF Inv, HandedOut, Settled, NothingSkipped
<1>1. Hand(c) /\ pos[p] \in Nat
  BY DEF Inv, TypeOK
<1>2. inHand[c] # None
  BY <1>1, KafkaAssumption
<1> QED
  BY <1>1, <1>2 DEF Hand, Settled

\* An entry is handled again only after an assignment went back before it,
\* once at the most for each time (a commit that failed is not made up for).
THEOREM RepeatsCorrect == Spec => []RepeatsAccounted
<1> SUFFICES Inv => RepeatsAccounted
  BY InvCorrect, PTL
<1> SUFFICES ASSUME Inv, NEW p \in Partition, NEW i \in DOMAIN log[p]
             PROVE  runs[p][i] <= rewound[p][i] + 1
  BY DEF RepeatsAccounted
<1>1. Counted(p, i) /\ TypeOK
  BY DEF Inv
<1>2. Cardinality(Holders(p, i)) \in Nat
  BY <1>1, FS_CardinalityType DEF Counted
<1>3. runs[p][i] \in Nat /\ rewound[p][i] \in Nat
  <2>1. /\ log[p] \in Seq(Call) /\ runs[p] \in Seq(Nat) /\ Len(runs[p]) = Len(log[p])
        /\ rewound[p] \in Seq(Nat) /\ Len(rewound[p]) = Len(log[p])
    BY <1>1 DEF TypeOK
  <2> QED
    BY <2>1
<1> QED
  BY <1>1, <1>2, <1>3 DEF Counted

-----------------------------------------------------------------------------
(* The caller's side, KafkaRPC: one call of the adapter, apart from the     *)
(* state above.                                                             *)

CONSTANTS Zero, MaxRuns, EndEarly

VARIABLES
  waiter, answer, written, topic, ran, ended, deadline, listener, got, responseChan, errorChan,
  closed

RPC == INSTANCE KafkaRPC WITH caller <- waiter

\* Whatever is on its way to the caller is the result of a run.
OnTheWay ==
  /\ ran \subseteq Result
  /\ topic \in Seq(ran)
  /\ responseChan \in Seq(ran)
  /\ listener = "send" => got \in ran
  /\ answer \in ran \cup {None}

\* A caller that is to wait has its contexts, and meets a listener that has
\* stopped only after this has left a response for it.
Waiting ==
  /\ waiter \in {"new", "writing", "select", "blocked", "answered", "failed"}
  /\ waiter = "new" => ~written /\ ran = {} /\ listener = "none"
  /\ waiter \in {"new", "writing", "select"} => ~deadline /\ ~ended
  /\ waiter \in {"writing", "select"}
       /\ listener \in {"commit", "closeError", "closeResponse", "ended"} => responseChan # <<>>
  /\ "response" \in closed => listener = "ended"
  /\ "error" \in closed => listener \in {"closeResponse", "ended"}
  /\ waiter = "blocked" => listener \notin {"closeResponse", "ended"}

Delivered == OnTheWay /\ Waiting

LEMMA DeliveredInit == RPC!Init => Delivered
BY DEF RPC!Init, Delivered, OnTheWay, Waiting

LEMMA OnTheWayStep == Delivered /\ [RPC!Next]_(RPC!vars) => OnTheWay'
<1> SUFFICES ASSUME OnTheWay, Waiting, [RPC!Next]_(RPC!vars) PROVE OnTheWay'
  BY DEF Delivered
<1> USE DEF OnTheWay, RPC!call, RPC!kafka, RPC!contexts, RPC!goroutine, RPC!channels
<1>1. CASE RPC!Select
  <2>1. CASE answer' = answer
    BY <1>1, <2>1 DEF RPC!Select
  <2>2. CASE RPC!Ready(responseChan, "response")
             /\ RPC!Succeed(IF responseChan # <<>> THEN Head(responseChan) ELSE Zero)
    <3>1. responseChan # <<>>
      BY <1>1, <2>2 DEF RPC!Select, RPC!Ready, Waiting
    <3>2. Head(responseChan) \in ran
      BY <3>1
    <3> QED
      BY <1>1, <2>2, <3>1, <3>2 DEF RPC!Select, RPC!Succeed
  <2> QED
    BY <1>1, <2>1, <2>2 DEF RPC!Select, RPC!Fail
<1>2. CASE RPC!Respond
  <2>1. PICK x \in Result : ran' = ran \cup {x} /\ topic' = Append(topic, x)
    BY <1>2 DEF RPC!Respond
  <2>2. topic \in Seq(ran') /\ responseChan \in Seq(ran') /\ x \in ran'
    BY <2>1
  <2> QED
    BY <1>2, <2>1, <2>2 DEF RPC!Respond
<1>3. CASE RPC!Fetch
  <2>1. CASE topic # <<>> /\ got' = Head(topic) /\ topic' = Tail(topic)
    BY <1>3, <2>1 DEF RPC!Fetch
  <2>2. CASE listener' # "send" /\ UNCHANGED <<got, topic>>
    BY <1>3, <2>2 DEF RPC!Fetch
  <2> QED
    BY <1>3, <2>1, <2>2 DEF RPC!Fetch
<1>4. CASE RPC!Send
  <2>1. got \in ran /\ <<got>> \in Seq(ran)
    BY <1>4 DEF RPC!Send
  <2> QED
    BY <1>4, <2>1 DEF RPC!Send, RPC!Succeed
<1>5. CASE RPC!Publish \/ RPC!Written \/ RPC!WriteReturns
  BY <1>5 DEF RPC!Publish, RPC!Written, RPC!WriteReturns, RPC!Fail
<1>6. CASE RPC!EndContext
  BY <1>6 DEF RPC!EndContext, RPC!Fail
<1>7. CASE RPC!Loop \/ RPC!Commit \/ RPC!Close
  BY <1>7 DEF RPC!Loop, RPC!Commit, RPC!Close, RPC!Wake, RPC!Fail
<1>8. CASE UNCHANGED RPC!vars
  BY <1>8 DEF RPC!vars
<1> QED
  BY <1>1, <1>2, <1>3, <1>4, <1>5, <1>6, <1>7, <1>8 DEF RPC!Next, RPC!Listen

\* No context ends before the caller waits, so that only a response, or the
\* caller's own return, stops the listener before that.
LEMMA WaitingStep ==
  ASSUME ~EndEarly, Waiting, [RPC!Next]_(RPC!vars)
  PROVE  Waiting'
<1> USE DEF Waiting, RPC!call, RPC!kafka, RPC!contexts, RPC!goroutine, RPC!channels
<1>1. CASE RPC!Select
  BY <1>1 DEF RPC!Select, RPC!Ready, RPC!Succeed, RPC!Fail
<1>2. CASE RPC!Respond
  BY <1>2 DEF RPC!Respond
<1>3. CASE RPC!Fetch
  BY <1>3 DEF RPC!Fetch
<1>4. CASE RPC!Send
  BY <1>4 DEF RPC!Send, RPC!Succeed
<1>5. CASE RPC!Publish \/ RPC!Written \/ RPC!WriteReturns
  BY <1>5 DEF RPC!Publish, RPC!Written, RPC!WriteReturns, RPC!Fail
<1>6. CASE RPC!EndContext
  BY <1>6 DEF RPC!EndContext, RPC!Fail
<1>7. CASE RPC!Loop \/ RPC!Commit
  BY <1>7 DEF RPC!Loop, RPC!Commit, RPC!Wake, RPC!Fail
<1>8. CASE RPC!Close
  BY <1>8 DEF RPC!Close, RPC!Wake, RPC!Fail
<1>9. CASE UNCHANGED RPC!vars
  BY <1>9 DEF RPC!vars
<1> QED
  BY <1>1, <1>2, <1>3, <1>4, <1>5, <1>6, <1>7, <1>8, <1>9 DEF RPC!Next, RPC!Listen

\* What the abstract port knows of the call.
Known ==
  CASE waiter \in {"writing", "select", "blocked"} -> "open"
    [] waiter = "failed" -> "gaveUp"
    [] OTHER -> waiter

LEMMA KnownCases ==
  /\ waiter \in {"writing", "select", "blocked"} => Known = "open"
  /\ waiter = "failed" => Known = "gaveUp"
  /\ waiter \in {"new", "answered"} => Known = waiter
BY Zenon DEF Known

LEMMA KnownCasesNext ==
  /\ waiter' \in {"writing", "select", "blocked"} => Known' = "open"
  /\ waiter' = "failed" => Known' = "gaveUp"
  /\ waiter' \in {"new", "answered"} => Known' = waiter'
BY Zenon DEF Known

LEMMA KnownMove ==
  ASSUME NEW from, NEW to, Known = from, Known' = to
  PROVE  RPC!Port!Become("call", from, to)
BY DEF Known, RPC!Port!Become

\* The steps of the caller that the port sees: its call, its answer, its end
\* without one; and the runs.
LEMMA CallStep ==
  ASSUME OnTheWay, Waiting, [RPC!Next]_(RPC!vars), ~EndEarly
  PROVE  [RPC!Port!Next]_(RPC!Port!vars)
<1> USE DEF RPC!call, RPC!kafka, RPC!contexts, RPC!goroutine, RPC!channels
<1>s. ASSUME UNCHANGED <<Known, ran, answer>> PROVE UNCHANGED RPC!Port!vars
  BY <1>s DEF RPC!Port!vars, Known
<1>g. ASSUME waiter \in {"writing", "select", "blocked"}, RPC!Fail, UNCHANGED ran
      PROVE  RPC!Port!Next
  <2>1. RPC!Port!Become("call", "open", "gaveUp")
    BY <1>g, KnownCases, KnownCasesNext, KnownMove DEF RPC!Fail
  <2> QED
    BY <1>g, <2>1 DEF RPC!Port!Next, RPC!Port!GiveUp, RPC!Fail
<1>a. ASSUME waiter \in {"select", "blocked"}, NEW x \in ran, RPC!Succeed(x), UNCHANGED ran
      PROVE  RPC!Port!Next
  <2>1. RPC!Port!Become("call", "open", "answered")
    BY <1>a, KnownCases, KnownCasesNext, KnownMove DEF RPC!Succeed
  <2>2. RPC!Port!Answer("call", x)
    BY <1>a, <2>1 DEF RPC!Port!Answer, RPC!Succeed
  <2> QED
    BY <2>2 DEF RPC!Port!Next, OnTheWay
<1>w. ASSUME waiter \in {"writing", "select", "blocked"},
             waiter' \in {"writing", "select", "blocked"}
      PROVE  UNCHANGED Known
  BY <1>w, KnownCases, KnownCasesNext
<1>1. CASE RPC!Publish
  <2>1. RPC!Port!Become("call", "new", "open")
    BY <1>1, KnownCases, KnownCasesNext, KnownMove DEF RPC!Publish
  <2> QED
    BY <1>1, <2>1 DEF RPC!Publish, RPC!Port!Next, RPC!Port!Submit
<1>2. CASE RPC!WriteReturns
  BY <1>2, <1>g, <1>s, <1>w DEF RPC!WriteReturns
<1>3. CASE RPC!Select
  <2>1. CASE RPC!Ready(responseChan, "response")
             /\ RPC!Succeed(IF responseChan # <<>> THEN Head(responseChan) ELSE Zero)
    <3>1. responseChan # <<>>
      BY <1>3, <2>1 DEF RPC!Select, RPC!Ready, Waiting
    <3>2. Head(responseChan) \in ran
      BY <3>1 DEF OnTheWay
    <3> QED
      BY <1>3, <1>a, <2>1, <3>1, <3>2 DEF RPC!Select
  <2>2. CASE RPC!Fail
    BY <1>3, <1>g, <2>2 DEF RPC!Select
  <2>3. CASE waiter' = "blocked" /\ UNCHANGED answer
    BY <1>3, <1>s, <1>w, <2>3 DEF RPC!Select
  <2> QED
    BY <1>3, <2>1, <2>2, <2>3 DEF RPC!Select
<1>4. CASE RPC!EndContext
  <2>1. CASE RPC!Fail
    BY <1>4, <1>g, <2>1 DEF RPC!EndContext
  <2>2. CASE UNCHANGED <<waiter, answer>>
    BY <1>4, <1>s, <1>w, <2>2 DEF RPC!EndContext
  <2> QED
    BY <1>4, <2>1, <2>2 DEF RPC!EndContext
<1>5. CASE RPC!Respond
  <2>1. PICK x \in Result : ran' = ran \cup {x}
    BY <1>5 DEF RPC!Respond
  <2>2. Known \notin {"new", "rejected"}
    <3>1. waiter \in {"writing", "select", "blocked", "answered", "failed"}
      BY <1>5 DEF RPC!Respond, Waiting
    <3> QED
      BY <3>1, KnownCases
  <2>3. UNCHANGED <<Known, answer>>
    BY <1>5 DEF RPC!Respond, Known
  <2>4. RPC!Port!Run("call", x)
    BY <2>1, <2>2, <2>3 DEF RPC!Port!Run, Known
  <2> QED
    BY <2>4 DEF RPC!Port!Next
<1>6. CASE RPC!Send
  <2>1. CASE waiter = "blocked"
    BY <1>6, <1>a, <2>1 DEF RPC!Send, OnTheWay
  <2>2. CASE UNCHANGED <<waiter, answer>>
    BY <1>6, <1>s, <2>2 DEF RPC!Send, Known
  <2> QED
    BY <1>6, <2>1, <2>2 DEF RPC!Send
<1>7. CASE RPC!Loop \/ RPC!Close
  <2>1. CASE waiter = "blocked" /\ RPC!Fail
    BY <1>7, <1>g, <2>1 DEF RPC!Loop, RPC!Close
  <2>2. CASE UNCHANGED <<waiter, answer>>
    BY <1>7, <1>s, <2>2 DEF RPC!Loop, RPC!Close, Known
  <2> QED
    BY <1>7, <2>1, <2>2 DEF RPC!Loop, RPC!Close, RPC!Wake
<1>8. CASE RPC!Written \/ RPC!Fetch \/ RPC!Commit \/ UNCHANGED RPC!vars
  <2>1. UNCHANGED <<waiter, answer, ran>>
    BY <1>8 DEF RPC!Written, RPC!Fetch, RPC!Commit, RPC!vars
  <2> QED
    BY <1>s, <2>1 DEF Known
<1> QED
  BY <1>1, <1>2, <1>3, <1>4, <1>5, <1>6, <1>7, <1>8 DEF RPC!Next, RPC!Listen

LEMMA DeliveredCorrect ==
  ASSUME ~EndEarly
  PROVE  RPC!Spec => []Delivered
<1>1. Delivered /\ [RPC!Next]_(RPC!vars) => Delivered'
  BY OnTheWayStep, WaitingStep DEF Delivered
<1> QED
  BY <1>1, DeliveredInit, PTL DEF RPC!Spec

\* PublishTransaction keeps the port's promise, for any results and any number
\* of runs: it returns the response of a run of its very call, or an error, if
\* no context ends before the call waits for the response.
THEOREM CallRefinement ==
  ASSUME ~EndEarly
  PROVE  RPC!Spec => RPC!PortSpec
<1>1. RPC!Init => RPC!Port!Init
  BY DEF RPC!Init, RPC!Port!Init
<1>2. Delivered /\ [RPC!Next]_(RPC!vars) => [RPC!Port!Next]_(RPC!Port!vars)
  BY CallStep DEF Delivered
<1> QED
  BY <1>1, <1>2, DeliveredCorrect, PTL DEF RPC!Spec, RPC!PortSpec, RPC!Port!Spec

\* Under the same condition a success is a response: the zero value that the
\* select can find on two closed channels needs a context that ended early.
THEOREM NoEmptyAnswerCorrect ==
  ASSUME ~EndEarly, RPC!RPCAssumption
  PROVE  RPC!Spec => []RPC!NoEmptyAnswer
<1>1. Delivered => RPC!NoEmptyAnswer
  BY DEF Delivered, OnTheWay, RPC!RPCAssumption, RPC!NoEmptyAnswer
<1> QED
  BY <1>1, DeliveredCorrect, PTL
=============================================================================
