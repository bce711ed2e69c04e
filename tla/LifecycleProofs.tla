-------------------------- MODULE LifecycleProofs ---------------------------
(***************************************************************************)
(* Proofs about Lifecycle for any choice of adapters and any number of     *)
(* messages.                                                               *)
(***************************************************************************)
EXTENDS Lifecycle, TLAPS

\* A message at work is still to be settled.
Settling == goroutine \in {"handle", "settle"} => made + refused < delivered

\* How far StartConsumer is shows in what it has set: the wait group counts the
\* goroutine from before its start to its end.
Started ==
  /\ goroutine # "none" => starter = "returned"
  /\ Waits =>
       /\ consumer <=> starter \in {"set", "added"} \/ goroutine # "none"
       /\ waiters = 1 <=> starter = "added" \/ goroutine \notin {"none", "ended"}

\* How far main is shows in what it has closed: the connection, then the
\* database, which is what spoils a run.
Stopped ==
  /\ main = "running" => ~early
  /\ main # "running" /\ ~early => starter = "returned"
  /\ broker <=> main \notin {"leaving", "exited"}
  /\ ~database => main \in {"leaving", "exited"}
  /\ spoilt => ~database

\* After a wait, or with nobody to wait for, nothing is at work.
Waited ==
  Waits /\ ~early /\ main \in {"closing", "leaving", "exited"} => goroutine \in {"none", "ended"}

Inv == TypeOK /\ Settling /\ Started /\ Stopped /\ Waited /\ NothingRefused

-----------------------------------------------------------------------------
\* The type in the parts that are proved apart.
Flags ==
  /\ early \in BOOLEAN /\ closed \in BOOLEAN /\ consumer \in BOOLEAN /\ cancelled \in BOOLEAN
  /\ broker \in BOOLEAN /\ database \in BOOLEAN /\ spoilt \in BOOLEAN

Places ==
  /\ kind \in Adapters
  /\ main \in {"running", "stopping", "waiting", "closing", "leaving", "exited"}
  /\ starter \in {"new", "checked", "set", "added", "returned"}
  /\ goroutine \in {"none", "loop", "fetch", "handle", "settle", "ended"}
  /\ waiters \in 0 .. 1

Counts ==
  /\ delivered \in 0 .. MaxMessages
  /\ made \in Nat /\ refused \in Nat /\ made + refused <= delivered

LEMMA TypeParts == TypeOK <=> Flags /\ Places /\ Counts
BY Zenon DEF TypeOK, Flags, Places, Counts

LEMMA InitInv == Init => Inv
<1> SUFFICES ASSUME Init PROVE Inv
  OBVIOUS
<1>1. Flags
  BY DEF Init, Flags
<1>2. Places
  BY DEF Init, Places
<1>3. Counts /\ Settling
  BY LifecycleAssumption DEF Init, Counts, Settling
<1>4. Started
  BY DEF Init, Started
<1>5. Stopped
  BY DEF Init, Stopped
<1>6. Waited /\ NothingRefused
  BY DEF Init, Waited, NothingRefused
<1> QED
  BY <1>1, <1>2, <1>3, <1>4, <1>5, <1>6, TypeParts DEF Inv

LEMMA FlagsStep == Flags /\ [Next]_vars => Flags'
<1> SUFFICES ASSUME Flags, [Next]_vars PROVE Flags'
  OBVIOUS
<1> USE DEF Flags, adapter, counts, choice
<1>1. CASE Start
  BY <1>1 DEF Start
<1>2. CASE Loop \/ Handle \/ Settle
  BY <1>2 DEF Loop, Leave, Handle, Settle
<1>3. CASE Fetch
  BY <1>3 DEF Fetch
<1>4. CASE Signal
  BY <1>4 DEF Signal
<1>5. CASE StopConsumer \/ Wait \/ CloseQueue \/ Exit
  BY <1>5 DEF StopConsumer, Wait, CloseQueue, Exit
<1>6. CASE CloseDatabase
  BY <1>6 DEF CloseDatabase
<1>7. CASE UNCHANGED vars
  BY <1>7 DEF vars
<1> QED
  BY <1>1, <1>2, <1>3, <1>4, <1>5, <1>6, <1>7 DEF Next, Consume, Shutdown

LEMMA PlacesStep == Places /\ [Next]_vars => Places'
<1> SUFFICES ASSUME Places, [Next]_vars PROVE Places'
  OBVIOUS
<1> USE DEF Places, adapter, counts, choice
<1>1. CASE Start
  BY <1>1 DEF Start
<1>2. CASE Consume
  BY <1>2 DEF Consume, Loop, Leave, Fetch, Handle, Settle
<1>3. CASE Signal \/ Shutdown
  BY <1>3 DEF Signal, Shutdown, StopConsumer, Wait, CloseQueue, CloseDatabase, Exit
<1>4. CASE UNCHANGED vars
  BY <1>4 DEF vars
<1> QED
  BY <1>1, <1>2, <1>3, <1>4 DEF Next

LEMMA CountsStep == Counts /\ Settling /\ [Next]_vars => Counts' /\ Settling'
<1> SUFFICES ASSUME Counts, Settling, [Next]_vars PROVE Counts' /\ Settling'
  OBVIOUS
<1> USE LifecycleAssumption DEF Counts, Settling, adapter, counts, choice
<1>1. CASE Fetch
  BY <1>1 DEF Fetch
<1>2. CASE Settle
  BY <1>2 DEF Settle
<1>3. CASE Start \/ Loop \/ Handle
  BY <1>3 DEF Start, Loop, Leave, Handle
<1>4. CASE Signal \/ Shutdown \/ UNCHANGED vars
  BY <1>4 DEF Signal, Shutdown, StopConsumer, Wait, CloseQueue, CloseDatabase, Exit, vars
<1> QED
  BY <1>1, <1>2, <1>3, <1>4 DEF Next, Consume

LEMMA TypeStep == TypeOK /\ Settling /\ [Next]_vars => TypeOK' /\ Settling'
<1>1. TypeOK' <=> Flags' /\ Places' /\ Counts'
  BY Zenon DEF TypeOK, Flags, Places, Counts
<1> QED
  BY <1>1, TypeParts, FlagsStep, PlacesStep, CountsStep

LEMMA StartedStep == TypeOK /\ Started /\ [Next]_vars => Started'
<1> SUFFICES ASSUME TypeOK, Started, [Next]_vars PROVE Started'
  OBVIOUS
<1> USE DEF Started, Waits, adapter, counts, choice
<1>1. CASE Start
  BY <1>1 DEF Start, TypeOK
<1>2. CASE Consume
  BY <1>2 DEF Consume, Loop, Leave, Fetch, Handle, Settle, TypeOK
<1>3. CASE Signal \/ Shutdown \/ UNCHANGED vars
  BY <1>3 DEF Signal, Shutdown, StopConsumer, Wait, CloseQueue, CloseDatabase, Exit, vars
<1> QED
  BY <1>1, <1>2, <1>3 DEF Next

LEMMA StoppedStep == TypeOK /\ Stopped /\ [Next]_vars => Stopped'
<1> SUFFICES ASSUME TypeOK, Stopped, [Next]_vars PROVE Stopped'
  OBVIOUS
<1> USE DEF Stopped, adapter, counts, choice
<1>1. CASE Start
  BY <1>1 DEF Start
<1>2. CASE Consume
  BY <1>2 DEF Consume, Loop, Leave, Fetch, Handle, Settle, TypeOK
<1>3. CASE Signal
  BY <1>3 DEF Signal, TypeOK
<1>4. CASE Shutdown
  BY <1>4 DEF Shutdown, StopConsumer, Wait, CloseQueue, CloseDatabase, Exit, TypeOK
<1>5. CASE UNCHANGED vars
  BY <1>5 DEF vars
<1> QED
  BY <1>1, <1>2, <1>3, <1>4, <1>5 DEF Next

\* The shutdown is past the wait only when the goroutine has ended.
LEMMA WaitedStep == Inv /\ [Next]_vars => Waited'
<1> SUFFICES ASSUME TypeOK, Started, Stopped, Waited, [Next]_vars PROVE Waited'
  BY DEF Inv
<1> USE DEF Waited, Waits, adapter, counts, choice
<1>1. CASE Start
  BY <1>1 DEF Start, Stopped
<1>2. CASE Consume
  BY <1>2 DEF Consume, Loop, Leave, Fetch, Handle, Settle
<1>3. CASE Signal
  BY <1>3 DEF Signal
<1>4. CASE Shutdown
  BY <1>4
  DEF Shutdown, StopConsumer, Wait, CloseQueue, CloseDatabase, Exit, Started, Stopped, TypeOK
<1>5. CASE UNCHANGED vars
  BY <1>5 DEF vars
<1> QED
  BY <1>1, <1>2, <1>3, <1>4, <1>5 DEF Next

\* A spoilt run is settled by nobody: the connection is closed already, or the
\* goroutine had ended before.
LEMMA RefusedStep == Inv /\ [Next]_vars => NothingRefused'
<1> SUFFICES ASSUME Inv, [Next]_vars PROVE NothingRefused'
  OBVIOUS
<1> USE DEF NothingRefused, adapter, counts, choice
<1>1. CASE Settle
  BY <1>1 DEF Settle, Inv, Stopped, Waited, Waits, TypeOK
<1>2. CASE Signal
  BY <1>2 DEF Signal, Inv, Stopped
<1>3. CASE UNCHANGED <<kind, early, refused>>
  BY <1>3 DEF Inv
<1> QED
  BY <1>1, <1>2, <1>3
  DEF Next, Start, Consume, Loop, Fetch, Handle, Shutdown, StopConsumer, Wait, CloseQueue,
      CloseDatabase, Exit, vars

LEMMA InvCorrect == Spec => []Inv
<1>1. Init => Inv
  BY InitInv
<1>2. Inv /\ [Next]_vars => Inv'
  BY TypeStep, StartedStep, StoppedStep, WaitedStep, RefusedStep DEF Inv
<1> QED
  BY <1>1, <1>2, PTL DEF Spec

-----------------------------------------------------------------------------
\* The state is always of its type: among others the wait group's counter is
\* never below zero, and no message is settled that was not delivered.
THEOREM TypeCorrect == Spec => []TypeOK
<1>1. Inv => TypeOK
  BY DEF Inv
<1> QED
  BY <1>1, InvCorrect, PTL

\* An adapter that waits closes the database only when its goroutine has ended,
\* if StartConsumer had returned before the signal (StopConsumer's wg.Wait).
THEOREM ClosedIdleCorrect == Spec => []ClosedIdle
<1>1. Inv => ClosedIdle
  BY DEF Inv, Stopped, Waited, ClosedIdle
<1> QED
  BY <1>1, InvCorrect, PTL

\* No message is settled after a run that the shutdown spoilt, but for a Kafka
\* consumer that was still being started (the order of main's deferred calls).
THEOREM NothingRefusedCorrect == Spec => []NothingRefused
<1>1. Inv => NothingRefused
  BY DEF Inv
<1> QED
  BY <1>1, InvCorrect, PTL
=============================================================================
