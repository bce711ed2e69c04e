--------------------------- MODULE LoadTestProofs ---------------------------
(***************************************************************************)
(* Proofs about LoadTest for any broker, any number of workers, of jobs    *)
(* and of jobs per batch.                                                  *)
(***************************************************************************)
EXTENDS LoadTest, FiniteSetTheorems, TLAPS

Busy == {w \in Worker : worker[w] = "busy"}

\* A job is in the channel, at a worker, or counted.
Conserved == sent = jobs + Cardinality(Busy) + counted

\* The type, but for what follows from Conserved.
Numbers ==
  /\ sent \in Nat /\ batchEnd \in Nat /\ sent <= batchEnd /\ batchEnd <= NumMessages
  /\ jobs \in 0 .. Room /\ counted \in Nat

Places ==
  /\ broker \in Brokers
  /\ time \in 0 .. 2
  /\ handler \in {"waiting", "closing", "joining", "stopping", "reported", "panicked"}
  /\ sender \in {"loop", "batch", "signal", "ended", "crashed"}
  /\ worker \in [Worker -> {"idle", "busy", "ended"}]
  /\ monitor \in {"on", "ended"}
  /\ done \in 0 .. 1

Flags == jobsClosed \in BOOLEAN /\ doneClosed \in BOOLEAN

\* Whatever ends the handler's wait comes after the sender's end: the value in
\* "done", or the timeout.
SenderFirst ==
  /\ done = 1 \/ time = 2 \/ handler # "waiting" \/ doneClosed => sender = "ended"
  /\ sender # "crashed"

\* The channel of jobs is closed by a handler that has stopped waiting.
ClosedByHandler == jobsClosed <=> handler \notin {"waiting", "closing"}

\* A worker ends with the jobs, and the handler waits for all of them.
WorkersLast ==
  /\ \A w \in Worker : worker[w] = "ended" => jobs = 0 /\ jobsClosed
  /\ handler \in {"stopping", "reported", "panicked"} => \A w \in Worker : worker[w] = "ended"

Inv == Numbers /\ Places /\ Flags /\ Conserved /\ SenderFirst /\ ClosedByHandler /\ WorkersLast

-----------------------------------------------------------------------------
LEMMA BusyFinite == IsFiniteSet(Busy) /\ Cardinality(Busy) \in Nat
<1>1. IsFiniteSet(Busy)
  BY LoadAssumption, FS_Subset DEF Busy
<1> QED
  BY <1>1, FS_CardinalityType

\* One more worker is busy, or one less.
LEMMA BusyMore ==
  ASSUME NEW w \in Worker, Places, worker[w] = "idle", worker' = [worker EXCEPT ![w] = "busy"]
  PROVE  Cardinality(Busy') = Cardinality(Busy) + 1
<1>1. Busy' = Busy \cup {w} /\ w \notin Busy
  BY DEF Places, Busy
<1> QED
  BY <1>1, BusyFinite, FS_AddElement

LEMMA BusyLess ==
  ASSUME NEW w \in Worker, Places, worker[w] = "busy", worker' = [worker EXCEPT ![w] = "idle"]
  PROVE  Cardinality(Busy') = Cardinality(Busy) - 1
<1>1. Busy' = Busy \ {w} /\ w \in Busy
  BY DEF Places, Busy
<1> QED
  BY <1>1, BusyFinite, FS_RemoveElement

LEMMA BusySame ==
  ASSUME NEW w \in Worker, Places, worker[w] = "idle", worker' = [worker EXCEPT ![w] = "ended"]
  PROVE  Busy' = Busy
BY DEF Places, Busy

-----------------------------------------------------------------------------
LEMMA InitInv == Init => Inv
<1> SUFFICES ASSUME Init PROVE Inv
  OBVIOUS
<1>1. Numbers
  BY LoadAssumption DEF Init, Numbers, Room
<1>2. Places
  BY DEF Init, Places
<1>f. Flags
  BY DEF Init, Flags
<1>3. Busy = {}
  BY DEF Init, Busy
<1>4. Conserved
  BY <1>3, FS_EmptySet DEF Init, Conserved
<1>5. SenderFirst /\ ClosedByHandler
  BY DEF Init, SenderFirst, ClosedByHandler
<1>6. WorkersLast
  BY DEF Init, WorkersLast
<1> QED
  BY <1>1, <1>2, <1>f, <1>4, <1>5, <1>6 DEF Inv

LEMMA NumbersStep == Numbers /\ [Next]_vars => Numbers'
<1> SUFFICES ASSUME Numbers, [Next]_vars PROVE Numbers'
  OBVIOUS
<1> USE LoadAssumption DEF Numbers, Room, progress, jobsChannel, doneChannel
<1>1. CASE NextBatch
  BY <1>1 DEF NextBatch
<1>2. CASE SendJob
  BY <1>2 DEF SendJob
<1>3. CASE \E w \in Worker : Take(w)
  BY <1>3 DEF Take
<1>4. CASE \E w \in Worker : Count(w)
  BY <1>4 DEF Count
<1>5. CASE Tick \/ Signal \/ EndMonitor
  BY <1>5 DEF Tick, Signal, EndMonitor
<1>6. CASE Handler
  BY <1>6 DEF Handler, SenderDone, TimeOut, CloseJobs, Join, StopMonitor
<1>7. CASE UNCHANGED vars
  BY <1>7 DEF vars
<1> QED
  BY <1>1, <1>2, <1>3, <1>4, <1>5, <1>6, <1>7 DEF Next, Send

LEMMA PlacesStep == Places /\ [Next]_vars => Places'
<1> SUFFICES ASSUME Places, [Next]_vars PROVE Places'
  OBVIOUS
<1> USE DEF Places, progress, jobsChannel, doneChannel
<1>1. CASE Tick
  BY <1>1 DEF Tick
<1>2. CASE NextBatch
  BY <1>2 DEF NextBatch
<1>3. CASE SendJob
  BY <1>3 DEF SendJob
<1>4. CASE Signal
  BY <1>4 DEF Signal
<1>5. CASE \E w \in Worker : Take(w) \/ Count(w)
  BY <1>5 DEF Take, Count
<1>6. CASE EndMonitor
  BY <1>6 DEF EndMonitor
<1>7. CASE SenderDone \/ TimeOut \/ CloseJobs
  BY <1>7 DEF SenderDone, TimeOut, CloseJobs
<1>8. CASE Join
  BY <1>8 DEF Join
<1>9. CASE StopMonitor
  BY <1>9 DEF StopMonitor
<1>10. CASE UNCHANGED vars
  BY <1>10 DEF vars
<1> QED
  BY <1>1, <1>2, <1>3, <1>4, <1>5, <1>6, <1>7, <1>8, <1>9, <1>10 DEF Next, Send, Handler

LEMMA FlagsStep == Flags /\ [Next]_vars => Flags'
<1> SUFFICES ASSUME Flags, [Next]_vars PROVE Flags'
  OBVIOUS
<1> USE DEF Flags, progress, jobsChannel, doneChannel
<1>1. CASE TimeOut \/ StopMonitor
  BY <1>1 DEF TimeOut, StopMonitor
<1>2. CASE CloseJobs
  BY <1>2 DEF CloseJobs
<1>3. CASE UNCHANGED <<jobsClosed, doneClosed>>
  BY <1>3
<1> QED
  BY <1>1, <1>2, <1>3
  DEF Next, Tick, Send, NextBatch, SendJob, Signal, Take, Count, EndMonitor, Handler, SenderDone,
      Join, vars

\* Every step moves a job by one place, or none.
LEMMA ConservedStep == Numbers /\ Places /\ Conserved /\ [Next]_vars => Conserved'
<1> SUFFICES ASSUME Numbers, Places, Conserved, [Next]_vars PROVE Conserved'
  OBVIOUS
<1> USE DEF Conserved, progress, jobsChannel, doneChannel
<1>n. Cardinality(Busy) \in Nat /\ sent \in Nat /\ jobs \in Nat /\ counted \in Nat
  BY BusyFinite, LoadAssumption DEF Numbers, Room
<1>1. CASE SendJob
  <2>1. Busy' = Busy
    BY <1>1 DEF SendJob, Busy
  <2> QED
    BY <1>n, <1>1, <2>1 DEF SendJob
<1>2. ASSUME NEW w \in Worker, Take(w) PROVE Conserved'
  <2>1. CASE jobs > 0 /\ jobs' = jobs - 1 /\ worker' = [worker EXCEPT ![w] = "busy"]
    <3>1. Cardinality(Busy') = Cardinality(Busy) + 1
      BY <1>2, <2>1, BusyMore DEF Take
    <3> QED
      BY <1>n, <1>2, <2>1, <3>1 DEF Take
  <2>2. CASE worker' = [worker EXCEPT ![w] = "ended"] /\ UNCHANGED jobs
    <3>1. Busy' = Busy
      BY <1>2, <2>2, BusySame DEF Take
    <3> QED
      BY <1>n, <1>2, <2>2, <3>1 DEF Take
  <2> QED
    BY <1>2, <2>1, <2>2 DEF Take
<1>3. ASSUME NEW w \in Worker, Count(w) PROVE Conserved'
  <2>1. Cardinality(Busy') = Cardinality(Busy) - 1
    BY <1>3, BusyLess DEF Count
  <2> QED
    BY <1>n, <1>3, <2>1 DEF Count
<1>4. CASE UNCHANGED <<sent, jobs, counted, worker>>
  <2>1. Busy' = Busy
    BY <1>4 DEF Busy
  <2> QED
    BY <1>4, <2>1
<1>5. CASE NextBatch \/ Tick \/ Signal \/ EndMonitor
  BY <1>4, <1>5 DEF NextBatch, Tick, Signal, EndMonitor
<1>6. CASE Handler
  BY <1>4, <1>6 DEF Handler, SenderDone, TimeOut, CloseJobs, Join, StopMonitor
<1>7. CASE UNCHANGED vars
  BY <1>4, <1>7 DEF vars
<1> QED
  BY <1>1, <1>2, <1>3, <1>5, <1>6, <1>7 DEF Next, Send

LEMMA SenderFirstStep ==
  Places /\ SenderFirst /\ ClosedByHandler /\ [Next]_vars => SenderFirst'
<1> SUFFICES ASSUME Places, SenderFirst, ClosedByHandler, [Next]_vars PROVE SenderFirst'
  OBVIOUS
<1> USE DEF SenderFirst, progress, jobsChannel, doneChannel
<1>1. CASE Tick
  BY <1>1 DEF Tick, Places
<1>2. CASE NextBatch
  BY <1>2 DEF NextBatch
<1>3. CASE SendJob
  BY <1>3 DEF SendJob, ClosedByHandler
<1>4. CASE Signal
  BY <1>4 DEF Signal
<1>5. CASE \E w \in Worker : Take(w) \/ Count(w)
  BY <1>5 DEF Take, Count
<1>6. CASE EndMonitor
  BY <1>6 DEF EndMonitor
<1>7. CASE SenderDone
  BY <1>7 DEF SenderDone, Places
<1>8. CASE TimeOut \/ CloseJobs \/ Join
  BY <1>8 DEF TimeOut, CloseJobs, Join
<1>9. CASE StopMonitor
  BY <1>9 DEF StopMonitor
<1>10. CASE UNCHANGED vars
  BY <1>10 DEF vars
<1> QED
  BY <1>1, <1>2, <1>3, <1>4, <1>5, <1>6, <1>7, <1>8, <1>9, <1>10 DEF Next, Send, Handler

LEMMA ClosedByHandlerStep == Places /\ ClosedByHandler /\ [Next]_vars => ClosedByHandler'
<1> SUFFICES ASSUME Places, ClosedByHandler, [Next]_vars PROVE ClosedByHandler'
  OBVIOUS
<1> USE DEF ClosedByHandler, progress, jobsChannel, doneChannel
<1>1. CASE Tick \/ NextBatch \/ EndMonitor
  BY <1>1 DEF Tick, NextBatch, EndMonitor
<1>2. CASE SendJob
  BY <1>2 DEF SendJob
<1>3. CASE Signal
  BY <1>3 DEF Signal
<1>4. CASE \E w \in Worker : Take(w) \/ Count(w)
  BY <1>4 DEF Take, Count
<1>5. CASE Handler
  BY <1>5 DEF Handler, SenderDone, TimeOut, CloseJobs, Join, StopMonitor
<1>6. CASE UNCHANGED vars
  BY <1>6 DEF vars
<1> QED
  BY <1>1, <1>2, <1>3, <1>4, <1>5, <1>6 DEF Next, Send

\* Nothing is sent when the channel is closed, so that a worker that has ended
\* has left nothing behind.
LEMMA WorkersLastStep == Inv /\ [Next]_vars => WorkersLast'
<1> SUFFICES ASSUME Places, SenderFirst, ClosedByHandler, WorkersLast, [Next]_vars
             PROVE  WorkersLast'
  BY DEF Inv
<1> USE DEF WorkersLast, progress, jobsChannel, doneChannel
<1>1. CASE SendJob
  BY <1>1 DEF SendJob, SenderFirst, ClosedByHandler
<1>2. ASSUME NEW w \in Worker, Take(w) PROVE WorkersLast'
  <2>1. worker[w] = "idle" /\ handler' = handler /\ jobsClosed' = jobsClosed
    BY <1>2 DEF Take
  <2>2. handler \notin {"stopping", "reported", "panicked"}
    BY <2>1
  <2>3. CASE jobs > 0 /\ worker' = [worker EXCEPT ![w] = "busy"]
    BY <2>1, <2>2, <2>3 DEF Places
  <2>4. CASE jobs = 0 /\ jobsClosed /\ worker' = [worker EXCEPT ![w] = "ended"] /\ UNCHANGED jobs
    BY <2>1, <2>2, <2>4 DEF Places
  <2> QED
    BY <1>2, <2>3, <2>4 DEF Take
<1>3. ASSUME NEW w \in Worker, Count(w) PROVE WorkersLast'
  BY <1>3 DEF Count, Places
<1>4. CASE Tick \/ NextBatch \/ EndMonitor
  BY <1>4 DEF Tick, NextBatch, EndMonitor
<1>5. CASE Signal
  BY <1>5 DEF Signal
<1>6. CASE SenderDone \/ TimeOut \/ CloseJobs
  BY <1>6 DEF SenderDone, TimeOut, CloseJobs
<1>7. CASE Join
  BY <1>7 DEF Join
<1>8. CASE StopMonitor
  BY <1>8 DEF StopMonitor
<1>9. CASE UNCHANGED vars
  BY <1>9 DEF vars
<1> QED
  BY <1>1, <1>2, <1>3, <1>4, <1>5, <1>6, <1>7, <1>8, <1>9 DEF Next, Send, Handler

LEMMA InvCorrect == Spec => []Inv
<1>1. Init => Inv
  BY InitInv
<1>2. Inv /\ [Next]_vars => Inv'
  BY NumbersStep, PlacesStep, FlagsStep, ConservedStep, SenderFirstStep, ClosedByHandlerStep, WorkersLastStep
  DEF Inv
<1> QED
  BY <1>1, <1>2, PTL DEF Spec

-----------------------------------------------------------------------------
\* The state is always of its type: among others the channels never hold more
\* than they have room for, and no more jobs are counted than were sent.
THEOREM TypeCorrect == Spec => []TypeOK
<1>1. Inv => TypeOK
  <2> SUFFICES ASSUME Inv PROVE TypeOK
    OBVIOUS
  <2>1. counted \in 0 .. sent /\ 0 <= sent
    BY BusyFinite, LoadAssumption DEF Inv, Conserved, Numbers, Room
  <2> QED
    BY <2>1 DEF Inv, Numbers, Places, Flags, TypeOK
<1> QED
  BY <1>1, InvCorrect, PTL

\* The report counts every job that was sent, once (close, range, wg.Wait).
THEOREM CountedCorrect == Spec => []EveryJobCounted
<1>1. Inv => EveryJobCounted
  <2> SUFFICES ASSUME Inv, Over, Worker # {} PROVE counted = sent /\ jobs = 0
    BY DEF EveryJobCounted
  <2>1. \A w \in Worker : worker[w] = "ended" /\ jobs = 0
    BY DEF Inv, WorkersLast, Over
  <2>2. Busy = {} /\ jobs = 0
    BY <2>1 DEF Busy
  <2> QED
    BY <2>2, FS_EmptySet DEF Inv, Conserved, Numbers
<1> QED
  BY <1>1, InvCorrect, PTL

\* No goroutine sends on a closed channel: whatever ends the handler's wait,
\* the timeout of the RabbitMQ test included, comes after the sender's end.
THEOREM NoCrashCorrect == Spec => []NoCrash
<1>1. Inv => NoCrash
  BY DEF Inv, SenderFirst, NoCrash
<1> QED
  BY <1>1, InvCorrect, PTL
=============================================================================
