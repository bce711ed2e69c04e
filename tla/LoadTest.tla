------------------------------ MODULE LoadTest ------------------------------
(***************************************************************************)
(* The load tests of the web server: three copies of one arrangement of    *)
(* goroutines.  A sender puts jobs on a channel batch by batch until the   *)
(* time is over, workers publish them and count the outcome, a monitor     *)
(* samples the queue until told to end, and the handler of the request     *)
(* waits for the sender, closes the jobs, waits for the workers, and       *)
(* reports.                                                                *)
(*                                                                         *)
(* The copies differ in how the ends are signalled.  RabbitMQ and Redis    *)
(* share one channel "done" between sender, handler and monitor, with room *)
(* for one value; Kafka has an unbuffered "done" and another for the       *)
(* monitor.  RabbitMQ's handler has a timeout, and closes the channel.     *)
(*                                                                         *)
(* Go's part: a send on or a close of a closed channel panics, a receive   *)
(* from one is always ready.  A panic ends the program, but for one in the *)
(* handler, which the web server recovers from.                            *)
(***************************************************************************)
EXTENDS Integers, FiniteSets

CONSTANTS
  Brokers,      \* whose tests are run: "rabbitmq", "redis" or "kafka"
  Worker,       \* the workers
  NumMessages,  \* the jobs to be sent
  BatchSize     \* jobs per batch

ASSUME LoadAssumption ==
  /\ Brokers \subseteq {"rabbitmq", "redis", "kafka"}
  /\ IsFiniteSet(Worker)
  /\ NumMessages \in Nat /\ BatchSize \in Nat \ {0}

VARIABLES
  broker,      \* whose test this is
  time,        \* 0 before the duration is over, 1 after, 2 ten seconds later
  handler,     \* where the handler of the request is
  sender,      \* where the sender is
  worker,      \* worker[w], what the worker w does
  monitor,     \* whether the monitor runs
  sent,        \* jobs sent
  batchEnd,    \* the end of the sender's batch
  jobs,        \* jobs in the channel
  jobsClosed,  \* whether it is closed
  done,        \* values in the channel "done"
  doneClosed,  \* whether it is closed
  counted      \* jobs counted as published or as an error

progress == <<sent, batchEnd>>
jobsChannel == <<jobs, jobsClosed>>
doneChannel == <<done, doneClosed>>
vars == <<broker, time, handler, sender, worker, monitor, progress, jobsChannel, doneChannel, counted>>

\* The room in the channel of jobs.
Room == IF broker = "kafka" THEN 2 * BatchSize ELSE NumMessages

TypeOK ==
  /\ broker \in Brokers
  /\ time \in 0 .. 2
  /\ handler \in {"waiting", "closing", "joining", "stopping", "reported", "panicked"}
  /\ sender \in {"loop", "batch", "signal", "ended", "crashed"}
  /\ worker \in [Worker -> {"idle", "busy", "ended"}]
  /\ monitor \in {"on", "ended"}
  /\ 0 <= sent /\ sent <= batchEnd /\ batchEnd <= NumMessages
  /\ jobs \in 0 .. Room /\ done \in 0 .. 1 /\ counted \in 0 .. sent
  /\ jobsClosed \in BOOLEAN /\ doneClosed \in BOOLEAN

Init ==
  /\ broker \in Brokers
  /\ time = 0
  /\ handler = "waiting" /\ sender = "loop"
  /\ worker = [w \in Worker |-> "idle"] /\ monitor = "on"
  /\ sent = 0 /\ batchEnd = 0 /\ jobs = 0 /\ done = 0 /\ counted = 0
  /\ jobsClosed = FALSE /\ doneClosed = FALSE

\* Ten seconds are enough for the sender, which pauses for one at a time, to see
\* that its time is over, and for what it signals to be received.
Tick ==
  /\ time < 2
  /\ time = 1 => sender = "ended" /\ done = 0
  /\ time' = time + 1
  /\ UNCHANGED <<broker, handler, sender, worker, monitor, progress, jobsChannel, doneChannel, counted>>

-----------------------------------------------------------------------------
(* The sender. *)

\* The outer loop: a time that is over is noticed before the next batch.
NextBatch ==
  /\ sender = "loop"
  /\ IF sent = NumMessages \/ time > 0
     THEN sender' = "signal" /\ UNCHANGED batchEnd
     ELSE /\ sender' = "batch"
          /\ batchEnd' = IF sent + BatchSize > NumMessages THEN NumMessages ELSE sent + BatchSize
  /\ UNCHANGED <<broker, time, handler, worker, monitor, sent, jobsChannel, doneChannel, counted>>

\* The inner loop: a job is sent, or the time is over; then a pause.
SendJob ==
  /\ sender = "batch"
  /\ \/ /\ sent < batchEnd /\ (jobsClosed \/ jobs < Room)
        /\ IF jobsClosed THEN sender' = "crashed" /\ UNCHANGED <<sent, jobs>>
           ELSE sent' = sent + 1 /\ jobs' = jobs + 1 /\ UNCHANGED sender
     \/ /\ sent < batchEnd /\ time > 0 /\ sender' = "signal"
        /\ UNCHANGED <<sent, jobs>>
     \/ sent = batchEnd /\ sender' = "loop" /\ UNCHANGED <<sent, jobs>>
  /\ UNCHANGED <<broker, time, handler, worker, monitor, batchEnd, jobsClosed, doneChannel, counted>>

\* "done <- true".  Without a buffer it is the handler that takes the value.
Signal ==
  /\ sender = "signal"
  /\ \/ /\ broker # "kafka" /\ (doneClosed \/ done = 0) /\ UNCHANGED handler
        /\ IF doneClosed THEN sender' = "crashed" /\ UNCHANGED done
           ELSE sender' = "ended" /\ done' = 1
     \/ /\ broker = "kafka" /\ handler = "waiting" /\ UNCHANGED done
        /\ handler' = "closing" /\ sender' = "ended"
  /\ UNCHANGED <<broker, time, worker, monitor, progress, jobsChannel, doneClosed, counted>>

-----------------------------------------------------------------------------
(* The workers and the monitor. *)

\* Mutant of Take: a worker ends as soon as it finds the channel closed.
TakeUntilClosed(w) ==
  /\ worker[w] = "idle"
  /\ \/ jobs > 0 /\ jobs' = jobs - 1 /\ worker' = [worker EXCEPT ![w] = "busy"]
     \/ jobsClosed /\ worker' = [worker EXCEPT ![w] = "ended"] /\ UNCHANGED jobs
  /\ UNCHANGED <<broker, time, handler, sender, monitor, progress, jobsClosed, doneChannel, counted>>

\* range over the jobs: to the end of what was sent, and of the channel.
Take(w) ==
  /\ worker[w] = "idle"
  /\ \/ jobs > 0 /\ jobs' = jobs - 1 /\ worker' = [worker EXCEPT ![w] = "busy"]
     \/ jobs = 0 /\ jobsClosed /\ worker' = [worker EXCEPT ![w] = "ended"] /\ UNCHANGED jobs
  /\ UNCHANGED <<broker, time, handler, sender, monitor, progress, jobsClosed, doneChannel, counted>>

\* The job is published, or fails: it is counted under the mutex either way.
Count(w) ==
  /\ worker[w] = "busy" /\ worker' = [worker EXCEPT ![w] = "idle"]
  /\ counted' = counted + 1
  /\ UNCHANGED <<broker, time, handler, sender, monitor, progress, jobsChannel, doneChannel>>

\* The monitor receives from "done": the value meant for the handler, or the
\* end of the channel.
EndMonitor ==
  /\ broker # "kafka" /\ monitor = "on"
  /\ done > 0 \/ doneClosed
  /\ monitor' = "ended" /\ done' = 0
  /\ UNCHANGED <<broker, time, handler, sender, worker, progress, jobsChannel, doneClosed, counted>>

-----------------------------------------------------------------------------
(* The handler of the request. *)

\* The sender's value.  The Kafka handler takes it in Signal.
SenderDone ==
  /\ handler = "waiting" /\ done > 0
  /\ handler' = "closing" /\ done' = 0
  /\ UNCHANGED <<broker, time, sender, worker, monitor, progress, jobsChannel, doneClosed, counted>>

\* Mutant of TimeOut: ten seconds less.
TimeOutSoon ==
  /\ broker = "rabbitmq" /\ handler = "waiting" /\ time >= 1
  /\ handler' = "closing" /\ doneClosed' = TRUE
  /\ UNCHANGED <<broker, time, sender, worker, monitor, progress, jobsChannel, done, counted>>

\* The timeout of the RabbitMQ test: the duration and ten seconds.
TimeOut ==
  /\ broker = "rabbitmq" /\ handler = "waiting" /\ time = 2
  /\ handler' = "closing" /\ doneClosed' = TRUE
  /\ UNCHANGED <<broker, time, sender, worker, monitor, progress, jobsChannel, done, counted>>

\* Mutant of CloseJobs: after wg.Wait.
CloseJobsLater ==
  /\ handler = "closing" /\ handler' = "joining"
  /\ UNCHANGED <<broker, time, sender, worker, monitor, progress, jobsChannel, doneChannel, counted>>

CloseJobs ==
  /\ handler = "closing" /\ handler' = "joining" /\ jobsClosed' = TRUE
  /\ UNCHANGED <<broker, time, sender, worker, monitor, progress, jobs, doneChannel, counted>>

\* wg.Wait.
Join ==
  /\ handler = "joining" /\ \A w \in Worker : worker[w] = "ended"
  /\ handler' = IF broker = "redis" THEN "reported" ELSE "stopping"
  /\ UNCHANGED <<broker, time, sender, worker, monitor, progress, jobsChannel, doneChannel, counted>>

\* The monitor is told to end: the channel closed (RabbitMQ), for the second
\* time if the handler timed out; a value of its own (Kafka).
StopMonitor ==
  /\ handler = "stopping"
  /\ \/ /\ broker = "rabbitmq" /\ UNCHANGED monitor
        /\ handler' = IF doneClosed THEN "panicked" ELSE "reported"
        /\ doneClosed' = TRUE
     \/ /\ broker = "kafka" /\ monitor = "on" /\ UNCHANGED doneClosed
        /\ handler' = "reported" /\ monitor' = "ended"
  /\ UNCHANGED <<broker, time, sender, worker, progress, jobsChannel, done, counted>>

-----------------------------------------------------------------------------
Send == NextBatch \/ SendJob \/ Signal
Handler == SenderDone \/ TimeOut \/ CloseJobs \/ Join \/ StopMonitor

Next ==
  /\ sender # "crashed"
  /\ \/ Tick \/ Send \/ EndMonitor \/ Handler
     \/ \E w \in Worker : Take(w) \/ Count(w)

\* Time passes, and every goroutine runs.
Fairness ==
  /\ WF_vars(Tick) /\ WF_vars(Send) /\ WF_vars(Handler) /\ WF_vars(EndMonitor)
  /\ \A w \in Worker : WF_vars(Take(w) \/ Count(w))

Spec == Init /\ [][Next]_vars
FairSpec == Spec /\ Fairness

-----------------------------------------------------------------------------
(* Properties *)

Over == handler \in {"reported", "panicked"}

\* The report counts every job that was sent, once, whether the time was over
\* in the middle of a batch or the jobs were all sent (close, range and
\* wg.Wait; with no worker there is nobody to count).
EveryJobCounted == Over /\ Worker # {} => counted = sent /\ jobs = 0

\* No goroutine sends on a closed channel, which would end the server: the
\* sender has ended before the handler closes the jobs or "done".
NoCrash == sender # "crashed"

\* Kafka's test ends, with its report and with no goroutine left behind: each of
\* its three rendezvous (jobs, done, monitorDone) finds its partner still there,
\* wherever the time limit comes.
KafkaEnds ==
  broker = "kafka" =>
    <>[](/\ handler = "reported" /\ sender = "ended" /\ monitor = "ended"
         /\ \A w \in Worker : worker[w] = "ended")

\* The test answers its request with the results, as the README's example and the
\* comments of the handlers say.
Reported == <>(handler = "reported")
=============================================================================
