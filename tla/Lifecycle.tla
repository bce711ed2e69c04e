----------------------------- MODULE Lifecycle ------------------------------
(***************************************************************************)
(* The life of a consumer process: main of cmd/consumer, the goroutine     *)
(* that calls StartConsumer, the one that consumes, and the shutdown by    *)
(* the deferred calls of main, Close of the queue adapter and then Close   *)
(* of the database.                                                        *)
(*                                                                         *)
(* The adapters differ.  Close of Redis and Kafka cancels the consumer's   *)
(* context and waits for its goroutine, if StartConsumer has set one by    *)
(* then; Close of RabbitMQ closes the channel and waits for nobody.  The   *)
(* Kafka consumer reads with a connection of its own, the others with that *)
(* which Close closes.                                                     *)
(***************************************************************************)
EXTENDS Integers

CONSTANTS
  Adapters,     \* the adapters used: "rabbitmq", "redis" or "kafka"
  MaxMessages   \* bound on the messages delivered

ASSUME LifecycleAssumption ==
  /\ Adapters \subseteq {"rabbitmq", "redis", "kafka"}
  /\ MaxMessages \in Nat

VARIABLES
  kind,       \* the adapter of this process
  early,      \* whether the signal came before StartConsumer had returned
  main,       \* where main is
  starter,    \* where StartConsumer is
  goroutine,  \* where the consumer's goroutine is
  closed,     \* the flag of the adapter
  consumer,   \* whether StartConsumer has set the adapter's consumer
  cancelled,  \* whether its context is
  waiters,    \* the counter of its wait group
  broker,     \* whether the adapter's connection is open
  database,   \* whether the database's is
  spoilt,     \* whether the handler at work has met a closed database
  delivered,  \* messages delivered
  made, refused   \* messages settled after a sound and after a spoilt run

adapter == <<closed, consumer, cancelled, waiters, broker>>
counts == <<delivered, made, refused>>
choice == <<kind, early>>
vars == <<choice, main, starter, goroutine, adapter, database, spoilt, counts>>

TypeOK ==
  /\ kind \in Adapters /\ early \in BOOLEAN
  /\ main \in {"running", "stopping", "waiting", "closing", "leaving", "exited"}
  /\ starter \in {"new", "checked", "set", "added", "returned"}
  /\ goroutine \in {"none", "loop", "fetch", "handle", "settle", "ended"}
  /\ waiters \in 0 .. 1
  /\ closed \in BOOLEAN /\ consumer \in BOOLEAN /\ cancelled \in BOOLEAN
  /\ broker \in BOOLEAN /\ database \in BOOLEAN /\ spoilt \in BOOLEAN
  /\ delivered \in 0 .. MaxMessages
  /\ made \in Nat /\ refused \in Nat /\ made + refused <= delivered

Init ==
  /\ kind \in Adapters /\ early = FALSE
  /\ main = "running" /\ starter = "new" /\ goroutine = "none"
  /\ closed = FALSE /\ consumer = FALSE /\ cancelled = FALSE /\ waiters = 0
  /\ broker = TRUE /\ database = TRUE /\ spoilt = FALSE
  /\ delivered = 0 /\ made = 0 /\ refused = 0

Waits == kind # "rabbitmq"

-----------------------------------------------------------------------------
(* StartConsumer, in a goroutine of its own. *)

Start ==
  /\ \/ /\ starter = "new" /\ starter' = IF closed THEN "returned" ELSE "checked"
        /\ UNCHANGED <<consumer, waiters, goroutine>>
     \/ /\ starter = "checked" /\ Waits
        /\ starter' = "set" /\ consumer' = TRUE /\ UNCHANGED <<waiters, goroutine>>
     \/ /\ starter = "set" /\ starter' = "added" /\ waiters' = 1
        /\ UNCHANGED <<consumer, goroutine>>
     \/ /\ starter = "added" \/ (starter = "checked" /\ ~Waits /\ broker)
        /\ starter' = "returned" /\ goroutine' = "loop" /\ UNCHANGED <<consumer, waiters>>
     \/ /\ starter = "checked" /\ ~Waits /\ ~broker
        /\ starter' = "returned" /\ UNCHANGED <<consumer, waiters, goroutine>>
  /\ UNCHANGED <<choice, main, closed, cancelled, broker, database, spoilt, counts>>

-----------------------------------------------------------------------------
(* The consumer's goroutine. *)

Leave == goroutine' = "ended" /\ waiters' = 0

\* The head of the loop: the end of the context, or of the deliveries.
Loop ==
  /\ goroutine = "loop"
  /\ IF (Waits /\ cancelled) \/ (~Waits /\ ~broker) THEN Leave
     ELSE goroutine' = "fetch" /\ UNCHANGED waiters
  /\ UNCHANGED <<choice, main, starter, closed, consumer, cancelled, broker, database, spoilt, counts>>

\* A message, if there is a connection to get it by, or none.
Fetch ==
  /\ goroutine = "fetch"
  /\ \/ /\ delivered < MaxMessages
        /\ broker \/ kind = "kafka"
        /\ delivered' = delivered + 1
        /\ goroutine' = "handle" /\ spoilt' = ~database
     \/ goroutine' = "loop" /\ UNCHANGED <<delivered, spoilt>>
  /\ UNCHANGED <<choice, main, starter, adapter, database, made, refused>>

Handle ==
  /\ goroutine = "handle" /\ goroutine' = "settle"
  /\ UNCHANGED <<choice, main, starter, adapter, database, spoilt, counts>>

\* The message is acknowledged or committed, whatever the handler answered, if
\* there still is a connection for it.
Settle ==
  /\ goroutine = "settle" /\ goroutine' = "loop"
  /\ IF broker \/ kind = "kafka"
     THEN /\ made' = IF spoilt THEN made ELSE made + 1
          /\ refused' = IF spoilt THEN refused + 1 ELSE refused
     ELSE UNCHANGED <<made, refused>>
  /\ UNCHANGED <<choice, main, starter, adapter, database, spoilt, delivered>>

-----------------------------------------------------------------------------
(* main *)

\* The signal: main returns.  Its last deferred call is the first to run: Close
\* of the adapter sets closed.
Signal ==
  /\ main = "running"
  /\ early' = (starter # "returned")
  /\ main' = "stopping" /\ closed' = TRUE
  /\ UNCHANGED <<kind, starter, goroutine, consumer, cancelled, waiters, broker, database, spoilt, counts>>

\* Mutant of StopConsumer: the goroutine is not told.
StopUntold ==
  /\ main = "stopping"
  /\ main' = IF Waits /\ consumer THEN "waiting" ELSE "closing"
  /\ UNCHANGED <<choice, starter, goroutine, adapter, database, spoilt, counts>>

\* StopConsumer: there is nobody to cancel if no consumer is set.
StopConsumer ==
  /\ main = "stopping"
  /\ IF Waits /\ consumer
     THEN main' = "waiting" /\ cancelled' = TRUE
     ELSE main' = "closing" /\ UNCHANGED cancelled
  /\ UNCHANGED <<choice, starter, goroutine, closed, consumer, waiters, broker, database, spoilt, counts>>

\* Mutant of Wait: left out.
WaitNot ==
  /\ main = "waiting" /\ main' = "closing"
  /\ UNCHANGED <<choice, starter, goroutine, adapter, database, spoilt, counts>>

Wait ==
  /\ main = "waiting" /\ waiters = 0 /\ main' = "closing"
  /\ UNCHANGED <<choice, starter, goroutine, adapter, database, spoilt, counts>>

\* Mutant of CloseQueue: the connection is left open.
CloseQueueLeft ==
  /\ main = "closing" /\ main' = "leaving"
  /\ UNCHANGED <<choice, starter, goroutine, adapter, database, spoilt, counts>>

CloseQueue ==
  /\ main = "closing" /\ main' = "leaving" /\ broker' = FALSE
  /\ UNCHANGED <<choice, starter, goroutine, closed, consumer, cancelled, waiters, database, spoilt, counts>>

\* dbAdapter.Close, under the handler if it is at work.
CloseDatabase ==
  /\ main = "leaving" /\ database /\ database' = FALSE
  /\ spoilt' = (spoilt \/ goroutine = "handle")
  /\ UNCHANGED <<choice, main, starter, goroutine, adapter, counts>>

Exit ==
  /\ main = "leaving" /\ ~database /\ main' = "exited"
  /\ UNCHANGED <<choice, starter, goroutine, adapter, database, spoilt, counts>>

-----------------------------------------------------------------------------
Shutdown == StopConsumer \/ Wait \/ CloseQueue \/ CloseDatabase \/ Exit
Consume == Loop \/ Fetch \/ Handle \/ Settle

Next == main # "exited" /\ (Start \/ Consume \/ Signal \/ Shutdown)

Fairness == WF_vars(Start /\ main # "exited") /\ WF_vars(Consume /\ main # "exited") /\ WF_vars(Shutdown)

Spec == Init /\ [][Next]_vars
FairSpec == Spec /\ Fairness

-----------------------------------------------------------------------------
(* Properties *)

\* No message is settled after a run that the shutdown spoilt: a deposit that
\* was acknowledged had its database to the end (the order of main's deferred
\* calls; wg.Wait in StopConsumer, or the channel closed before the database).
\* The Kafka consumer keeps that only if StartConsumer had returned: one that
\* starts meanwhile is stopped by nobody and has a connection of its own.
NothingRefused == ~(kind = "kafka" /\ early) => refused = 0

\* With an adapter that waits, and a signal that comes when StartConsumer has
\* returned, the consumer's goroutine has ended when the database closes.
ClosedIdle == Waits /\ ~early /\ ~database => goroutine \in {"none", "ended"}

\* A signal ends the process, whenever it comes: the shutdown never waits for a
\* goroutine that waits for it.
SignalEnds == main = "stopping" ~> main = "exited"
=============================================================================
