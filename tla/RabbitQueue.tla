---------------------------- MODULE RabbitQueue ----------------------------
(***************************************************************************)
(* The RabbitMQ adapter (queue/rabbitmq/adapter.go): calls published by a  *)
(* web server on its one channel, and consumer processes that run the      *)
(* handler, send the response and acknowledge the message.                 *)
(*                                                                         *)
(* The broker's part, as setupQueue and PublishTransaction ask for it: one *)
(* queue that is deleted with its last consumer, deliveries one at a time  *)
(* per consumer, a message whose consumer is lost put back at the head, a  *)
(* response queue per call that is deleted with its caller's interest, and *)
(* messages that no queue takes dropped without a word.  It confirms no    *)
(* publication: one may be lost with the server's connection.              *)
(*                                                                         *)
(* Connections are lost and never made again: a consumer process goes on   *)
(* without deliveries ("deaf") until it is restarted.  A run of the        *)
(* handler is one step here; WalletUseCase has its inside.                 *)
(***************************************************************************)
EXTENDS Integers, Sequences, FiniteSets

CONSTANTS
  Rpc,        \* calls of PublishTransaction
  Fire,       \* calls of PublishTransactionFireAndForget
  Consumer,   \* consumer processes
  Result,     \* what the handler answers
  None,       \* no call, no result
  MaxLosses   \* bound on the connections lost by consumers, by a signal or not

Call == Rpc \cup Fire

ASSUME CallAssumption ==
  /\ Rpc \cap Fire = {}
  /\ None \notin Call \cup Result
  /\ MaxLosses \in Nat

VARIABLES
  caller,       \* caller[m], where the call m is
  answer,       \* answer[m], the response its caller got
  reply,        \* reply[m], the first response in m's response queue
  linked,       \* whether the server has its connection
  wire,         \* the publications on it that the broker has not yet read
  declared,     \* whether the queue exists
  queue,        \* the messages in it, oldest first
  status,       \* status[c], the life of the consumer process c
  inHand,       \* inHand[c], the message c works on
  stage,        \* stage[c], how far it is with it
  outcome,      \* outcome[c], the response of its handler
  done,         \* done[m], the results of the runs of m, in order
  acked,        \* messages acknowledged
  gone,         \* messages expired, dropped or deleted with the queue
  interrupted,  \* interrupted[m], how often a consumer was lost with m in hand
  losses        \* connections lost so far

callers == <<caller, answer>>
server == <<reply, linked, wire>>
broker == <<declared, queue, acked, gone>>
work == <<inHand, stage, outcome, done>>
failures == <<interrupted, losses>>
vars == <<callers, server, broker, status, work, failures>>

TypeOK ==
  /\ caller \in [Call -> {"new", "declaring", "waiting", "sent",
                          "answered", "gaveUp", "rejected"}]
  /\ answer \in [Call -> Result \cup {None}]
  /\ reply \in [Call -> Result \cup {None}]
  /\ linked \in BOOLEAN /\ wire \subseteq Call /\ declared \in BOOLEAN
  /\ queue \in Seq(Call)
  /\ status \in [Consumer -> {"off", "connected", "consuming", "deaf"}]
  /\ inHand \in [Consumer -> Call \cup {None}]
  /\ stage \in [Consumer -> {"handle", "respond", "ack"}]
  /\ outcome \in [Consumer -> Result \cup {None}]
  /\ done \in [Call -> Seq(Result)]
  /\ acked \subseteq Call /\ gone \subseteq Call
  /\ interrupted \in [Call -> Nat]
  /\ losses \in 0 .. MaxLosses

-----------------------------------------------------------------------------
Queued(m) == \E i \in DOMAIN queue : queue[i] = m

Consuming == {c \in Consumer : status[c] = "consuming"}

\* The server's connection was made before any call; its NewAdapter declared
\* the queue.
Init ==
  /\ caller = [m \in Call |-> "new"]
  /\ answer = [m \in Call |-> None]
  /\ reply = [m \in Call |-> None]
  /\ linked = TRUE /\ wire = {} /\ declared = TRUE
  /\ queue = <<>>
  /\ status = [c \in Consumer |-> "off"]
  /\ inHand = [c \in Consumer |-> None]
  /\ stage = [c \in Consumer |-> "handle"]
  /\ outcome = [c \in Consumer |-> None]
  /\ done = [m \in Call |-> <<>>]
  /\ acked = {} /\ gone = {}
  /\ interrupted = [m \in Call |-> 0]
  /\ losses = 0

-----------------------------------------------------------------------------
(* The server's side. *)

Become(m, place) == caller' = [caller EXCEPT ![m] = place]

\* The response queue is declared and consumed from.
Declare(m) ==
  /\ m \in Rpc /\ caller[m] = "new" /\ linked
  /\ Become(m, "declaring")
  /\ UNCHANGED <<answer, server, broker, status, work, failures>>

\* The message is written to the connection.  No confirmation is asked for: the
\* call goes on, or returns nil, before the broker has it.
Publish(m) ==
  /\ \/ m \in Rpc /\ caller[m] = "declaring" /\ Become(m, "waiting")
     \/ m \in Fire /\ caller[m] = "new" /\ Become(m, "sent")
  /\ linked
  /\ wire' = wire \cup {m}
  /\ UNCHANGED <<answer, reply, linked, broker, status, work, failures>>

\* An error before the message is out: the connection is closed, or the client
\* library gave the reply of one synchronous call on the shared channel
\* (QueueDeclare, Consume, Cancel) to another call under way.
Reject(m) ==
  /\ caller[m] \in {"new", "declaring"}
  /\ \/ ~linked
     \/ /\ caller[m] = "declaring"
        /\ \E n \in Rpc \ {m} : caller[n] \in {"declaring", "answered", "gaveUp"}
  /\ Become(m, "rejected")
  /\ UNCHANGED <<answer, server, broker, status, work, failures>>

\* The first delivery from the response queue is the caller's answer.
Take(m) ==
  /\ caller[m] = "waiting" /\ reply[m] # None
  /\ Become(m, "answered")
  /\ answer' = [answer EXCEPT ![m] = reply[m]]
  /\ UNCHANGED <<server, broker, status, work, failures>>

\* The timeout, the end of the caller's context, or the channel of deliveries
\* closed with the connection ("no response received").
GiveUp(m) ==
  /\ caller[m] = "waiting"
  /\ Become(m, "gaveUp")
  /\ UNCHANGED <<answer, server, broker, status, work, failures>>

\* The server loses its connection, and with it the response queues.
LoseServer ==
  /\ linked
  /\ linked' = FALSE
  /\ UNCHANGED <<callers, reply, wire, broker, status, work, failures>>

\* The broker reads a publication, before or after it sees the connection go.
\* It drops one without a queue, for none is published as mandatory.
Arrive(m) ==
  /\ m \in wire /\ wire' = wire \ {m}
  /\ IF declared
     THEN queue' = Append(queue, m) /\ UNCHANGED gone
     ELSE gone' = gone \cup {m} /\ UNCHANGED queue
  /\ UNCHANGED <<callers, reply, linked, declared, acked, status, work, failures>>

\* A publication is lost with the connection it was written to.
LoseOnWire(m) ==
  /\ m \in wire /\ ~linked
  /\ wire' = wire \ {m}
  /\ gone' = gone \cup {m}
  /\ UNCHANGED <<callers, reply, linked, declared, queue, acked, status, work, failures>>

\* Mutant of Expire: the 60 seconds are those of every message.
ExpireAny ==
  /\ queue # <<>>
  /\ queue' = Tail(queue)
  /\ gone' = gone \cup {Head(queue)}
  /\ UNCHANGED <<callers, server, declared, acked, status, work, failures>>

\* A request of PublishTransaction lives 60 seconds, and expires at the head.
Expire ==
  /\ queue # <<>> /\ Head(queue) \in Rpc
  /\ queue' = Tail(queue)
  /\ gone' = gone \cup {Head(queue)}
  /\ UNCHANGED <<callers, server, declared, acked, status, work, failures>>

-----------------------------------------------------------------------------
(* The consumers' side. *)

\* NewAdapter: connect, and declare the queue.
Connect(c) ==
  /\ status[c] = "off"
  /\ status' = [status EXCEPT ![c] = "connected"]
  /\ declared' = TRUE
  /\ UNCHANGED <<callers, server, queue, acked, gone, work, failures>>

\* StartConsumer.  Its error is only logged, and the process stays.
Subscribe(c) ==
  /\ status[c] = "connected"
  /\ status' = [status EXCEPT ![c] = IF declared THEN "consuming" ELSE "deaf"]
  /\ UNCHANGED <<callers, server, broker, work, failures>>

\* The goroutine of c turns to the message m, or to none.
TurnTo(c, m) ==
  /\ inHand' = [inHand EXCEPT ![c] = m]
  /\ stage' = [stage EXCEPT ![c] = "handle"]
  /\ outcome' = [outcome EXCEPT ![c] = None]

\* Mutant of Deliver: the consumer is registered with automatic acknowledgement.
DeliverAutoAck(c) ==
  /\ status[c] = "consuming" /\ inHand[c] = None /\ queue # <<>>
  /\ TurnTo(c, Head(queue))
  /\ queue' = Tail(queue)
  /\ acked' = acked \cup {Head(queue)}
  /\ UNCHANGED <<callers, server, declared, gone, status, done, failures>>

\* A delivery: one unacknowledged message at a time.
Deliver(c) ==
  /\ status[c] = "consuming" /\ inHand[c] = None /\ queue # <<>>
  /\ TurnTo(c, Head(queue))
  /\ queue' = Tail(queue)
  /\ UNCHANGED <<callers, server, declared, acked, gone, status, done, failures>>

\* The handler runs, whatever has become of the connection.
Handle(c) ==
  /\ inHand[c] # None /\ stage[c] = "handle"
  /\ \E x \in Result :
       /\ outcome' = [outcome EXCEPT ![c] = x]
       /\ done' = [done EXCEPT ![inHand[c]] = Append(@, x)]
  /\ stage' = [stage EXCEPT ![c] = IF inHand[c] \in Rpc THEN "respond" ELSE "ack"]
  /\ UNCHANGED <<callers, server, broker, status, inHand, failures>>

\* Whether a response sent by c finds the response queue of m, still empty.
Reaches(c, m) ==
  status[c] = "consuming" /\ linked /\ caller[m] = "waiting" /\ reply[m] = None

\* Mutant of Respond: the response goes to whichever call waits.
RespondToAny(c) ==
  /\ inHand[c] # None /\ stage[c] = "respond"
  /\ \E m \in Rpc : reply' = [reply EXCEPT ![m] = IF Reaches(c, m) THEN outcome[c] ELSE @]
  /\ stage' = [stage EXCEPT ![c] = "ack"]
  /\ UNCHANGED <<callers, linked, wire, broker, status, inHand, outcome, done, failures>>

\* sendResponse: a response nobody waits for is dropped, an error is only logged.
Respond(c) ==
  /\ inHand[c] # None /\ stage[c] = "respond"
  /\ reply' = [reply EXCEPT ![inHand[c]] = IF Reaches(c, inHand[c]) THEN outcome[c] ELSE @]
  /\ stage' = [stage EXCEPT ![c] = "ack"]
  /\ UNCHANGED <<callers, linked, wire, broker, status, inHand, outcome, done, failures>>

\* Mutant of Ack: a call whose caller has gone is put back instead.
AckOrRequeue(c) ==
  /\ inHand[c] # None /\ stage[c] = "ack"
  /\ TurnTo(c, None)
  /\ IF status[c] # "consuming" THEN UNCHANGED <<queue, acked>>
     ELSE IF caller[inHand[c]] = "gaveUp"
     THEN queue' = <<inHand[c]>> \o queue /\ UNCHANGED acked
     ELSE acked' = acked \cup {inHand[c]} /\ UNCHANGED queue
  /\ UNCHANGED <<callers, server, declared, gone, status, done, failures>>

\* Mutant of Ack: left out when the caller has gone.
AckIfWanted(c) ==
  /\ inHand[c] # None /\ stage[c] = "ack"
  /\ caller[inHand[c]] # "gaveUp"
  /\ TurnTo(c, None)
  /\ acked' = IF status[c] = "consuming" THEN acked \cup {inHand[c]} ELSE acked
  /\ UNCHANGED <<callers, server, declared, queue, gone, status, done, failures>>

\* Mutant of Ack: the message in hand is forgotten before it is acknowledged.
AckForgotten(c) ==
  /\ inHand[c] # None /\ stage[c] = "ack"
  /\ TurnTo(c, None)
  /\ acked' = IF status[c] = "consuming" THEN acked \cup {inHand'[c]} ELSE acked
  /\ UNCHANGED <<callers, server, declared, queue, gone, status, done, failures>>

\* The acknowledgement, whose error on a lost connection is not looked at.
Ack(c) ==
  /\ inHand[c] # None /\ stage[c] = "ack"
  /\ TurnTo(c, None)
  /\ acked' = IF status[c] = "consuming" THEN acked \cup {inHand[c]} ELSE acked
  /\ UNCHANGED <<callers, server, declared, queue, gone, status, done, failures>>

\* The broker sees c go: what c has in hand returns to the head of the queue,
\* and with its last consumer the queue is deleted, messages and all.
Leave(c) ==
  LET back == IF status[c] = "consuming" /\ inHand[c] # None
              THEN <<inHand[c]>> \o queue ELSE queue
  IN  /\ status' = [status EXCEPT ![c] = "deaf"]
      /\ interrupted' = [m \in Call |->
           IF m = inHand[c] /\ status[c] = "consuming"
           THEN interrupted[m] + 1 ELSE interrupted[m]]
      /\ IF Consuming = {c}
         THEN /\ declared' = FALSE /\ queue' = <<>>
              /\ gone' = gone \cup {back[i] : i \in DOMAIN back}
         ELSE queue' = back /\ UNCHANGED <<declared, gone>>
      /\ UNCHANGED <<callers, server, acked, work>>

\* The connection is lost, or closed by a signal: main then returns without a
\* word to the handler, and the deferred Close does not wait for it.
LoseConnection(c) ==
  /\ status[c] \in {"connected", "consuming"} /\ losses < MaxLosses
  /\ losses' = losses + 1
  /\ Leave(c)

\* A process without connection dies, or is ended by its operator.
Exit(c) ==
  /\ status[c] = "deaf"
  /\ status' = [status EXCEPT ![c] = "off"]
  /\ TurnTo(c, None)
  /\ UNCHANGED <<callers, server, broker, done, failures>>

-----------------------------------------------------------------------------
Work(c) == Deliver(c) \/ Handle(c) \/ Respond(c) \/ Ack(c)

Next ==
  \/ \E m \in Rpc : Declare(m) \/ Take(m) \/ GiveUp(m)
  \/ \E m \in Call : Publish(m) \/ Reject(m) \/ Arrive(m) \/ LoseOnWire(m)
  \/ LoseServer \/ Expire
  \/ \E c \in Consumer :
       Connect(c) \/ Subscribe(c) \/ Work(c) \/ LoseConnection(c) \/ Exit(c)

\* A consumer that has its connection gets deliveries and its goroutine works
\* them off; callers end by the timeout at the latest.
Fairness ==
  /\ \A c \in Consumer : WF_vars(Work(c))
  /\ \A m \in Rpc : WF_vars(Take(m) \/ GiveUp(m))

Spec == Init /\ [][Next]_vars
FairSpec == Spec /\ Fairness

-----------------------------------------------------------------------------
(* Properties *)

\* A message is acknowledged only after its handler has run and, if its caller
\* still waits, after the response is in the response queue (handleMessage: no
\* step of it, and no loss of a consumer, leaves a caller without a chance).
AckedIsServed == \A m \in acked :
  /\ done[m] # <<>>
  /\ m \in Rpc /\ linked /\ caller[m] = "waiting" => reply[m] # None

\* A call is handled again only if a consumer was lost with it in hand: no more
\* runs than interruptions and one (the acknowledgement at the end of
\* handleMessage is what keeps a deposit from being made twice).
RepeatsAccounted == \A m \in Call : Len(done[m]) <= interrupted[m] + 1

\* While some consumer has its connection, every message in the queue is in the
\* end acknowledged or gone: no handler, response or dead caller blocks the
\* single prefetch slot (handleMessage acknowledges on every path).
Drained == \A m \in Call : Queued(m) ~> (m \in acked \cup gone \/ Consuming = {})

\* The port's promise: an answer is the result of a run of the caller's own
\* call, and a call that was refused is never run.
Port == INSTANCE QueuePort WITH
  NoAnswer <- None,
  state <- [m \in Call |-> CASE caller[m] \in {"new", "declaring"} -> "new"
                             [] caller[m] \in {"waiting", "sent"} -> "open"
                             [] OTHER -> caller[m]],
  ran <- [m \in Call |-> {done[m][i] : i \in DOMAIN done[m]}]

PortSpec == Port!Spec

\* A fire-and-forget call is lost only on the way, with the connection that the
\* server wrote it to, or while no consumer is subscribed: a consumer that is late,
\* or goes and leaves another behind, and a server that goes lose nothing that has
\* arrived (setupQueue makes the queue on both sides, PublishTransactionFireAndForget
\* sets no expiration; it asks for no confirmation either, hence the first case).
LostOnlyUnconsumed ==
  [][\A m \in Fire : m \in gone' \ gone =>
       (m \in wire /\ ~linked) \/ Consuming' = {}]_vars
=============================================================================
