----------------------------- MODULE RedisQueue -----------------------------
(***************************************************************************)
(* The Redis adapter (queue/redis/adapter.go): calls added to a stream,    *)
(* consumer processes that read it through one consumer group, answers     *)
(* pushed on a list of the call's own, which expires.                      *)
(*                                                                         *)
(* The part of Redis, as the adapter uses it: a group hands each entry out *)
(* once (">") and keeps it pending until it is acknowledged.  The part of  *)
(* the client library: a command whose reply is lost with a connection is  *)
(* executed again (the adapter leaves its MaxRetries alone), so a "fault"  *)
(* is a reply lost, whether or not the command had its effect.             *)
(*                                                                         *)
(* The server has been started, and its NewAdapter has made the group.  A  *)
(* run of the handler is one step here; WalletUseCase has its inside.      *)
(***************************************************************************)
EXTENDS Integers, Sequences, FiniteSets

CONSTANTS
  Rpc,         \* calls of PublishTransaction
  Consumer,    \* consumer processes
  Result,      \* what the handler answers
  None,        \* no result
  Marker,      \* the entry "init" that ensureConsumerGroup adds
  MaxStarts,   \* bound on the starts of consumers
  MaxCrashes,  \* bound on the crashes of consumers
  MaxFaults    \* bound on the replies lost

ASSUME RedisAssumption ==
  /\ Marker \notin Rpc /\ None \notin Result
  /\ {MaxStarts, MaxCrashes, MaxFaults} \subseteq Nat

VARIABLES
  caller,   \* caller[m], where the call m is
  answer,   \* answer[m], what its caller was told
  list,     \* list[m], the responses under its key, the oldest first
  expires,  \* calls whose key has a time to live
  stream,   \* all entries, the oldest first
  last,     \* how many of them the group has handed out
  pending,  \* entries handed out and not acknowledged
  status,   \* status[c], the life of the consumer process c
  stage,    \* stage[c], where its goroutine is
  inHand,   \* inHand[c], the entry it works on, 0 for none
  outcome,  \* outcome[c], the response of its handler
  done,     \* done[m], the results of the runs of m, in order
  starts, crashes, faults   \* how many so far

callers == <<caller, answer>>
keys == <<list, expires>>
group == <<stream, last, pending>>
work == <<stage, inHand, outcome, done>>
bounds == <<starts, crashes, faults>>
vars == <<callers, keys, group, status, work, bounds>>

TypeOK ==
  /\ caller \in [Rpc -> {"new", "retrying", "waiting",
                          "answered", "gaveUp", "rejected"}]
  /\ answer \in [Rpc -> Result \cup {None}]
  /\ list \in [Rpc -> Seq(Result)] /\ expires \subseteq Rpc
  /\ stream \in Seq(Rpc \cup {Marker})
  /\ last \in 0 .. Len(stream) /\ pending \subseteq 1 .. last
  /\ status \in [Consumer -> {"off", "running", "stopping"}]
  /\ stage \in [Consumer -> {"idle", "read", "handle", "push", "expire", "ack"}]
  /\ inHand \in [Consumer -> {0} \cup pending]
  /\ outcome \in [Consumer -> Result \cup {None}]
  /\ done \in [Rpc -> Seq(Result)]
  /\ starts \in 0 .. MaxStarts /\ crashes \in 0 .. MaxCrashes /\ faults \in 0 .. MaxFaults

Init ==
  /\ caller = [m \in Rpc |-> "new"]
  /\ answer = [m \in Rpc |-> None]
  /\ list = [m \in Rpc |-> <<>>] /\ expires = {}
  /\ stream = <<Marker>> /\ last = 0 /\ pending = {}
  /\ status = [c \in Consumer |-> "off"]
  /\ stage = [c \in Consumer |-> "idle"]
  /\ inHand = [c \in Consumer |-> 0]
  /\ outcome = [c \in Consumer |-> None]
  /\ done = [m \in Rpc |-> <<>>]
  /\ starts = 0 /\ crashes = 0 /\ faults = 0

Fault ==
  /\ faults < MaxFaults /\ faults' = faults + 1
  /\ UNCHANGED <<starts, crashes>>

-----------------------------------------------------------------------------
(* The server's side. *)

Become(m, place) == caller' = [caller EXCEPT ![m] = place]

\* XADD.  If its reply is lost it may have had its effect, and is tried again.
Publish(m) ==
  /\ caller[m] \in {"new", "retrying"}
  /\ \/ Become(m, "waiting") /\ stream' = Append(stream, m) /\ UNCHANGED bounds
     \/ Become(m, "retrying") /\ stream' \in {stream, Append(stream, m)} /\ Fault
  /\ UNCHANGED <<answer, keys, last, pending, status, work>>

\* The retries are used up: "failed to publish message".
Reject(m) ==
  /\ caller[m] = "retrying" /\ Become(m, "rejected")
  /\ UNCHANGED <<answer, keys, group, status, work, bounds>>

\* The key without its oldest response; an empty list is no key.
Pop(m) ==
  /\ list' = [list EXCEPT ![m] = Tail(@)]
  /\ expires' = IF Len(list[m]) = 1 THEN expires \ {m} ELSE expires

\* Mutant of Take: the first element of BLPOP's result, the key.
TakeKey(m) ==
  /\ caller[m] = "waiting" /\ list[m] # <<>>
  /\ Pop(m) /\ Become(m, "answered") /\ answer' = [answer EXCEPT ![m] = m]
  /\ UNCHANGED <<group, status, work, bounds>>

\* BLPOP.  With its reply lost the response is gone, and BLPOP is tried again.
Take(m) ==
  /\ caller[m] = "waiting" /\ list[m] # <<>>
  /\ Pop(m)
  /\ \/ /\ Become(m, "answered") /\ UNCHANGED bounds
        /\ answer' = [answer EXCEPT ![m] = Head(list[m])]
     \/ Fault /\ UNCHANGED callers
  /\ UNCHANGED <<group, status, work>>

\* 30 seconds without a response, or an error of BLPOP.
GiveUp(m) ==
  /\ caller[m] = "waiting" /\ Become(m, "gaveUp")
  /\ UNCHANGED <<answer, keys, group, status, work, bounds>>

\* A key expires, 5 minutes after a response: its caller waits for 30 seconds.
Vanish(m) ==
  /\ m \in expires /\ caller[m] # "waiting"
  /\ list' = [list EXCEPT ![m] = <<>>] /\ expires' = expires \ {m}
  /\ UNCHANGED <<callers, group, status, work, bounds>>

-----------------------------------------------------------------------------
(* The consumers' side. *)

\* NewAdapter and StartConsumer.  An XADD whose reply is lost adds "init" once
\* more when it is tried again; an error of it is a warning.
Start(c) ==
  /\ status[c] = "off" /\ starts < MaxStarts
  /\ status' = [status EXCEPT ![c] = "running"] /\ starts' = starts + 1
  /\ \/ stream' = Append(stream, Marker) /\ UNCHANGED faults
     \/ /\ faults < MaxFaults /\ faults' = faults + 1
        /\ stream' \in {stream, Append(Append(stream, Marker), Marker)}
  /\ UNCHANGED <<callers, keys, last, pending, work, crashes>>

Goto(c, place) == stage' = [stage EXCEPT ![c] = place]

\* The head of the loop: XREADGROUP, unless the context is done.
Read(c) ==
  /\ stage[c] = "idle" /\ status[c] = "running" /\ Goto(c, "read")
  /\ UNCHANGED <<callers, keys, group, status, inHand, outcome, done, bounds>>

\* Five seconds without an entry.
ReadNothing(c) ==
  /\ stage[c] = "read" /\ last = Len(stream) /\ Goto(c, "idle")
  /\ UNCHANGED <<callers, keys, group, status, inHand, outcome, done, bounds>>

\* Where handleMessage goes with an entry: nothing to do for one that is not a
\* message.
Hold(c, i) ==
  /\ inHand' = [inHand EXCEPT ![c] = i]
  /\ Goto(c, IF stream[i] = Marker THEN "ack" ELSE "handle")

\* Mutant of Fetch: the group's pending entries first ("0" for ">").
FetchPending(c) ==
  /\ stage[c] = "read" /\ UNCHANGED stream
  /\ IF pending # {}
     THEN Hold(c, CHOOSE i \in pending : \A j \in pending : i <= j) /\ UNCHANGED <<last, pending>>
     ELSE /\ last < Len(stream) /\ Hold(c, last + 1)
          /\ last' = last + 1 /\ pending' = pending \cup {last + 1}
  /\ UNCHANGED <<callers, keys, status, outcome, done, bounds>>

\* Mutant of Fetch: NOACK.
FetchNoAck(c) ==
  /\ stage[c] = "read" /\ last < Len(stream)
  /\ last' = last + 1 /\ Hold(c, last + 1)
  /\ UNCHANGED <<callers, keys, stream, pending, status, outcome, done, bounds>>

\* The next entry is handed to c, or, its reply lost, to nobody.
Fetch(c) ==
  /\ stage[c] = "read" /\ last < Len(stream)
  /\ last' = last + 1 /\ pending' = pending \cup {last + 1}
  /\ \/ Hold(c, last + 1) /\ UNCHANGED bounds
     \/ Fault /\ stage' \in {stage, [stage EXCEPT ![c] = "idle"]} /\ UNCHANGED inHand
  /\ UNCHANGED <<callers, keys, stream, status, outcome, done>>

Handle(c) ==
  /\ stage[c] = "handle" /\ Goto(c, "push")
  /\ \E x \in Result :
       /\ outcome' = [outcome EXCEPT ![c] = x]
       /\ done' = [done EXCEPT ![stream[inHand[c]]] = Append(@, x)]
  /\ UNCHANGED <<callers, keys, group, status, inHand, bounds>>

\* Mutant of Push: one key for all calls.
PushToAny(c) ==
  /\ stage[c] = "push" /\ Goto(c, "expire")
  /\ \E m \in Rpc : list' = [list EXCEPT ![m] = Append(@, outcome[c])]
  /\ UNCHANGED <<callers, expires, group, status, inHand, outcome, done, bounds>>

\* RPUSH; its error is logged only.  A key without a time to live stays so.
Push(c) ==
  LET m == stream[inHand[c]]
  IN  /\ stage[c] = "push" /\ Goto(c, "expire")
      /\ \/ list' = [list EXCEPT ![m] = Append(@, outcome[c])] /\ UNCHANGED bounds
         \/ list' \in {list, [list EXCEPT ![m] = @ \o <<outcome[c], outcome[c]>>]} /\ Fault
      /\ UNCHANGED <<callers, expires, group, status, inHand, outcome, done>>

\* Mutant of Expire: left out for a caller that has gone.
ExpireIfWanted(c) ==
  LET m == stream[inHand[c]]
  IN  /\ stage[c] = "expire" /\ Goto(c, "ack")
      /\ expires' = IF list[m] # <<>> /\ caller[m] = "waiting" THEN expires \cup {m} ELSE expires
      /\ UNCHANGED <<callers, list, group, status, inHand, outcome, done, bounds>>

\* EXPIRE, without effect where there is no key; its error is not looked at.
Expire(c) ==
  LET m == stream[inHand[c]]
  IN  /\ stage[c] = "expire" /\ Goto(c, "ack")
      /\ \/ UNCHANGED bounds
            /\ expires' = IF list[m] # <<>> THEN expires \cup {m} ELSE expires
         \/ Fault /\ UNCHANGED expires
      /\ UNCHANGED <<callers, list, group, status, inHand, outcome, done>>

\* XACK, whose error is not looked at.
Ack(c) ==
  /\ stage[c] = "ack" /\ Goto(c, "idle")
  /\ inHand' = [inHand EXCEPT ![c] = 0]
  /\ \/ pending' = pending \ {inHand[c]} /\ UNCHANGED bounds
     \/ Fault /\ UNCHANGED pending
  /\ UNCHANGED <<callers, keys, stream, last, status, outcome, done>>

\* The process goes, and drops what it had in hand.
Off(c) ==
  /\ status' = [status EXCEPT ![c] = "off"] /\ Goto(c, "idle")
  /\ inHand' = [inHand EXCEPT ![c] = 0]
  /\ UNCHANGED <<callers, keys, group, outcome, done>>

\* Mutant of Stop: the process does not wait for its goroutine.
StopNow(c) == status[c] = "running" /\ Off(c) /\ UNCHANGED bounds

\* A signal: StopConsumer cancels the context, and waits.
Stop(c) ==
  /\ status[c] = "running"
  /\ status' = [status EXCEPT ![c] = "stopping"]
  /\ UNCHANGED <<callers, keys, group, work, bounds>>

\* The goroutine sees the context done at the head of its loop.
Finish(c) == stage[c] = "idle" /\ status[c] = "stopping" /\ Off(c) /\ UNCHANGED bounds

Crash(c) ==
  /\ status[c] # "off" /\ crashes < MaxCrashes /\ crashes' = crashes + 1
  /\ Off(c) /\ UNCHANGED <<starts, faults>>

-----------------------------------------------------------------------------
Work(c) == Read(c) \/ ReadNothing(c) \/ Fetch(c) \/ Handle(c) \/ Push(c)
           \/ Expire(c) \/ Ack(c) \/ Finish(c)

Next ==
  \/ \E m \in Rpc : Publish(m) \/ Reject(m) \/ Take(m) \/ GiveUp(m) \/ Vanish(m)
  \/ \E c \in Consumer : Start(c) \/ Work(c) \/ Stop(c) \/ Crash(c)

Spec == Init /\ [][Next]_vars

-----------------------------------------------------------------------------
(* Properties *)

Failed == crashes > 0 \/ faults > 0

\* No entry is handled twice, by any interleaving of consumers, crashes and
\* lost replies: a call runs at most as often as its entries were handed out
\* (the ">" of consumeMessages is what keeps a deposit from being made twice).
RunsAccounted == \A m \in Rpc :
  Len(done[m]) <= Cardinality({i \in 1 .. last : stream[i] = m})

\* An entry handed out and no longer pending is a marker or has been handled,
\* and a caller that still waits for it has a response to find (XACK comes
\* after handleMessage; with a reply lost there may be none).
SettledWasServed == \A i \in (1 .. last) \ pending : stream[i] # Marker =>
  /\ done[stream[i]] # <<>>
  /\ faults = 0 /\ caller[stream[i]] = "waiting" => list[stream[i]] # <<>>

\* Unless a consumer crashes or a reply is lost, exactly what consumers work on
\* is pending: a stop abandons no entry, which nobody would ever claim
\* (StopConsumer waits for the goroutine).
NothingAbandoned ==
  ~Failed => pending = {inHand[c] : c \in Consumer} \ {0}

\* No response outlives its caller for ever: a key with a response has a time
\* to live, unless a consumer is about to give it one, or has died before, or
\* its EXPIRE has failed (RPUSH and EXPIRE of sendResponse are two commands).
KeysExpire == ~Failed =>
  \A m \in Rpc : list[m] # <<>> /\ m \notin expires =>
    \E c \in Consumer : stage[c] = "expire" /\ stream[inHand[c]] = m

\* The port's promise.  Here the error of a publication does not tell whether
\* the call runs, so to the port it is a caller that gave up.
Port == INSTANCE QueuePort WITH
  Call <- Rpc,
  NoAnswer <- None,
  state <- [m \in Rpc |-> CASE caller[m] \in {"retrying", "waiting"} -> "open"
                             [] caller[m] = "rejected" -> "gaveUp"
                             [] OTHER -> caller[m]],
  ran <- [m \in Rpc |-> {done[m][i] : i \in DOMAIN done[m]}]

PortSpec == Port!Spec
=============================================================================
