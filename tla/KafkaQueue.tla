----------------------------- MODULE KafkaQueue -----------------------------
(***************************************************************************)
(* The Kafka adapter (queue/kafka/adapter.go), from the topic to the       *)
(* response: requests written to partitions of the topic, and consumer     *)
(* processes of one group that handle, respond, and commit.  What a caller *)
(* makes of its response topic is KafkaRPC.                                *)
(*                                                                         *)
(* Kafka's part, as the adapter uses it: each partition is a log and has   *)
(* one owner in the group.  When the members change, the partitions are    *)
(* assigned anew and read on from the committed offsets; a consumer is not *)
(* told, and goes on with the message it has in hand.  The members are not *)
(* consumers only: the response reader of every RPC call joins the same    *)
(* group for as long as the call waits.                                    *)
(*                                                                         *)
(* A run of the handler is one step; WalletUseCase has its inside.         *)
(***************************************************************************)
EXTENDS Integers, Sequences, FiniteSets

CONSTANTS
  Rpc,            \* calls of PublishTransaction
  Fire,           \* calls of PublishTransactionFireAndForget
  Partition,      \* partitions of the topic
  Consumer,       \* consumer processes
  Result,         \* what the handler answers
  None,           \* no consumer, no entry, no result
  MaxStarts,      \* bound on the starts of consumers
  MaxCrashes,     \* bound on the crashes of consumers
  MaxRebalances,  \* bound on the comings and goings of response readers
  MaxFaults       \* bound on the failures of writes and commits

Call == Rpc \cup Fire

ASSUME KafkaAssumption ==
  /\ Rpc \cap Fire = {} /\ None \notin Consumer \cup Result \cup (Partition \X Nat)
  /\ {MaxStarts, MaxCrashes, MaxRebalances, MaxFaults} \subseteq Nat

VARIABLES
  caller,      \* caller[m], where the publication of m is
  log,         \* log[p], the requests in the partition p
  replies,     \* replies[m], the responses in m's response topic
  owner,       \* owner[p], the consumer that reads p
  pos,         \* pos[p], how many of p its owner has been handed
  committed,   \* committed[p], how many of p the group has done
  generation,  \* how often the partitions have been assigned
  status,      \* status[c], the life of the consumer process c
  stage,       \* stage[c], where its goroutine is
  inHand,      \* inHand[c], the entry it works on: partition and offset
  fetchedIn,   \* fetchedIn[c], the generation it was fetched in
  outcome,     \* outcome[c], the response of its handler
  runs,        \* runs[p], how often each entry of p has been handled
  rewound,     \* rewound[p], how often an assignment went back before it
  starts, crashes, rebalances, faults   \* how many so far

assignment == <<owner, pos, generation, rewound>>
work == <<stage, inHand, fetchedIn, outcome>>
bounds == <<starts, crashes, rebalances, faults>>
vars == <<caller, log, replies, assignment, committed, status, work, runs, bounds>>

TypeOK ==
  /\ caller \in [Call -> {"new", "retrying", "sent", "rejected", "late"}]
  /\ log \in [Partition -> Seq(Call)]
  /\ replies \in [Rpc -> Seq(Result)]
  /\ owner \in [Partition -> Consumer \cup {None}]
  /\ pos \in [Partition -> Nat] /\ committed \in [Partition -> Nat]
  /\ runs \in [Partition -> Seq(Nat)] /\ rewound \in [Partition -> Seq(Nat)]
  /\ \A p \in Partition :
       /\ pos[p] <= Len(log[p]) /\ committed[p] <= Len(log[p])
       /\ Len(runs[p]) = Len(log[p]) /\ Len(rewound[p]) = Len(log[p])
  /\ generation \in Nat
  /\ status \in [Consumer -> {"off", "running", "stopping"}]
  /\ stage \in [Consumer -> {"idle", "fetch", "handle", "respond", "commit"}]
  /\ inHand \in [Consumer -> {None} \cup (Partition \X Nat)]
  /\ \A c \in Consumer : inHand[c] # None => inHand[c][2] \in DOMAIN log[inHand[c][1]]
  /\ fetchedIn \in [Consumer -> 0 .. generation]
  /\ outcome \in [Consumer -> Result \cup {None}]
  /\ starts \in 0 .. MaxStarts /\ crashes \in 0 .. MaxCrashes
  /\ rebalances \in 0 .. MaxRebalances /\ faults \in 0 .. MaxFaults

Init ==
  /\ caller = [m \in Call |-> "new"]
  /\ log = [p \in Partition |-> <<>>]
  /\ replies = [m \in Rpc |-> <<>>]
  /\ owner = [p \in Partition |-> None]
  /\ pos = [p \in Partition |-> 0] /\ committed = pos
  /\ generation = 0
  /\ status = [c \in Consumer |-> "off"]
  /\ stage = [c \in Consumer |-> "idle"]
  /\ inHand = [c \in Consumer |-> None]
  /\ fetchedIn = [c \in Consumer |-> 0]
  /\ outcome = [c \in Consumer |-> None]
  /\ runs = log /\ rewound = log
  /\ starts = 0 /\ crashes = 0 /\ rebalances = 0 /\ faults = 0

Member == {c \in Consumer : status[c] # "off"}

Fault ==
  /\ faults < MaxFaults /\ faults' = faults + 1
  /\ UNCHANGED <<starts, crashes, rebalances>>

-----------------------------------------------------------------------------
(* The server's side. *)

\* The writer balances by bytes, not by key: any partition takes the request.
Write(m) == \E p \in Partition :
  /\ log' = [log EXCEPT ![p] = Append(@, m)]
  /\ runs' = [runs EXCEPT ![p] = Append(@, 0)]
  /\ rewound' = [rewound EXCEPT ![p] = Append(@, 0)]

\* WriteMessages.  An attempt that failed may have written, and is repeated.
Publish(m) ==
  /\ caller[m] \in {"new", "retrying"}
  /\ \/ /\ caller' = [caller EXCEPT ![m] = "sent"]
        /\ Write(m) /\ UNCHANGED bounds
     \/ /\ caller' = [caller EXCEPT ![m] = "retrying"]
        /\ Write(m) \/ UNCHANGED <<log, runs, rewound>>
        /\ Fault
  /\ UNCHANGED <<replies, owner, pos, generation, committed, status, work>>

\* The attempts are used up, or the client has gone: "failed to write message".
Reject(m) ==
  /\ caller[m] \in {"new", "retrying"} /\ caller' = [caller EXCEPT ![m] = "rejected"]
  /\ UNCHANGED <<log, replies, assignment, committed, status, work, runs, bounds>>

\* The writer goes on with a request whose caller no longer waits for it.
WriteLate(m) ==
  /\ caller[m] = "rejected" /\ caller' = [caller EXCEPT ![m] = "late"]
  /\ Write(m)
  /\ UNCHANGED <<replies, owner, pos, generation, committed, status, work, bounds>>

-----------------------------------------------------------------------------
(* The group. *)

\* Mutant of Assign: a reader that starts at the end (StartOffset LastOffset).
AssignLatest(members) ==
  /\ owner' \in [Partition -> IF members = {} THEN {None} ELSE members]
  /\ pos' = [p \in Partition |-> IF committed[p] = 0 THEN Len(log[p]) ELSE committed[p]]
  /\ generation' = generation + 1
  /\ UNCHANGED rewound

\* The partitions go to the members, in any way, and reading resumes at the
\* committed offsets, or starts at the first (StartOffset FirstOffset).
Assign(members) ==
  /\ owner' \in [Partition -> IF members = {} THEN {None} ELSE members]
  /\ pos' = committed /\ generation' = generation + 1
  /\ rewound' = [p \in Partition |-> [i \in DOMAIN log[p] |->
       rewound[p][i] + IF committed[p] < i /\ i <= pos[p] THEN 1 ELSE 0]]

\* A response reader joins or leaves the group of the consumers.
Rebalance ==
  /\ Member # {} /\ rebalances < MaxRebalances /\ rebalances' = rebalances + 1
  /\ Assign(Member)
  /\ UNCHANGED <<caller, log, replies, committed, status, work, runs,
                 starts, crashes, faults>>

-----------------------------------------------------------------------------
(* The consumers' side. *)

\* StartConsumer, and the join of its reader.
Start(c) ==
  /\ status[c] = "off" /\ starts < MaxStarts
  /\ status' = [status EXCEPT ![c] = "running"] /\ starts' = starts + 1
  /\ Assign(Member \cup {c})
  /\ UNCHANGED <<caller, log, replies, committed, work, runs, crashes, rebalances, faults>>

Goto(c, place) == stage' = [stage EXCEPT ![c] = place]

\* The head of the loop: FetchMessage, unless the context is done.
Loop(c) ==
  /\ stage[c] = "idle" /\ status[c] = "running" /\ Goto(c, "fetch")
  /\ UNCHANGED <<caller, log, replies, assignment, committed, status, inHand,
                 fetchedIn, outcome, runs, bounds>>

\* Mutant of Fetch: the request is committed as it is read (ReadMessage).
ReadMessage(c) ==
  /\ stage[c] = "fetch" /\ Goto(c, "handle")
  /\ \E p \in Partition :
       /\ owner[p] = c /\ pos[p] < Len(log[p])
       /\ pos' = [pos EXCEPT ![p] = @ + 1]
       /\ inHand' = [inHand EXCEPT ![c] = <<p, pos[p] + 1>>]
       /\ committed' = [committed EXCEPT ![p] = pos[p] + 1]
  /\ fetchedIn' = [fetchedIn EXCEPT ![c] = generation]
  /\ UNCHANGED <<caller, log, replies, owner, generation, rewound,
                 status, outcome, runs, bounds>>

\* FetchMessage hands out the next request of a partition of c, even if the
\* context has been cancelled meanwhile.
Fetch(c) ==
  /\ stage[c] = "fetch" /\ Goto(c, "handle")
  /\ \E p \in Partition :
       /\ owner[p] = c /\ pos[p] < Len(log[p])
       /\ pos' = [pos EXCEPT ![p] = @ + 1]
       /\ inHand' = [inHand EXCEPT ![c] = <<p, pos[p] + 1>>]
  /\ fetchedIn' = [fetchedIn EXCEPT ![c] = generation]
  /\ UNCHANGED <<caller, log, replies, owner, generation, rewound, committed,
                 status, outcome, runs, bounds>>

\* FetchMessage returns with the cancelled context.
FetchCancelled(c) ==
  /\ stage[c] = "fetch" /\ status[c] = "stopping" /\ Goto(c, "idle")
  /\ UNCHANGED <<caller, log, replies, assignment, committed, status, inHand,
                 fetchedIn, outcome, runs, bounds>>

Request(c) == log[inHand[c][1]][inHand[c][2]]

\* The handler runs, whoever owns the partition by now.
Handle(c) ==
  /\ stage[c] = "handle"
  /\ Goto(c, IF Request(c) \in Rpc THEN "respond" ELSE "commit")
  /\ outcome' \in {[outcome EXCEPT ![c] = x] : x \in Result}
  /\ runs' = [runs EXCEPT ![inHand[c][1]][inHand[c][2]] = @ + 1]
  /\ UNCHANGED <<caller, log, replies, assignment, committed, status, inHand,
                 fetchedIn, bounds>>

\* Mutant of Respond: left out when the partition has another owner by now.
RespondUnlessMoved(c) ==
  /\ stage[c] = "respond" /\ Goto(c, "commit")
  /\ IF owner[inHand[c][1]] = c
     THEN replies' = [replies EXCEPT ![Request(c)] = Append(@, outcome[c])]
     ELSE UNCHANGED replies
  /\ UNCHANGED <<caller, log, assignment, committed, status, inHand, fetchedIn,
                 outcome, runs, bounds>>

\* sendResponse: an error of the write is logged only.
Respond(c) ==
  /\ stage[c] = "respond" /\ Goto(c, "commit")
  /\ \/ UNCHANGED bounds
        /\ replies' = [replies EXCEPT ![Request(c)] = Append(@, outcome[c])]
     \/ Fault /\ UNCHANGED replies
  /\ UNCHANGED <<caller, log, assignment, committed, status, inHand, fetchedIn,
                 outcome, runs>>

\* The goroutine has nothing in hand, and forgets what it had.
Drop(c) ==
  /\ Goto(c, "idle") /\ inHand' = [inHand EXCEPT ![c] = None]
  /\ fetchedIn' = [fetchedIn EXCEPT ![c] = 0]
  /\ outcome' = [outcome EXCEPT ![c] = None]

Done(c) ==
  /\ Drop(c)
  /\ UNCHANGED <<caller, log, replies, owner, generation, rewound, status, runs>>

CommitIt(c) == committed' = [committed EXCEPT ![inHand[c][1]] = inHand[c][2]]

\* Mutant of Commit: what could not be committed is fetched again.
CommitOrRefetch(c) ==
  /\ stage[c] = "commit" /\ UNCHANGED bounds
  /\ \/ CommitIt(c) /\ UNCHANGED pos
     \/ /\ status[c] = "stopping" \/ fetchedIn[c] # generation
        /\ pos' = [pos EXCEPT ![inHand[c][1]] = inHand[c][2] - 1]
        /\ UNCHANGED committed
  /\ Done(c)

\* Mutant of Commit: the next offset, to which the library adds one.
CommitNext(c) ==
  /\ stage[c] = "commit"
  /\ committed' = [committed EXCEPT ![inHand[c][1]] = inHand[c][2] + 1]
  /\ Done(c) /\ UNCHANGED <<pos, bounds>>

\* CommitMessages sets the offset, even back.  It may fail if the context is
\* cancelled or the generation over, or by a fault; the error is logged only.
Commit(c) ==
  /\ stage[c] = "commit"
  /\ \/ CommitIt(c) /\ UNCHANGED bounds
     \/ /\ UNCHANGED committed
        /\ \/ Fault
           \/ (status[c] = "stopping" \/ fetchedIn[c] # generation) /\ UNCHANGED bounds
  /\ Done(c) /\ UNCHANGED pos

\* A signal: StopConsumer cancels the context and waits for the goroutine.
Stop(c) ==
  /\ status[c] = "running" /\ status' = [status EXCEPT ![c] = "stopping"]
  /\ UNCHANGED <<caller, log, replies, assignment, committed, work, runs, bounds>>

\* The process ends, and its reader leaves the group.
Off(c) ==
  /\ status' = [status EXCEPT ![c] = "off"] /\ Drop(c)
  /\ Assign(Member \ {c})
  /\ UNCHANGED <<caller, log, replies, committed, runs>>

\* The goroutine sees the context done; then StopConsumer closes the reader.
Finish(c) == stage[c] = "idle" /\ status[c] = "stopping" /\ Off(c) /\ UNCHANGED bounds

Crash(c) ==
  /\ status[c] # "off" /\ crashes < MaxCrashes /\ crashes' = crashes + 1
  /\ Off(c) /\ UNCHANGED <<starts, rebalances, faults>>

-----------------------------------------------------------------------------
Work(c) == Loop(c) \/ Fetch(c) \/ FetchCancelled(c) \/ Handle(c) \/ Respond(c)
           \/ Commit(c) \/ Finish(c)

Next ==
  \/ \E m \in Call : Publish(m) \/ Reject(m) \/ WriteLate(m)
  \/ Rebalance
  \/ \E c \in Consumer : Start(c) \/ Work(c) \/ Stop(c) \/ Crash(c)

Spec == Init /\ [][Next]_vars

-----------------------------------------------------------------------------
(* Properties *)

\* Nothing is committed that was not handled, although a commit may come from a
\* consumer that has lost the partition, and may set the offset back (the
\* order of handleMessage and CommitMessages in consumeMessages).
CommittedWasHandled == \A p \in Partition : \A i \in 1 .. committed[p] : runs[p][i] > 0

\* An entry is handled again only after an assignment went back before it: once
\* at the most for each time that happened, and once besides (a commit that
\* failed is not made up for by another run).
RepeatsAccounted == \A p \in Partition : \A i \in DOMAIN log[p] :
  runs[p][i] <= rewound[p][i] + 1

\* A committed call has a response in its topic, however the partition moves
\* and processes die, if no write and no commit has failed (handleMessage responds
\* before the commit, even when it runs twice).
CommittedWasAnswered == faults = 0 =>
  \A p \in Partition : \A i \in 1 .. committed[p] : log[p][i] \in Rpc =>
    replies[log[p][i]] # <<>>

\* No request is passed over: one that a partition's owner has been handed, or
\* any owner before, has been handled or is at a handler, however often the
\* readers of callers, crashes and late commits move the reading about.
NothingSkipped == \A p \in Partition : \A i \in 1 .. pos[p] :
  runs[p][i] > 0 \/ \E c \in Consumer : inHand[c] = <<p, i>> /\ stage[c] = "handle"
=============================================================================
