------------------------------ MODULE KafkaRPC ------------------------------
(***************************************************************************)
(* The caller's side of the Kafka adapter, PublishTransaction of           *)
(* queue/kafka/adapter.go: one call, its listener goroutine, the two       *)
(* channels between them, and the context with its deadline of 30 seconds, *)
(* which runs from before the request is written.                          *)
(*                                                                         *)
(* Go's part: a select with several ready cases takes any of them; one     *)
(* with none blocks, and takes the first that becomes ready; a closed      *)
(* channel is ready, with the zero value.  Of Kafka and the consumers only *)
(* this is here: once the request is written there may be runs, each with  *)
(* a response in the call's own topic.                                     *)
(***************************************************************************)
EXTENDS Integers, Sequences

CONSTANTS
  Result,    \* what the handler answers
  None,      \* nothing received
  Zero,      \* the zero value of a response
  MaxRuns,   \* bound on the runs of the request
  EndEarly   \* whether a context may end before the caller waits

ASSUME RPCAssumption ==
  /\ {None, Zero} \cap Result = {} /\ None # Zero
  /\ MaxRuns \in Nat /\ EndEarly \in BOOLEAN

VARIABLES
  caller,       \* where the caller is
  answer,       \* the response it returned
  written,      \* whether the request is in the topic
  topic,        \* the responses not yet fetched, the oldest first
  ran,          \* the results of the runs
  ended,        \* whether the call's own context has ended
  deadline,     \* whether responseCtx has, too
  listener,     \* where the goroutine is
  got,          \* the response it holds
  responseChan, errorChan,  \* their contents, one place each
  closed        \* the channels closed

call == <<caller, answer>>
kafka == <<written, topic, ran>>
contexts == <<ended, deadline>>
goroutine == <<listener, got>>
channels == <<responseChan, errorChan, closed>>
vars == <<call, kafka, contexts, goroutine, channels>>

TypeOK ==
  /\ caller \in {"new", "writing", "select", "blocked", "answered", "failed"}
  /\ answer \in Result \cup {None, Zero}
  /\ written \in BOOLEAN
  /\ topic \in Seq(Result) /\ ran \subseteq Result
  /\ ended \in BOOLEAN /\ deadline \in BOOLEAN
  /\ listener \in {"none", "loop", "fetch", "send", "commit",
                   "closeError", "closeResponse", "ended"}
  /\ got \in Result \cup {None}
  /\ responseChan \in Seq(Result) /\ Len(responseChan) <= 1
  /\ errorChan \in Seq({"error"}) /\ Len(errorChan) <= 1
  /\ closed \subseteq {"response", "error"}

Init ==
  /\ caller = "new" /\ answer = None
  /\ written = FALSE /\ topic = <<>> /\ ran = {}
  /\ ended = FALSE /\ deadline = FALSE
  /\ listener = "none" /\ got = None
  /\ responseChan = <<>> /\ errorChan = <<>> /\ closed = {}

-----------------------------------------------------------------------------
(* The caller. *)

\* The reader, the context, the channels and the goroutine; then the write.
Publish ==
  /\ caller = "new" /\ caller' = "writing"
  /\ listener' = "loop"
  /\ UNCHANGED <<answer, kafka, contexts, got, channels>>

\* To return is to cancel responseCtx.
Fail == caller' = "failed" /\ deadline' = TRUE /\ UNCHANGED answer
Succeed(x) == caller' = "answered" /\ answer' = x /\ deadline' = TRUE

\* The request is in the topic.  WriteMessages has not returned, or its context
\* ended first: the writer goes on with what it was given.
Written ==
  /\ caller \in {"writing", "failed"} /\ ~written /\ written' = TRUE
  /\ UNCHANGED <<call, topic, ran, contexts, goroutine, channels>>

WriteReturns ==
  /\ caller = "writing"
  /\ \/ written /\ caller' = "select" /\ UNCHANGED <<answer, deadline>>
     \/ Fail
  /\ UNCHANGED <<kafka, ended, goroutine, channels>>

Ready(channel, name) == channel # <<>> \/ name \in closed

Select ==
  /\ caller = "select"
  /\ \/ /\ Ready(responseChan, "response")
        /\ Succeed(IF responseChan # <<>> THEN Head(responseChan) ELSE Zero)
     \/ (Ready(errorChan, "error") \/ ended) /\ Fail
     \/ /\ ~Ready(responseChan, "response") /\ ~Ready(errorChan, "error") /\ ~ended
        /\ caller' = "blocked" /\ UNCHANGED <<answer, deadline>>
  /\ UNCHANGED <<kafka, ended, goroutine, channels>>

\* What a blocked caller does when an error or the end of its context is ready.
Wake == IF caller = "blocked" THEN Fail ELSE UNCHANGED <<call, deadline>>

\* The 30 seconds are over, or the call's own context ends.
EndContext ==
  /\ caller \in {"writing", "select", "blocked"}
  /\ caller # "blocked" => EndEarly
  /\ \/ /\ ~deadline /\ deadline' = TRUE /\ UNCHANGED <<call, ended>>
     \/ /\ ~ended /\ ended' = TRUE
        /\ IF caller = "blocked" THEN Fail ELSE deadline' = TRUE /\ UNCHANGED call
  /\ UNCHANGED <<kafka, goroutine, channels>>

-----------------------------------------------------------------------------
(* Kafka and the consumers. *)

Respond ==
  /\ written /\ Len(topic) < MaxRuns
  /\ \E x \in Result \ ran : ran' = ran \cup {x} /\ topic' = Append(topic, x)
  /\ UNCHANGED <<call, written, contexts, goroutine, channels>>

-----------------------------------------------------------------------------
(* The listener. *)

\* Mutant of Loop: errorChan without its buffer.
LoopUnbuffered ==
  /\ listener = "loop"
  /\ IF deadline THEN caller = "blocked" /\ listener' = "closeError" /\ Wake
                 ELSE listener' = "fetch" /\ UNCHANGED <<call, deadline>>
  /\ UNCHANGED <<kafka, ended, got, channels>>

\* The head of the loop sends the error of a context that is done.
Loop ==
  /\ listener = "loop"
  /\ IF deadline
     THEN /\ listener' = "closeError" /\ Wake
          /\ errorChan' = IF caller = "blocked" THEN errorChan ELSE <<"error">>
     ELSE listener' = "fetch" /\ UNCHANGED <<call, deadline, errorChan>>
  /\ UNCHANGED <<kafka, ended, got, responseChan, closed>>

\* FetchMessage: a response, the end of responseCtx, or another error (as when
\* the reader is closed).  The end of the context is returned without a word.
Fetch ==
  /\ listener = "fetch"
  /\ \/ /\ topic # <<>> /\ got' = Head(topic) /\ topic' = Tail(topic)
        /\ listener' = "send"
     \/ deadline /\ listener' = "closeError" /\ UNCHANGED <<got, topic>>
     \/ listener' = "loop" /\ UNCHANGED <<got, topic>>
  /\ UNCHANGED <<call, written, ran, contexts, channels>>

\* A blocked caller takes the response at once.
Send ==
  /\ listener = "send" /\ listener' = "commit"
  /\ IF caller = "blocked"
     THEN Succeed(got) /\ UNCHANGED responseChan
     ELSE responseChan' = <<got>> /\ UNCHANGED <<call, deadline>>
  /\ UNCHANGED <<kafka, ended, got, errorChan, closed>>

Commit ==
  /\ listener = "commit" /\ listener' = "closeError"
  /\ UNCHANGED <<call, kafka, contexts, got, channels>>

\* Mutant of Close: the deferred calls in the other order.
CloseSwapped ==
  /\ \/ /\ listener = "closeError" /\ listener' = "closeResponse"
        /\ closed' = closed \cup {"response"}
        /\ IF caller = "blocked" THEN Succeed(Zero) ELSE UNCHANGED <<call, deadline>>
     \/ /\ listener = "closeResponse" /\ listener' = "ended"
        /\ closed' = closed \cup {"error"} /\ UNCHANGED <<call, deadline>>
  /\ UNCHANGED <<kafka, ended, got, responseChan, errorChan>>

\* The deferred calls, the last first: errorChan is closed, then responseChan.
Close ==
  /\ \/ /\ listener = "closeError" /\ listener' = "closeResponse"
        /\ closed' = closed \cup {"error"} /\ Wake
     \/ /\ listener = "closeResponse" /\ listener' = "ended"
        /\ closed' = closed \cup {"response"} /\ UNCHANGED <<call, deadline>>
  /\ UNCHANGED <<kafka, ended, got, responseChan, errorChan>>

-----------------------------------------------------------------------------
Listen == Loop \/ Fetch \/ Send \/ Commit \/ Close

Next == Publish \/ Written \/ WriteReturns \/ Select \/ EndContext \/ Respond \/ Listen

\* Both goroutines run, the write returns, and the 30 seconds pass.
Fairness ==
  /\ WF_vars(WriteReturns) /\ WF_vars(Select) /\ WF_vars(Listen)
  /\ WF_vars(EndContext /\ deadline')

Spec == Init /\ [][Next]_vars
FairSpec == Spec /\ Fairness

-----------------------------------------------------------------------------
(* Properties *)

\* Every call returns, and leaves no listener behind: neither waits for the
\* other for ever, whichever returns first (the buffers of the channels, the
\* checks of responseCtx, the closing of the channels).
BothEnd == caller = "writing" ~> caller \in {"answered", "failed"} /\ listener = "ended"

\* The port's promise: an answer is the result of a run of the call.
Port == INSTANCE QueuePort WITH
  Call <- {"call"}, NoAnswer <- None,
  state <- [m \in {"call"} |->
              CASE caller \in {"writing", "select", "blocked"} -> "open"
                [] caller = "failed" -> "gaveUp"
                [] OTHER -> caller],
  ran <- [m \in {"call"} |-> ran],
  answer <- [m \in {"call"} |-> answer]

PortSpec == Port!Spec

\* kafka/adapter.go:101, "waits for response": success is a response, not the
\* zero value (the select on both closed channels).
NoEmptyAnswer == answer # Zero
=============================================================================
