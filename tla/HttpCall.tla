------------------------------ MODULE HttpCall ------------------------------
(***************************************************************************)
(* HTTP requests that change a wallet: the handlers that call a use case   *)
(* and QueueDepositHandler, which calls PublishTransaction and waits for   *)
(* its answer, in a server whose WriteTimeout is shorter than the port's   *)
(* RequestTimeout.  The port is its abstract specification.                *)
(***************************************************************************)
EXTENDS Integers

CONSTANTS
  Direct,          \* requests to the handlers that call a use case
  Queued,          \* requests to QueueDepositHandler
  WriteTimeout,    \* of the HTTP server
  RequestTimeout,  \* of the port
  Result,          \* what a use case can answer a queued call
  None             \* not a result

Checks == {"bad request", "unauthorized"}
Statuses == {"success", "error", "not published"} \cup Checks

ASSUME HttpAssumption ==
  /\ Direct \cap Queued = {} /\ None \notin Result \cup Statuses \cup {"nothing"}
  /\ WriteTimeout \in Nat /\ RequestTimeout \in Nat

Request == Direct \cup Queued

VARIABLES
  pc,      \* pc[r], where the handler of r is
  age,     \* age[r], the time since its headers were read
  gone,    \* the requests whose client has closed the connection
  status,  \* status[r], the status the handler has decided on
  told,    \* told[r], what its client has got
  effect,  \* the direct requests that have taken effect
  linked,  \* whether the server has its connection to the broker
  state, ran, answer  \* of the port

Port == INSTANCE QueuePort WITH Call <- Queued, NoAnswer <- None

port == <<state, ran, answer>>
vars == <<pc, age, gone, status, told, effect, linked, port>>

TypeOK ==
  /\ pc \in [Request -> {"new", "call", "write", "ended"}]
  /\ age \in [Request -> 0 .. RequestTimeout]
  /\ gone \subseteq Request /\ effect \subseteq Direct /\ linked \in BOOLEAN
  /\ status \in [Request -> Statuses \cup {None}]
  /\ told \in [Request -> Statuses \cup {"nothing", None}]
  /\ \A r \in Queued : status[r] = "success" <=> answer[r] \in Result
  /\ \A r \in Request : pc[r] = "ended" <=> told[r] # None

Init ==
  /\ pc = [r \in Request |-> "new"] /\ age = [r \in Request |-> 0] /\ gone = {}
  /\ status = [r \in Request |-> None] /\ told = [r \in Request |-> None] /\ effect = {} /\ linked = TRUE
  /\ Port!Init

-----------------------------------------------------------------------------
Decide(r, s) ==
  /\ pc' = [pc EXCEPT ![r] = "write"]
  /\ status' = [status EXCEPT ![r] = s]

\* The body is bound and, but for a queued deposit, the Authorization header
\* looked for; the use case or the port is called.
Check(r) ==
  /\ pc[r] = "new"
  /\ \/ pc' = [pc EXCEPT ![r] = "call"] /\ UNCHANGED status
     \/ \E s \in Checks : (s = "unauthorized" => r \in Direct) /\ Decide(r, s)
  /\ UNCHANGED <<age, gone, told, effect, linked, port>>

\* Mutant of UseCase: the status of the response is not looked at.
UseCaseUnread(r) ==
  /\ r \in Direct /\ pc[r] = "call"
  /\ effect' \in {effect, effect \cup {r}}
  /\ Decide(r, "success")
  /\ UNCHANGED <<age, gone, told, linked, port>>

\* A use case: it succeeds or not, and after an error of the commit it may have
\* taken effect all the same (WalletUseCase).
UseCase(r) ==
  /\ r \in Direct /\ pc[r] = "call"
  /\ \/ Decide(r, "success") /\ effect' = effect \cup {r}
     \/ Decide(r, "error") /\ effect' \in {effect, effect \cup {r}}
  /\ UNCHANGED <<age, gone, told, linked, port>>

\* PublishTransaction up to the publication.
Publish(r) ==
  /\ r \in Queued /\ pc[r] = "call"
  /\ \/ Port!Submit(r) /\ UNCHANGED <<pc, status>>
     \/ Port!Reject(r) /\ Decide(r, "not published")
  /\ UNCHANGED <<age, gone, told, effect, linked>>

\* It returns the answer: 200, whatever the status in it.
Answered(r) ==
  /\ r \in Queued /\ pc[r] = "call"
  /\ \E x \in Result : Port!Answer(r, x)
  /\ Decide(r, "success")
  /\ UNCHANGED <<age, gone, told, effect, linked>>

\* Mutant of GiveUp: no limit to the wait.
GiveUpNever(r) ==
  /\ r \in Queued /\ pc[r] = "call" /\ r \in gone
  /\ Port!GiveUp(r)
  /\ Decide(r, "not published")
  /\ UNCHANGED <<age, gone, told, effect, linked>>

\* It returns an error after the publication: at its time limit, when the client
\* has gone and its context ended, or on a lost connection.
GiveUp(r) ==
  /\ r \in Queued /\ pc[r] = "call"
  /\ age[r] = RequestTimeout \/ r \in gone \/ ~linked
  /\ Port!GiveUp(r)
  /\ Decide(r, "not published")
  /\ UNCHANGED <<age, gone, told, effect, linked>>

\* Mutant of Write: a server without WriteTimeout.
WriteAnytime(r) ==
  /\ pc[r] = "write"
  /\ pc' = [pc EXCEPT ![r] = "ended"]
  /\ told' = [told EXCEPT ![r] = IF r \in gone THEN "nothing" ELSE status[r]]
  /\ UNCHANGED <<age, gone, status, effect, linked, port>>

\* The response is written, too late after WriteTimeout: the connection closes.
Write(r) ==
  /\ pc[r] = "write"
  /\ pc' = [pc EXCEPT ![r] = "ended"]
  /\ told' = [told EXCEPT ![r] =
       IF r \in gone \/ age[r] >= WriteTimeout THEN "nothing" ELSE status[r]]
  /\ UNCHANGED <<age, gone, status, effect, linked, port>>

-----------------------------------------------------------------------------
(* The environment: consumers, clients, the connection, time. *)

Run(r) ==
  /\ r \in Queued /\ \E x \in Result : x \notin ran[r] /\ Port!Run(r, x)
  /\ UNCHANGED <<pc, age, gone, status, told, effect, linked>>

Leave(r) ==
  /\ pc[r] # "ended" /\ gone' = gone \cup {r}
  /\ UNCHANGED <<pc, age, status, told, effect, linked, port>>

Disconnect ==
  /\ linked /\ linked' = FALSE
  /\ UNCHANGED <<pc, age, gone, status, told, effect, port>>

Pass(r) ==
  /\ pc[r] # "ended" /\ age[r] < RequestTimeout
  /\ age' = [age EXCEPT ![r] = @ + 1]
  /\ UNCHANGED <<pc, gone, status, told, effect, linked, port>>

Handler(r) == Check(r) \/ UseCase(r) \/ Publish(r) \/ Answered(r) \/ GiveUp(r) \/ Write(r)

Next == Disconnect \/ \E r \in Request : Handler(r) \/ Run(r) \/ Leave(r) \/ Pass(r)

Fairness == \A r \in Request : WF_vars(Handler(r)) /\ WF_vars(Pass(r))

Spec == Init /\ [][Next]_vars
FairSpec == Spec /\ Fairness

-----------------------------------------------------------------------------
(* Properties *)

\* What a client is told stays true, whatever consumers do later: a success has
\* taken effect or has the answer of a run, a request that failed the checks
\* has had none and will have none (the order of a handler's returns).
ToldTruly ==
  \A r \in Request :
    /\ told[r] = "success" => r \in effect \/ (r \in Queued /\ ran[r] # {})
    /\ told[r] \in Checks => r \notin effect /\ (r \in Queued => ran[r] = {})

\* While the connection lasts, a client told that its deposit could not be
\* published never sees it run: the timeout of a published one is written after
\* WriteTimeout, and no client gets it (server.go:105, handlers.go:79).
FailureIsFinal == \A r \in Queued : linked /\ told[r] = "not published" => ran[r] = {}

\* Every handler ends, with no consumer and with clients that stay.
HandlersEnd == \A r \in Request : pc[r] # "new" ~> pc[r] = "ended"
=============================================================================
