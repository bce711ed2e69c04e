----------------------------- MODULE QueuePort -----------------------------
(***************************************************************************)
(* What a queue adapter promises the callers of its port, with no broker   *)
(* in sight: a call whose publication failed is never run, and an answer   *)
(* is the result of a run of that very call.  A caller may give up, and a  *)
(* call may run again, or for the first time, after that.                  *)
(***************************************************************************)
CONSTANTS
  Call,       \* identities of the calls of the port
  Result,     \* what a run of the handler answers
  NoAnswer    \* not a result

VARIABLES
  state,      \* state[m], what the caller of m knows
  ran,        \* ran[m], the results of the runs of m
  answer      \* answer[m], what the caller of m was told

vars == <<state, ran, answer>>

Init ==
  /\ state = [m \in Call |-> "new"]
  /\ ran = [m \in Call |-> {}]
  /\ answer = [m \in Call |-> NoAnswer]

Become(m, from, to) == state[m] = from /\ state' = [state EXCEPT ![m] = to]

Submit(m) == Become(m, "new", "open") /\ UNCHANGED <<ran, answer>>

Reject(m) == Become(m, "new", "rejected") /\ UNCHANGED <<ran, answer>>

Run(m, x) ==
  /\ state[m] \notin {"new", "rejected"}
  /\ ran' = [ran EXCEPT ![m] = @ \cup {x}]
  /\ UNCHANGED <<state, answer>>

Answer(m, x) ==
  /\ Become(m, "open", "answered")
  /\ x \in ran[m]
  /\ answer' = [answer EXCEPT ![m] = x]
  /\ UNCHANGED ran

GiveUp(m) == Become(m, "open", "gaveUp") /\ UNCHANGED <<ran, answer>>

Next == \E m \in Call :
  \/ Submit(m) \/ Reject(m) \/ GiveUp(m)
  \/ \E x \in Result : Run(m, x) \/ Answer(m, x)

Spec == Init /\ [][Next]_vars
=============================================================================
