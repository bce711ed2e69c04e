--------------------------- MODULE HttpCallProofs ---------------------------
(***************************************************************************)
(* Proofs about HttpCall for any requests and timeouts.                    *)
(***************************************************************************)
EXTENDS HttpCall, TLAPS

\* The port's variables, of the queued requests.
PortOK ==
  /\ state \in [Queued -> {"new", "open", "rejected", "answered", "gaveUp"}]
  /\ ran \in [Queued -> SUBSET Result]
  /\ answer \in [Queued -> Result \cup {None}]

\* The type, but for the two conjuncts that relate variables.
Typed ==
  /\ pc \in [Request -> {"new", "call", "write", "ended"}]
  /\ age \in [Request -> 0 .. RequestTimeout]
  /\ gone \subseteq Request /\ effect \subseteq Direct
  /\ status \in [Request -> Statuses \cup {None}]
  /\ told \in [Request -> Statuses \cup {"nothing", None}]
  /\ PortOK

\* A handler decides on its status once, and the client is told that or nothing.
Decided(r) ==
  /\ pc[r] \in {"new", "call"} => status[r] = None
  /\ pc[r] \in {"write", "ended"} => status[r] # None
  /\ pc[r] = "ended" <=> told[r] # None
  /\ told[r] \in {None, "nothing", status[r]}

\* A use case takes effect only in its call; a status tells whether it did.
Effect(r) ==
  /\ pc[r] \in {"new", "call"} \/ status[r] \in Checks => r \notin effect
  /\ status[r] = "success" => r \in effect

\* What the port knows of a queued request, by its handler's status.
Known(r) ==
  /\ pc[r] = "new" \/ status[r] \in Checks => state[r] = "new"
  /\ pc[r] = "call" => state[r] \in {"new", "open"}
  /\ state[r] \in {"new", "rejected"} => ran[r] = {}
  /\ status[r] = "success" <=> answer[r] \in Result
  /\ answer[r] \in Result => answer[r] \in ran[r]

\* A deposit that may still run, or has run, is given up at a limit only; a
\* client that is told so has not met that limit.
Final(r) ==
  /\ status[r] = "not published" =>
       state[r] = "rejected" \/ age[r] = RequestTimeout \/ r \in gone \/ ~linked
  /\ told[r] = "not published" => state[r] = "rejected" \/ ~linked

Inv ==
  /\ Typed
  /\ linked \in BOOLEAN
  /\ \A r \in Request : Decided(r)
  /\ \A r \in Direct : Effect(r)
  /\ \A r \in Queued : Known(r)

-----------------------------------------------------------------------------
\* No status is taken for another, nor for the absence of one.
LEMMA StatusesApart ==
  /\ None \notin Statuses /\ None # "nothing" /\ None \notin Result
  /\ Checks \subseteq Statuses /\ None \notin Checks
  /\ "success" \notin Checks /\ "error" \notin Checks /\ "not published" \notin Checks
  /\ "nothing" \notin Statuses
  /\ Direct \subseteq Request /\ Queued \subseteq Request
  /\ \A r \in Request : r \in Direct <=> r \notin Queued
BY HttpAssumption DEF Statuses, Checks, Request

LEMMA InitInv == Init => Inv
<1> SUFFICES ASSUME Init PROVE Inv
  OBVIOUS
<1>1. Typed
  BY HttpAssumption DEF Init, Typed, PortOK, Port!Init, Request
<1>2. linked \in BOOLEAN
  BY DEF Init
<1>3. \A r \in Request : Decided(r)
  BY DEF Init, Decided
<1>s. \A r \in Request : status[r] = None /\ None \notin Checks /\ None # "success"
  BY StatusesApart DEF Init, Statuses
<1>4. \A r \in Direct : Effect(r)
  BY <1>s, StatusesApart DEF Init, Effect
<1>5. ASSUME NEW r \in Queued PROVE Known(r)
  <2>1. state[r] = "new" /\ ran[r] = {} /\ answer[r] = None /\ pc[r] = "new"
    BY <1>5, StatusesApart DEF Init, Port!Init
  <2> QED
    BY <2>1, <1>s, StatusesApart DEF Known
<1> QED
  BY <1>1, <1>2, <1>3, <1>4, <1>5 DEF Inv

\* What a step of the port changes, for the variables that the rest needs.
LEMMA PortMove ==
  ASSUME PortOK, NEW r \in Queued, NEW to, Port!Become(r, "new", to) \/ Port!Become(r, "open", to)
  PROVE  /\ state' = [state EXCEPT ![r] = to] /\ state'[r] = to
         /\ \A q \in Queued \ {r} : state'[q] = state[q]
BY DEF PortOK, Port!Become

LEMMA NotLess == ~(RequestTimeout < RequestTimeout)
BY HttpAssumption

LEMMA OneMore == ASSUME NEW n \in Nat, NEW a \in 0 .. n, a < n PROVE a + 1 \in 0 .. n
OBVIOUS

\* A decision keeps the type of what it changes.
LEMMA DecideTyped ==
  ASSUME Typed, NEW r \in Request, NEW s \in Statuses, Decide(r, s)
  PROVE  /\ pc' \in [Request -> {"new", "call", "write", "ended"}]
         /\ status' \in [Request -> Statuses \cup {None}]
BY DEF Typed, Decide

LEMMA PortTyped ==
  ASSUME PortOK, NEW r \in Queued, NEW x \in Result,
         Port!Submit(r) \/ Port!Reject(r) \/ Port!GiveUp(r) \/ Port!Run(r, x) \/ Port!Answer(r, x)
  PROVE  PortOK'
<1>1. CASE Port!Submit(r)
  BY <1>1 DEF PortOK, Port!Submit, Port!Become
<1>2. CASE Port!Reject(r)
  BY <1>2 DEF PortOK, Port!Reject, Port!Become
<1>3. CASE Port!GiveUp(r)
  BY <1>3 DEF PortOK, Port!GiveUp, Port!Become
<1>4. CASE Port!Run(r, x)
  BY <1>4 DEF PortOK, Port!Run
<1>5. CASE Port!Answer(r, x)
  BY <1>5 DEF PortOK, Port!Answer, Port!Become
<1> QED
  BY <1>1, <1>2, <1>3, <1>4, <1>5

LEMMA TypedStep == Typed /\ [Next]_vars => Typed'
<1> SUFFICES ASSUME Typed, [Next]_vars PROVE Typed'
  OBVIOUS
<1> USE StatusesApart
<1>s. {"success", "error", "not published"} \subseteq Statuses
  BY DEF Statuses
<1>p. UNCHANGED port => PortOK'
  BY DEF port, Typed, PortOK
<1>1. ASSUME NEW r \in Request, Check(r) PROVE Typed'
  <2>1. CASE pc' = [pc EXCEPT ![r] = "call"] /\ UNCHANGED status
    BY <1>1, <1>p, <2>1 DEF Check, Typed
  <2>2. ASSUME NEW s \in Checks, Decide(r, s) PROVE Typed'
    BY <1>1, <1>p, <2>2, DecideTyped DEF Check, Typed
  <2> QED
    BY <1>1, <2>1, <2>2 DEF Check
<1>2. ASSUME NEW r \in Request, UseCase(r) PROVE Typed'
  <2>1. PICK s \in Statuses : Decide(r, s)
    BY <1>2, <1>s DEF UseCase
  <2>2. effect' \subseteq Direct
    BY <1>2 DEF UseCase, Typed
  <2> QED
    BY <1>2, <1>p, <2>1, <2>2, DecideTyped DEF UseCase, Typed
<1>3. ASSUME NEW r \in Request, Publish(r) \/ Answered(r) \/ GiveUp(r) PROVE Typed'
  <2>1. PortOK'
    <3>1. CASE Publish(r)
      BY <3>1 DEF Publish, Typed, PortOK, Port!Submit, Port!Reject, Port!Become
    <3>2. CASE Answered(r)
      BY <3>2, PortTyped DEF Answered, Typed
    <3>3. CASE GiveUp(r)
      BY <3>3 DEF GiveUp, Typed, PortOK, Port!GiveUp, Port!Become
    <3> QED
      BY <1>3, <3>1, <3>2, <3>3
  <2>2. (\E s \in Statuses : Decide(r, s)) \/ UNCHANGED <<pc, status>>
    BY <1>3, <1>s DEF Publish, Answered, GiveUp
  <2>3. UNCHANGED <<age, gone, told, effect>>
    BY <1>3 DEF Publish, Answered, GiveUp
  <2> QED
    BY <2>1, <2>2, <2>3, DecideTyped DEF Typed
<1>6. ASSUME NEW r \in Request, Write(r) PROVE Typed'
  <2>1. told' \in [Request -> Statuses \cup {"nothing", None}]
    BY <1>6 DEF Write, Typed
  <2>2. pc' \in [Request -> {"new", "call", "write", "ended"}]
    BY <1>6 DEF Write, Typed
  <2> QED
    BY <1>6, <1>p, <2>1, <2>2 DEF Write, Typed
<1>7. ASSUME NEW r \in Request, Run(r) PROVE Typed'
  <2>1. PortOK'
    BY <1>7, PortTyped DEF Run, Typed
  <2> QED
    BY <1>7, <2>1 DEF Run, Typed
<1>8. ASSUME NEW r \in Request, Leave(r) PROVE Typed'
  BY <1>8, <1>p DEF Leave, Typed
<1>9. ASSUME NEW r \in Request, Pass(r) PROVE Typed'
  <2>1. age' \in [Request -> 0 .. RequestTimeout]
    <3>1. age[r] \in 0 .. RequestTimeout
      BY DEF Typed
    <3>a. RequestTimeout \in Nat /\ age[r] < RequestTimeout
      BY <1>9, HttpAssumption DEF Pass
    <3>2. age[r] + 1 \in 0 .. RequestTimeout
      BY <3>1, <3>a, OneMore
    <3> QED
      BY <1>9, <3>2 DEF Pass, Typed
  <2> QED
    BY <1>9, <1>p, <2>1 DEF Pass, Typed
<1>10. CASE Disconnect \/ UNCHANGED vars
  BY <1>10, <1>p DEF Disconnect, vars, port, Typed
<1> QED
  BY <1>1, <1>2, <1>3, <1>6, <1>7, <1>8, <1>9, <1>10 DEF Next, Handler

LEMMA DecidedStep ==
  ASSUME Typed, \A r \in Request : Decided(r), [Next]_vars
  PROVE  \A r \in Request : Decided(r)'
<1> SUFFICES ASSUME NEW q \in Request PROVE Decided(q)'
  OBVIOUS
<1> USE StatusesApart DEF Typed, Decided, port
<1>1. ASSUME NEW r \in Request, NEW s \in Statuses, pc[r] \in {"new", "call"}, Decide(r, s),
             UNCHANGED told
      PROVE  Decided(q)'
  BY <1>1 DEF Decide
<1>2. ASSUME NEW r \in Request, Check(r) PROVE Decided(q)'
  <2>1. CASE pc' = [pc EXCEPT ![r] = "call"] /\ UNCHANGED status
    BY <1>2, <2>1 DEF Check
  <2> QED
    BY <1>1, <1>2, <2>1 DEF Check
<1>3. ASSUME NEW r \in Request, UseCase(r) \/ Publish(r) \/ Answered(r) \/ GiveUp(r)
      PROVE  Decided(q)'
  <2>1. CASE UNCHANGED <<pc, status, told>>
    BY <2>1
  <2> QED
    BY <1>1, <1>3, <2>1 DEF UseCase, Publish, Answered, GiveUp, Statuses
<1>4. ASSUME NEW r \in Request, Write(r) PROVE Decided(q)'
  BY <1>4 DEF Write
<1>5. CASE UNCHANGED <<pc, status, told>>
  BY <1>5
<1> QED
  BY <1>2, <1>3, <1>4, <1>5 DEF Next, Handler, Run, Leave, Pass, Disconnect, vars

LEMMA EffectStep ==
  ASSUME Typed, \A r \in Request : Decided(r), \A r \in Direct : Effect(r), [Next]_vars
  PROVE  \A r \in Direct : Effect(r)'
<1> SUFFICES ASSUME NEW q \in Direct PROVE Effect(q)'
  OBVIOUS
<1> USE StatusesApart DEF Typed, Effect, port
<1>1. ASSUME NEW r \in Request, Check(r) PROVE Effect(q)'
  <2>1. /\ effect' = effect
        /\ \/ pc'[q] = pc[q] /\ status'[q] = status[q]
           \/ pc[q] = "new" /\ status'[q] \in Checks \cup {status[q]}
    BY <1>1 DEF Check, Decide
  <2>2. pc[q] = "new" => status[q] = None
    BY DEF Decided
  <2> QED
    BY <2>1, <2>2
<1>2. ASSUME NEW r \in Request, UseCase(r) PROVE Effect(q)'
  BY <1>2 DEF UseCase, Decide, Decided
<1>3. ASSUME NEW r \in Request, Publish(r) \/ Answered(r) \/ GiveUp(r) PROVE Effect(q)'
  <2>1. r # q
    BY <1>3 DEF Publish, Answered, GiveUp
  <2>2. pc'[q] = pc[q] /\ status'[q] = status[q] /\ effect' = effect
    BY <1>3, <2>1 DEF Publish, Answered, GiveUp, Decide
  <2> QED
    BY <2>2
<1>4. ASSUME NEW r \in Request, Write(r) PROVE Effect(q)'
  BY <1>4 DEF Write, Decided
<1>5. CASE UNCHANGED <<pc, status, effect>>
  BY <1>5
<1> QED
  BY <1>1, <1>2, <1>3, <1>4, <1>5 DEF Next, Handler, Run, Leave, Pass, Disconnect, vars

LEMMA KnownStep ==
  ASSUME Typed, \A r \in Request : Decided(r), \A r \in Queued : Known(r), [Next]_vars
  PROVE  \A r \in Queued : Known(r)'
<1> SUFFICES ASSUME NEW q \in Queued PROVE Known(q)'
  OBVIOUS
<1> USE StatusesApart DEF Typed, PortOK, Known, port
<1>s. "success" # "not published" /\ "error" \notin Checks /\ "success" # "error"
      /\ None # "success" /\ "success" \in Statuses
  BY DEF Statuses
<1>1. ASSUME NEW r \in Request, Check(r) PROVE Known(q)'
  <2>1. /\ UNCHANGED port
        /\ \/ pc'[q] = pc[q] /\ status'[q] = status[q]
           \/ pc[q] = "new" /\ pc'[q] = "call" /\ status'[q] = status[q]
           \/ pc[q] = "new" /\ pc'[q] = "write" /\ status'[q] \in Checks
    BY <1>1 DEF Check, Decide
  <2>2. pc[q] = "new" => status[q] = None
    BY DEF Decided
  <2> QED
    BY <2>1, <2>2, <1>s
<1>2. ASSUME NEW r \in Request, UseCase(r) PROVE Known(q)'
  <2>u. r \in Direct
    BY <1>2 DEF UseCase
  <2>1. r # q
    BY <2>u
  <2>2. UNCHANGED port /\ pc'[q] = pc[q] /\ status'[q] = status[q]
    BY <1>2, <2>1 DEF UseCase, Decide
  <2> QED
    BY <2>2
<1>3. ASSUME NEW r \in Request, Publish(r) \/ Answered(r) \/ GiveUp(r) PROVE Known(q)'
  <2>r. r \in Queued /\ pc[r] = "call" /\ status[r] = None
    BY <1>3 DEF Publish, Answered, GiveUp, Decided
  <2>1. CASE r # q
    <3>1. pc'[q] = pc[q] /\ status'[q] = status[q]
      BY <1>3, <2>1 DEF Publish, Answered, GiveUp, Decide
    <3>2. state'[q] = state[q] /\ ran'[q] = ran[q] /\ answer'[q] = answer[q]
      BY <1>3, <2>1
      DEF Publish, Answered, GiveUp, Port!Submit, Port!Reject, Port!GiveUp, Port!Answer, Port!Become
    <3> QED
      BY <3>1, <3>2
  <2>2. CASE r = q /\ Publish(q)
    <3>1. /\ ran'[q] = {} /\ answer'[q] = answer[q]
          /\ \/ state'[q] = "open" /\ pc'[q] = "call" /\ status'[q] = None
             \/ state'[q] = "rejected" /\ pc'[q] = "write" /\ status'[q] = "not published"
      BY <2>2, <2>r DEF Publish, Decide, Port!Submit, Port!Reject, Port!Become
    <3> QED
      BY <3>1, <2>2, <2>r, <1>s
  <2>3. CASE r = q /\ Answered(q)
    <3>1. /\ ran'[q] = ran[q] /\ answer'[q] \in Result /\ answer'[q] \in ran[q]
          /\ state'[q] = "answered" /\ pc'[q] = "write" /\ status'[q] = "success"
      BY <2>3 DEF Answered, Decide, Port!Answer, Port!Become
    <3> QED
      BY <3>1, <1>s
  <2>4. CASE r = q /\ GiveUp(q)
    <3>1. /\ ran'[q] = ran[q] /\ answer'[q] = answer[q]
          /\ state'[q] = "gaveUp" /\ pc'[q] = "write" /\ status'[q] = "not published"
      BY <2>4 DEF GiveUp, Decide, Port!GiveUp, Port!Become
    <3> QED
      BY <3>1, <2>4, <2>r, <1>s
  <2> QED
    BY <1>3, <2>1, <2>2, <2>3, <2>4
<1>6. ASSUME NEW r \in Request, Write(r) PROVE Known(q)'
  BY <1>6 DEF Write
<1>7. ASSUME NEW r \in Request, Run(r) PROVE Known(q)'
  <2>1. UNCHANGED <<pc, status, state, answer>>
    BY <1>7 DEF Run, Port!Run
  <2>2. \/ ran'[q] = ran[q]
        \/ state[q] \notin {"new", "rejected"} /\ ran[q] \subseteq ran'[q]
    <3>1. PICK x \in Result : Port!Run(r, x)
      BY <1>7 DEF Run
    <3>2. ran \in [Queued -> SUBSET Result] /\ r \in Queued
      BY <1>7 DEF Run
    <3>3. CASE r = q
      BY <3>1, <3>2, <3>3 DEF Port!Run
    <3>4. CASE r # q
      BY <3>1, <3>2, <3>4 DEF Port!Run
    <3> QED
      BY <3>3, <3>4
  <2> QED
    BY <2>1, <2>2
<1>8. CASE UNCHANGED <<pc, status, port>>
  BY <1>8
<1> QED
  BY <1>1, <1>2, <1>3, <1>6, <1>7, <1>8
  DEF Next, Handler, Leave, Pass, Disconnect, vars

\* A lost connection stays lost.
LEMMA LinkedStep ==
  ASSUME linked \in BOOLEAN, [Next]_vars
  PROVE  linked' \in BOOLEAN /\ (linked' => linked)
<1>1. CASE Disconnect
  BY <1>1 DEF Disconnect
<1>2. CASE UNCHANGED linked
  BY <1>2
<1> QED
  BY <1>1, <1>2
  DEF Next, Handler, Check, UseCase, Publish, Answered, GiveUp, Write, Run, Leave, Pass, vars

LEMMA InvStep == Inv /\ [Next]_vars => Inv'
BY TypedStep, DecidedStep, EffectStep, KnownStep, LinkedStep DEF Inv

LEMMA InvCorrect == Spec => []Inv
BY InitInv, InvStep, PTL DEF Spec

\* The step of Final: it needs that the server's WriteTimeout is not the longer
\* one, so that no handler that waited to the end reaches its client.
LEMMA FinalStep ==
  ASSUME WriteTimeout <= RequestTimeout, Inv, \A r \in Queued : Final(r), [Next]_vars
  PROVE  \A r \in Queued : Final(r)'
<1> SUFFICES ASSUME NEW q \in Queued PROVE Final(q)'
  OBVIOUS
<1>t. /\ Typed /\ \A r \in Request : Decided(r)
      /\ \A r \in Queued : Known(r)
      /\ linked' => linked
  BY LinkedStep DEF Inv
<1> USE StatusesApart DEF Typed, PortOK, Final, port
<1>1. ASSUME NEW r \in Request, Check(r) PROVE Final(q)'
  <2>1. UNCHANGED <<age, gone, told, linked, state>>
    BY <1>1 DEF Check
  <2>2. status'[q] = status[q] \/ status'[q] \in Checks
    <3>1. CASE r # q
      BY <1>t, <1>1, <3>1 DEF Check, Decide
    <3>2. CASE r = q
      BY <1>t, <1>1, <3>2 DEF Check, Decide
    <3> QED
      BY <3>1, <3>2
  <2> QED
    BY <2>1, <2>2
<1>2. ASSUME NEW r \in Request, UseCase(r) PROVE Final(q)'
  BY <1>2, <1>t DEF UseCase, Decide, Decided
<1>3. ASSUME NEW r \in Request, Publish(r) PROVE Final(q)'
  BY <1>3, <1>t
  DEF Publish, Decide, Decided, Port!Submit, Port!Reject, Port!Become
<1>4. ASSUME NEW r \in Request, Answered(r) PROVE Final(q)'
  BY <1>4, <1>t DEF Answered, Decide, Decided, Port!Answer, Port!Become
<1>5. ASSUME NEW r \in Request, GiveUp(r) PROVE Final(q)'
  BY <1>5, <1>t DEF GiveUp, Decide, Decided, Port!GiveUp, Port!Become
<1>6. ASSUME NEW r \in Request, Write(r) PROVE Final(q)'
  BY <1>6, <1>t, HttpAssumption DEF Write, Decided
<1>7. ASSUME NEW r \in Request, Run(r) PROVE Final(q)'
  BY <1>7, <1>t DEF Run, Port!Run
<1>8. ASSUME NEW r \in Request, Leave(r) PROVE Final(q)'
  BY <1>8, <1>t DEF Leave
<1>9. ASSUME NEW r \in Request, Pass(r) PROVE Final(q)'
  <2>1. UNCHANGED <<gone, told, linked, state, status>>
    BY <1>9 DEF Pass
  <2>2. ~(RequestTimeout < RequestTimeout)
    BY NotLess
  <2>3. age[q] = RequestTimeout => r # q
    BY <1>9, <2>2, Zenon DEF Pass
  <2>4. age[q] = RequestTimeout => age'[q] = RequestTimeout
    BY <1>t, <1>9, <2>3 DEF Pass
  <2> QED
    BY <2>1, <2>4
<1>10. CASE Disconnect \/ UNCHANGED vars
  BY <1>10, <1>t DEF Disconnect, vars
<1> QED
  BY <1>1, <1>2, <1>3, <1>4, <1>5, <1>6, <1>7, <1>8, <1>9, <1>10 DEF Next, Handler

-----------------------------------------------------------------------------
\* The state is always of its type: among others a queued request has the status
\* of a success exactly when the port has given it an answer.
THEOREM TypeCorrect == Spec => []TypeOK
<1>1. Inv => TypeOK
  BY StatusesApart DEF Inv, Typed, PortOK, Decided, Known, TypeOK
<1> QED
  BY <1>1, InvCorrect, PTL

\* What a client is told stays true, whatever consumers do later.
THEOREM ToldCorrect == Spec => []ToldTruly
<1>1. Inv => ToldTruly
  <2> SUFFICES ASSUME Inv, NEW r \in Request
               PROVE  /\ told[r] = "success" => r \in effect \/ (r \in Queued /\ ran[r] # {})
                      /\ told[r] \in Checks => r \notin effect /\ (r \in Queued => ran[r] = {})
    BY DEF ToldTruly
  <2>1. told[r] \in Statuses => told[r] = status[r]
    BY StatusesApart DEF Inv, Decided
  <2>2. "success" \in Statuses /\ effect \subseteq Direct
    BY DEF Statuses, Inv, Typed
  <2>3. CASE r \in Direct
    BY <2>1, <2>2, <2>3, StatusesApart DEF Inv, Effect
  <2>4. CASE r \in Queued
    BY <2>1, <2>2, <2>4, StatusesApart DEF Inv, Known
  <2> QED
    BY <2>3, <2>4 DEF Request
<1> QED
  BY <1>1, InvCorrect, PTL

\* While the connection lasts, a client told that its deposit could not be
\* published never sees it run, as the server's WriteTimeout (server.go:105) is
\* not longer than the port's RequestTimeout.
THEOREM FailureCorrect ==
  ASSUME WriteTimeout <= RequestTimeout
  PROVE  Spec => []FailureIsFinal
<1> DEFINE All == Inv /\ \A r \in Queued : Final(r)
<1>1. Init => All
  <2>1. Init => \A r \in Queued : Final(r)
    BY StatusesApart DEF Init, Final, Statuses
  <2> QED
    BY <2>1, InitInv
<1>2. All /\ [Next]_vars => All'
  <2> SUFFICES ASSUME All, [Next]_vars PROVE All'
    OBVIOUS
  <2>1. \A r \in Queued : Final(r)'
    BY FinalStep
  <2>2. Inv'
    BY InvStep
  <2> QED
    BY <2>1, <2>2
<1>3. All => FailureIsFinal
  BY DEF Inv, Final, Known, FailureIsFinal
<1> HIDE DEF All
<1> QED
  BY <1>1, <1>2, <1>3, PTL DEF Spec
=============================================================================
