------------------------ MODULE WalletUseCaseProofs ------------------------
(***************************************************************************)
(* Proofs about WalletUseCase for any sets of requests and accounts, any   *)
(* amounts, any skew of the clocks and any duration of a commit.           *)
(***************************************************************************)
EXTENDS WalletUseCase, TLAPS

\* r's transaction can commit: it has read what is still the balance, nobody
\* else can write it, and its statement continues the account's.
Ready(r) ==
  LET a == req[r].acct
  IN  /\ a \in balanceDocs
      /\ draft[r].seen = Len(statements[a])
      /\ draft[r].before = balance[a]
      /\ draft[r].after = draft[r].before + Delta(req[r])

\* Where a request has got in its handler, against the transaction's state.
Phase(r) ==
  /\ pc[r] \in {"begin", "record", "update", "commit", "await", "abort"} => req[r].op \in Money
  /\ pc[r] \in {"insertUser", "insertBalance"} => req[r].op = "ADD_MEMBER"
  /\ pc[r] = "insertBalance" => req[r].acct \in userDocs
  /\ pc[r] \in {"received", "begin", "record", "update", "insertUser", "insertBalance"}
       => r \notin writers
  /\ pc[r] = "await" => r \in sent
  /\ pc[r] = "abort" => answer[r] \in Refusal
  /\ r \in sent => /\ pc[r] \in {"await", "done", "crashed"}
                   /\ pc[r] = "done" => answer[r] \in {"Success", "CommitFailed"}
                   /\ req[r].op \in Money
  /\ r \in writers => req[r].op \in Money

\* What a transaction has read is current, or its update will conflict.
Snapshot(r) ==
  LET a == req[r].acct
  IN  /\ pc[r] \in {"record", "update"} =>
           /\ a \in balanceDocs
           /\ draft[r].seen <= Len(statements[a])
           /\ draft[r].seen = Len(statements[a]) => draft[r].before = balance[a]
      /\ pc[r] = "update" => draft[r].after = draft[r].before + Delta(req[r])
      /\ r \in writers => Ready(r)

\* A request is posted by its own commit, and answered 200 only then.
Outcome(r) ==
  /\ Posted(r) => r \in sent /\ r \notin writers
  /\ Answered(r, {"Success"}) => Posted(r)

\* Open transactions that have written are on different accounts.
LocksExclusive ==
  \A q, r \in writers : req[q].acct = req[r].acct => q = r

Inv ==
  /\ TypeOK
  /\ \A r \in Request : Phase(r)
  /\ \A r \in Request : Snapshot(r)
  /\ \A r \in Request : Outcome(r)
  /\ LocksExclusive
  /\ LedgerBalanced
  /\ NoNilUser

-----------------------------------------------------------------------------
\* The amount of a request's statement is an integer.
LEMMA DeltaInt == ASSUME NEW c \in Calls PROVE Delta(c) \in Int
<1>1. c.amount \in Nat
  BY RequestAssumption DEF Calls
<1> QED
  BY <1>1, Z3 DEF Delta, Units

\* What Append does to a sequence of entries.
LEMMA AppendEntry ==
  ASSUME NEW s \in Seq(Entry), NEW e \in Entry
  PROVE  /\ Append(s, e) \in Seq(Entry)
         /\ Len(Append(s, e)) = Len(s) + 1
         /\ DOMAIN Append(s, e) = 1..(Len(s) + 1)
         /\ Append(s, e)[Len(s) + 1] = e
         /\ \A i \in 1..Len(s) : Append(s, e)[i] = s[i]
         /\ DOMAIN s = 1..Len(s)
         /\ Append(s, e) # <<>>
         /\ Len(s) \in Nat
OBVIOUS

\* The steps that touch no statement leave what is posted alone.
LEMMA PostedStable ==
  ASSUME UNCHANGED statements, NEW r \in Request
  PROVE  Posted(r)' <=> Posted(r)
BY DEF Posted

\* The initial states satisfy the invariant.
LEMMA InitInv == Init => Inv
<1> SUFFICES ASSUME Init PROVE Inv
  OBVIOUS
<1>1. TypeOK
  BY AccountAssumption DEF Init, TypeOK, Place, Ended, Answer, NoDraft, Draft
<1>2. \A r \in Request : ~Posted(r)
  <2>1. \A a \in Account : statements[a] = <<>>
    BY DEF Init
  <2>2. \A a \in Account : DOMAIN statements[a] = {}
    BY <2>1
  <2> QED
    BY <2>2 DEF Posted
<1>3. \A r \in Request : Phase(r) /\ Snapshot(r) /\ Outcome(r)
  BY <1>2 DEF Init, Phase, Snapshot, Outcome, Answered
<1>4. LocksExclusive /\ NoNilUser
  BY DEF Init, LocksExclusive, NoNilUser
<1>5. LedgerBalanced
  BY DEF Init, LedgerBalanced
<1> QED
  BY <1>1, <1>3, <1>4, <1>5 DEF Inv
-----------------------------------------------------------------------------
\* A handler's move, with or without an answer, is to a place and with an
\* answer of the right type.
LEMMA GotoType ==
  ASSUME TypeOK, NEW r \in Request, NEW place \in Place, Goto(r, place)
  PROVE  pc' \in [Request -> Place] /\ answer' \in [Request -> Answer]
BY DEF Goto, TypeOK

LEMMA ReplyType ==
  ASSUME TypeOK, NEW r \in Request, NEW place \in Place, NEW result \in Answer,
         Reply(r, result, place)
  PROVE  pc' \in [Request -> Place] /\ answer' \in [Request -> Answer]
BY DEF Reply, TypeOK

\* Each step keeps the type invariant.
LEMMA TypeStep == TypeOK /\ [Next]_vars => TypeOK'
<1> SUFFICES ASSUME TypeOK, [Next]_vars PROVE TypeOK'
  OBVIOUS
<1> DEFINE Moved == pc' \in [Request -> Place] /\ answer' \in [Request -> Answer]
<1>p. Ended \subseteq Place /\ Refusal \subseteq Answer
  BY DEF Place, Answer
<1>a. \A r \in Request : req[r].acct \in Account /\ req[r] \in Calls
  BY DEF TypeOK, Calls
<1>1. ASSUME NEW r \in Request, ValidateDeposit(r) PROVE TypeOK'
  <2>1. Moved
    BY <1>1, <1>p, GotoType, ReplyType DEF ValidateDeposit, Place, Answer, Refusal, Ended
  <2> QED
    BY <1>1, <2>1 DEF ValidateDeposit, TypeOK, txn, members, wallets
<1>2. ASSUME NEW r \in Request, CheckWithdraw(r) PROVE TypeOK'
  <2>1. Moved
    BY <1>2, GotoType, ReplyType DEF CheckWithdraw, Place, Answer, Refusal, Ended
  <2> QED
    BY <1>2, <2>1 DEF CheckWithdraw, TypeOK, txn, members, wallets
<1>3. ASSUME NEW r \in Request, ReadWallet(r) PROVE TypeOK'
  <2> DEFINE a == req[r].acct
             d == [draft EXCEPT ![r].seen = Len(statements[a]), ![r].before = balance[a]]
  <2>1. Moved
    BY <1>3, GotoType, ReplyType DEF ReadWallet, Place, Answer, Refusal, Ended
  <2>2. Len(statements[a]) \in Nat /\ balance[a] \in Nat
    BY <1>a DEF TypeOK
  <2>3. d \in [Request -> Draft]
    BY <2>2 DEF TypeOK, Draft
  <2>4. draft' = draft \/ draft' = d
    BY <1>3 DEF ReadWallet
  <2> QED
    BY <1>3, <2>1, <2>3, <2>4 DEF ReadWallet, TypeOK, members, wallets
<1>4. ASSUME NEW r \in Request, RecordStatement(r) PROVE TypeOK'
  <2> DEFINE after == draft[r].before + Delta(req[r])
  <2>1. Moved
    BY <1>4, GotoType, ReplyType DEF RecordStatement, Place, Answer, Refusal, Ended
  <2>2. after \in Int
    BY <1>a, DeltaInt DEF TypeOK, Draft
  <2>3. CASE UNCHANGED draft
    BY <1>4, <2>1, <2>3 DEF RecordStatement, TypeOK, members, wallets
  <2>4. ASSUME after >= 0, NEW at \in (clock - Skew)..(clock + Skew),
               draft' = [draft EXCEPT ![r].after = after, ![r].at = at]
        PROVE  draft' \in [Request -> Draft]
    <3>1. at \in Int
      BY TimeAssumption DEF TypeOK
    <3>2. after \in Nat
      BY <2>4, <2>2
    <3>3. draft \in [Request -> Draft]
      BY DEF TypeOK
    <3> HIDE DEF after
    <3>4. [draft EXCEPT ![r].after = after, ![r].at = at] \in [Request -> Draft]
      BY <3>1, <3>2, <3>3 DEF Draft
    <3> QED
      BY <2>4, <3>4
  <2>5. draft' \in [Request -> Draft]
    BY <1>4, <2>3, <2>4 DEF RecordStatement, TypeOK
  <2> QED
    BY <1>4, <2>1, <2>5 DEF RecordStatement, TypeOK, members, wallets
<1>5. ASSUME NEW r \in Request, UpdateBalance(r) PROVE TypeOK'
  <2>1. Moved
    BY <1>5, GotoType, ReplyType DEF UpdateBalance, Place, Answer, Refusal, Ended
  <2> QED
    BY <1>5, <2>1 DEF UpdateBalance, TypeOK, members, wallets
<1>6. ASSUME NEW r \in Request, SendCommit(r) PROVE TypeOK'
  <2>1. Moved
    BY <1>6, GotoType DEF SendCommit, Place
  <2> QED
    BY <1>6, <2>1 DEF SendCommit, TypeOK, members, wallets
<1>7. ASSUME NEW r \in Request, ServerCommit(r) PROVE TypeOK'
  <2> DEFINE a == req[r].acct
             e == [req |-> r, amount |-> Delta(req[r]), before |-> draft[r].before,
                   after |-> draft[r].after, at |-> draft[r].at]
  <2>1. draft[r] \in Draft /\ Delta(req[r]) \in Int
    BY <1>a, DeltaInt DEF TypeOK
  <2>2. e \in Entry
    BY <2>1 DEF Entry, Draft
  <2>3. Append(statements[a], e) \in Seq(Entry)
    BY <1>a, <2>2, AppendEntry DEF TypeOK
  <2>4. statements' \in [Account -> Seq(Entry)]
    BY <1>7, <1>a, <2>3 DEF ServerCommit, TypeOK
  <2>5. balance' \in [Account -> Nat]
    BY <1>7, <1>a, <2>1 DEF ServerCommit, TypeOK, Draft
  <2>6. clock' \in Nat
    BY <1>7, TimeAssumption DEF ServerCommit, TypeOK
  <2> QED
    BY <1>7, <2>4, <2>5, <2>6 DEF ServerCommit, TypeOK, members
<1>8. ASSUME NEW r \in Request, CommitReturns(r) \/ CommitFails(r) PROVE TypeOK'
  <2>1. Moved
    BY <1>8, ReplyType DEF CommitReturns, CommitFails, Place, Answer, Ended
  <2> QED
    BY <1>8, <2>1 DEF CommitReturns, CommitFails, TypeOK, txn, members, wallets
<1>9. ASSUME NEW r \in Request, Abort(r) PROVE TypeOK'
  <2>1. Moved
    BY <1>9, GotoType DEF Abort, Place, Ended
  <2> QED
    BY <1>9, <2>1 DEF Abort, TypeOK, members, wallets
<1>10. ASSUME NEW r \in Request, Expire(r) PROVE TypeOK'
  BY <1>10 DEF Expire, TypeOK, members, wallets
<1>11. ASSUME NEW r \in Request, CheckMember(r) PROVE TypeOK'
  <2>1. Moved
    BY <1>11, GotoType, ReplyType DEF CheckMember, Place, Answer, Refusal, Ended
  <2> QED
    BY <1>11, <2>1 DEF CheckMember, TypeOK, txn, members, wallets
<1>12. ASSUME NEW r \in Request, InsertUser(r) \/ InsertBalance(r) \/ InsertFails(r)
       PROVE  TypeOK'
  <2>1. Moved
    BY <1>12, GotoType, ReplyType
    DEF InsertUser, InsertBalance, InsertFails, Place, Answer, Refusal, Ended
  <2>2. userDocs' \subseteq Account /\ balanceDocs' \subseteq Account
    BY <1>12, <1>a DEF InsertUser, InsertBalance, InsertFails, TypeOK
  <2> QED
    BY <1>12, <2>1, <2>2 DEF InsertUser, InsertBalance, InsertFails, TypeOK, txn, wallets
<1>13. ASSUME NEW r \in Request, LookupFails(r) \/ Crash(r) PROVE TypeOK'
  <2>1. Moved
    BY <1>13, GotoType, ReplyType DEF LookupFails, Crash, Place, Answer, Refusal, Ended
  <2> QED
    BY <1>13, <2>1 DEF LookupFails, Crash, TypeOK, txn, members, wallets
<1>14. ASSUME NEW r \in Request, TransactionFails(r) PROVE TypeOK'
  <2>1. Moved
    BY <1>14, ReplyType DEF TransactionFails, Place, Answer, Refusal, Ended
  <2> QED
    BY <1>14, <2>1 DEF TransactionFails, TypeOK, members, wallets
<1>15. CASE Tick
  BY <1>15 DEF Tick, TypeOK, txn, members
<1>16. CASE UNCHANGED vars
  BY <1>16 DEF vars, TypeOK, txn, members, wallets
<1> QED
  BY <1>1, <1>2, <1>3, <1>4, <1>5, <1>6, <1>7, <1>8, <1>9, <1>10, <1>11, <1>12,
     <1>13, <1>14, <1>15, <1>16 DEF Next, Handle, Failure
\* Each step keeps every request's place in its handler consistent with its
\* transaction.
LEMMA PhaseStep ==
  TypeOK /\ (\A r \in Request : Phase(r)) /\ [Next]_vars => \A r \in Request : Phase(r)'
<1> SUFFICES ASSUME TypeOK, \A r \in Request : Phase(r), [Next]_vars, NEW q \in Request
             PROVE  Phase(q)'
  OBVIOUS
<1>1. ASSUME NEW r \in Request, ValidateDeposit(r) PROVE Phase(q)'
  BY <1>1 DEF ValidateDeposit, Phase, Reply, Goto, TypeOK, Money, Refusal, Ended, txn, members, wallets
<1>2. ASSUME NEW r \in Request, CheckWithdraw(r) PROVE Phase(q)'
  BY <1>2 DEF CheckWithdraw, Phase, Reply, Goto, TypeOK, Money, Refusal, Ended, txn, members, wallets
<1>3. ASSUME NEW r \in Request, ReadWallet(r) PROVE Phase(q)'
  BY <1>3 DEF ReadWallet, Phase, Reply, Goto, TypeOK, Money, Refusal, Ended, txn, members, wallets
<1>4. ASSUME NEW r \in Request, RecordStatement(r) PROVE Phase(q)'
  BY <1>4 DEF RecordStatement, Phase, Reply, Goto, TypeOK, Money, Refusal, Ended, txn, members, wallets
<1>5. ASSUME NEW r \in Request, UpdateBalance(r) PROVE Phase(q)'
  BY <1>5 DEF UpdateBalance, Phase, Reply, Goto, TypeOK, Money, Refusal, Ended, txn, members, wallets
<1>6. ASSUME NEW r \in Request, SendCommit(r) PROVE Phase(q)'
  BY <1>6 DEF SendCommit, Phase, Reply, Goto, TypeOK, Money, Refusal, Ended, txn, members, wallets
<1>7. ASSUME NEW r \in Request, ServerCommit(r) PROVE Phase(q)'
  BY <1>7 DEF ServerCommit, Phase, Reply, Goto, TypeOK, Money, Refusal, Ended, txn, members, wallets
<1>8. ASSUME NEW r \in Request, CommitReturns(r) PROVE Phase(q)'
  BY <1>8 DEF CommitReturns, Phase, Reply, Goto, TypeOK, Money, Refusal, Ended, txn, members, wallets
<1>9. ASSUME NEW r \in Request, CommitFails(r) PROVE Phase(q)'
  BY <1>9 DEF CommitFails, Phase, Reply, Goto, TypeOK, Money, Refusal, Ended, txn, members, wallets
<1>10. ASSUME NEW r \in Request, Abort(r) PROVE Phase(q)'
  BY <1>10 DEF Abort, Phase, Reply, Goto, TypeOK, Money, Refusal, Ended, txn, members, wallets
<1>11. ASSUME NEW r \in Request, Expire(r) PROVE Phase(q)'
  BY <1>11 DEF Expire, Phase, Reply, Goto, TypeOK, Money, Refusal, Ended, txn, members, wallets
<1>12. ASSUME NEW r \in Request, CheckMember(r) PROVE Phase(q)'
  BY <1>12 DEF CheckMember, Phase, Reply, Goto, TypeOK, Money, Refusal, Ended, txn, members, wallets
<1>13. ASSUME NEW r \in Request, InsertUser(r) PROVE Phase(q)'
  BY <1>13 DEF InsertUser, Phase, Reply, Goto, TypeOK, Money, Refusal, Ended, txn, members, wallets
<1>14. ASSUME NEW r \in Request, InsertBalance(r) PROVE Phase(q)'
  BY <1>14 DEF InsertBalance, Phase, Reply, Goto, TypeOK, Money, Refusal, Ended, txn, members, wallets
<1>15. ASSUME NEW r \in Request, LookupFails(r) PROVE Phase(q)'
  BY <1>15 DEF LookupFails, Phase, Reply, Goto, TypeOK, Money, Refusal, Ended, txn, members, wallets
<1>16. ASSUME NEW r \in Request, TransactionFails(r) PROVE Phase(q)'
  BY <1>16 DEF TransactionFails, Phase, Reply, Goto, TypeOK, Money, Refusal, Ended, txn, members, wallets
<1>17. ASSUME NEW r \in Request, InsertFails(r) PROVE Phase(q)'
  BY <1>17 DEF InsertFails, Phase, Reply, Goto, TypeOK, Money, Refusal, Ended, txn, members, wallets
<1>18. ASSUME NEW r \in Request, Crash(r) PROVE Phase(q)'
  BY <1>18 DEF Crash, Phase, Reply, Goto, TypeOK, Money, Refusal, Ended, txn, members, wallets
<1>19. CASE Tick
  BY <1>19 DEF Tick, Phase, txn, members
<1>20. CASE UNCHANGED vars
  BY <1>20 DEF vars, Phase, txn, members, wallets
<1> QED
  BY <1>1, <1>2, <1>3, <1>4, <1>5, <1>6, <1>7, <1>8, <1>9, <1>10, <1>11, <1>12, <1>13, <1>14, <1>15, <1>16, <1>17, <1>18, <1>19, <1>20 DEF Next, Handle, Failure
-----------------------------------------------------------------------------
\* What a step may change: requests never, an open transaction's writes only if
\* they conflict with no other, the documents by an insert, the rest by a commit.
LEMMA StepEffect ==
  ASSUME [Next]_vars
  PROVE  /\ req' = req
         /\ \/ writers' \subseteq writers
            \/ \E r \in Request : ~WriteConflict(r) /\ writers' = writers \cup {r}
         /\ userDocs \subseteq userDocs'
         /\ \/ balanceDocs' = balanceDocs
            \/ \E r \in Request : /\ pc[r] = "insertBalance"
                                  /\ balanceDocs' = balanceDocs \cup {req[r].acct}
         /\ UNCHANGED <<balance, statements>> \/ \E r \in Request : ServerCommit(r)
<1> USE DEF txn, wallets, members
<1>1. ASSUME NEW r \in Request,
             \/ ValidateDeposit(r) \/ CheckWithdraw(r) \/ CheckMember(r) \/ ReadWallet(r)
             \/ RecordStatement(r) \/ SendCommit(r)
      PROVE  UNCHANGED <<req, writers, userDocs, balanceDocs, balance, statements>>
  BY <1>1 DEF ValidateDeposit, CheckWithdraw, CheckMember, ReadWallet, RecordStatement, SendCommit
<1>2. ASSUME NEW r \in Request,
             CommitReturns(r) \/ CommitFails(r) \/ LookupFails(r) \/ Crash(r)
      PROVE  UNCHANGED <<req, writers, userDocs, balanceDocs, balance, statements>>
  BY <1>2 DEF CommitReturns, CommitFails, LookupFails, Crash
<1>3. ASSUME NEW r \in Request,
             UpdateBalance(r) \/ TransactionFails(r) \/ Abort(r) \/ Expire(r)
      PROVE  /\ UNCHANGED <<req, userDocs, balanceDocs, balance, statements>>
             /\ \/ writers' \subseteq writers
                \/ ~WriteConflict(r) /\ writers' = writers \cup {r}
  BY <1>3 DEF UpdateBalance, TransactionFails, Abort, Expire
<1>4. ASSUME NEW r \in Request, InsertUser(r) \/ InsertBalance(r) \/ InsertFails(r)
      PROVE  /\ UNCHANGED <<req, writers, balance, statements>>
             /\ userDocs \subseteq userDocs'
             /\ \/ balanceDocs' = balanceDocs
                \/ /\ pc[r] = "insertBalance"
                   /\ balanceDocs' = balanceDocs \cup {req[r].acct}
  BY <1>4 DEF InsertUser, InsertBalance, InsertFails
<1>5. ASSUME NEW r \in Request, ServerCommit(r)
      PROVE  UNCHANGED <<req, userDocs, balanceDocs>> /\ writers' \subseteq writers
  BY <1>5 DEF ServerCommit
<1>6. CASE Tick \/ UNCHANGED vars
  BY <1>6 DEF Tick, vars
<1> QED
  BY <1>1, <1>2, <1>3, <1>4, <1>5, <1>6 DEF Next, Handle, Failure

\* Open transactions stay on different accounts.
LEMMA LocksStep == LocksExclusive /\ [Next]_vars => LocksExclusive'
<1> SUFFICES ASSUME LocksExclusive, [Next]_vars PROVE LocksExclusive'
  OBVIOUS
<1>1. req' = req
  BY StepEffect
<1>2. CASE writers' \subseteq writers
  BY <1>1, <1>2 DEF LocksExclusive
<1>3. ASSUME NEW r \in Request, ~WriteConflict(r), writers' = writers \cup {r}
      PROVE  LocksExclusive'
  BY <1>1, <1>3 DEF LocksExclusive, WriteConflict
<1>4. \/ writers' \subseteq writers
      \/ \E r \in Request : ~WriteConflict(r) /\ writers' = writers \cup {r}
  BY StepEffect
<1> QED
  BY <1>2, <1>3, <1>4

\* Each step keeps every request's snapshot current or in conflict.
LEMMA SnapshotStep ==
  /\ TypeOK
  /\ \A r \in Request : Phase(r) /\ Snapshot(r)
  /\ LocksExclusive
  /\ [Next]_vars
  => \A r \in Request : Snapshot(r)'
<1> SUFFICES ASSUME TypeOK, \A r \in Request : Phase(r) /\ Snapshot(r), LocksExclusive,
                    [Next]_vars, NEW q \in Request
             PROVE  Snapshot(q)'
  OBVIOUS
<1>1. ASSUME NEW r \in Request, ValidateDeposit(r) PROVE Snapshot(q)'
  BY <1>1 DEF ValidateDeposit, Snapshot, Phase, Ready, Reply, Goto, TypeOK, txn, members, wallets
<1>2. ASSUME NEW r \in Request, CheckWithdraw(r) PROVE Snapshot(q)'
  BY <1>2 DEF CheckWithdraw, Snapshot, Phase, Ready, Reply, Goto, TypeOK, txn, members, wallets
<1>3. ASSUME NEW r \in Request, ReadWallet(r) PROVE Snapshot(q)'
  <2> DEFINE a == req[r].acct
  <2>1. CASE q # r
    BY <1>3, <2>1 DEF ReadWallet, Snapshot, Ready, Reply, Goto, TypeOK, members, wallets
  <2>2. CASE q = r
    <3>1. r \notin writers
      BY <1>3 DEF ReadWallet, Phase
    <3>2. pc'[r] \in {"abort", "panicked", "record"}
      BY <1>3 DEF ReadWallet, Reply, Goto, TypeOK
    <3>3. CASE pc'[r] # "record"
      BY <1>3, <2>2, <3>1, <3>2, <3>3 DEF ReadWallet, Snapshot
    <3>4. CASE pc'[r] = "record"
      <4>1. /\ a \in balanceDocs
            /\ draft' = [draft EXCEPT ![r].seen = Len(statements[a]), ![r].before = balance[a]]
        BY <1>3, <3>4 DEF ReadWallet, Reply, Goto, TypeOK
      <4>2. draft'[r].seen = Len(statements[a]) /\ draft'[r].before = balance[a]
        BY <4>1 DEF TypeOK, Draft
      <4>3. Len(statements[a]) \in Nat
        BY DEF TypeOK, Calls
      <4> QED
        BY <1>3, <2>2, <3>1, <3>4, <4>1, <4>2, <4>3 DEF ReadWallet, Snapshot, members, wallets
    <3> QED
      BY <3>3, <3>4
  <2> QED
    BY <2>1, <2>2
<1>4. ASSUME NEW r \in Request, RecordStatement(r) PROVE Snapshot(q)'
  <2>1. CASE q # r
    BY <1>4, <2>1 DEF RecordStatement, Snapshot, Ready, Reply, Goto, TypeOK, members, wallets
  <2>2. CASE q = r
    <3>1. r \notin writers
      BY <1>4 DEF RecordStatement, Phase
    <3>2. \/ pc'[r] = "abort"
          \/ /\ pc'[r] = "update"
             /\ draft'[r].after = draft[r].before + Delta(req[r])
             /\ draft'[r].before = draft[r].before
             /\ draft'[r].seen = draft[r].seen
      BY <1>4 DEF RecordStatement, Reply, Goto, TypeOK, Draft
    <3> QED
      BY <1>4, <2>2, <3>1, <3>2 DEF RecordStatement, Snapshot, members, wallets
  <2> QED
    BY <2>1, <2>2
<1>5. ASSUME NEW r \in Request, UpdateBalance(r) PROVE Snapshot(q)'
  BY <1>5 DEF UpdateBalance, Snapshot, Phase, Ready, Reply, Goto, TypeOK, txn, members, wallets, WriteConflict
<1>6. ASSUME NEW r \in Request, SendCommit(r) PROVE Snapshot(q)'
  BY <1>6 DEF SendCommit, Snapshot, Phase, Ready, Reply, Goto, TypeOK, txn, members, wallets
<1>7. ASSUME NEW r \in Request, ServerCommit(r) PROVE Snapshot(q)'
  <2> DEFINE a == req[r].acct
             b == req[q].acct
             e == [req |-> r, amount |-> Delta(req[r]), before |-> draft[r].before,
                   after |-> draft[r].after, at |-> draft[r].at]
  <2>1. CASE b # a
    BY <1>7, <2>1 DEF ServerCommit, Snapshot, Ready, TypeOK, members
  <2>2. CASE b = a
    <3>1. q \notin writers'
      BY <1>7, <2>2 DEF ServerCommit, LocksExclusive
    <3>2. Len(statements'[b]) = Len(statements[b]) + 1
      BY <1>7, <2>2 DEF ServerCommit, TypeOK, Calls
    <3>3. pc[q] \in {"record", "update"} => draft[q].seen < Len(statements[b]) + 1
      BY DEF Snapshot, TypeOK, Draft, Calls
    <3>4. draft[q].seen \in Nat /\ Len(statements[b]) \in Nat
      BY DEF TypeOK, Draft, Calls
    <3>5. UNCHANGED <<req, pc, draft, balanceDocs>>
      BY <1>7 DEF ServerCommit, members
    <3>6. pc[q] \in {"record", "update"} => /\ b \in balanceDocs'
                                             /\ draft[q].seen <= Len(statements'[b])
                                             /\ draft[q].seen # Len(statements'[b])
      BY <3>2, <3>3, <3>4, <3>5 DEF Snapshot
    <3>7. pc[q] = "update" => draft[q].after = draft[q].before + Delta(req[q])
      BY DEF Snapshot
    <3> QED
      BY <3>1, <3>5, <3>6, <3>7 DEF Snapshot
  <2> QED
    BY <2>1, <2>2
<1>8. ASSUME NEW r \in Request, CommitReturns(r) PROVE Snapshot(q)'
  BY <1>8 DEF CommitReturns, Snapshot, Phase, Ready, Reply, Goto, TypeOK, txn, members, wallets
<1>9. ASSUME NEW r \in Request, CommitFails(r) PROVE Snapshot(q)'
  BY <1>9 DEF CommitFails, Snapshot, Phase, Ready, Reply, Goto, TypeOK, txn, members, wallets
<1>10. ASSUME NEW r \in Request, Abort(r) PROVE Snapshot(q)'
  BY <1>10 DEF Abort, Snapshot, Phase, Ready, Reply, Goto, TypeOK, txn, members, wallets
<1>11. ASSUME NEW r \in Request, Expire(r) PROVE Snapshot(q)'
  BY <1>11 DEF Expire, Snapshot, Phase, Ready, Reply, Goto, TypeOK, txn, members, wallets
<1>12. ASSUME NEW r \in Request, CheckMember(r) PROVE Snapshot(q)'
  BY <1>12 DEF CheckMember, Snapshot, Phase, Ready, Reply, Goto, TypeOK, txn, members, wallets
<1>13. ASSUME NEW r \in Request, InsertUser(r) PROVE Snapshot(q)'
  BY <1>13 DEF InsertUser, Snapshot, Phase, Ready, Reply, Goto, TypeOK, txn, members, wallets
<1>14. ASSUME NEW r \in Request, InsertBalance(r) PROVE Snapshot(q)'
  BY <1>14 DEF InsertBalance, Snapshot, Phase, Ready, Reply, Goto, TypeOK, txn, members, wallets
<1>15. ASSUME NEW r \in Request, LookupFails(r) PROVE Snapshot(q)'
  BY <1>15 DEF LookupFails, Snapshot, Phase, Ready, Reply, Goto, TypeOK, txn, members, wallets
<1>16. ASSUME NEW r \in Request, TransactionFails(r) PROVE Snapshot(q)'
  BY <1>16 DEF TransactionFails, Snapshot, Phase, Ready, Reply, Goto, TypeOK, txn, members, wallets, WriteConflict
<1>17. ASSUME NEW r \in Request, InsertFails(r) PROVE Snapshot(q)'
  BY <1>17 DEF InsertFails, Snapshot, Phase, Ready, Reply, Goto, TypeOK, txn, members, wallets
<1>18. ASSUME NEW r \in Request, Crash(r) PROVE Snapshot(q)'
  BY <1>18 DEF Crash, Snapshot, Phase, Ready, Reply, Goto, TypeOK, txn, members, wallets
<1>19. CASE Tick
  BY <1>19 DEF Tick, Snapshot, Ready, txn, members
<1>20. CASE UNCHANGED vars
  BY <1>20 DEF vars, Snapshot, Ready, txn, members, wallets
<1> QED
  BY <1>1, <1>2, <1>3, <1>4, <1>5, <1>6, <1>7, <1>8, <1>9, <1>10, <1>11, <1>12, <1>13, <1>14, <1>15, <1>16, <1>17, <1>18, <1>19, <1>20 DEF Next, Handle, Failure
\* The statement a request's commit posts.
Statement(r) ==
  [req |-> r, amount |-> Delta(req[r]), before |-> draft[r].before,
   after |-> draft[r].after, at |-> draft[r].at]

LEMMA StatementType ==
  ASSUME TypeOK, NEW r \in Request
  PROVE  Statement(r) \in Entry
<1>1. draft[r] \in Draft /\ Delta(req[r]) \in Int
  BY DeltaInt DEF TypeOK
<1> QED
  BY <1>1 DEF Statement, Entry, Draft

\* A commit appends its statement to those of the request's account, and to
\* no others.
LEMMA CommitAppends ==
  ASSUME TypeOK, NEW r \in Request, ServerCommit(r)
  PROVE  /\ req[r].acct \in Account
         /\ statements'[req[r].acct] = Append(statements[req[r].acct], Statement(r))
         /\ \A a \in Account : a # req[r].acct => statements'[a] = statements[a]
         /\ DOMAIN statements' = Account
BY DEF TypeOK, Calls, ServerCommit, Statement

\* A commit posts its own request and no other.
LEMMA CommitPosts ==
  ASSUME TypeOK, NEW r \in Request, ServerCommit(r), NEW q \in Request
  PROVE  Posted(q)' <=> Posted(q) \/ q = r
<1> DEFINE a == req[r].acct
           old == statements[a]
           new == statements'[a]
<1>1. a \in Account /\ old \in Seq(Entry) /\ Statement(r) \in Entry /\ new = Append(old, Statement(r))
  BY CommitAppends, StatementType DEF TypeOK
<1>2. /\ DOMAIN new = 1..(Len(old) + 1) /\ DOMAIN old = 1..Len(old) /\ Len(old) \in Nat
      /\ new[Len(old) + 1] = Statement(r)
      /\ \A i \in 1..Len(old) : new[i] = old[i]
  BY <1>1, AppendEntry
<1>3. Statement(r).req = r
  BY DEF Statement
<1>4. (\E i \in DOMAIN new : new[i].req = q) <=> (\E i \in DOMAIN old : old[i].req = q) \/ q = r
  <2> HIDE DEF new, old
  <2>1. DOMAIN new = DOMAIN old \cup {Len(old) + 1}
    BY <1>2
  <2> QED
    BY <2>1, <1>2, <1>3
<1>5. \A b \in Account : b # a => statements'[b] = statements[b]
  BY CommitAppends
<1> QED
  BY <1>1, <1>4, <1>5 DEF Posted

\* Each step keeps requests posted by their own commit only, and answered by
\* what their commit did.
LEMMA OutcomeStep ==
  TypeOK /\ (\A r \in Request : Phase(r) /\ Outcome(r)) /\ [Next]_vars
    => \A r \in Request : Outcome(r)'
<1> SUFFICES ASSUME TypeOK, \A r \in Request : Phase(r) /\ Outcome(r), [Next]_vars, NEW q \in Request
             PROVE  Outcome(q)'
  OBVIOUS
<1>0. UNCHANGED statements => (Posted(q)' <=> Posted(q))
  BY PostedStable
<1>1. ASSUME NEW r \in Request, ValidateDeposit(r) PROVE Outcome(q)'
  BY <1>0, <1>1 DEF ValidateDeposit, Outcome, Answered, Phase, Reply, Goto, TypeOK, Money, txn, members, wallets
<1>2. ASSUME NEW r \in Request, CheckWithdraw(r) PROVE Outcome(q)'
  BY <1>0, <1>2 DEF CheckWithdraw, Outcome, Answered, Phase, Reply, Goto, TypeOK, Money, txn, members, wallets
<1>3. ASSUME NEW r \in Request, ReadWallet(r) PROVE Outcome(q)'
  BY <1>0, <1>3 DEF ReadWallet, Outcome, Answered, Phase, Reply, Goto, TypeOK, Money, txn, members, wallets
<1>4. ASSUME NEW r \in Request, RecordStatement(r) PROVE Outcome(q)'
  BY <1>0, <1>4 DEF RecordStatement, Outcome, Answered, Phase, Reply, Goto, TypeOK, Money, txn, members, wallets
<1>5. ASSUME NEW r \in Request, UpdateBalance(r) PROVE Outcome(q)'
  BY <1>0, <1>5 DEF UpdateBalance, Outcome, Answered, Phase, Reply, Goto, TypeOK, Money, txn, members, wallets
<1>6. ASSUME NEW r \in Request, SendCommit(r) PROVE Outcome(q)'
  BY <1>0, <1>6 DEF SendCommit, Outcome, Answered, Phase, Reply, Goto, TypeOK, Money, txn, members, wallets
<1>7. ASSUME NEW r \in Request, ServerCommit(r) PROVE Outcome(q)'
  BY <1>7, CommitPosts DEF ServerCommit, Outcome, Answered, members
<1>8. ASSUME NEW r \in Request, CommitReturns(r) PROVE Outcome(q)'
  BY <1>0, <1>8 DEF CommitReturns, Outcome, Answered, Phase, Reply, Goto, TypeOK, Money, txn, members, wallets
<1>9. ASSUME NEW r \in Request, CommitFails(r) PROVE Outcome(q)'
  BY <1>0, <1>9 DEF CommitFails, Outcome, Answered, Phase, Reply, Goto, TypeOK, Money, txn, members, wallets
<1>10. ASSUME NEW r \in Request, Abort(r) PROVE Outcome(q)'
  BY <1>0, <1>10 DEF Abort, Outcome, Answered, Phase, Reply, Goto, TypeOK, Money, Refusal, txn, members, wallets
<1>11. ASSUME NEW r \in Request, Expire(r) PROVE Outcome(q)'
  BY <1>0, <1>11 DEF Expire, Outcome, Answered, Phase, Reply, Goto, TypeOK, Money, txn, members, wallets
<1>12. ASSUME NEW r \in Request, CheckMember(r) PROVE Outcome(q)'
  BY <1>0, <1>12 DEF CheckMember, Outcome, Answered, Phase, Reply, Goto, TypeOK, Money, txn, members, wallets
<1>13. ASSUME NEW r \in Request, InsertUser(r) PROVE Outcome(q)'
  BY <1>0, <1>13 DEF InsertUser, Outcome, Answered, Phase, Reply, Goto, TypeOK, Money, txn, members, wallets
<1>14. ASSUME NEW r \in Request, InsertBalance(r) PROVE Outcome(q)'
  BY <1>0, <1>14 DEF InsertBalance, Outcome, Answered, Phase, Reply, Goto, TypeOK, Money, txn, members, wallets
<1>15. ASSUME NEW r \in Request, LookupFails(r) PROVE Outcome(q)'
  BY <1>0, <1>15 DEF LookupFails, Outcome, Answered, Phase, Reply, Goto, TypeOK, Money, txn, members, wallets
<1>16. ASSUME NEW r \in Request, TransactionFails(r) PROVE Outcome(q)'
  BY <1>0, <1>16 DEF TransactionFails, Outcome, Answered, Phase, Reply, Goto, TypeOK, Money, txn, members, wallets
<1>17. ASSUME NEW r \in Request, InsertFails(r) PROVE Outcome(q)'
  BY <1>0, <1>17 DEF InsertFails, Outcome, Answered, Phase, Reply, Goto, TypeOK, Money, txn, members, wallets
<1>18. ASSUME NEW r \in Request, Crash(r) PROVE Outcome(q)'
  BY <1>0, <1>18 DEF Crash, Outcome, Answered, Phase, Reply, Goto, TypeOK, Money, txn, members, wallets
<1>19. CASE Tick
  BY <1>0, <1>19 DEF Tick, Outcome, Answered, txn, members
<1>20. CASE UNCHANGED vars
  BY <1>0, <1>20 DEF vars, Outcome, Answered, txn, members, wallets
<1> QED
  BY <1>1, <1>2, <1>3, <1>4, <1>5, <1>6, <1>7, <1>8, <1>9, <1>10, <1>11, <1>12, <1>13, <1>14, <1>15, <1>16, <1>17, <1>18, <1>19, <1>20 DEF Next, Handle, Failure

\* Each step keeps every account's statements a chain to its balance.
LEMMA LedgerStep ==
  TypeOK /\ (\A r \in Request : Snapshot(r)) /\ LedgerBalanced /\ [Next]_vars => LedgerBalanced'
<1> SUFFICES ASSUME TypeOK, \A r \in Request : Snapshot(r), LedgerBalanced, [Next]_vars
             PROVE  LedgerBalanced'
  OBVIOUS
<1>1. CASE UNCHANGED <<balance, statements>>
  BY <1>1 DEF LedgerBalanced
<1>2. ASSUME NEW r \in Request, ServerCommit(r) PROVE LedgerBalanced'
  <2> DEFINE a == req[r].acct
             old == statements[a]
             new == statements'[a]
             e == Statement(r)
  <2>1. a \in Account /\ old \in Seq(Entry) /\ e \in Entry /\ new = Append(old, e)
    BY <1>2, CommitAppends, StatementType DEF TypeOK
  <2>2. /\ DOMAIN new = 1..(Len(old) + 1) /\ DOMAIN old = 1..Len(old)
        /\ Len(new) = Len(old) + 1 /\ Len(old) \in Nat
        /\ new[Len(old) + 1] = e /\ new # <<>>
        /\ \A i \in 1..Len(old) : new[i] = old[i]
    BY <2>1, AppendEntry
  <2>3. /\ e.before = balance[a] /\ e.after = e.before + e.amount /\ e.after = balance'[a]
    BY <1>2, <2>1 DEF ServerCommit, Snapshot, Ready, Statement, TypeOK
  <2>4. ASSUME NEW b \in Account, b # a
        PROVE  statements'[b] = statements[b] /\ balance'[b] = balance[b]
    BY <1>2, <2>4, CommitAppends DEF ServerCommit, TypeOK
  <2>5. balance[a] = IF old = <<>> THEN 0 ELSE old[Len(old)].after
    BY <2>1 DEF LedgerBalanced
  <2>6. old = <<>> <=> Len(old) = 0
    BY <2>1
  <2>7. \A i \in DOMAIN old : /\ old[i].before = IF i = 1 THEN 0 ELSE old[i-1].after
                              /\ old[i].after = old[i].before + old[i].amount
    BY <2>1 DEF LedgerBalanced
  <2>8. \A i \in DOMAIN new : /\ new[i].before = IF i = 1 THEN 0 ELSE new[i-1].after
                              /\ new[i].after = new[i].before + new[i].amount
    <3> SUFFICES ASSUME NEW i \in DOMAIN new
                 PROVE  /\ new[i].before = IF i = 1 THEN 0 ELSE new[i-1].after
                        /\ new[i].after = new[i].before + new[i].amount
      OBVIOUS
    <3> HIDE DEF new, old, e, a
    <3>1. CASE i \in 1..Len(old)
      BY <3>1, <2>2, <2>7
    <3>2. CASE i = Len(old) + 1
      BY <3>2, <2>2, <2>3, <2>5, <2>6
    <3> QED
      BY <3>1, <3>2, <2>2
  <2>9. balance'[a] = IF new = <<>> THEN 0 ELSE new[Len(new)].after
    BY <2>2, <2>3
  <2> SUFFICES ASSUME NEW b \in Account
               PROVE  /\ \A i \in DOMAIN statements'[b] :
                           /\ statements'[b][i].before =
                                IF i = 1 THEN 0 ELSE statements'[b][i-1].after
                           /\ statements'[b][i].after =
                                statements'[b][i].before + statements'[b][i].amount
                      /\ balance'[b] = IF statements'[b] = <<>> THEN 0
                                       ELSE statements'[b][Len(statements'[b])].after
    BY DEF LedgerBalanced
  <2>10. CASE b = a
    BY <2>8, <2>9, <2>10
  <2>11. CASE b # a
    BY <2>4, <2>11 DEF LedgerBalanced
  <2> QED
    BY <2>10, <2>11
<1>3. UNCHANGED <<balance, statements>> \/ \E r \in Request : ServerCommit(r)
  BY StepEffect
<1> QED
  BY <1>1, <1>2, <1>3
\* Each step keeps a user behind every balance.
LEMMA NilStep ==
  TypeOK /\ (\A r \in Request : Phase(r)) /\ NoNilUser /\ [Next]_vars => NoNilUser'
<1> SUFFICES ASSUME TypeOK, \A r \in Request : Phase(r), NoNilUser, [Next]_vars PROVE NoNilUser'
  OBVIOUS
<1>1. userDocs \subseteq userDocs'
  BY StepEffect
<1>2. \/ balanceDocs' = balanceDocs
      \/ \E r \in Request : /\ pc[r] = "insertBalance"
                            /\ balanceDocs' = balanceDocs \cup {req[r].acct}
  BY StepEffect
<1>3. balanceDocs' \subseteq userDocs'
  BY <1>1, <1>2 DEF Phase, NoNilUser
<1>4. \A q \in Request : pc'[q] # "panicked"
  <2> SUFFICES ASSUME NEW q \in Request PROVE pc'[q] # "panicked"
    OBVIOUS
  <2>0. pc[q] # "panicked"
    BY DEF NoNilUser
  <2>1. ASSUME NEW r \in Request, NEW place, place # "panicked",
               Goto(r, place) \/ \E result : Reply(r, result, place)
        PROVE  pc'[q] # "panicked"
    BY <2>0, <2>1 DEF Goto, Reply, TypeOK
  <2>2. CASE UNCHANGED pc
    BY <2>0, <2>2
  <2>3. ASSUME NEW r \in Request, ReadWallet(r) PROVE pc'[q] # "panicked"
    BY <2>1, <2>3 DEF ReadWallet, NoNilUser
  <2>4. ASSUME NEW r \in Request,
               \/ ValidateDeposit(r) \/ CheckWithdraw(r) \/ CheckMember(r) \/ RecordStatement(r)
               \/ UpdateBalance(r) \/ SendCommit(r) \/ Abort(r)
        PROVE  pc'[q] # "panicked"
    BY <2>1, <2>4 DEF ValidateDeposit, CheckWithdraw, CheckMember, RecordStatement,
                      UpdateBalance, SendCommit, Abort
  <2>5. ASSUME NEW r \in Request,
               \/ InsertUser(r) \/ InsertBalance(r) \/ CommitReturns(r) \/ CommitFails(r)
               \/ Failure(r)
        PROVE  pc'[q] # "panicked"
    BY <2>1, <2>5 DEF InsertUser, InsertBalance, CommitReturns, CommitFails, Failure,
                      LookupFails, TransactionFails, InsertFails, Crash
  <2>6. ASSUME NEW r \in Request, ServerCommit(r) \/ Expire(r) \/ Tick \/ UNCHANGED vars
        PROVE  UNCHANGED pc
    BY <2>6 DEF ServerCommit, Expire, Tick, vars
  <2> QED
    BY <2>2, <2>3, <2>4, <2>5, <2>6 DEF Next, Handle
<1> QED
  BY <1>3, <1>4 DEF NoNilUser

-----------------------------------------------------------------------------
\* TypeOK holds in every state: no committed balance is ever negative, though
\* the balance HandleWithdraw checks is not the one it withdraws from.
THEOREM TypeCorrect == Spec => []TypeOK
<1>1. Init => TypeOK
  BY InitInv DEF Inv
<1> QED
  BY <1>1, TypeStep, PTL DEF Spec

\* The inductive invariant: the properties below follow from it.
THEOREM Invariance == Spec => []Inv
<1>1. Inv /\ [Next]_vars => Inv'
  BY TypeStep, PhaseStep, SnapshotStep, OutcomeStep, LocksStep, LedgerStep, NilStep DEF Inv
<1> QED
  BY InitInv, <1>1, PTL DEF Spec

\* Every account's statements are a chain from zero to its balance, for every
\* number of concurrent requests, however they fail.
THEOREM LedgerCorrect == Spec => []LedgerBalanced
<1>1. Inv => LedgerBalanced
  BY DEF Inv
<1> QED
  BY <1>1, Invariance, PTL

\* What callers are told of deposits and withdrawals is what happened.
THEOREM AnswersCorrect == Spec => []AnswersTruthful
<1>1. Inv => AnswersTruthful
  BY DEF Inv, Phase, Outcome, AnswersTruthful, Answered, Refusal
<1> QED
  BY <1>1, Invariance, PTL

\* The nil user of a missing account is never followed.
THEOREM NilUserCorrect == Spec => []NoNilUser
<1>1. Inv => NoNilUser
  BY DEF Inv
<1> QED
  BY <1>1, Invariance, PTL
-----------------------------------------------------------------------------
\* The acknowledged and the refused requests, as the ledger sees them.
Acked == {r \in Request : Answered(r, {"Success"})}
Refused == {r \in Request : Answered(r, Refusal)}

\* The steps of a handler, every step but those of the server and the clock.
HandlerStep(r) == Handle(r) \/ CommitReturns(r) \/ CommitFails(r) \/ Failure(r)

\* A handler's step is taken before its request is done, and moves no other
\* request and no statement.
LEMMA HandlerLocal ==
  ASSUME TypeOK, NEW r \in Request, HandlerStep(r)
  PROVE  /\ pc[r] # "done"
         /\ \A q \in Request \ {r} : pc'[q] = pc[q] /\ answer'[q] = answer[q]
         /\ UNCHANGED <<req, balance, statements>>
<1>1. pc[r] # "done" /\ UNCHANGED <<req, balance, statements>>
  BY DEF HandlerStep, Handle, Failure, ValidateDeposit, CheckWithdraw, CheckMember, ReadWallet,
         RecordStatement, UpdateBalance, SendCommit, Abort, InsertUser, InsertBalance,
         CommitReturns, CommitFails, LookupFails, TransactionFails, InsertFails, Crash,
         Ended, wallets
<1>2. \E place, result : Goto(r, place) \/ Reply(r, result, place)
  BY DEF HandlerStep, Handle, Failure, ValidateDeposit, CheckWithdraw, CheckMember, ReadWallet,
         RecordStatement, UpdateBalance, SendCommit, Abort, InsertUser, InsertBalance,
         CommitReturns, CommitFails, LookupFails, TransactionFails, InsertFails, Crash
<1>3. \A q \in Request \ {r} : pc'[q] = pc[q] /\ answer'[q] = answer[q]
  BY <1>2 DEF Goto, Reply, TypeOK
<1> QED
  BY <1>1, <1>3

\* So it acknowledges r, or refuses it, or does neither.
LEMMA HandlerAnswers ==
  ASSUME TypeOK, NEW r \in Request, HandlerStep(r)
  PROVE  \/ ~Answered(r, {"Success"})' /\ ~Answered(r, Refusal)' /\ UNCHANGED <<Acked, Refused>>
         \/ Answered(r, {"Success"})' /\ Acked' = Acked \cup {r} /\ Refused' = Refused
         \/ Answered(r, Refusal)' /\ Refused' = Refused \cup {r} /\ Acked' = Acked
<1>1. \A q \in Request \ {r} : /\ Answered(q, {"Success"})' <=> Answered(q, {"Success"})
                               /\ Answered(q, Refusal)' <=> Answered(q, Refusal)
  BY HandlerLocal DEF Answered
<1>2. ~Answered(r, {"Success"}) /\ ~Answered(r, Refusal)
  BY HandlerLocal DEF Answered
<1>3. ~(Answered(r, {"Success"})' /\ Answered(r, Refusal)')
  BY DEF Answered, Refusal
<1> QED
  BY <1>1, <1>2, <1>3 DEF Acked, Refused

\* A handler's step that leaves the balances collection alone acknowledges or
\* refuses, or the ledger sees nothing of it.
LEMMA HandlerRefines ==
  ASSUME Inv, Inv', NEW r \in Request, HandlerStep(r), UNCHANGED balanceDocs
  PROVE  Ledger!Acknowledge(r) \/ Ledger!Refuse(r) \/ UNCHANGED Ledger!vars
<1>1. UNCHANGED <<balance, statements, balanceDocs>>
  BY HandlerLocal DEF Inv
<1>2. CASE UNCHANGED <<Acked, Refused>>
  BY <1>1, <1>2 DEF Ledger!vars, Acked, Refused
<1>3. CASE Answered(r, {"Success"})' /\ Acked' = Acked \cup {r} /\ Refused' = Refused
  <2>1. Posted(r)
    BY <1>1, <1>3, PostedStable DEF Inv, Outcome
  <2>2. Ledger!Acknowledge(r)
    BY <1>1, <1>3, <2>1 DEF Ledger!Acknowledge, Ledger!Posted, Posted, Acked, Refused
  <2> QED
    BY <2>2
<1>4. CASE Answered(r, Refusal)' /\ Refused' = Refused \cup {r} /\ Acked' = Acked
  <2>1. r \notin sent'
    BY <1>4 DEF Inv, Phase, Answered, Refusal
  <2>2. ~Posted(r)
    BY <1>1, <2>1, PostedStable DEF Inv, Outcome
  <2>3. Ledger!Refuse(r)
    BY <1>1, <1>4, <2>2 DEF Ledger!Refuse, Ledger!Posted, Posted, Acked, Refused
  <2> QED
    BY <2>3
<1> QED
  BY <1>2, <1>3, <1>4, HandlerAnswers DEF Inv

\* A step that adds an account's balance opens the account.
LEMMA InsertRefines ==
  ASSUME Inv, NEW r \in Request, InsertBalance(r) \/ InsertFails(r)
  PROVE  UNCHANGED balanceDocs \/ Ledger!Open(req[r].acct)
<1>1. req[r].op = "ADD_MEMBER"
  BY DEF Inv, Phase, InsertBalance, InsertFails
<1>2. HandlerStep(r)
  BY DEF HandlerStep, Handle, Failure
<1>3. UNCHANGED <<Acked, Refused, balance, statements>>
  BY <1>1, <1>2, HandlerLocal, HandlerAnswers DEF Inv, Answered, Money
<1>4. UNCHANGED balanceDocs \/ /\ req[r].acct \notin balanceDocs
                               /\ balanceDocs' = balanceDocs \cup {req[r].acct}
  BY DEF InsertBalance, InsertFails, DuplicateKey
<1> QED
  BY <1>3, <1>4 DEF Ledger!Open, Acked, Refused

\* The server's commit posts.
LEMMA CommitRefines ==
  ASSUME Inv, NEW r \in Request, ServerCommit(r)
  PROVE  Ledger!Post(req[r].acct)
<1> DEFINE a == req[r].acct
<1>1. /\ a \in Account /\ statements[a] \in Seq(Entry) /\ Statement(r) \in Entry
      /\ statements'[a] = Append(statements[a], Statement(r))
  BY CommitAppends, StatementType DEF Inv, TypeOK
<1>2. /\ Len(statements'[a]) = Len(statements[a]) + 1
      /\ statements'[a][Len(statements[a]) + 1] = Statement(r)
  BY <1>1, AppendEntry
<1>3. /\ statements' = [statements EXCEPT ![a] = Append(@, Statement(r))]
      /\ balance' = [balance EXCEPT ![a] = Statement(r).after]
      /\ UNCHANGED <<req, pc, answer, balanceDocs>>
  BY DEF ServerCommit, Statement, members
<1>4. /\ a \in balanceDocs
      /\ Statement(r).before = balance[a]
      /\ Statement(r).after = Statement(r).before + Statement(r).amount
  BY DEF ServerCommit, Inv, Snapshot, Ready, Statement
<1>5. ~Posted(r) /\ r \notin Refused
  BY DEF ServerCommit, Inv, Outcome, Phase, Refused, Answered, Refusal
<1>6. Statement(r).req = r
  BY DEF Statement
<1>7. UNCHANGED <<Acked, Refused>>
  BY <1>3 DEF Acked, Refused, Answered
<1> QED
  BY <1>1, <1>2, <1>3, <1>4, <1>5, <1>6, <1>7
  DEF Ledger!Post, Ledger!Entry, Entry, Ledger!Posted, Posted, Acked, Refused

\* Every step of the service is a step of the ledger, or invisible to it.
LEMMA StepRefines == Inv /\ Inv' /\ [Next]_vars => [Ledger!Next]_(Ledger!vars)
<1> SUFFICES ASSUME Inv, Inv', [Next]_vars PROVE [Ledger!Next]_(Ledger!vars)
  OBVIOUS
<1>1. ASSUME NEW r \in Request, HandlerStep(r) PROVE [Ledger!Next]_(Ledger!vars)
  <2>1. UNCHANGED balanceDocs \/ InsertBalance(r) \/ InsertFails(r)
    BY <1>1 DEF HandlerStep, Handle, Failure, ValidateDeposit, CheckWithdraw, CheckMember,
         ReadWallet, RecordStatement, UpdateBalance, SendCommit, Abort, InsertUser,
         CommitReturns, CommitFails, LookupFails, TransactionFails, Crash, members
  <2>2. UNCHANGED balanceDocs \/ Ledger!Open(req[r].acct)
    BY <2>1, InsertRefines
  <2>3. req[r].acct \in Account
    BY DEF Inv, TypeOK, Calls
  <2> QED
    BY <1>1, <2>2, <2>3, HandlerRefines DEF Ledger!Next
<1>2. ASSUME NEW r \in Request, ServerCommit(r) PROVE [Ledger!Next]_(Ledger!vars)
  <2>1. req[r].acct \in Account
    BY DEF Inv, TypeOK, Calls
  <2> QED
    BY <1>2, <2>1, CommitRefines DEF Ledger!Next
<1>3. ASSUME (\E r \in Request : Expire(r)) \/ Tick \/ UNCHANGED vars
      PROVE  UNCHANGED Ledger!vars
  BY <1>3 DEF Expire, Tick, vars, members, wallets, Ledger!vars, Answered
<1> QED
  BY <1>1, <1>2, <1>3 DEF Next, HandlerStep

\* The service implements the ledger: whatever the handlers do at the same time
\* and however they fail, the deposits and withdrawals happen one at a time,
\* each at most once, and every answer is true of them.
THEOREM Refinement == Spec => LedgerSpec
<1>1. Init => Ledger!Init
  BY DEF Init, Ledger!Init, Answered
<1> QED
  BY <1>1, StepRefines, Invariance, PTL DEF Spec, LedgerSpec, Ledger!Spec
-----------------------------------------------------------------------------
\* Where commits take longer than clocks are apart, dates order the statements
\* as their commits did: a transaction that can still commit has dated its
\* statement after every statement of the account.
DateOrder ==
  \A a \in Account : \A i, j \in DOMAIN statements[a] :
    i < j => statements[a][i].at < statements[a][j].at

DatePast ==
  \A a \in Account : \A i \in DOMAIN statements[a] :
    statements[a][i].at + CommitTicks <= clock + Skew

DraftDate(r) ==
  pc[r] = "update" \/ r \in writers =>
    /\ draft[r].at <= clock + Skew
    /\ draft[r].seen = Len(statements[req[r].acct]) =>
         \A i \in DOMAIN statements[req[r].acct] :
           statements[req[r].acct][i].at < draft[r].at

Dated == DateOrder /\ DatePast /\ \A r \in Request : DraftDate(r)

LEMMA EntryDate ==
  ASSUME TypeOK, NEW a \in Account, NEW i \in DOMAIN statements[a]
  PROVE  statements[a][i].at \in Int
<1>1. statements[a] \in Seq(Entry)
  BY DEF TypeOK
<1>2. statements[a][i] \in Entry
  BY <1>1
<1> QED
  BY <1>2 DEF Entry

\* A statement is dated later than all that are committed.
LEMMA RecordDate ==
  ASSUME CommitTicks > 2 * Skew, Inv, Dated, NEW r \in Request, RecordStatement(r),
         NEW q \in Request
  PROVE  DraftDate(q)'
<1> DEFINE a == req[r].acct
<1>1. UNCHANGED <<req, writers, statements, clock>>
  BY DEF RecordStatement, wallets
<1>2. CASE q # r
  BY <1>1, <1>2 DEF RecordStatement, Goto, Reply, Inv, TypeOK, Dated, DraftDate
<1>3. CASE q = r
  <2>1. r \notin writers
    BY DEF RecordStatement, Inv, Phase
  <2>2. CASE pc'[r] # "update"
    BY <1>1, <1>3, <2>1, <2>2 DEF DraftDate
  <2>3. CASE pc'[r] = "update"
    <3>1. PICK at \in (clock - Skew)..(clock + Skew) : draft'[r].at = at
      BY <2>3 DEF RecordStatement, Goto, Reply, Inv, TypeOK, Draft
    <3>2. at \in Int /\ clock \in Int /\ Skew \in Int /\ CommitTicks \in Int
      BY TimeAssumption DEF Inv, TypeOK
    <3>3. at <= clock + Skew /\ clock - Skew <= at
      BY <3>1, <3>2
    <3>4. ASSUME NEW i \in DOMAIN statements[a] PROVE statements[a][i].at < at
      <4>1. a \in Account
        BY DEF Inv, TypeOK, Calls
      <4>2. statements[a][i].at \in Int
        BY <4>1, EntryDate DEF Inv
      <4>3. statements[a][i].at + CommitTicks <= clock + Skew
        BY <4>1 DEF Dated, DatePast
      <4> HIDE DEF a
      <4> QED
        BY <3>2, <3>3, <4>2, <4>3
    <3> QED
      BY <1>1, <1>3, <3>1, <3>3, <3>4 DEF DraftDate
  <2> QED
    BY <2>2, <2>3
<1> QED
  BY <1>2, <1>3

\* A commit adds the latest date of its account.
LEMMA CommitDate ==
  ASSUME Inv, Dated, NEW r \in Request, ServerCommit(r)
  PROVE  Dated'
<1> DEFINE a == req[r].acct
           old == statements[a]
           new == statements'[a]
           e == Statement(r)
<1>1. a \in Account /\ old \in Seq(Entry) /\ e \in Entry /\ new = Append(old, e)
  BY CommitAppends, StatementType DEF Inv, TypeOK
<1>2. /\ DOMAIN new = 1..(Len(old) + 1) /\ DOMAIN old = 1..Len(old)
      /\ Len(new) = Len(old) + 1 /\ Len(old) \in Nat
      /\ new[Len(old) + 1] = e
      /\ \A i \in 1..Len(old) : new[i] = old[i]
  BY <1>1, AppendEntry
<1>3. \A b \in Account : b # a => statements'[b] = statements[b]
  BY CommitAppends DEF Inv
<1>4. /\ e.at = draft[r].at /\ e.at \in Int /\ e.at <= clock + Skew
      /\ \A i \in DOMAIN old : old[i].at < e.at /\ old[i].at \in Int
  BY <1>1, EntryDate DEF ServerCommit, Inv, Snapshot, Ready, Dated, DraftDate, Statement, Entry
<1>5. /\ clock' = clock + CommitTicks /\ clock \in Nat
      /\ CommitTicks \in Nat /\ Skew \in Nat
      /\ UNCHANGED <<req, pc, draft>> /\ writers' = writers \ {r}
  BY TimeAssumption DEF ServerCommit, Inv, TypeOK
<1>6. DateOrder'
  <2> SUFFICES ASSUME NEW b \in Account, NEW i \in DOMAIN statements'[b],
                      NEW j \in DOMAIN statements'[b], i < j
               PROVE  statements'[b][i].at < statements'[b][j].at
    BY DEF DateOrder
  <2>1. CASE b # a
    BY <1>3, <2>1 DEF Dated, DateOrder
  <2>2. CASE b = a
    <3>1. i \in DOMAIN new /\ j \in DOMAIN new
      BY <2>2
    <3> HIDE DEF e, new, old
    <3>2. i \in 1..Len(old)
      BY <3>1, <1>2
    <3>3. CASE j = Len(old) + 1
      <4>1. new[i].at < new[j].at
        BY <1>2, <1>4, <3>2, <3>3
      <4> QED
        BY <4>1, <2>2 DEF new
    <3>4. CASE j \in 1..Len(old)
      <4>1. old[i].at < old[j].at
        BY <1>1, <1>2, <3>2, <3>4 DEF Dated, DateOrder, old
      <4>2. new[i].at < new[j].at
        BY <1>2, <3>2, <3>4, <4>1
      <4> QED
        BY <4>2, <2>2 DEF new
    <3> QED
      BY <1>2, <3>1, <3>3, <3>4
  <2> QED
    BY <2>1, <2>2
<1>7. DatePast'
  <2> SUFFICES ASSUME NEW b \in Account, NEW i \in DOMAIN statements'[b]
               PROVE  statements'[b][i].at + CommitTicks <= clock' + Skew
    BY DEF DatePast
  <2>1. ASSUME NEW j \in DOMAIN statements[b]
        PROVE  statements[b][j].at + CommitTicks <= clock' + Skew
    <3>1. statements[b][j].at + CommitTicks <= clock + Skew
      BY DEF Dated, DatePast
    <3>2. statements[b][j].at \in Int
      BY EntryDate DEF Inv
    <3> QED
      BY <1>5, <3>1, <3>2
  <2>2. CASE b # a
    BY <1>3, <2>1, <2>2
  <2>3. CASE b = a
    <3>1. CASE i = Len(old) + 1
      <4>1. statements'[b][i] = e
        BY <1>2, <2>3, <3>1
      <4>2. e.at + CommitTicks <= clock' + Skew
        <5> HIDE DEF e
        <5> QED
          BY <1>4, <1>5
      <4> QED
        BY <4>1, <4>2
    <3>2. CASE i \in 1..Len(old)
      BY <1>2, <2>1, <2>3, <3>2
    <3>3. i \in 1..(Len(old) + 1)
      BY <1>2, <2>3
    <3> HIDE DEF old
    <3> QED
      BY <1>2, <3>1, <3>2, <3>3
  <2> QED
    BY <2>2, <2>3
<1>8. ASSUME NEW q \in Request PROVE DraftDate(q)'
  <2> DEFINE b == req[q].acct
  <2> SUFFICES ASSUME pc[q] = "update" \/ q \in writers'
               PROVE  /\ draft[q].at <= clock' + Skew
                      /\ draft[q].seen = Len(statements'[b]) =>
                           \A i \in DOMAIN statements'[b] : statements'[b][i].at < draft[q].at
    BY <1>5 DEF DraftDate
  <2>1. draft[q].at <= clock + Skew /\ draft[q].at \in Int
    BY <1>5 DEF Dated, DraftDate, Inv, TypeOK, Draft
  <2>2. CASE b # a
    <3>1. b \in Account
      BY DEF Inv, TypeOK, Calls
    <3>2. statements'[b] = statements[b] /\ (pc[q] = "update" \/ q \in writers)
      BY <1>3, <1>5, <2>2, <3>1
    <3>3. draft[q].at <= clock' + Skew
      BY <1>5, <2>1
    <3>4. draft[q].seen = Len(statements[b]) =>
            \A i \in DOMAIN statements[b] : statements[b][i].at < draft[q].at
      BY <3>2 DEF Dated, DraftDate
    <3> QED
      BY <3>2, <3>3, <3>4
  <2>3. CASE b = a
    <3>1. q \notin writers'
      BY <1>5, <2>3 DEF Inv, LocksExclusive, ServerCommit
    <3>2. draft[q].seen <= Len(old) /\ draft[q].seen \in Nat
      BY <2>3, <3>1 DEF Inv, Snapshot, TypeOK, Draft
    <3>3. draft[q].seen # Len(statements'[b])
      BY <1>2, <2>3, <3>2
    <3> QED
      BY <1>5, <2>1, <3>3
  <2> QED
    BY <2>2, <2>3
<1> QED
  BY <1>6, <1>7, <1>8 DEF Dated
\* Each step keeps the dates in order.
LEMMA DatedStep ==
  ASSUME CommitTicks > 2 * Skew, Inv, Dated, [Next]_vars
  PROVE  Dated'
<1>1. ASSUME UNCHANGED <<statements, clock>>, \A q \in Request : DraftDate(q)'
      PROVE  Dated'
  BY <1>1 DEF Dated, DateOrder, DatePast
<1>2. ASSUME NEW r \in Request, RecordStatement(r) PROVE Dated'
  BY <1>1, <1>2, RecordDate DEF RecordStatement, wallets
<1>3. ASSUME NEW r \in Request, ServerCommit(r) PROVE Dated'
  BY <1>3, CommitDate
<1>4. ASSUME NEW r \in Request, ReadWallet(r) PROVE Dated'
  <2>1. ASSUME NEW q \in Request PROVE DraftDate(q)'
    <3>1. CASE q # r
      BY <1>4, <3>1 DEF ReadWallet, Goto, Reply, Inv, TypeOK, Dated, DraftDate, wallets
    <3>2. CASE q = r
      BY <1>4, <3>2 DEF ReadWallet, Goto, Reply, Inv, TypeOK, Phase, DraftDate
    <3> QED
      BY <3>1, <3>2
  <2> QED
    BY <1>1, <1>4, <2>1 DEF ReadWallet, wallets
<1>5. ASSUME NEW r \in Request, UpdateBalance(r) \/ TransactionFails(r) PROVE Dated'
  <2>1. ASSUME NEW q \in Request PROVE DraftDate(q)'
    BY <1>5 DEF UpdateBalance, TransactionFails, Goto, Reply, Inv, TypeOK, Dated, DraftDate, wallets
  <2> QED
    BY <1>1, <1>5, <2>1 DEF UpdateBalance, TransactionFails, wallets
<1>6. ASSUME NEW r \in Request,
             \/ ValidateDeposit(r) \/ CheckWithdraw(r) \/ CheckMember(r) \/ SendCommit(r)
             \/ Abort(r) \/ InsertUser(r) \/ InsertBalance(r) \/ CommitReturns(r)
             \/ CommitFails(r) \/ Expire(r) \/ LookupFails(r) \/ InsertFails(r) \/ Crash(r)
      PROVE  Dated'
  <2>1. /\ UNCHANGED <<req, draft, statements, clock>> /\ writers' \subseteq writers
        /\ \A q \in Request : pc'[q] = "update" => pc[q] = "update"
    BY <1>6 DEF ValidateDeposit, CheckWithdraw, CheckMember, SendCommit, Abort, InsertUser,
         InsertBalance, CommitReturns, CommitFails, Expire, LookupFails, InsertFails, Crash,
         Goto, Reply, Inv, TypeOK, txn, wallets
  <2> QED
    BY <1>1, <2>1 DEF Dated, DraftDate
<1>7. CASE Tick
  <2>1. UNCHANGED <<req, pc, draft, writers, statements>> /\ clock' = clock + 1
    BY <1>7 DEF Tick, txn
  <2>2. clock \in Nat /\ Skew \in Nat /\ CommitTicks \in Nat
    BY TimeAssumption DEF Inv, TypeOK
  <2>3. DatePast'
    BY <2>1, <2>2, EntryDate DEF Dated, DatePast, Inv
  <2>4. ASSUME NEW q \in Request PROVE DraftDate(q)'
    <3>1. draft[q].at \in Int
      BY DEF Inv, TypeOK, Draft
    <3>2. draft[q].at <= clock + Skew => draft[q].at <= clock' + Skew
      BY <2>1, <2>2, <3>1
    <3>3. DraftDate(q)
      BY DEF Dated
    <3> QED
      BY <2>1, <3>2, <3>3 DEF DraftDate
  <2> QED
    BY <2>1, <2>3, <2>4 DEF Dated, DateOrder
<1>8. CASE UNCHANGED vars
  BY <1>1, <1>8 DEF vars, txn, wallets, Dated, DraftDate
<1> QED
  BY <1>2, <1>3, <1>4, <1>5, <1>6, <1>7, <1>8 DEF Next, Handle, Failure

\* With the dates in order the last statement is the one of the last commit,
\* and its balance is the account's.
LEMMA LastIsLast ==
  ASSUME Inv, Dated, NEW a \in Account
  PROVE  LastAfter(a) = {balance[a]}
<1> DEFINE old == statements[a]
           n == Len(old)
<1>1. old \in Seq(Entry)
  BY DEF Inv, TypeOK
<1>2. n \in Nat /\ DOMAIN old = 1..n /\ (old = <<>> <=> n = 0)
  BY <1>1
<1>3. CASE n = 0
  BY <1>2, <1>3 DEF LastAfter, Inv, LedgerBalanced
<1>4. CASE n # 0
  <2>1. \A i, j \in DOMAIN old : i < j => old[i].at < old[j].at
    BY DEF Dated, DateOrder
  <2>2. \A i \in DOMAIN old : old[i].at \in Int
    BY EntryDate DEF Inv
  <2>3. balance[a] = old[n].after
    BY <1>2, <1>4 DEF Inv, LedgerBalanced
  <2>4. Newest(a) = {i \in DOMAIN old : \A j \in DOMAIN old : old[j].at <= old[i].at}
    BY DEF Newest
  <2>5. LastAfter(a) = {old[i].after : i \in Newest(a)}
    BY <1>2, <1>4 DEF LastAfter
  <2> HIDE DEF old, n
  <2>6. ASSUME NEW i \in DOMAIN old PROVE old[i].at <= old[n].at
    <3>1. i = n \/ i < n
      BY <1>2
    <3> QED
      BY <1>2, <1>4, <2>1, <2>2, <3>1
  <2>7. ASSUME NEW i \in DOMAIN old, old[n].at <= old[i].at PROVE i = n
    BY <1>2, <1>4, <2>1, <2>2, <2>7
  <2>8. n \in DOMAIN old
    BY <1>2, <1>4
  <2>9. Newest(a) = {n}
    BY <2>4, <2>6, <2>7, <2>8
  <2> QED
    BY <2>3, <2>5, <2>9
<1> QED
  BY <1>3, <1>4

\* Equal balances compare as equal, epsilon or not.
LEMMA CompareSame ==
  ASSUME NEW x \in Int, NEW same \in Compare(x, x)
  PROVE  same
<1>1. x - x \notin {-1, 1}
  OBVIOUS
<1>2. Compare(x, x) = {x = x}
  BY <1>1 DEF Compare
<1>3. same = (x = x)
  BY <1>2
<1> QED
  BY <1>3

\* While a commit takes more than twice the skew of the clocks, the statement
\* with the latest date is the one committed last.
THEOREM DatesCorrect == CommitTicks > 2 * Skew => (Spec => []LastIsMostRecent)
<1> SUFFICES ASSUME CommitTicks > 2 * Skew PROVE Spec => []LastIsMostRecent
  OBVIOUS
<1>1. Init => Dated
  <2> SUFFICES ASSUME Init PROVE Dated
    OBVIOUS
  <2>1. \A a \in Account : DOMAIN statements[a] = {}
    <3>1. \A a \in Account : statements[a] = <<>>
      BY DEF Init
    <3> QED
      BY <3>1
  <2> QED
    BY <2>1 DEF Init, Dated, DateOrder, DatePast, DraftDate
<1>2. Inv /\ Dated /\ [Next]_vars => Dated'
  BY DatedStep
<1>3. Inv /\ Dated => LastIsMostRecent
  BY LastIsLast DEF LastIsMostRecent, Inv, LedgerBalanced
<1> QED
  BY <1>1, <1>2, <1>3, Invariance, PTL DEF Spec

\* So the consistency check refuses nobody: an account cannot be found at odds
\* with its statements.
THEOREM NoFalseAlarm == CommitTicks > 2 * Skew => (Spec => []NeverInconsistent)
<1> SUFFICES ASSUME CommitTicks > 2 * Skew PROVE Spec => []NeverInconsistent
  OBVIOUS
<1>1. Init => Dated /\ NeverInconsistent
  <2> SUFFICES ASSUME Init PROVE Dated /\ NeverInconsistent
    OBVIOUS
  <2>1. \A a \in Account : DOMAIN statements[a] = {}
    <3>1. \A a \in Account : statements[a] = <<>>
      BY DEF Init
    <3> QED
      BY <3>1
  <2> QED
    BY <2>1 DEF Init, Dated, DateOrder, DatePast, DraftDate, NeverInconsistent
<1>2. Inv /\ Dated /\ [Next]_vars => Dated'
  BY DatedStep
<1>3. Inv /\ Dated /\ NeverInconsistent /\ [Next]_vars => NeverInconsistent'
  <2> SUFFICES ASSUME Inv, Dated, NeverInconsistent, [Next]_vars, NEW q \in Request
               PROVE  answer'[q] # "Inconsistent"
    BY DEF NeverInconsistent
  <2>0. answer[q] # "Inconsistent"
    BY DEF NeverInconsistent
  <2>1. ASSUME NEW r \in Request, NEW place, Goto(r, place) PROVE answer'[q] # "Inconsistent"
    BY <2>0, <2>1 DEF Goto
  <2>2. ASSUME NEW r \in Request, NEW place, NEW result,
               result # "Inconsistent", Reply(r, result, place)
        PROVE  answer'[q] # "Inconsistent"
    BY <2>0, <2>2 DEF Reply, Inv, TypeOK
  <2>3. ASSUME NEW r \in Request, ReadWallet(r) PROVE answer'[q] # "Inconsistent"
    <3> DEFINE a == req[r].acct
    <3>1. a \in Account /\ balance[a] \in Nat
      BY DEF Inv, TypeOK, Calls
    <3>2. ASSUME NEW last \in LastAfter(a), NEW same \in Compare(balance[a], last), ~same
          PROVE  FALSE
      <4>1. last = balance[a]
        BY <3>1, LastIsLast
      <4> QED
        BY <3>1, <3>2, <4>1, CompareSame
    <3>3. \/ Reply(r, "NotFound", "abort")
          \/ \E place : Goto(r, place)
      BY <2>3, <3>2 DEF ReadWallet
    <3> QED
      BY <2>1, <2>2, <3>3
  <2>4. ASSUME NEW r \in Request,
               \/ ValidateDeposit(r) \/ CheckWithdraw(r) \/ CheckMember(r) \/ RecordStatement(r)
               \/ UpdateBalance(r) \/ SendCommit(r) \/ Abort(r)
        PROVE  answer'[q] # "Inconsistent"
    BY <2>1, <2>2, <2>4 DEF ValidateDeposit, CheckWithdraw, CheckMember, RecordStatement,
                      UpdateBalance, SendCommit, Abort
  <2>5. ASSUME NEW r \in Request,
               InsertUser(r) \/ InsertBalance(r) \/ CommitReturns(r) \/ CommitFails(r) \/ Failure(r)
        PROVE  answer'[q] # "Inconsistent"
    BY <2>1, <2>2, <2>5 DEF InsertUser, InsertBalance, CommitReturns, CommitFails, Failure,
                      LookupFails, TransactionFails, InsertFails, Crash
  <2>6. ASSUME (\E r \in Request : ServerCommit(r) \/ Expire(r)) \/ Tick \/ UNCHANGED vars
        PROVE  UNCHANGED answer
    BY <2>6 DEF ServerCommit, Expire, Tick, vars
  <2> QED
    BY <2>0, <2>3, <2>4, <2>5, <2>6 DEF Next, Handle
<1> QED
  BY <1>1, <1>2, <1>3, Invariance, PTL DEF Spec
-----------------------------------------------------------------------------
\* A creation that was answered 200 has its balance in the database, where the
\* unique index keeps out every other.
Created(r) ==
  req[r].op = "ADD_MEMBER" /\ answer[r] = "Success" => req[r].acct \in balanceDocs

\* Each step keeps it so.
LEMMA CreatedStep ==
  ASSUME Inv, \A r \in Request : Created(r), OneWinner, [Next]_vars
  PROVE  (\A r \in Request : Created(r)') /\ OneWinner'
<1>1. req' = req /\ balanceDocs \subseteq balanceDocs'
  BY StepEffect
<1> DEFINE Won(q) == req[q].op = "ADD_MEMBER" /\ answer[q] = "Success"
           Kept == \A q \in Request : Won(q)' => Won(q)
<1>2. CASE Kept
  BY <1>1, <1>2 DEF Created, OneWinner
<1>3. ASSUME NEW r \in Request, InsertBalance(r), ~DuplicateKey(balanceDocs, req[r].acct)
      PROVE  (\A q \in Request : Created(q)') /\ OneWinner'
  <2>1. /\ req[r].acct \notin balanceDocs /\ req[r].acct \in balanceDocs'
        /\ \A q \in Request \ {r} : Won(q)' => Won(q)
    BY <1>1, <1>3 DEF InsertBalance, DuplicateKey, Reply, Inv, TypeOK
  <2>2. \A q \in Request : Won(q) => req[q].acct # req[r].acct
    BY <2>1 DEF Created
  <2> QED
    BY <1>1, <2>1, <2>2 DEF Created, OneWinner
<1>4. ASSUME NEW r \in Request, NEW place, Goto(r, place) PROVE Kept
  BY <1>1, <1>4 DEF Goto
<1>5. ASSUME NEW r \in Request, NEW place, NEW result, Reply(r, result, place),
             result # "Success" \/ req[r].op # "ADD_MEMBER"
      PROVE  Kept
  BY <1>1, <1>5 DEF Reply, Inv, TypeOK
<1>6. ASSUME NEW r \in Request, Handle(r), ~InsertBalance(r) PROVE Kept
  BY <1>4, <1>5, <1>6
  DEF Handle, ValidateDeposit, CheckWithdraw, CheckMember, ReadWallet, RecordStatement,
      UpdateBalance, SendCommit, Abort, InsertUser
<1>7. ASSUME NEW r \in Request, InsertBalance(r), DuplicateKey(balanceDocs, req[r].acct) PROVE Kept
  BY <1>5, <1>7 DEF InsertBalance
<1>8. ASSUME NEW r \in Request, CommitReturns(r) \/ CommitFails(r) PROVE Kept
  BY <1>5, <1>8 DEF CommitReturns, CommitFails, Inv, Phase, Money
<1>9. ASSUME NEW r \in Request, Failure(r) PROVE Kept
  BY <1>4, <1>5, <1>9 DEF Failure, LookupFails, TransactionFails, InsertFails, Crash
<1>10. ASSUME (\E r \in Request : ServerCommit(r) \/ Expire(r)) \/ Tick \/ UNCHANGED vars
       PROVE  Kept
  BY <1>1, <1>10 DEF ServerCommit, Expire, Tick, vars
<1> HIDE DEF Kept
<1> QED
  BY <1>2, <1>3, <1>6, <1>7, <1>8, <1>9, <1>10 DEF Next

\* Of the concurrent creations of one member one at most is answered 200.
THEOREM MembersCorrect == Spec => []OneWinner
<1>1. Init => (\A r \in Request : Created(r)) /\ OneWinner
  BY DEF Init, Created, OneWinner
<1>2. Inv /\ (\A r \in Request : Created(r)) /\ OneWinner /\ [Next]_vars
        => ((\A r \in Request : Created(r)) /\ OneWinner)'
  BY CreatedStep
<1> QED
  BY <1>1, <1>2, Invariance, PTL DEF Spec
=============================================================================
