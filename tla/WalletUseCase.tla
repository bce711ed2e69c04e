--------------------------- MODULE WalletUseCase ---------------------------
(***************************************************************************)
(* The deposit, withdraw and create-member handlers of the wallet service  *)
(* (wallet_usecase.go, wallet_service.go) over their MongoDB repository    *)
(* (mongo_adapter.go).  Handlers run concurrently, in any number of        *)
(* consumer processes, one per request.                                    *)
(*                                                                         *)
(* The database is MongoDB 4+ on a replica set: a transaction reads one    *)
(* snapshot, its writes stay invisible until it commits, and an update of  *)
(* a document that another open transaction has updated, or that was       *)
(* committed after the snapshot, fails at once with a write conflict.      *)
(* A driver call may fail with its effect done or not, a commit may be     *)
(* applied after its caller gave up, and a process may die at any step.    *)
(*                                                                         *)
(* Amounts are in tenths of 10^-8 (a request's float has digits the ledger *)
(* cannot store), balances in units of 10^-8, dates in milliseconds.       *)
(* Users and balances are never deleted and their status never leaves 1.   *)
(***************************************************************************)
EXTENDS Integers, Sequences

CONSTANTS
  Request,      \* identities of the requests
  Account,      \* the (username, parent token) keys
  Operation,    \* the operations requested, among the three below
  Amount,       \* the amounts requested, in tenths of a unit
  Seed,         \* accounts that exist, complete and empty, from the start
  KnownParent,  \* accounts whose parent token names an active user
  ValidName,    \* accounts whose username ValidateUsername accepts
  Skew,         \* how far a host's clock may be from the true time
  CommitTicks,  \* the least time a commit takes
  MaxTime       \* bound on the time that passes by itself

\* A half way amount rounds by the binary expansion of the float: left out.
ASSUME RequestAssumption ==
  /\ Operation \subseteq {"DEPOSIT", "WITHDRAW", "ADD_MEMBER"}
  /\ Amount \subseteq Nat
  /\ \A x \in Amount : x % 10 # 5

ASSUME AccountAssumption ==
  /\ Seed \subseteq Account
  /\ KnownParent \subseteq Account
  /\ ValidName \subseteq Account

ASSUME TimeAssumption == Skew \in Nat /\ CommitTicks \in Nat /\ MaxTime \in Nat

VARIABLES
  req,          \* req[r], what r asks for; it never changes
  pc,           \* where r's handler is
  answer,       \* the response r's handler has decided on
  draft,        \* what r's transaction has read and computed
  writers,      \* transactions holding an uncommitted write of a balance
  sent,         \* requests whose commit was sent to the server
  userDocs,     \* accounts with a document in the users collection
  balanceDocs,  \* accounts with a document in the balances collection
  balance,      \* the committed balance of each account
  statements,   \* the committed statements of each account, oldest commit first
  clock         \* the true time

txn == <<draft, writers, sent>>
wallets == <<balance, statements, clock>>
members == <<userDocs, balanceDocs>>
vars == <<req, pc, answer, txn, members, wallets>>

Money == {"DEPOSIT", "WITHDRAW"}

\* The requests there can be.  A member creation has no amount.
Calls == {c \in [op : Operation, acct : Account, amount : Amount] :
            c.op = "ADD_MEMBER" => c.amount = 0}

Entry == [req : Request, amount : Int, before : Nat, after : Nat, at : Int]
Draft == [seen : Nat, before : Nat, after : Nat, at : Int]
NoDraft == [seen |-> 0, before |-> 0, after |-> 0, at |-> 0]

Ended == {"done", "crashed", "panicked"}
Place == Ended \cup {"received", "begin", "record", "update", "commit",
                     "await", "abort", "insertUser", "insertBalance"}
Refusal == {"Invalid", "NotFound", "Inconsistent", "Failed"}
Answer == Refusal \cup {"none", "Success", "Exists", "CommitFailed"}

TypeOK ==
  /\ req \in [Request -> Calls]
  /\ pc \in [Request -> Place]
  /\ answer \in [Request -> Answer]
  /\ draft \in [Request -> Draft]
  /\ writers \subseteq Request
  /\ sent \subseteq Request
  /\ userDocs \subseteq Account
  /\ balanceDocs \subseteq Account
  /\ balance \in [Account -> Nat]
  /\ statements \in [Account -> Seq(Entry)]
  /\ clock \in Nat

-----------------------------------------------------------------------------
\* "%.8f" rounds a request's amount to the nearest unit.
Units(x) == (x + 5) \div 10

\* The signed amount of the statement of a call.
Delta(c) == IF c.op = "WITHDRAW" THEN -Units(c.amount) ELSE Units(c.amount)

\* Mutant of Newest: the sort ascends.
NewestAscending(a) == {i \in DOMAIN statements[a] :
                         \A j \in DOMAIN statements[a] :
                           statements[a][j].at >= statements[a][i].at}

\* The positions a sort by descending datetime may put first: ties are the
\* database's choice.
Newest(a) == {i \in DOMAIN statements[a] :
                \A j \in DOMAIN statements[a] : statements[a][j].at <= statements[a][i].at}

\* The balances GetLastWalletStatement may report, zero without a statement.
LastAfter(a) == IF statements[a] = <<>> THEN {0}
                ELSE {statements[a][i].after : i \in Newest(a)}

\* Whether two balances compare as equal.  The comparison allows for a float
\* error of one unit: balances a unit apart may pass or not.
Compare(x, y) == IF x - y \in {-1, 1} THEN BOOLEAN ELSE {x = y}

Posted(r) == \E a \in Account : \E i \in DOMAIN statements[a] : statements[a][i].req = r

\* Mutant of WriteConflict: the last of two transactions to commit wins.
LastWriteWins(r) == \E q \in writers \ {r} : req[q].acct = req[r].acct

\* An update by r fails: the balance was written after r's snapshot, or is
\* being written by another open transaction.
WriteConflict(r) ==
  \/ draft[r].seen # Len(statements[req[r].acct])
  \/ \E q \in writers \ {r} : req[q].acct = req[r].acct

\* Mutant of DuplicateKey: the index was not built (createIndexes only logs it).
NoUniqueIndex(docs, a) == FALSE

\* The unique (username, parent_token) index of a collection.
DuplicateKey(docs, a) == a \in docs

Goto(r, place) == pc' = [pc EXCEPT ![r] = place] /\ UNCHANGED answer

Reply(r, result, place) ==
  /\ answer' = [answer EXCEPT ![r] = result]
  /\ pc' = [pc EXCEPT ![r] = place]

-----------------------------------------------------------------------------
Init ==
  /\ req \in [Request -> Calls]
  /\ pc = [r \in Request |-> "received"]
  /\ answer = [r \in Request |-> "none"]
  /\ draft = [r \in Request |-> NoDraft]
  /\ writers = {}
  /\ sent = {}
  /\ userDocs = Seed
  /\ balanceDocs = Seed
  /\ balance = [a \in Account |-> 0]
  /\ statements = [a \in Account |-> <<>>]
  /\ clock = 0

\* HandleDeposit checks the request before its transaction, and reads nothing.  A
\* missing username or parent token is refused as an amount that is not positive is.
ValidateDeposit(r) ==
  /\ pc[r] = "received"
  /\ req[r].op = "DEPOSIT"
  /\ \/ req[r].amount = 0 /\ Reply(r, "Invalid", "done")
     \/ req[r].amount > 0 /\ Goto(r, "begin")
  /\ UNCHANGED <<req, txn, members, wallets>>

\* HandleWithdraw compares the unrounded amount with a balance it reads
\* outside the transaction, after the checks of a deposit.
CheckWithdraw(r) ==
  LET a == req[r].acct
      covered == req[r].amount > 0 /\ req[r].amount <= 10 * balance[a]
  IN  /\ pc[r] = "received"
      /\ req[r].op = "WITHDRAW"
      /\ \/ a \notin balanceDocs /\ Reply(r, "NotFound", "done")
         \/ a \in balanceDocs /\ ~covered /\ Reply(r, "Invalid", "done")
         \/ a \in balanceDocs /\ covered /\ Goto(r, "begin")
      /\ UNCHANGED <<req, txn, members, wallets>>

\* The transaction's reads: user, balance and last statement, of one snapshot.
\* A missing user is not an error here; its pointer is followed after the
\* other checks.
ReadWallet(r) ==
  LET a == req[r].acct
  IN  /\ pc[r] = "begin"
      /\ \/ a \notin balanceDocs /\ Reply(r, "NotFound", "abort") /\ UNCHANGED draft
         \/ /\ a \in balanceDocs
            /\ \E last \in LastAfter(a) : \E same \in Compare(balance[a], last) :
                 \/ ~same /\ Reply(r, "Inconsistent", "abort") /\ UNCHANGED draft
                 \/ same /\ a \notin userDocs /\ Goto(r, "panicked") /\ UNCHANGED draft
                 \/ /\ same /\ a \in userDocs
                    /\ draft' = [draft EXCEPT ![r].seen = Len(statements[a]),
                                              ![r].before = balance[a]]
                    /\ Goto(r, "record")
      /\ UNCHANGED <<req, writers, sent, members, wallets>>

\* Mutant of RecordStatement: the new balance may be negative, as HandleWithdraw
\* has checked the balance already.
RecordUnchecked(r) ==
  /\ pc[r] = "record"
  /\ \E at \in (clock - Skew)..(clock + Skew) :
       draft' = [draft EXCEPT ![r].after = draft[r].before + Delta(req[r]), ![r].at = at]
  /\ Goto(r, "update")
  /\ UNCHANGED <<req, writers, sent, members, wallets>>

\* Mutant of RecordStatement: the statement has the date of the request, some
\* moment before.
RecordRequestDate(r) ==
  /\ pc[r] = "record"
  /\ draft[r].before + Delta(req[r]) >= 0
  /\ \E at \in 0..clock :
       draft' = [draft EXCEPT ![r].after = draft[r].before + Delta(req[r]), ![r].at = at]
  /\ Goto(r, "update")
  /\ UNCHANGED <<req, writers, sent, members, wallets>>

\* CreateDepositStatement or CreateWithdrawStatement dates the statement by
\* the host's clock, and its insert goes into the transaction.
RecordStatement(r) ==
  LET after == draft[r].before + Delta(req[r])
  IN  /\ pc[r] = "record"
      /\ \/ after < 0 /\ Reply(r, "Invalid", "abort") /\ UNCHANGED draft
         \/ /\ after >= 0
            /\ \E at \in (clock - Skew)..(clock + Skew) :
                 draft' = [draft EXCEPT ![r].after = after, ![r].at = at]
            /\ Goto(r, "update")
      /\ UNCHANGED <<req, writers, sent, members, wallets>>

\* Mutant of UpdateBalance: a conflict is retried in the same transaction.
UpdateRetried(r) ==
  /\ pc[r] = "update"
  /\ ~WriteConflict(r)
  /\ writers' = writers \cup {r}
  /\ Goto(r, "commit")
  /\ UNCHANGED <<req, draft, sent, members, wallets>>

\* UpdateAccountBalance.  A conflict is answered with a 500, never retried.
UpdateBalance(r) ==
  /\ pc[r] = "update"
  /\ \/ WriteConflict(r) /\ Reply(r, "Failed", "abort") /\ UNCHANGED writers
     \/ ~WriteConflict(r) /\ writers' = writers \cup {r} /\ Goto(r, "commit")
  /\ UNCHANGED <<req, draft, sent, members, wallets>>

SendCommit(r) ==
  /\ pc[r] = "commit"
  /\ sent' = sent \cup {r}
  /\ Goto(r, "await")
  /\ UNCHANGED <<req, draft, writers, members, wallets>>

\* Mutant of ServerCommit: a commit sent again is applied again.
ServerCommitAgain(r) ==
  LET a == req[r].acct
  IN  /\ r \in writers
      /\ r \in sent
      /\ Len(statements[a]) < 3
      /\ balance' = [balance EXCEPT ![a] = @ + Delta(req[r])]
      /\ statements' = [statements EXCEPT ![a] = Append(@,
           [req |-> r, amount |-> Delta(req[r]), before |-> balance[a],
            after |-> balance[a] + Delta(req[r]), at |-> draft[r].at])]
      /\ UNCHANGED <<req, pc, answer, txn, members, clock>>

\* The server applies the commit, be the caller still there or not.
ServerCommit(r) ==
  LET a == req[r].acct
  IN  /\ r \in writers
      /\ r \in sent
      /\ balance' = [balance EXCEPT ![a] = draft[r].after]
      /\ statements' = [statements EXCEPT ![a] = Append(@,
           [req |-> r, amount |-> Delta(req[r]), before |-> draft[r].before,
            after |-> draft[r].after, at |-> draft[r].at])]
      /\ writers' = writers \ {r}
      /\ clock' = clock + CommitTicks
      /\ UNCHANGED <<req, pc, answer, draft, sent, members>>

CommitReturns(r) ==
  /\ pc[r] = "await"
  /\ Posted(r)
  /\ Reply(r, "Success", "done")
  /\ UNCHANGED <<req, txn, members, wallets>>

\* Mutant of CommitFails: the error of Commit is not looked at.
CommitErrorIgnored(r) ==
  /\ pc[r] = "await"
  /\ Reply(r, "Success", "done")
  /\ UNCHANGED <<req, txn, members, wallets>>

\* The driver gives up on the commit, applied or not.
CommitFails(r) ==
  /\ pc[r] = "await"
  /\ Reply(r, "CommitFailed", "done")
  /\ UNCHANGED <<req, txn, members, wallets>>

\* Abort's error is ignored: an abort that does not reach the server leaves
\* the transaction, and its write, open there.
Abort(r) ==
  /\ pc[r] = "abort"
  /\ writers' \in {writers, writers \ {r}}
  /\ Goto(r, "done")
  /\ UNCHANGED <<req, draft, sent, members, wallets>>

\* The server drops a transaction past transactionLifetimeLimitSeconds.
Expire(r) ==
  /\ r \in writers
  /\ writers' = writers \ {r}
  /\ UNCHANGED <<req, pc, answer, draft, sent, members, wallets>>

-----------------------------------------------------------------------------
\* HandleCreateMember up to its first write, every lookup answered.
CheckMember(r) ==
  LET a == req[r].acct
  IN  /\ pc[r] = "received"
      /\ req[r].op = "ADD_MEMBER"
      /\ \/ a \notin ValidName /\ Reply(r, "Invalid", "done")
         \/ a \in ValidName /\ a \in userDocs /\ Reply(r, "Exists", "done")
         \/ a \in ValidName \ userDocs /\ a \notin KnownParent /\ Reply(r, "NotFound", "done")
         \/ a \in ValidName \ userDocs /\ a \in KnownParent /\ Goto(r, "insertUser")
      /\ UNCHANGED <<req, txn, members, wallets>>

\* The two inserts are no transaction: each takes effect by itself.
InsertUser(r) ==
  LET a == req[r].acct
  IN  /\ pc[r] = "insertUser"
      /\ \/ DuplicateKey(userDocs, a) /\ Reply(r, "Failed", "done") /\ UNCHANGED userDocs
         \/ /\ ~DuplicateKey(userDocs, a)
            /\ userDocs' = userDocs \cup {a}
            /\ Goto(r, "insertBalance")
      /\ UNCHANGED <<req, txn, balanceDocs, wallets>>

InsertBalance(r) ==
  LET a == req[r].acct
  IN  /\ pc[r] = "insertBalance"
      /\ \/ DuplicateKey(balanceDocs, a) /\ Reply(r, "Failed", "done") /\ UNCHANGED balanceDocs
         \/ /\ ~DuplicateKey(balanceDocs, a)
            /\ balanceDocs' = balanceDocs \cup {a}
            /\ Reply(r, "Success", "done")
      /\ UNCHANGED <<req, txn, userDocs, wallets>>

-----------------------------------------------------------------------------
\* A lookup before the first write fails.  A withdrawal takes the failure for
\* a missing account; a member creation ignores that of the first lookup, and
\* stops at that of the second.
LookupFails(r) ==
  LET a == req[r].acct
  IN  /\ pc[r] = "received"
      /\ \/ req[r].op = "WITHDRAW" /\ Reply(r, "NotFound", "done")
         \/ /\ req[r].op = "ADD_MEMBER"
            /\ a \in ValidName
            /\ \/ Reply(r, "Failed", "done")
               \/ a \notin KnownParent /\ Reply(r, "NotFound", "done")
               \/ a \in KnownParent /\ Goto(r, "insertUser")
      /\ UNCHANGED <<req, txn, members, wallets>>

\* A call of the transaction fails, its start included.  A failed update may have reached the
\* server; a commit that fails here was never sent.
TransactionFails(r) ==
  /\ \/ /\ pc[r] = "begin"
        /\ \/ Reply(r, "Failed", "done")
           \/ \E result \in {"NotFound", "Failed"} : Reply(r, result, "abort")
        /\ UNCHANGED writers
     \/ /\ pc[r] \in {"record", "update"}
        /\ Reply(r, "Failed", "abort")
        /\ UNCHANGED writers
     \/ /\ pc[r] = "update" /\ ~WriteConflict(r)
        /\ Reply(r, "Failed", "abort")
        /\ writers' = writers \cup {r}
     \/ /\ pc[r] = "commit"
        /\ Reply(r, "CommitFailed", "done")
        /\ UNCHANGED writers
  /\ UNCHANGED <<req, draft, sent, members, wallets>>

\* Mutant of InsertFails: a failed CreateUser does not end the creation.
InsertFailureIgnored(r) ==
  /\ pc[r] = "insertUser"
  /\ Goto(r, "insertBalance")
  /\ UNCHANGED <<req, txn, members, wallets>>

\* An insert of a member creation fails, having reached the server or not.
InsertFails(r) ==
  LET a == req[r].acct
  IN  /\ \/ /\ pc[r] = "insertUser"
            /\ userDocs' \in {userDocs, userDocs \cup {a}}
            /\ UNCHANGED balanceDocs
         \/ /\ pc[r] = "insertBalance"
            /\ balanceDocs' \in {balanceDocs, balanceDocs \cup {a}}
            /\ UNCHANGED userDocs
      /\ Reply(r, "Failed", "done")
      /\ UNCHANGED <<req, txn, wallets>>

\* The process that handles r dies.
Crash(r) ==
  /\ pc[r] \notin Ended
  /\ Goto(r, "crashed")
  /\ UNCHANGED <<req, txn, members, wallets>>

Tick ==
  /\ clock < MaxTime
  /\ clock' = clock + 1
  /\ UNCHANGED <<req, pc, answer, txn, members, balance, statements>>

-----------------------------------------------------------------------------
\* The steps a handler takes when nothing fails.
Handle(r) ==
  \/ ValidateDeposit(r) \/ CheckWithdraw(r) \/ CheckMember(r)
  \/ ReadWallet(r) \/ RecordStatement(r) \/ UpdateBalance(r) \/ SendCommit(r)
  \/ Abort(r) \/ InsertUser(r) \/ InsertBalance(r)

Failure(r) ==
  LookupFails(r) \/ TransactionFails(r) \/ InsertFails(r) \/ Crash(r)

Next ==
  \/ \E r \in Request : \/ Handle(r) \/ CommitReturns(r) \/ CommitFails(r)
                        \/ ServerCommit(r) \/ Expire(r) \/ Failure(r)
  \/ Tick

Spec == Init /\ [][Next]_vars

-----------------------------------------------------------------------------
\* The statements of an account are a chain from zero to its balance: every
\* deposit and withdrawal is applied to what the one before it left, whichever
\* handlers ran at the same time, timed out, crashed or committed late.
LedgerBalanced ==
  \A a \in Account :
    /\ \A i \in DOMAIN statements[a] :
         /\ statements[a][i].before = IF i = 1 THEN 0 ELSE statements[a][i-1].after
         /\ statements[a][i].after = statements[a][i].before + statements[a][i].amount
    /\ balance[a] = IF statements[a] = <<>> THEN 0
                    ELSE statements[a][Len(statements[a])].after

Answered(r, results) ==
  pc[r] = "done" /\ req[r].op \in Money /\ answer[r] \in results

\* What a caller is told of a deposit or a withdrawal is what happened: one
\* that was answered 200 is in the ledger, and one that was answered 400, 404
\* or 500 is not and never will be.  (Of "Failed to commit" nothing is known.)
AnswersTruthful ==
  \A r \in Request :
    /\ Answered(r, {"Success"}) => Posted(r)
    /\ Answered(r, Refusal) => ~Posted(r) /\ r \notin writers \cap sent

\* Of several creations of the same member one at most is answered 200, though
\* all of them may have found the username free.
OneWinner ==
  \A q, r \in Request :
    /\ q # r /\ req[q].acct = req[r].acct
    /\ req[q].op = "ADD_MEMBER" /\ req[r].op = "ADD_MEMBER"
    => ~(answer[q] = "Success" /\ answer[r] = "Success")

\* The nil user that GetUserByUsername returns for a missing one is never
\* followed: an account with a balance has a user, at every step of every
\* creation, finished or broken off.
NoNilUser ==
  /\ balanceDocs \subseteq userDocs
  /\ \A r \in Request : pc[r] # "panicked"

\* The statement GetLastWalletStatement reports as "the most recent" is the
\* one committed last.
LastIsMostRecent ==
  \A a \in Account :
    statements[a] # <<>> => LastAfter(a) = {statements[a][Len(statements[a])].after}

\* No request is refused with "Balance inconsistency detected": the check finds
\* no account at odds with its statements.
NeverInconsistent == \A r \in Request : answer[r] # "Inconsistent"

\* No handler ever waits for another request, one that died with the account's
\* write open included: wherever it is it can take its next step (UpdateAccountBalance
\* is refused at a conflict and not tried again), or the driver returns from the commit.
\* A handler takes a few steps and none twice, so that each comes to its end.
NobodyWaits ==
  \A r \in Request : pc[r] \in Ended \cup {"await"} \/ ENABLED Handle(r)

\* The service implements the ledger: a commit at the server is the point
\* where a request is posted.
Ledger == INSTANCE WalletLedger WITH
  opened <- balanceDocs,
  ledger <- statements,
  acked <- {r \in Request : Answered(r, {"Success"})},
  refused <- {r \in Request : Answered(r, Refusal)}

LedgerSpec == Ledger!Spec
=============================================================================
