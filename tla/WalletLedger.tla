---------------------------- MODULE WalletLedger ----------------------------
(***************************************************************************)
(* What the wallet service promises its callers, with every request atomic *)
(* and no database in sight: each account carries a balance and an audit   *)
(* trail, an entry of the trail is posted for a request at most once, the  *)
(* balance moves only together with an entry, and never below zero.        *)
(*                                                                         *)
(* A request may be acknowledged only once its entry is posted, and a      *)
(* request that was refused is never posted.  A request that is neither    *)
(* (the commit's outcome was lost, the process died) may be either.        *)
(***************************************************************************)
EXTENDS Integers, Sequences

CONSTANTS
  Account,    \* the (username, parent token) keys of the wallet
  Request,    \* identities of the deposit and withdraw requests
  Seed        \* accounts that exist from the start

VARIABLES
  opened,     \* accounts that have a wallet
  balance,    \* balance[a], in units of 10^-8
  ledger,     \* ledger[a], the posted entries of a, oldest first
  acked,      \* requests acknowledged as successful
  refused     \* requests answered with "nothing happened"

vars == <<opened, balance, ledger, acked, refused>>

Entry == [req : Request, amount : Int, before : Nat, after : Nat, at : Int]

Posted(r) == \E a \in Account : \E i \in DOMAIN ledger[a] : ledger[a][i].req = r

Init ==
  /\ opened = Seed
  /\ balance = [a \in Account |-> 0]
  /\ ledger = [a \in Account |-> <<>>]
  /\ acked = {}
  /\ refused = {}

\* A member is created: its wallet opens, empty.
Open(a) ==
  /\ a \notin opened
  /\ opened' = opened \cup {a}
  /\ UNCHANGED <<balance, ledger, acked, refused>>

\* A deposit (amount >= 0) or a withdrawal (amount <= 0) takes effect: a new
\* last entry e.  Its date is the poster's business, nothing is promised of it.
Post(a) ==
  LET e == ledger'[a][Len(ledger[a]) + 1]
  IN  /\ a \in opened
      /\ Len(ledger'[a]) = Len(ledger[a]) + 1
      /\ ledger' = [ledger EXCEPT ![a] = Append(@, e)]
      /\ e \in Entry
      /\ ~Posted(e.req)
      /\ e.req \notin refused
      /\ e.before = balance[a]
      /\ e.after = e.before + e.amount
      /\ balance' = [balance EXCEPT ![a] = e.after]
      /\ UNCHANGED <<opened, acked, refused>>

Acknowledge(r) ==
  /\ Posted(r)
  /\ acked' = acked \cup {r}
  /\ UNCHANGED <<opened, balance, ledger, refused>>

Refuse(r) ==
  /\ ~Posted(r)
  /\ refused' = refused \cup {r}
  /\ UNCHANGED <<opened, balance, ledger, acked>>

Next ==
  \/ \E a \in Account : Open(a) \/ Post(a)
  \/ \E r \in Request : Acknowledge(r) \/ Refuse(r)

Spec == Init /\ [][Next]_vars
=============================================================================
