-------------------------- MODULE MCWalletUseCase --------------------------
(* Small instances of WalletUseCase for TLC. *)
EXTENDS WalletUseCase, TLC

CONSTANTS r1, r2, r3, alice, bob

Symmetry == Permutations({r1, r2, r3})

\* Whether a step may still read draft[r].  Once r's update is behind it and it holds
\* no write, nothing brings r back among the writers.
DraftLives(r) == r \in writers \/ pc[r] \in {"record", "update"}

\* Nothing is done any more for r, by its handler or by the server.
Over(r) == pc[r] \in Ended /\ r \notin writers

\* A state without what no later step and no property reads: the amount of a request
\* that is over, which of the refusals "Invalid", "NotFound" and "Failed" it was, the
\* draft of a transaction that is over, and whether that one's commit was sent.
View == <<[r \in Request |-> IF Over(r) THEN [req[r] EXCEPT !.amount = 0] ELSE req[r]],
          pc,
          [r \in Request |-> IF answer[r] \in {"Invalid", "NotFound"} THEN "Failed"
                             ELSE answer[r]],
          [r \in Request |-> IF DraftLives(r) THEN draft[r] ELSE NoDraft],
          writers, sent \cap writers, members, wallets>>
=============================================================================
