-------------------------- MODULE AccountantClient --------------------------
(***************************************************************************)
(* The life of one PrefillBudgetAccountant: schedule() constructs it from  *)
(* a batch-budget decision, commits what it gives to running and waiting   *)
(* prefills, and restores what it takes back from a running request it     *)
(* preempts after having scheduled it.  The scheduler asks for any number  *)
(* of tokens and preempts any scheduled request; PrefillScheduler is the   *)
(* client that really calls it.                                            *)
(***************************************************************************)
EXTENDS PrefillBudgetAccountant

CONSTANTS
    Request,      \* the requests the decision may name
    MaxTotal      \* bound on total_prefill_budget and on each cap

ASSUME MaxTotalAssumption == MaxTotal \in Nat

VARIABLES
    acct,         \* the accountant
    batch         \* what the step has given each request, by source

vars == <<acct, batch>>

\* plan() grants no cap above the total it announces.
Init ==
    /\ \E total \in 0..MaxTotal : \E named \in SUBSET Request :
         \E caps \in [named -> 0..total] : acct = NewAccountant(total, caps)
    /\ batch = [s \in Source |-> [r \in Request |-> 0]]

\* clamp() and then commit(), as in the RUNNING and the WAITING loops; a
\* request the clamp leaves without tokens is passed over.
Schedule(r, n, source) ==
    LET tokens == Clamp(acct, r, n) IN
    /\ \A s \in Source : batch[s][r] = 0
    /\ tokens > 0
    /\ CommitAllowed(acct, r, tokens)
    /\ acct' = Commit(acct, r, tokens, source)
    /\ batch' = [batch EXCEPT ![source][r] = tokens]

\* A running request that was already scheduled is preempted: what it was
\* given goes back.  Requests admitted from the queue are never taken back.
TakeBack(r) ==
    /\ batch["running"][r] > 0
    /\ acct' = Restore(acct, r, batch["running"][r], "running")
    /\ batch' = [batch EXCEPT !["running"][r] = 0]

Next ==
    \E r \in Request :
        \/ \E n \in 1..MaxTotal, s \in Source : Schedule(r, n, s)
        \/ TakeBack(r)

Spec == Init /\ [][Next]_vars

-----------------------------------------------------------------------------

TypeOK ==
    /\ acct.total \in Nat
    /\ acct.remaining \in Int
    /\ DOMAIN acct.caps \subseteq Request
    /\ acct.caps \in [DOMAIN acct.caps -> Nat]
    /\ acct.committed \in [DOMAIN acct.caps -> Int]
    /\ acct.by \in [Source -> Int]
    /\ batch \in [Source -> [Request -> Nat]]

\* assert_invariants(), request by request and source by source: nothing is
\* overdrawn, the total is split between what remains and what the two sources
\* got, and no request has more than its cap.
AccountBalances ==
    /\ acct.remaining >= 0
    /\ acct.remaining + acct.by["running"] + acct.by["waiting"] = acct.total
    /\ \A r \in DOMAIN acct.caps : 0 <= acct.committed[r] /\ acct.committed[r] <= acct.caps[r]

\* What is committed to a request is what the batch being built holds for it,
\* whatever order requests were scheduled and taken back in; a request the
\* decision did not name is not in the batch.
CommittedMatchesBatch ==
    \A r \in Request :
        batch["running"][r] + batch["waiting"][r]
            = IF HasCap(acct, r) THEN acct.committed[r] ELSE 0

\* The account balances and is that of the batch.
AccountKept == AccountBalances /\ CommittedMatchesBatch

\* The sums assert_invariants() compares: committed_tokens, and each source's
\* counter against the batch.
SumsMatchBatch ==
    /\ \A s \in Source : acct.by[s] = SumFunction(batch[s])
    /\ CommittedTokens(acct) = acct.by["running"] + acct.by["waiting"]
=============================================================================
