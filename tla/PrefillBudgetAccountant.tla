---------------------- MODULE PrefillBudgetAccountant ----------------------
(***************************************************************************)
(* PrefillBudgetAccountant (prefill_bias.py): the token account of one     *)
(* scheduling step in "batch-budget" mode.  It is given the caps of one    *)
(* PrefillBatchBudgetDecision and lives until the end of that step.  The   *)
(* object is a record here, and each method an operator from the record to *)
(* the record after the call; PrefillScheduler and AccountantClient decide *)
(* who calls them and when.                                                *)
(*                                                                         *)
(*   total, remaining   total_budget, remaining_budget                     *)
(*   caps               _caps; has_cap(r) is  r \in DOMAIN caps            *)
(*   committed          _committed; a missing key and a 0 are the same     *)
(*   by                 running_prefill_tokens and waiting_prefill_tokens  *)
(***************************************************************************)
EXTENDS Integers, Functions, Bounds

Source == {"running", "waiting"}

NewAccountant(total, caps) ==
    [total     |-> total,
     remaining |-> total,
     caps      |-> caps,
     committed |-> [r \in DOMAIN caps |-> 0],
     by        |-> [s \in Source |-> 0]]

HasCap(acct, r) == r \in DOMAIN acct.caps

\* The tokens request r may still be given when the scheduler asks for n.
Clamp(acct, r, n) ==
    IF ~HasCap(acct, r) THEN 0
    ELSE Least(Least(n, Monus(acct.caps[r], acct.committed[r])), acct.remaining)

\* commit() raises ValueError, and changes nothing, unless this holds.
CommitAllowed(acct, r, n) == Clamp(acct, r, n) = n

Commit(acct, r, n, source) ==
    [acct EXCEPT !.committed[r] = @ + n,
                 !.remaining    = @ - n,
                 !.by[source]   = @ + n]

\* Mutant: nothing is given back.
RestoredNothing(acct, r, n) == 0

\* restore() gives back at most what was committed.
Restored(acct, r, n) == IF HasCap(acct, r) THEN Least(n, acct.committed[r]) ELSE 0

Restore(acct, r, n, source) ==
    [acct EXCEPT !.committed = [q \in DOMAIN acct.caps |->
                                   IF q = r THEN @[q] - Restored(acct, r, n) ELSE @[q]],
                 !.remaining  = @ + Restored(acct, r, n),
                 !.by[source] = @ - Restored(acct, r, n)]

CommittedTokens(acct) == SumFunction(acct.committed)

=============================================================================
