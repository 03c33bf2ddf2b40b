----------------------------- MODULE MCPolicies -----------------------------
(***************************************************************************)
(* Three prefill-bias policies, an instance of PrefillScheduler for each    *)
(* (the legacy one is in MCSlotSwap.cfg), the client of the accountant by   *)
(* itself, and the schedulers of ConcurrentPrefill.  A behavior picks one   *)
(* in its initial state and is a behavior of that one; the variables of     *)
(* the others rest.                                                         *)
(* Instances that have theorems are instances of the module of the proofs, *)
(* which adds definitions and theorems but nothing to the machine.         *)
(***************************************************************************)
EXTENDS AccountantClient, FiniteSets

CONSTANTS r1, r2, r3

ASSUME PromptsAssumption == IsFiniteSet(Request) /\ r3 \in Request

VARIABLES
    policy,
    waiting, skipped, running, status, computed, output, placeholders, chunk, preemptions,
    backoff, compiled, blocks, freeBlocks, deferred, schedSeq, procSeq, lastSeq, inflight, step,
    age

schedulerVars ==
    <<waiting, skipped, running, status, computed, output, placeholders, chunk, preemptions,
      backoff, compiled, blocks, freeBlocks, deferred, schedSeq, procSeq, lastSeq, inflight, step>>

\* What the concurrent-prefill schedulers do not have.
biasVars ==
    <<placeholders, chunk, backoff, compiled, blocks, freeBlocks, deferred, schedSeq, procSeq,
      lastSeq, inflight>>

\* A prompt of two chunks, one of one token, one in between; a prompt of many
\* chunks; and one prompt that is long for the concurrent-prefill limits.
MixedPrompts == [r \in Request |-> IF r = r1 THEN 4 ELSE IF r = r2 THEN 2 ELSE 1]
LongFirst    == [r \in Request |-> IF r = r1 THEN 6 ELSE IF r = r2 THEN 2 ELSE 1]
OneLong      == [r \in Request |-> IF r = r1 THEN 4 ELSE 2]
Tokens(n)    == [r \in Request |-> n]

\* batch-budget with the slot swap: three tokens a step, prompts of up to six.
B == INSTANCE PrefillTokens_proofs WITH
    PromptTokens <- LongFirst, MaxTokens <- Tokens(3), CachedTokens <- Tokens(0),
    Grammar <- {}, MayStopEarly <- {}, Abortable <- {r1, r3},
    NumBlocks <- 5, BlockSize <- 2, WatermarkBlocks <- 0,
    MaxNumScheduledTokens <- 3, MaxNumRunningReqs <- 2, LongPrefillTokenThreshold <- 0,
    ReserveFullIsl <- TRUE, PolicyMode <- "batch-budget", CacheAware <- FALSE,
    ReserveTokens <- 0, MaxRequestsPerStep <- 3, MaxPrefillTokens <- 3,
    SlotSwapEnabled <- TRUE, MaxPreemptionsPerRequest <- 1,
    BatchQueueSize <- 1, AsyncScheduling <- FALSE, DeferBlockFree <- FALSE

\* predictive, asynchronous, with a request that waits for its grammar.
P == INSTANCE PrefillTokens_proofs WITH
    PromptTokens <- MixedPrompts, MaxTokens <- Tokens(3), CachedTokens <- Tokens(0),
    Grammar <- {r3}, MayStopEarly <- {}, Abortable <- {},
    NumBlocks <- 4, BlockSize <- 2, WatermarkBlocks <- 0,
    MaxNumScheduledTokens <- 4, MaxNumRunningReqs <- 2, LongPrefillTokenThreshold <- 0,
    ReserveFullIsl <- FALSE, PolicyMode <- "predictive", CacheAware <- FALSE,
    ReserveTokens <- 0, MaxRequestsPerStep <- 3, MaxPrefillTokens <- 2,
    SlotSwapEnabled <- FALSE, MaxPreemptionsPerRequest <- 1,
    BatchQueueSize <- 2, AsyncScheduling <- TRUE, DeferBlockFree <- FALSE

\* deadline with a reserve, a watermark and as few blocks as the longest
\* request needs.
D == INSTANCE PrefillScheduler WITH
    PromptTokens <- MixedPrompts, MaxTokens <- Tokens(2), CachedTokens <- Tokens(0),
    Grammar <- {r2}, MayStopEarly <- {}, Abortable <- {},
    NumBlocks <- 3, BlockSize <- 2, WatermarkBlocks <- 1,
    MaxNumScheduledTokens <- 3, MaxNumRunningReqs <- 2, LongPrefillTokenThreshold <- 2,
    ReserveFullIsl <- TRUE, PolicyMode <- "deadline", CacheAware <- FALSE,
    ReserveTokens <- 2, MaxRequestsPerStep <- 1, MaxPrefillTokens <- 3,
    SlotSwapEnabled <- FALSE, MaxPreemptionsPerRequest <- 1,
    BatchQueueSize <- 1, AsyncScheduling <- FALSE, DeferBlockFree <- FALSE

\* The concurrent-prefill patches: two partial prefills at a time, one of
\* them long; and the admission cap.
V24 == INSTANCE ConcurrentPrefill_proofs WITH
    PromptTokens <- OneLong, MaxTokens <- Tokens(2), Patch <- "v024",
    MaxNumScheduledTokens <- 3, MaxNumRunningReqs <- 3,
    MaxNumPartialPrefills <- 2, MaxLongPartialPrefills <- 1, LongPrefillTokenThreshold <- 2,
    PartialPrefillCap <- 1, PartialPrefillMinAge <- 1, MaxPreemptions <- 1

V23 == INSTANCE ConcurrentPrefill_proofs WITH
    PromptTokens <- MixedPrompts, MaxTokens <- Tokens(2), Patch <- "v023",
    MaxNumScheduledTokens <- 3, MaxNumRunningReqs <- 3,
    MaxNumPartialPrefills <- 2, MaxLongPartialPrefills <- 1, LongPrefillTokenThreshold <- 1,
    PartialPrefillCap <- 1, PartialPrefillMinAge <- 1, MaxPreemptions <- 1

Cap == INSTANCE ConcurrentPrefill_proofs WITH
    PromptTokens <- MixedPrompts, MaxTokens <- Tokens(2), Patch <- "cap",
    MaxNumScheduledTokens <- 2, MaxNumRunningReqs <- 3,
    MaxNumPartialPrefills <- 2, MaxLongPartialPrefills <- 1, LongPrefillTokenThreshold <- 0,
    PartialPrefillCap <- 1, PartialPrefillMinAge <- 2, MaxPreemptions <- 1

\* These instances are what the theorems of ConcurrentPrefill are about.
ASSUME PatchesAssumption ==
    V24!ConcurrentAssumption /\ V23!ConcurrentAssumption /\ Cap!ConcurrentAssumption

NoAccount == acct = NewAccountant(0, <<>>) /\ batch = [s \in Source |-> Tokens(0)]

\* The variables that only PrefillScheduler has rest as its Init has them.
ConcurrentInit ==
    /\ V24!Init /\ NoAccount
    /\ placeholders = Tokens(0) /\ chunk = Tokens(0) /\ backoff = {} /\ compiled = {}
    /\ blocks = Tokens(0) /\ freeBlocks = {} /\ deferred = <<>> /\ schedSeq = 0 /\ procSeq = 0
    /\ lastSeq = Tokens(0) /\ inflight = <<>>

PoliciesInit ==
    \/ policy = "batch-budget" /\ B!Init /\ NoAccount /\ age = Tokens(0)
    \/ policy = "predictive" /\ P!Init /\ NoAccount /\ age = Tokens(0)
    \/ policy = "deadline" /\ D!Init /\ NoAccount /\ age = Tokens(0)
    \/ policy = "accountant" /\ B!Init /\ Init /\ age = Tokens(0)
    \/ policy = "v024" /\ ConcurrentInit
    \/ policy = "v023" /\ ConcurrentInit
    \/ policy = "cap" /\ ConcurrentInit

PoliciesNext ==
    \/ policy = "batch-budget" /\ B!Next /\ UNCHANGED <<policy, vars, age>>
    \/ policy = "predictive" /\ P!Next /\ UNCHANGED <<policy, vars, age>>
    \/ policy = "deadline" /\ D!Next /\ UNCHANGED <<policy, vars, age>>
    \/ policy = "accountant" /\ Next /\ UNCHANGED <<policy, schedulerVars, age>>
    \/ policy = "v024" /\ V24!Next /\ UNCHANGED <<policy, vars, biasVars>>
    \/ policy = "v023" /\ V23!Next /\ UNCHANGED <<policy, vars, biasVars>>
    \/ policy = "cap" /\ Cap!Next /\ UNCHANGED <<policy, vars, biasVars>>

\* The fairness of each, for those whose liveness is checked.
PoliciesFairness ==
    /\ WF_<<policy, schedulerVars, age>>(policy = "v024" /\ V24!Engine /\ UNCHANGED <<policy, vars, biasVars>>)
    /\ WF_<<policy, schedulerVars, age>>(policy = "v023" /\ V23!Engine /\ UNCHANGED <<policy, vars, biasVars>>)
    /\ WF_<<policy, schedulerVars, age>>(policy = "cap" /\ Cap!Engine /\ UNCHANGED <<policy, vars, biasVars>>)
    /\ WF_<<policy, schedulerVars>>(policy = "deadline" /\ D!Engine /\ UNCHANGED <<policy, vars, age>>)
    /\ \A r \in Request :
        WF_<<policy, schedulerVars>>(policy = "deadline" /\ D!GrammarReady(r) /\ UNCHANGED <<policy, vars, age>>)

PoliciesSpec == PoliciesInit /\ [][PoliciesNext]_<<policy, vars, schedulerVars, age>> /\ PoliciesFairness

----------------------------------------------------------------------------
(* The properties of PrefillScheduler, for the policies they are about.    *)

\* The budget of a step is conserved through promotion, swaps and preemption,
\* and the accountant agrees with the batch, in its sums too.
BudgetConserved ==
    /\ policy = "batch-budget" => B!BudgetConserved /\ B!AccountMatchesBatch
    /\ policy = "accountant" => TypeOK /\ SumsMatchBatch

\* An admission is never left with 0 tokens, and nobody who runs goes without
\* because of prefills: a decode under the batch budget, another prefill under
\* v024.
TokensAreShared ==
    /\ policy = "batch-budget" => B!AdmissionsGetTokens /\ B!DecodesAreScheduled
    /\ policy = "predictive" => P!AdmissionsGetTokens
    /\ policy = "v024" => V24!PrefillsShareTheBudget

\* Promotion overtakes no preempted request.
PreemptedComeFirst == policy = "predictive" => P!PreemptedComeFirst

\* A request is in the queue its status names, once, under every policy and
\* every patch, through swaps and aborts; no block is lost on the way.
QueuesMatchStatus ==
    /\ policy = "batch-budget" => B!QueuesMatchStatus /\ B!BlocksPartition
    /\ policy = "predictive" => P!QueuesMatchStatus
    /\ policy = "v024" => V24!QueuesAreExact
    /\ policy = "v023" => V23!QueuesAreExact
    /\ policy = "cap" => Cap!QueuesAreExact

\* No more prefills, and no more long ones, are under way than configured.
PartialsWithinLimit ==
    /\ policy = "v024" => V24!PartialsWithinLimit
    /\ policy = "v023" => V23!PartialsWithinLimit

\* Under the deadline policy, and under the patches, every request is served
\* until it finishes.
EveryoneIsServed ==
    /\ policy = "deadline" => D!EveryRequestFinishes
    /\ policy = "v024" => V24!EveryRequestFinishes
    /\ policy = "v023" => V23!EveryRequestFinishes
    /\ policy = "cap" => Cap!EveryRequestFinishes
=============================================================================
