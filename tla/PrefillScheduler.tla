-------------------------- MODULE PrefillScheduler --------------------------
(***************************************************************************)
(* The scheduler of the patched vLLM v1 engine: Scheduler.schedule(),      *)
(* update_from_output(), add_request() and finish_requests() of            *)
(* vllm_patched/v1/core/sched/scheduler.py, with the prefill-bias policies *)
(* of prefill_bias.py, the admission slot swap, and the KV block fence.    *)
(*                                                                         *)
(* The engine thread runs  schedule -> update_from_output  with up to      *)
(* BatchQueueSize batches in flight on the GPU.  schedule() is one Python  *)
(* call; here each iteration of its two loops is a step, and the record    *)
(* "step" holds its local variables.  Requests arrive and are aborted only *)
(* between calls (step.phase = "idle").                                    *)
(*                                                                         *)
(* Clocks do not appear: which waiting requests are urgent, what the TBT   *)
(* guard says and which victim is safe are choices the policies may make   *)
(* on some clock.  Everything the choices are limited by is kept.          *)
(***************************************************************************)
EXTENDS Integers, Sequences, FiniteSets, SequencesExt, Subsequences, PrefillBudgetAccountant

CONSTANTS
    Request,                \* every request ever submitted
    PromptTokens,           \* [Request -> Nat], num_prompt_tokens
    MaxTokens,              \* [Request -> Nat], max_tokens
    CachedTokens,           \* [Request -> Nat], prompt prefix in the prefix cache
    Grammar,                \* requests that wait for a structured-output grammar
    MayStopEarly,           \* requests whose output may end before max_tokens
    Abortable,              \* requests the client may abort
    NumBlocks,              \* KV blocks of the pool
    BlockSize,              \* tokens of a KV block
    WatermarkBlocks,        \* blocks an admission must leave free
    MaxNumScheduledTokens,  \* token budget of a step
    MaxNumRunningReqs,      \* max_num_seqs
    LongPrefillTokenThreshold,   \* 0 turns it off
    ReserveFullIsl,         \* scheduler_reserve_full_isl
    PolicyMode,             \* which prefill-bias policy is deployed
    CacheAware,             \* prefill_bias_cache_aware, and not ..._ttft_deadline_enabled
    ReserveTokens,          \* prefill_bias_reserve_tokens
    MaxRequestsPerStep,     \* prefill_bias_..._max_requests_per_step
    MaxPrefillTokens,       \* prefill_bias_{batch_max_prefill,predictive_max_reserve}_tokens
    SlotSwapEnabled,        \* prefill_bias_slot_swap_enabled
    MaxPreemptionsPerRequest,    \* prefill_bias_max_preemptions_per_request
    BatchQueueSize,         \* max_concurrent_batches; 1 is the synchronous engine
    AsyncScheduling,        \* async_scheduling; pipeline parallelism does without
    DeferBlockFree          \* defer_block_free

PolicyModes == {"off", "legacy", "deadline", "predictive", "batch-budget"}

ASSUME RequestAssumption ==
    /\ PromptTokens \in [Request -> Nat \ {0}]
    /\ MaxTokens \in [Request -> Nat \ {0}]
    /\ CachedTokens \in [Request -> Nat]
    /\ Grammar \subseteq Request
\* The engine refuses to start unless the pool holds a request of max_model_len.
ASSUME PoolAssumption ==
    /\ NumBlocks \in Nat /\ BlockSize \in Nat \ {0} /\ WatermarkBlocks \in Nat
    /\ \A r \in Request : PromptTokens[r] + MaxTokens[r] <= NumBlocks * BlockSize + 1
ASSUME BudgetAssumption ==
    /\ MaxNumScheduledTokens \in Nat \ {0} /\ MaxNumRunningReqs \in Nat \ {0}
    /\ PolicyMode \in PolicyModes
    /\ ReserveTokens \in 0..MaxNumScheduledTokens  \* config/scheduler.py validates this
    /\ LongPrefillTokenThreshold \in Nat /\ MaxPrefillTokens \in Nat
ASSUME PipelineAssumption ==
    /\ BatchQueueSize \in Nat \ {0} /\ DeferBlockFree \in BOOLEAN
    /\ AsyncScheduling \in BOOLEAN /\ (AsyncScheduling => BatchQueueSize > 1)
\* config/scheduler.py: the slot swap and batch-budget need synchronous scheduling,
\* the slot swap and every policy but legacy need cache awareness.
ASSUME ConfigAssumption ==
    /\ CacheAware => PolicyMode = "legacy"
    /\ PolicyMode = "batch-budget" => ~AsyncScheduling
    /\ SlotSwapEnabled => /\ ~AsyncScheduling /\ PolicyMode # "off"
                          /\ PolicyMode = "legacy" => CacheAware

Block == 1..NumBlocks
BatchBudget == PolicyMode = "batch-budget"

VARIABLES
    waiting, skipped, running,       \* the three queues, sequences of requests
    status,                          \* RequestStatus, and ABSENT before add_request
    computed, output, placeholders,  \* num_computed_tokens, num_output_tokens,
                                     \* num_output_placeholders
    chunk,                           \* is_prefill_chunk
    preemptions,                     \* _prefill_bias_phase3_preemption_count
    backoff,                         \* requests whose swap backoff has not run out
    compiled,                        \* requests whose grammar is compiled
    blocks, freeBlocks,              \* KV blocks of each request, of the pool
    deferred,                        \* deferred_frees
    schedSeq, procSeq, lastSeq,      \* sched_step_seq, processed_step_seq, last_sched_seq
    inflight,                        \* batch_queue, oldest first
    step                             \* the local variables of schedule()

queues   == <<waiting, skipped, running>>
requests == <<status, computed, output, placeholders, chunk>>
swaps    == <<preemptions, backoff>>
pool     == <<blocks, freeBlocks, deferred>>
fences   == <<schedSeq, procSeq, lastSeq>>
vars     == <<queues, requests, swaps, compiled, pool, fences, inflight, step>>

NoStep ==
    [phase     |-> "idle",
     index     |-> 1,                           \* req_index + 1
     budget    |-> 0,                           \* token_budget
     held      |-> 0,                           \* prefill_bias_held_tokens
     scheduled |-> [r \in Request |-> 0],       \* num_scheduled_tokens
     preempted |-> FALSE,                       \* preempted_reqs is not empty
     skipped   |-> <<>>,                        \* step_skipped_waiting, popped order
     candidates |-> <<>>,                       \* prefill_bias_candidate_ids
     swapEligible |-> FALSE,                    \* decision.slot_swap_eligible
     swappedFor |-> {},                         \* prefill_bias_swap_candidate_id
     acct      |-> NewAccountant(0, <<>>)]      \* candidate caps, and the accountant

Init ==
    /\ waiting = <<>> /\ skipped = <<>> /\ running = <<>>
    /\ status = [r \in Request |-> "ABSENT"]
    /\ computed = [r \in Request |-> 0]
    /\ output = [r \in Request |-> 0]
    /\ placeholders = [r \in Request |-> 0]
    /\ chunk = [r \in Request |-> FALSE]
    /\ preemptions = [r \in Request |-> 0]
    /\ backoff = {} /\ compiled = {}
    /\ blocks = [r \in Request |-> {}]
    /\ freeBlocks = Block
    /\ deferred = <<>>
    /\ schedSeq = 0 /\ procSeq = 0
    /\ lastSeq = [r \in Request |-> 0]
    /\ inflight = <<>>
    /\ step = NoStep

-----------------------------------------------------------------------------
(* Helpers *)

NumTokens(r) == PromptTokens[r] + output[r]

HasUnfinishedRequests == waiting # <<>> \/ skipped # <<>> \/ running # <<>>

IsActiveDecode(r) == status[r] = "RUNNING" /\ output[r] > 0 /\ ~chunk[r]

\* _prefill_bias_decode_floor: one token for each running request past prefill.
DecodeFloor == Least(MaxNumScheduledTokens,
                     Cardinality({i \in DOMAIN running : ~chunk[running[i]]}))

\* Mutant: the reserve forgets the decodes.
MaxSafeReserveNoFloor == MaxNumScheduledTokens

MaxSafeReserve == MaxNumScheduledTokens - DecodeFloor

BlocksFor(tokens) == (tokens + BlockSize - 1) \div BlockSize

\* get_computed_blocks: whole cached blocks, short of the last token.
CachedPrefix(r) == (Least(CachedTokens[r], NumTokens(r) - 1) \div BlockSize) * BlockSize

\* n blocks of the pool; which ones does not matter to the scheduler.
TakeBlocks(n) == {b \in freeBlocks : Cardinality({c \in freeBlocks : c < b}) < n}

MoreBlocks(r, tokens) == Monus(BlocksFor(tokens), Cardinality(blocks[r]))

\* allocate_slots, once it has decided that the request fits.
Allocate(r, tokens) ==
    LET new == TakeBlocks(MoreBlocks(r, tokens)) IN
    /\ blocks' = [blocks EXCEPT ![r] = @ \cup new]
    /\ freeBlocks' = freeBlocks \ new
    /\ UNCHANGED deferred

OwnedBlocks(R) == UNION {blocks[r] : r \in R}

\* Mutant: deferred blocks go to the pool as well.
FreeRequestBlocksTwice(R, done, pooled, pending) ==
    /\ blocks' = [r \in Request |-> IF r \in R THEN {} ELSE blocks[r]]
    /\ freeBlocks' = pooled \cup OwnedBlocks(R)
    /\ deferred' = IF DeferBlockFree
                   THEN Append(pending, [fence  |-> schedSeq,
                                         blocks |-> OwnedBlocks(R)])
                   ELSE pending

\* _free_request_blocks for the requests R, when "done" steps are processed and
\* the pool and the deferred frees are as given.
FreeRequestBlocks(R, done, pooled, pending) ==
    LET late == {r \in R : DeferBlockFree /\ lastSeq[r] > done /\ blocks[r] # {}} IN
    /\ blocks' = [r \in Request |-> IF r \in R THEN {} ELSE blocks[r]]
    /\ freeBlocks' = pooled \cup OwnedBlocks(R \ late)
    /\ deferred' = IF late = {} THEN pending
                   ELSE Append(pending, [fence  |-> schedSeq,
                                         blocks |-> OwnedBlocks(late)])

\* _preempt_request, without the queue it is put back on.
Preempt(v) ==
    /\ FreeRequestBlocks({v}, procSeq, freeBlocks, deferred)
    /\ status' = [status EXCEPT ![v] = "PREEMPTED"]
    /\ computed' = [computed EXCEPT ![v] = 0]
    /\ UNCHANGED <<output, placeholders, chunk>>

\* _free_request: the request leaves self.requests, with all that is kept of it.
Forget(R, done, pooled, pending) ==
    /\ FreeRequestBlocks(R, done, pooled, pending)
    /\ status' = [r \in Request |-> IF r \in R THEN "FINISHED" ELSE status[r]]
    /\ preemptions' = [r \in Request |-> IF r \in R THEN 0 ELSE preemptions[r]]
    /\ backoff' = backoff \ R

-----------------------------------------------------------------------------
(* The policies: what one call of the prefill-bias controller may decide.  *)

\* The requests every policy chooses from (_is_normal_waiting_prefill): only the
\* queue self.waiting is scanned, never self.skipped_waiting.
NormalWaiting == Keep(waiting, {r \in Request : status[r] = "WAITING" /\ ~chunk[r]})

\* Prompt tokens a waiting request has to compute (compute_remaining_prefill_tokens).
WaitingRemaining(r) == PromptTokens[r] - CachedPrefix(r)

RunningRemaining(r) == NumTokens(r) + placeholders[r] - computed[r]

Inactive == [reserve |-> 0, candidates |-> <<>>, swapEligible |-> FALSE,
             acct |-> NewAccountant(0, <<>>)]

\* PrefillBiasController._base_decision: the oldest requests past the age
\* threshold.  Cache-aware scoring replaces them after the RUNNING loop.
LegacyDecisions ==
    LET reserve == Least(ReserveTokens, MaxSafeReserve) IN
    {Inactive} \cup
    {[Inactive EXCEPT !.reserve = reserve,
                      !.candidates = IF CacheAware THEN <<>> ELSE SubSeq(NormalWaiting, 1, k)] :
        k \in {j \in 1..Len(NormalWaiting) : reserve > 0 /\ j <= MaxRequestsPerStep}}

\* _deadline_decision: the one request with the least TTFT slack.
DeadlineDecisions ==
    LET reserve == Least(ReserveTokens, MaxSafeReserve) IN
    {Inactive} \cup
    {[Inactive EXCEPT !.reserve = reserve, !.candidates = <<r>>] :
        r \in {q \in ToSet(NormalWaiting) : reserve > 0}}

\* Mutant: a request is named after the budget is used up.
GrantedCapsOffByOne(order, remaining, budget) ==
    LET before(i) == SumFunction([j \in 1..(i - 1) |-> remaining[order[j]]])
        chosen == {i \in DOMAIN order : i <= MaxRequestsPerStep /\ before(i) <= budget}
    IN [r \in {order[i] : i \in chosen} |->
           LET i == CHOOSE j \in chosen : order[j] = r
           IN Least(remaining[r], budget - before(i))]

\* The caps plan() and the predictive decide() hand out: along the order, each
\* request gets what it needs until the budget or the request limit is reached.
GrantedCaps(order, remaining, budget) ==
    LET before(i) == SumFunction([j \in 1..(i - 1) |-> remaining[order[j]]])
        chosen == {i \in DOMAIN order : i <= MaxRequestsPerStep /\ before(i) < budget}
    IN [r \in {order[i] : i \in chosen} |->
           LET i == CHOOSE j \in chosen : order[j] = r
           IN Least(remaining[r], budget - before(i))]

\* What _select_budget may return: everything when nobody is decoding, else
\* whatever the TBT estimate lets through.
SelectedBudgets(upper) ==
    IF \E r \in ToSet(running) : IsActiveDecode(r) THEN 0..upper ELSE {upper}

\* Whether the first candidate is late enough to be swapped in.
SwapEligibility == {FALSE, SlotSwapEnabled}

\* PredictivePrefillBiasController.decide: caps for the urgent requests.
PredictiveDecisions ==
    LET need == [r \in ToSet(NormalWaiting) |-> WaitingRemaining(r)]
        reserve == Least(MaxPrefillTokens, MaxSafeReserve)
    IN {Inactive} \cup
       UNION {UNION {{LET caps == GrantedCaps(urgent, need, budget)
                          total == SumFunction(caps)
                      IN [reserve      |-> total,
                          candidates   |-> Keep(urgent, DOMAIN caps),
                          swapEligible |-> eligible,
                          acct         |-> NewAccountant(total, caps)] :
                         eligible \in SwapEligibility} :
                      budget \in SelectedBudgets(Least(reserve,
                                    SumFunction([i \in DOMAIN urgent |-> need[urgent[i]]]))) \ {0}} :
               urgent \in SetToAllKPermutations(DOMAIN need) \ {<<>>}}

\* PrefillBatchBudgetController.plan: caps for prefills that run and that wait.
BatchBudgetDecisions ==
    LET chunks == {r \in ToSet(running) : chunk[r] /\ RunningRemaining(r) > 0}
        items  == chunks \cup ToSet(NormalWaiting)
        need   == [r \in items |-> IF r \in chunks THEN RunningRemaining(r)
                                                   ELSE WaitingRemaining(r)]
        upper  == Least(Least(MaxPrefillTokens, MaxSafeReserve), SumFunction(need))
    IN IF upper = 0 THEN {Inactive}
       ELSE UNION {{LET caps == GrantedCaps(order, need, budget) IN
                    [reserve      |-> 0,
                     candidates   |-> Keep(order, DOMAIN caps \ chunks),
                     swapEligible |-> eligible,
                     acct         |-> NewAccountant(SumFunction(caps), caps)] :
                      order \in SetToSeqs(items), eligible \in SwapEligibility} :
                   budget \in SelectedBudgets(upper)}

Decisions ==
    UNION {IF PolicyMode = "legacy" THEN LegacyDecisions ELSE {},
           IF PolicyMode = "deadline" THEN DeadlineDecisions ELSE {},
           IF PolicyMode = "predictive" THEN PredictiveDecisions ELSE {},
           IF BatchBudget THEN BatchBudgetDecisions ELSE {},
           IF PolicyMode = "off" THEN {Inactive} ELSE {}}

\* Mutant: the preempted requests lose their place.
PromoteWaitingFirst(selected) == selected \o Without(waiting, ToSet(selected))

\* _prefill_bias_promote_waiting: the selected requests go behind the preempted
\* ones at the head of the queue and ahead of everything else.
PromoteWaiting(selected) ==
    LET sticky == Cardinality({i \in DOMAIN waiting :
                      \A j \in 1..i : status[waiting[j]] = "PREEMPTED"})
    IN IF selected = <<>> THEN waiting
       ELSE SubSeq(waiting, 1, sticky) \o selected
            \o Without(SubSeq(waiting, sticky + 1, Len(waiting)), ToSet(selected))

-----------------------------------------------------------------------------
(* Calls from outside the step *)

\* Requests enter the engine only between two calls of step().
BetweenSteps == step.phase = "idle" /\ Len(inflight) < BatchQueueSize

AddRequest(r) ==
    /\ BetweenSteps /\ status[r] = "ABSENT"
    /\ IF r \in Grammar
       THEN /\ status' = [status EXCEPT ![r] = "WAITING_FOR_GRAMMAR"]
            /\ skipped' = Append(skipped, r)
            /\ UNCHANGED waiting
       ELSE /\ status' = [status EXCEPT ![r] = "WAITING"]
            /\ waiting' = Append(waiting, r)
            /\ UNCHANGED skipped
    /\ UNCHANGED <<running, computed, output, placeholders, chunk, swaps, compiled, pool,
                   fences, inflight, step>>

\* The grammar compiles on a thread of its own, and may be ready at any moment,
\* in the middle of schedule() too.
GrammarReady(r) ==
    /\ status[r] # "ABSENT"
    /\ r \in Grammar \ compiled
    /\ compiled' = compiled \cup {r}
    /\ UNCHANGED <<queues, requests, swaps, pool, fences, inflight, step>>

BackoffExpires(r) ==
    /\ step.phase = "idle" /\ r \in backoff
    /\ backoff' = backoff \ {r}
    /\ UNCHANGED <<queues, requests, preemptions, compiled, pool, fences, inflight, step>>

\* finish_requests(FINISHED_ABORTED): between steps, or between a step's
\* execution and its update_from_output.
Abort(r) ==
    /\ step.phase = "idle" /\ r \in Abortable
    /\ status[r] \in {"WAITING", "WAITING_FOR_GRAMMAR", "RUNNING", "PREEMPTED"}
    /\ IF status[r] = "RUNNING"
       THEN running' = Without(running, {r}) /\ UNCHANGED <<waiting, skipped>>
       ELSE /\ waiting' = Without(waiting, {r})
            /\ skipped' = Without(skipped, {r})
            /\ UNCHANGED running
    /\ Forget({r}, procSeq, freeBlocks, deferred)
    /\ UNCHANGED <<computed, output, placeholders, chunk, compiled, fences, inflight, step>>

-----------------------------------------------------------------------------
(* schedule() *)

StartSchedule ==
    /\ BetweenSteps /\ HasUnfinishedRequests
    /\ \E d \in Decisions :
         /\ step' = [NoStep EXCEPT !.phase = "running",
                                   !.budget = MaxNumScheduledTokens - d.reserve,
                                   !.held = d.reserve,
                                   !.candidates = d.candidates,
                                   !.swapEligible = d.swapEligible,
                                   !.acct = d.acct]
         /\ waiting' = IF BatchBudget THEN PromoteWaiting(d.candidates) ELSE waiting
    /\ UNCHANGED <<skipped, running, requests, swaps, compiled, pool, fences, inflight>>

InRunningLoop ==
    step.phase = "running" /\ step.index <= Len(running) /\ step.budget > 0

\* Mutant: one step too many.
AtMaxTokensLate(r) ==
    /\ placeholders[r] > 0
    /\ computed[r] + 1 - placeholders[r] >= PromptTokens[r] + MaxTokens[r]

\* No step is needed after the one that reaches max_tokens.
AtMaxTokens(r) ==
    /\ placeholders[r] > 0
    /\ computed[r] + 2 - placeholders[r] >= PromptTokens[r] + MaxTokens[r]

UpToThreshold(n) == IF LongPrefillTokenThreshold = 0 THEN n ELSE Least(n, LongPrefillTokenThreshold)

\* num_new_tokens in the RUNNING loop.
RunningTokens(r) ==
    LET n == Least(UpToThreshold(RunningRemaining(r)), step.budget)
    IN IF BatchBudget /\ chunk[r] THEN Clamp(step.acct, r, n) ELSE n

RunningPassesOver(r) ==
    \/ AtMaxTokens(r)
    \/ BatchBudget /\ chunk[r] /\ ~HasCap(step.acct, r)
    \/ RunningTokens(r) = 0

RunningFits(r) == MoreBlocks(r, computed[r] + RunningTokens(r)) <= Cardinality(freeBlocks)

RunningSkip(r) ==
    /\ InRunningLoop /\ r = running[step.index]
    /\ RunningPassesOver(r)
    /\ step' = [step EXCEPT !.index = @ + 1]
    /\ UNCHANGED <<queues, requests, swaps, compiled, pool, fences, inflight>>

RunningSchedule(r) ==
    LET n == RunningTokens(r) IN
    /\ InRunningLoop /\ r = running[step.index]
    /\ ~RunningPassesOver(r) /\ RunningFits(r)
    /\ Allocate(r, computed[r] + n)
    /\ step' = [step EXCEPT !.index = @ + 1,
                            !.budget = @ - n,
                            !.scheduled[r] = n,
                            !.acct = IF BatchBudget /\ chunk[r]
                                     THEN Commit(@, r, n, "running") ELSE @]
    /\ UNCHANGED <<queues, requests, swaps, compiled, fences, inflight>>

\* No block is left for r: the last running request is preempted, and r tries
\* again unless it was the last one itself.
RunningPreempt(r, v) ==
    /\ InRunningLoop /\ r = running[step.index] /\ v = Last(running)
    /\ ~RunningPassesOver(r) /\ ~RunningFits(r)
    /\ Preempt(v)
    /\ running' = Front(running)
    /\ waiting' = <<v>> \o waiting
    /\ step' = [step EXCEPT !.preempted = TRUE,
                            !.phase = IF v = r THEN "restore" ELSE @]
    /\ UNCHANGED <<skipped, swaps, compiled, fences, inflight>>

\* What score_candidates may select when the RUNNING loop is over; an empty
\* selection is a decision that is not active any more.
Rescored ==
    IF CacheAware
    THEN {[step EXCEPT !.candidates = c, !.swapEligible = FALSE, !.acct = NewAccountant(0, <<>>)] :
             c \in {q \in SetToAllKPermutations(ToSet(NormalWaiting)) :
                        Len(q) <= MaxRequestsPerStep}}
    ELSE {step}

\* The RUNNING loop is over: the held tokens come back, once.
RestoreHeld ==
    /\ step.phase = "restore" \/ (step.phase = "running" /\ ~InRunningLoop)
    /\ IF step.held = 0
       THEN step' = [step EXCEPT !.phase = "swap"] /\ UNCHANGED waiting
       ELSE \E s \in Rescored :
              /\ step' = [s EXCEPT !.phase = "swap", !.budget = @ + s.held, !.held = 0]
              /\ waiting' = PromoteWaiting(s.candidates)
    /\ UNCHANGED <<skipped, running, requests, swaps, compiled, pool, fences, inflight>>

-----------------------------------------------------------------------------
(* _try_prefill_admission_swap *)

\* The slot-swap candidate is the first selected request of the queue, and only
\* a full batch keeps it from being admitted.
SwapWanted(c) ==
    /\ SlotSwapEnabled /\ ~step.preempted /\ step.budget > 0
    /\ PolicyMode \in {"predictive", "batch-budget"} => step.swapEligible
    /\ \E i \in DOMAIN waiting :
         /\ waiting[i] = c /\ c \in ToSet(step.candidates)
         /\ \A j \in 1..(i - 1) : waiting[j] \notin ToSet(step.candidates)
    /\ status[c] = "WAITING" /\ placeholders[c] = 0
    /\ Len(running) >= MaxNumRunningReqs
    /\ c \notin backoff

SwapVictim(v) ==
    /\ v \in ToSet(running) /\ IsActiveDecode(v) /\ placeholders[v] = 0
    /\ preemptions[v] < MaxPreemptionsPerRequest

\* _prefill_slot_swap_kv_preflight
SwapPreflight(c, v) ==
    BlocksFor(WaitingRemaining(c)) + WatermarkBlocks
        <= Cardinality(freeBlocks) + Cardinality(blocks[v])

WaitingPhase(st) == IF ~st.preempted \/ st.swappedFor # {} THEN "waiting" ELSE "finish"

\* A candidate and a safe victim are found, but the blocks they free between
\* them do not hold the candidate.
SwapPreflightFails(c, v) ==
    /\ step.phase = "swap"
    /\ SwapWanted(c) /\ SwapVictim(v) /\ ~SwapPreflight(c, v)
    /\ step' = [step EXCEPT !.phase = WaitingPhase(step)]
    /\ UNCHANGED <<queues, requests, swaps, compiled, pool, fences, inflight>>

\* Any other reason to refuse: most of them depend on the clock.
SwapReject ==
    /\ step.phase = "swap"
    /\ step' = [step EXCEPT !.phase = WaitingPhase(step)]
    /\ UNCHANGED <<queues, requests, swaps, compiled, pool, fences, inflight>>

\* Mutants: the victim stays ahead; the candidate is queued twice.
ForceFirstNot(queue, c) == queue
ForceFirstTwice(queue, c) == <<c>> \o queue

\* _prefill_slot_swap_force_candidate_first
ForceFirst(queue, c) == <<c>> \o Without(queue, {c})

\* Mutant: the victim's tokens are dropped from the batch but not restored.
TakenBackLost(st, v) == [st EXCEPT !.scheduled[v] = 0]

\* What the RUNNING loop gave v in this step goes back.
TakenBack(st, v) ==
    [st EXCEPT !.budget = @ + st.scheduled[v],
               !.scheduled[v] = 0,
               !.acct = IF BatchBudget THEN Restore(@, v, st.scheduled[v], "running") ELSE @]

SwapCommit(c, v) ==
    /\ step.phase = "swap"
    /\ SwapWanted(c) /\ SwapVictim(v) /\ SwapPreflight(c, v)
    /\ Preempt(v)
    /\ running' = Without(running, {v})
    /\ waiting' = ForceFirst(<<v>> \o waiting, c)
    /\ preemptions' = [preemptions EXCEPT ![v] = @ + 1]
    /\ step' = [TakenBack(step, v) EXCEPT !.phase = "waiting",
                                          !.preempted = TRUE,
                                          !.swappedFor = {c}]
    /\ UNCHANGED <<skipped, backoff, compiled, fences, inflight>>

-----------------------------------------------------------------------------
(* The WAITING loop *)

InWaitingLoop ==
    /\ step.phase = "waiting"
    /\ waiting # <<>> \/ skipped # <<>>
    /\ step.budget > 0 /\ Len(running) < MaxNumRunningReqs

\* _select_waiting_queue_for_scheduling: skipped requests come first.
NextWaiting == IF skipped # <<>> THEN Head(skipped) ELSE Head(waiting)

PopWaiting ==
    IF skipped # <<>> THEN skipped' = Tail(skipped) /\ UNCHANGED waiting
                      ELSE waiting' = Tail(waiting) /\ UNCHANGED skipped

\* Mutant: a finished compilation is never looked at.
PromotedNever(r) == status[r]

\* _try_promote_blocked_waiting_request
Promoted(r) == IF status[r] = "WAITING_FOR_GRAMMAR" /\ r \in compiled THEN "WAITING" ELSE status[r]

StillBlocked(r) == Promoted(r) = "WAITING_FOR_GRAMMAR"

WaitingPassesOver(r) == StillBlocked(r) \/ (BatchBudget /\ ~HasCap(step.acct, r))

\* num_new_tokens in the WAITING loop; the assertion there says it is not 0.
WaitingTokens(r) ==
    LET n == Least(UpToThreshold(NumTokens(r) - CachedPrefix(r)), step.budget)
    IN IF BatchBudget THEN Clamp(step.acct, r, n)
       ELSE IF HasCap(step.acct, r) THEN Least(n, step.acct.caps[r]) ELSE n

\* allocate_slots for an admission: the watermark only once something runs.
AdmissionFits(r) ==
    LET watermark == IF running = <<>> THEN 0 ELSE WatermarkBlocks
        fits(tokens) == MoreBlocks(r, tokens) + watermark <= Cardinality(freeBlocks)
    IN /\ ReserveFullIsl => fits(NumTokens(r))
       /\ fits(CachedPrefix(r) + WaitingTokens(r))

WaitingSkip(r) ==
    /\ InWaitingLoop /\ r = NextWaiting
    /\ WaitingPassesOver(r)
    /\ PopWaiting
    /\ status' = [status EXCEPT ![r] = Promoted(r)]
    /\ step' = [step EXCEPT !.skipped = Append(@, r)]
    /\ UNCHANGED <<running, computed, output, placeholders, chunk, swaps, compiled, pool,
                   fences, inflight>>

WaitingAdmit(r) ==
    LET n == WaitingTokens(r) IN
    /\ InWaitingLoop /\ r = NextWaiting
    /\ ~WaitingPassesOver(r) /\ n > 0 /\ AdmissionFits(r)
    /\ PopWaiting
    /\ running' = Append(running, r)
    /\ Allocate(r, CachedPrefix(r) + n)
    /\ status' = [status EXCEPT ![r] = "RUNNING"]
    /\ computed' = [computed EXCEPT ![r] = CachedPrefix(r)]
    /\ step' = [step EXCEPT !.budget = @ - n,
                            !.scheduled[r] = n,
                            !.acct = IF BatchBudget THEN Commit(@, r, n, "waiting") ELSE @]
    /\ UNCHANGED <<output, placeholders, chunk, swaps, compiled, fences, inflight>>

\* The head of the queue does not fit: the loop ends, and a swap that was made
\* for it is not tried again for a while.
WaitingNoKv(r) ==
    /\ InWaitingLoop /\ r = NextWaiting
    /\ ~WaitingPassesOver(r) /\ WaitingTokens(r) > 0 /\ ~AdmissionFits(r)
    /\ status' = [status EXCEPT ![r] = Promoted(r)]
    /\ backoff' = backoff \cup (step.swappedFor \cap {r})
    /\ step' = [step EXCEPT !.phase = "finish"]
    /\ UNCHANGED <<queues, computed, output, placeholders, chunk, preemptions, compiled, pool,
                   fences, inflight>>

WaitingDone ==
    /\ step.phase = "waiting" /\ ~InWaitingLoop
    /\ step' = [step EXCEPT !.phase = "finish"]
    /\ UNCHANGED <<queues, requests, swaps, compiled, pool, fences, inflight>>

\* The rest of schedule(): requeue what was passed over, advance the fence, and
\* _update_after_schedule.  The batch samples a token for each request whose
\* prefill it completes or that is decoding; the asynchronous scheduler counts
\* it as a placeholder until it is known.
FinishSchedule ==
    LET batch  == {r \in Request : step.scheduled[r] > 0}
        after  == [r \in Request |-> computed[r] + step.scheduled[r]]
        emits  == {r \in batch : after[r] >= NumTokens(r) + placeholders[r]}
    IN
    /\ step.phase = "finish"
    /\ skipped' = step.skipped \o skipped
    /\ computed' = after
    /\ chunk' = [r \in Request |-> IF r \in batch THEN r \notin emits ELSE chunk[r]]
    /\ placeholders' = [r \in Request |->
                           placeholders[r] + (IF AsyncScheduling /\ r \in emits THEN 1 ELSE 0)]
    /\ schedSeq' = IF DeferBlockFree /\ batch # {} THEN schedSeq + 1 ELSE schedSeq
    /\ lastSeq' = [r \in Request |->
                      IF DeferBlockFree /\ r \in batch THEN schedSeq' ELSE lastSeq[r]]
    /\ inflight' = Append(inflight, [requests |-> batch, emits |-> emits,
                                     touches |-> OwnedBlocks(batch), seq |-> schedSeq'])
    /\ step' = NoStep
    /\ UNCHANGED <<waiting, running, status, output, swaps, compiled, pool, procSeq>>

-----------------------------------------------------------------------------
(* update_from_output *)

\* Mutants: the fence is off by one, either way.
IsDrainedEarly(k, done) ==
    /\ \A i \in 1..k : deferred[i].fence <= done + 1
    /\ k < Len(deferred) => deferred[k + 1].fence > done + 1
IsDrainedLate(k, done) ==
    /\ \A i \in 1..k : deferred[i].fence < done
    /\ k < Len(deferred) => deferred[k + 1].fence >= done

\* _drain_deferred_frees stops at the first entry whose fence is not reached.
IsDrained(k, done) ==
    /\ \A i \in 1..k : deferred[i].fence <= done
    /\ k < Len(deferred) => deferred[k + 1].fence > done

\* Mutants: a token reaches a finished request; the "rare case" of a request
\* that stops while it is preempted is forgotten.
ReceivingFinished(batch) == batch.emits
DropStoppedRunning(stopped) == running' = Without(running, stopped) /\ UNCHANGED waiting

\* The requests that get the token the batch produced for them: one that was
\* finished while the batch was in flight is passed over.
Receiving(batch) == {r \in batch.emits : status[r] \in {"RUNNING", "PREEMPTED"}}

\* "Remove the stopped requests from the running and waiting queues."
DropStopped(stopped) ==
    /\ running' = Without(running, {r \in stopped : status[r] = "RUNNING"})
    /\ waiting' = Without(waiting, {r \in stopped : status[r] = "PREEMPTED"})

UpdateFromOutput ==
    LET batch == Head(inflight)
        live  == Receiving(batch)
        done  == IF DeferBlockFree /\ batch.requests # {} THEN procSeq + 1 ELSE procSeq
    IN
    /\ step.phase = "idle" /\ inflight # <<>>
    /\ Len(inflight) = BatchQueueSize \/ ~HasUnfinishedRequests
    /\ inflight' = Tail(inflight)
    /\ procSeq' = done
    /\ output' = [r \in Request |-> IF r \in live THEN output[r] + 1 ELSE output[r]]
    /\ placeholders' = [r \in Request |->
                           IF AsyncScheduling /\ r \in live THEN placeholders[r] - 1 ELSE placeholders[r]]
    /\ \E eos \in SUBSET (live \cap MayStopEarly), k \in 0..Len(deferred) :
         LET stopped == {r \in live : r \in eos \/ output'[r] >= MaxTokens[r]}
             pooled  == freeBlocks \cup UNION {deferred[i].blocks : i \in 1..k}
             pending == SubSeq(deferred, k + 1, Len(deferred))
         IN /\ IF done = procSeq THEN k = 0 ELSE IsDrained(k, done)
            /\ Forget(stopped, done, pooled, pending)
            /\ DropStopped(stopped)
    /\ UNCHANGED <<skipped, computed, chunk, compiled, schedSeq, lastSeq, step>>

-----------------------------------------------------------------------------

\* The iterations of schedule(), and the engine thread as a whole.
ScheduleStep ==
    \/ \E r \in Request : RunningSkip(r) \/ RunningSchedule(r)
    \/ \E r, v \in Request : RunningPreempt(r, v)
    \/ RestoreHeld
    \/ SwapReject
    \/ \E c, v \in Request : SwapCommit(c, v) \/ SwapPreflightFails(c, v)
    \/ \E r \in Request : WaitingSkip(r) \/ WaitingAdmit(r) \/ WaitingNoKv(r)
    \/ WaitingDone
    \/ FinishSchedule

Engine == StartSchedule \/ ScheduleStep \/ UpdateFromOutput

Environment ==
    \E r \in Request : AddRequest(r) \/ Abort(r) \/ GrammarReady(r) \/ BackoffExpires(r)

Next == Engine \/ Environment

\* The engine loop never stops while it has work, and every compilation ends.
\* Nothing makes clients send or abort requests.
Fairness ==
    /\ WF_vars(Engine)
    /\ \A r \in Request : WF_vars(GrammarReady(r))

Spec == Init /\ [][Next]_vars

FairSpec == Spec /\ Fairness

-----------------------------------------------------------------------------
(* Properties *)

Statuses == {"ABSENT", "WAITING", "WAITING_FOR_GRAMMAR", "RUNNING", "PREEMPTED", "FINISHED"}

TypeOK ==
    /\ waiting \in Seq(Request) /\ skipped \in Seq(Request) /\ running \in Seq(Request)
    /\ status \in [Request -> Statuses]
    /\ computed \in [Request -> Nat] /\ output \in [Request -> Nat]
    /\ placeholders \in [Request -> Nat] /\ chunk \in [Request -> BOOLEAN]
    /\ preemptions \in [Request -> Nat] /\ backoff \subseteq Request
    /\ compiled \subseteq Request
    /\ blocks \in [Request -> SUBSET Block] /\ freeBlocks \in SUBSET Block
    /\ deferred \in Seq([fence : Nat, blocks : SUBSET Block])
    /\ schedSeq \in Nat /\ procSeq \in Nat /\ lastSeq \in [Request -> Nat]
    /\ inflight \in Seq([requests : SUBSET Request, emits : SUBSET Request,
                         touches : SUBSET Block, seq : Nat])
    /\ step.phase \in {"idle", "running", "restore", "swap", "waiting", "finish"}
    /\ step.index \in Nat /\ step.budget \in Nat /\ step.held \in Nat
    /\ step.scheduled \in [Request -> Nat]

\* "Remove the stopped requests from the running and waiting queues": a request
\* is in one queue, once, exactly while it is unfinished, and in running exactly
\* when its status says so, through every preemption, swap, requeue and abort.
QueuesMatchStatus ==
    LET places == waiting \o skipped \o step.skipped \o running IN
    /\ IsInjective(places)
    /\ \A r \in Request :
        /\ r \in ToSet(places) <=> status[r] \notin {"ABSENT", "FINISHED"}
        /\ r \in ToSet(running) <=> status[r] = "RUNNING"

\* Every KV block is in exactly one place: the pool, a request, or a deferred
\* free.  None is leaked, none is given out twice.
BlocksPartition ==
    /\ \A r, q \in Request : r # q => blocks[r] \cap blocks[q] = {}
    /\ \A r \in Request : blocks[r] \cap freeBlocks = {}
    /\ \A i \in DOMAIN deferred :
         /\ deferred[i].blocks \cap freeBlocks = {}
         /\ \A r \in Request : deferred[i].blocks \cap blocks[r] = {}
         /\ \A j \in DOMAIN deferred : i # j => deferred[i].blocks \cap deferred[j].blocks = {}
    /\ Block = freeBlocks \cup OwnedBlocks(Request)
                 \cup (UNION {deferred[i].blocks : i \in DOMAIN deferred})

\* The deferred-free fence: while a batch is in flight, no block it touches is
\* back in the pool, and none belongs to a request that was not part of it.
InflightBlocksHeld ==
    DeferBlockFree =>
        \A i \in DOMAIN inflight :
            /\ inflight[i].touches \cap freeBlocks = {}
            /\ \A r \in Request \ inflight[i].requests : inflight[i].touches \cap blocks[r] = {}

\* The budget of a step is conserved: what is left, what is held back for
\* prefills and what has been scheduled always add up to the step's budget.
BudgetConserved ==
    step.phase # "idle" =>
        step.budget + step.held + SumFunction(step.scheduled) = MaxNumScheduledTokens

\* In batch-budget mode the accountant agrees with the batch: exactly the
\* prefill tokens scheduled are committed, and its own assertions hold.
AccountMatchesBatch ==
    BatchBudget /\ step.phase # "idle" =>
        /\ \A r \in DOMAIN step.acct.caps :
              /\ step.acct.committed[r] = step.scheduled[r]
              /\ step.acct.committed[r] <= step.acct.caps[r]
        /\ step.acct.remaining >= 0
        /\ step.acct.remaining + CommittedTokens(step.acct) = step.acct.total
        /\ step.acct.by["running"] >= 0 /\ step.acct.by["waiting"] >= 0

\* A running request owns the blocks of every token it has computed and of the
\* tokens this step gives it; any other request, whether it waits, was preempted
\* or is finished, owns none.
ComputedTokensHaveBlocks ==
    \A r \in Request :
        IF status[r] = "RUNNING"
        THEN BlocksFor(computed[r] + step.scheduled[r]) <= Cardinality(blocks[r])
        ELSE blocks[r] = {}

\* A placeholder stands for each token a batch in flight is going to produce,
\* and no request is ever scheduled past its max_tokens.
PlaceholdersMatchInflight ==
    \A r \in Request : status[r] \in {"WAITING", "RUNNING", "PREEMPTED"} =>
        LET pending == Cardinality({i \in DOMAIN inflight : r \in inflight[i].emits})
        IN /\ AsyncScheduling => placeholders[r] = pending
           /\ output[r] + pending <= MaxTokens[r]

\* The counts of a request agree with its blocks and with the batches in
\* flight, in a well-typed state.
CountsMatch == TypeOK /\ ComputedTokensHaveBlocks /\ PlaceholdersMatchInflight

\* The assertion of the WAITING loop: an admission is never left with 0 tokens.
AdmissionsGetTokens ==
    InWaitingLoop /\ ~WaitingPassesOver(NextWaiting) => WaitingTokens(NextWaiting) > 0

\* In batch-budget mode prefills cannot take the token of a decode: when the
\* RUNNING loop ends without preemption, every running decode is in the batch.
DecodesAreScheduled ==
    BatchBudget /\ step.phase = "swap" /\ ~step.preempted =>
        \A r \in ToSet(running) :
            ~chunk[r] /\ ~AtMaxTokens(r) => step.scheduled[r] > 0

\* A swap frees a slot for its candidate: at the end of the step the candidate
\* runs in it, or it backs off because its KV blocks were not there.
SwapServesCandidate ==
    step.phase = "finish" =>
        \A c \in step.swappedFor : status[c] = "RUNNING" \/ c \in backoff

\* Without a swap, nothing is promoted ahead of a preempted request.
PreemptedComeFirst ==
    ~SlotSwapEnabled =>
        \A i, j \in DOMAIN waiting :
            i < j /\ status[waiting[j]] = "PREEMPTED" => status[waiting[i]] = "PREEMPTED"

\* Seen from the clients, the scheduler is an InferenceService: preemption,
\* swaps, chunks and batches in flight never lose, repeat or misdirect a token,
\* and a request that ends or is aborted gets none afterwards.
Service == INSTANCE InferenceService WITH
    life   <- [r \in Request |-> IF status[r] = "ABSENT" THEN "absent"
                                 ELSE IF status[r] = "FINISHED" THEN "closed" ELSE "open"],
    tokens <- output

ImplementsService == Service!Spec

\* "At each step, the scheduler tries to assign tokens to the requests so that
\* each request's num_computed_tokens can catch up": whoever is accepted, and is
\* not aborted, is served until it finishes.
EveryRequestFinishes ==
    \A r \in Request : status[r] \in {"WAITING", "WAITING_FOR_GRAMMAR"} ~> status[r] = "FINISHED"

=============================================================================
