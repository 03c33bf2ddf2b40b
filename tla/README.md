# Specifications of the prefill-bias serving stack

TLA+ specifications, model-checking configurations and TLAPS proofs kept beside this
repository. The core of the repository is a patched vLLM v1 engine
(`config_yml_aira/0714-v0250-port/vllm_patched`) whose scheduler biases each step towards
waiting prefills. Around it are the engine process that feeds it, the data-parallel loop, the
warm-up and its gate, the launcher and the router; beside it, the prompt-tuning graph of
LayoutAgent. These are concurrent, stateful and hard to test; these modules are about them.

Short names used below:

| | |
|---|---|
| P, S, K, E, C | `v1/core/sched/prefill_bias.py`, `v1/core/sched/scheduler.py`, `v1/core/kv_cache_manager.py`, `v1/engine/core.py`, `config/scheduler.py` under `config_yml_aira/0714-v0250-port/vllm_patched` |
| W | `config_yml_aira/0714-v0250-port/sitecustomize.py` |
| R, U | `prefill_chunked/scripts/slo_router.py`, `prefill_chunked/scripts/routing_utils.py` |
| L | `prefill_chunked/scripts/run_baseline.py` |
| G | `LayoutAgent/src/graph.py` and `LayoutAgent/src/nodes/*.py` |

## 1. Inventory

### The engine

| Component | State | Operations | Talks to |
|---|---|---|---|
| Scheduler (S) | queues `waiting`, `skipped_waiting`, `running`; the requests; swap statistics and backoffs; `deferred_frees` and its sequence numbers; the pause state | `add_request`, `schedule`, `update_from_output`, `finish_requests`, preemption, admission slot swap, `_free_request` | called by the engine; calls the policies, the accountant, the KV cache manager, the adaptive controller |
| KV cache manager (K) | the block pool, the blocks of each request | `get_computed_blocks`, `allocate_slots`, `free` | called by the scheduler |
| Policies (P): legacy, deadline, predictive, batch-budget, router | estimators only | `decide`, `plan`, `score_candidates`, `evaluate_tbt_guard` | read the queues, return a decision: reserve, candidates, caps |
| `PrefillBudgetAccountant` (P) | remaining budget, committed tokens by request and source | `clamp`, `commit`, `restore`, `assert_invariants` | created by each batch-budget `schedule()`, called from both its loops, the swap and preemption |
| `AdaptivePrefillController` (P) | state and level, current policy, per-request observations, window of outcomes, timers | `observe_*`, `maybe_update` | fed from `update_from_output` and `_free_request`, asked at the head of every `schedule()` |
| Engine process (E) | input queue, aborts queue, `batch_queue`, pause state and idle callbacks, shutdown state | input thread; busy loop; `step_with_batch_queue`; pause, sleep, wake-up, resume; signal handler, shutdown | clients by sockets, the scheduler, the executor |
| Data-parallel loop (E) | `engines_running`, `current_wave`, `step_counter`, pending pause | `START_DP_WAVE`, dummy batches, `sync_dp_state`, two-phase pause, resume barrier | the other ranks by collectives, the coordinator, the front-end |
| ENGPACE (E) | token bucket, fill-mode time and latch | holds back ADD in the input thread | between the sockets and the input queue |
| Concurrent-prefill patches | per-step counts of partial prefills, ages, held requests | `schedule()` of the v0.23 and v0.24 images; the admission cap of W | replace or wrap the scheduler's loops |
| Configuration (C, `engine/arg_utils.py`) | none | validation | fixes the constants of everything above |

Hard behaviours: `schedule()` runs while earlier batches are still on the GPU, so every count
it reads is ahead of or behind something; requests are aborted with batches in flight;
preemption and the slot swap undo part of the step that is being built; blocks freed by the
scheduler may still be written by the GPU; aborts and pauses arrive in a thread of their own;
ranks must enter the same collective.
Correct means: a request is in one queue, once, and finishes; KV blocks are neither leaked nor
given out twice nor reused under a running batch; the tokens of a step are split exactly; no
policy starves a decode or a request; clients see each token once, in order, and none after
the end; calls are answered; the process ends when told to.

### Around the engine

| Component | State | Operations | Hard behaviours |
|---|---|---|---|
| Warm-up and health gate (W) | a marker file, the warm-up thread, the gate, a freeze thread per process | stages, `/health`, `_gc_freeze_watcher`, healthcheck | the file survives a restart; stages hang or fail |
| Launcher and readiness gate (L) | server processes, the gate, signal handlers | start, health, warm-up, open, wait, terminate | one of several servers fails; a signal interrupts any of it |
| SLO router (R, U) | load and recent prefixes of each worker, a lock | choose, count, proxy, uncount | a thread per request; errors on every path |
| LayoutAgent graph (G) | prompt, HTML, image, scores, best; files of each iteration | align, visualize, evaluate, checkpoint, optimize | failing models, stale state between iterations, stop and crash |

### What is left out

See "Not modelled" at the end. `PROJECT.json` lists every component with its files and status,
and every hazard with its line and the properties about it.

## 2. Plan

Done, in this order: the accountant, the scheduler with its abstract service, the adaptive
controller; then the engine process, the data-parallel waves, ENGPACE, warm-up and gate,
launcher, router, the concurrent-prefill variants, LayoutAgent with its abstract search. Every
passing question about one component is asked in one run; small machines share a run.

Proved, in this order: the small machines; blocks and fence of the scheduler; the controller; the
scheduler's queues and its refinement of `InferenceService`; the engine process; the waves; the
scheduler's tokens, the slot swap and the decodes under the batch budget; the router; the
concurrent-prefill patches; the policies side by side; the end of `schedule()`.

What would come next, in order of value: waves with an elastic number of ranks; the estimators of P
as arithmetic operators against a reference definition; the stitching of tables and text; an
invariant for the slot swap that bounds what a grammar can take.

## 3. Modules

| Module | Models |
|---|---|
| `PrefillBudgetAccountant` | the class of P 79-160 as operators on a record: `Clamp`, `Commit`, `Restore` |
| `AccountantClient` | one step's calls to it, in any order |
| `InferenceService` | abstract: what clients of the engine are promised |
| `PrefillScheduler` | scheduler, policies, KV blocks, slot swap, fence, engine step; refines `InferenceService` |
| `AdaptivePrefillController` | the feedback controller and its callers in the scheduler |
| `ConcurrentPrefill` | `schedule()` of the v0.23 and v0.24 patches and the admission cap |
| `EngineCoreProc` | input thread, busy loop, pause, sleep, shutdown |
| `DPWaves` | the ranks, their collectives, the coordinator and the front-end |
| `EnginePacing` | ENGPACE |
| `WarmupGate` | warm-up, marker, gate, freeze, healthcheck, restarts |
| `Deployment` | the launcher and its servers |
| `SloRouter` | choice of a worker and its load |
| `PromptTuning`, `PromptSearch` | the LayoutAgent graph, and what its run directory promises |
| `MCPrefillScheduler`, `MCEngineCore` | finite instances |
| `MCPolicies`, `MCPeriphery` | several machines side by side; a behavior is one of them |
| `Bounds`, `Subsequences` | the smaller of two numbers and subtraction down to 0; what is left of a queue when the elements of a set are taken out |
| `DataLemmas` | lemmas about queues, filters, sums and the accountant's arithmetic, by induction over numbers and finite sets |
| `PrefillScheduler_proofs` | blocks and the fence; queues, order of preempted requests, refinement of `InferenceService`; the end of `schedule()` |
| `PrefillTokens_proofs` | tokens: budget, account, placeholders, computed tokens and their blocks; the slot swap; decodes under the batch budget |
| `ConcurrentPrefill_proofs`, `EngineCoreProc_proofs`, `DPWaves_proofs` | theorems about these components |
| `MCPolicies_proofs` | the accountant; the invariants of `MCPolicies`, from the theorems about its instances |
| `SmallMachines_proofs` | adaptive controller, pacing, marker, launcher, prompt tuning, router |

`MCPolicies` and `MCPeriphery` are disjoint sums, not compositions: the initial state picks one
machine, the others rest. Their machines share no state in the code either, or are
alternatives of one deployment.

### PrefillScheduler

`schedule()` is one Python call; each iteration of its two loops is an action, and the record
`step` holds its local variables (`token_budget`, `num_scheduled_tokens`, `preempted_reqs`,
the decision, the accountant). `step.phase` is the program counter:

    idle --StartSchedule--> running --RunningSkip/Schedule/Preempt--> restore
         --RestoreHeld--> swap --SwapCommit/SwapPreflightFails/SwapReject--> waiting
         --WaitingSkip/Admit/NoKv/Done--> finish --FinishSchedule--> idle

`UpdateFromOutput` takes the oldest batch in flight. `AddRequest` and `Abort` happen between
calls, as the engine thread does; `GrammarReady` happens at any moment, as compilation has its
own thread. `BatchQueueSize` and `AsyncScheduling` give the three engines there are:
synchronous (1), asynchronous scheduling (2 or more, with placeholders), pipeline parallelism
(2 or more, without).

Abstractions, and what they leave out:

- Clocks, ages, deadlines and step-time estimates are choices: a policy may find any waiting
  request urgent, any victim safe. An estimate is taken not to raise: the code would decide as the
  legacy policy does for the call (P 2767-2772), or give the prefills of the step nothing (P 685-690). What bounds a choice is kept: the queue it reads, the
  reserve's arithmetic, the caps and their order, the eligibility flags, the request limits.
- A block is a number; `TakeBlocks` takes the lowest free ones, since nothing in the scheduler
  looks at which. A cached prefix has a fixed length and its blocks are charged as fresh ones.
- `max_model_len` never cuts a request, request ids are not used again, the queues are within the
  scan limits of the policies (16 or more requests), and their minimum chunk is 1. Several deferred frees of one call are one entry.
- The extra empty step the engine takes to tell workers of finished requests is left out here
  (it is in `EngineCoreProc`).
- `seq` of a batch in flight is auxiliary: the value of `sched_step_seq` it was built with.
- Left out: PRIORITY (refused with the prefill bias by C), speculative decoding, encoder
  inputs, LoRA limits, KV connectors, streaming sessions, mamba alignment,
  `prefill_bias_require_cache_residency`.
- The slot swap of FCFS takes decodes as victims, and a decode has no cap; so inside the
  scheduler `Restore` never finds tokens to give back, and `AccountantClient`, which allows it
  for any capped request, is what checks that contract.

### AdaptivePrefillController

Time is relative (ages, time since the last update, rest of the cooldown), each saturating where
it stops to matter, so time is unbounded although the state is finite. Whether a token met its
SLO is a choice, and whether the deployment's SLOs are finite is one at the start (`sloFinite`: C
only wants them positive). Attainment ratios are compared in integers, in percent; the
floating-point rounding of `1.0 - 0.95` at an exact boundary is abstracted. `unstable` (P
1227-1230) may be true once a swap has been attempted, because the statistics it reads start
then. A request id that has finished stands for a new request.

### EngineCoreProc and DPWaves

`EngineCoreProc` runs the busy loop at the grain at which the input thread and the signal handler
can interleave with it: the shutdown test, the idle test, the blocking `get`, draining,
scheduling, and the result of the oldest batch are separate actions, `pc` the next one. The
scheduler is reduced to its queues and to tokens left. `sleep` is the pause plus the executor's
sleep chained to its future. Clients keep to the protocol that the data-parallel class asserts:
no resume before the pause is answered, `wake_up` after `sleep`. An executor failure is taken
where the loop reads it.

In `DPWaves` a rank is at the top of its loop or waits in a collective; the forward pass, the
consensus of `sync_dp_state` and the barrier of `resume_scheduler` take place when all ranks
wait in it. The step counter is kept modulo its cycle. Between the coordinator, the front-end
and the ranks are FIFO queues, one per pair, so messages of different senders overtake each
other. Coordinator and front-end are upstream of this tree: only what the ranks depend on is
modelled, marked external in the map.

### Around the engine

- `EnginePacing` counts credit in the time it is worth; the number of running requests and
  decodes, which the thread reads without a lock, is any value; a sleep may end late.
- `WarmupGate` keeps what remains of each deadline. What a warm-up stage sends is left out: it
  ends, fails (where the code lets the error through) or hangs. The healthcheck runs while the
  API process does: Docker makes its first test an interval (5 s) after the start of a container,
  when the interpreter is assumed to have removed the marker (W 916-921).
- `Deployment` has the launcher's phases, and `terminate_servers` as a machine that the main
  thread or a signal handler runs. A handler runs on top of the frame it interrupts, which may be
  another handler's. `poll()`, `wait(timeout)` and `wait()` of a `Popen` all take one lock that is
  not reentrant; `held` is the set of servers whose `Popen` an interrupted frame has locked: the
  server `wait_for_health` polls (L 1246), the one the launcher waits for, the one
  `terminate_server` is at. Whether the frame has the lock at that moment is a choice.
- `SloRouter` keeps the throughput averages at their initial values, so scores are linear in
  tokens; `states_lock` is held from `Acquire` to `Route`, as in the code. The lock is taken as
  given: what the code does under it is one action.
- `PromptTuning` has one action per node, and three for a checkpoint: `eval.json` is written
  (`SaveEval`), `best_prompt.txt` is opened, which empties it (`OpenBest`), and written
  (`WriteBest`). `Fail` ends the run between any two steps. Prompts and HTML are abstract, scores
  are halves of a point; a layout without fields is covered by any answer. What a checkpoint writes
  is kept apart from the memory that is lost with the process. A run has a directory of its own,
  as it does unless it is told to use an old one (`--output-dir`, `--run-id`).
- `ConcurrentPrefill` has the three variants in one module, selected by `Patch`; KV blocks are
  abstract: an allocation may fail while another request runs. With the default of one partial
  prefill the v0.23 and v0.24 patches neither limit nor share anything (`Concurrent`). The scan
  limit of the promotion (256) is left out.

## 4. Runs

| Run | Instance | Shows |
|---|---|---|
| `policies` | seven machines: batch-budget with swaps and aborts; predictive with a grammar and 2 batches in flight; deadline with a reserve; the accountant alone; v0.24, v0.23, admission cap | the budget is conserved and agrees with the account; no admission of 0 tokens (the assertion of the WAITING loop); decodes, and partial prefills, keep their tokens; promotion keeps the order of preempted requests; queues are exact; the limits on partial prefills hold; nobody starves |
| `slot_swap` | legacy with swaps, cached prefixes, a grammar, aborts, 4 blocks, watermark 1 | a swap serves the candidate it preempts for, or the candidate backs off for want of blocks; budget and queues stay exact across it |
| `async_fence` | 2 batches in flight, 4 blocks, watermark 1, early stops, aborts | blocks under a batch are held and let go again, counts match the blocks and the tokens owed, clients see `InferenceService`, every request finishes |
| `adaptive` | one stream of requests, window 1, three observations, finite and infinite SLOs | fail-safe is final and in force at the next `schedule()`, no stale or foreign observations, swaps off when decodes suffer, the level comes back to 0 while the SLOs are met |
| `engine_core` | two requests (one abortable, one malformed), sleep in any mode, wake-up, one signal, 2 batches | every request is in one place and answered once; no abort leaks; no cache is reset under a batch; a paused or sleeping engine executes nothing; an aborting shutdown leaves nothing; the process ends; calls are answered |
| `dp_waves` | two ranks, two sends, pauses of every mode, an abort of a running request | ranks meet in the same collective with the same counters; a pause holds and is answered; every request ends, unless the coordinator is wrong about the engines for ever (`Stranded`) |
| `periphery` | five machines: bucket of 2 with fill mode, 8 ticks; warm-up of two stages, three processes, one restart; two servers and two signals; three workers and three requests; the LayoutAgent graph with two prompts, three iterations and a threshold that a perfect judge reaches without coverage | pacing bounds every window, fill mode leaves no burst; nobody trusts an old marker and no gate stays shut; no server outlives its launcher, and a signal ends it unless its handler needs a lock that a frame below it holds; loads are exact; the run directory is a `PromptSearch`, wherever an error or a Ctrl-C ends the run, and no early stop rests on the image of another iteration |

Why the bounds are enough. Two slots and three requests make a full batch with a waiting
candidate, which is what a swap, a cap and a promotion need; a third request is queued behind
it, so order matters. Pools of 3 to 5 blocks make each of preemption, the watermark, the
full-sequence check and a failed preflight happen. A budget of 3 or 4 with prompts up to 6
makes chunked prefills, used-up budgets and a reserve as large as the budget. Two batches in
flight are the asynchronous engine; three are the least that let an older token arrive after a
preemption, a pass over and a second batch. In the controller, with three observations
and thresholds of 50 and 80 percent, each comparison has both outcomes, and ratios between
"calm" and "bad" exist. In the engine process one slot and two requests give a queue behind a
running request while paused; one signal suffices, as the handler sets the same state again. In
the waves, two ranks and a wave that ends give a stale wave number, a front-end that is behind,
and a `START_DP_WAVE` on its way through a pause. `Stranded`, which `RequestsFinish` excuses,
takes three sends and is out of reach with two; with three (1.3 million states, 8 minutes) the two
invariants and `RequestsFinish` hold as well, and `RequestsFinish` would not without the excuse, for
the reason given below. Two signals let a handler interrupt a handler. Two servers let one fail while the other
runs; one restart is enough to leave a marker. `MaxSent`, `MaxAborts`, `MaxSignals`, `MaxBoots`, `MaxTime`,
`MaxWire`, `MaxRun`, `MaxPreemptions` are bounds on the environment and named as such. `EarlyAborts`
says whether clients abort requests that no step has had yet: `waves_abort` is about these, and
`dp_waves` about all others.
`CHECK_DEADLOCK FALSE` is set where all requests may be done and the system waits for clients, or
the program ends.

### What disagrees with the code's own words

| Run | Line | Finding |
|---|---|---|
| `batch_starvation` | S 2372 | a request passed over once by the batch budget is requeued in `skipped_waiting`; the plan looks at `waiting` only, so it never has a cap again and waits for ever |
| `full_reserve` | C 422 | a reserve equal to the token budget passes validation; with the slots full of prefills nothing is scheduled again |
| `deep_pipeline` | S 3445 | with three batches in flight a preempted request that stops while in `skipped_waiting` is removed from `waiting` only, and stays behind |
| `launcher_signal` | L 935 | a signal that interrupts `servers[0].wait()` leaves the handler waiting for the lock that this `wait()` holds: the launcher and the other servers stay. A `poll()` or `wait()` during start-up (L 1246) or clean-up (L 1718-1724) does the same, in a far shorter window; the shortest trace is one of these |
| `waves_abort` | E 2061 | a request aborted before its rank first steps takes the wave with it: its rank goes idle, the others, told of the wave, wait in a forward pass for it |

### Seen while modelling, and not made a run

Scheduler and policies: no swap backoff after a failed preflight (S 1330), although the field
says "Backoff for a candidate after commit/preflight failure." (C 263); a request with a single
token counts as within its TBT (P 282); step timings are keyed by `id(scheduler_output)` (S 770);
with three batches in flight a preempted request can be admitted again while a token of it is still
to come, and is then counted ahead of its tokens (`CountsMatch` is proved for two).
Controller: a cold start may go from level -2 to 1, and OVERLOAD from 2 to 0, in one update,
whatever the maximal level step is; with too few outcomes the level stays; a TBT ratio between
target and emergency counts as healthy when the TTFT is met.

Engine process: a pause that is pending when the shutdown begins is never answered, nor are ADDs
still in the input queue at exit; draining while paused drops the requests that wait
(`ExitLeavesNothing` excludes it); ENGPACE holds aborts and utility calls behind a held ADD,
although its comment speaks of ADDs only. Waves: a `START_DP_WAVE` that
reaches paused ranks is ignored, and nobody takes it back: if its `FIRST_REQ` was handled during
the pause and no unfinished request is left at the barrier of the resume, coordinator and
front-end go on believing that the engines run. The next request then carries the current wave
and wakes its own rank alone, which waits in its forward pass for the others. `RequestsFinish`
names exactly this state (`Stranded`) and claims nothing of a behavior that stays in it. It rests on the coordinator, of which this repository has no source; that is why it is
an observation and no run.

Around the engine: without the freeze, or behind the Rust front-end, the marker of the last boot
is read (`MarkerTells` is about `GcFreeze`); a failed write of the marker is swallowed, and only
the timeout opens the gate then; the gate's timeout is shorter than the warm-up's wait for the
server. Launcher: a signal or an error before the handlers are installed leaves servers behind;
with the warm-up disabled the gate never opens; the end of `servers[1]` goes unnoticed while
the launcher waits for `servers[0]`; failed warm-up requests open the gate all the same.
Router: the lock is held during an HTTP call to the tokenizer; an error while logging loses a
load for good (`LoadsAreExact` counts these); a dead worker looks the least loaded; an empty pool
raises.

LayoutAgent: `max_iterations = N` makes N + 1 evaluations; a failing judge counts half a point,
which may become the best score; an image of an earlier iteration may be judged, though the
docstring of the node speaks of the current one; `best_schema_merged.html` may be stale; a run that
is stopped between `eval.json` and `best_prompt.txt` leaves the older prompt, or an empty file, beside
a better evaluation; with `coverage_threshold` 0 or a layout without fields a run may stop on a
score that an earlier image brought.

Concurrent prefill: v0.23 does not look at `max_num_partial_prefills`; a preempted request with
output is no prefill, and escapes both limits; requeueing turns the order of those passed over
round, and the cap puts those held back ahead of those preempted.

## 5. Fairness

- `PrefillScheduler!FairSpec`: weak fairness of the engine as a whole (`run_busy_loop`, E
  1259-1267, steps while there are unfinished requests or batches in flight, and each pass ends)
  and of each grammar's compilation (a thread that ends). Nothing makes clients send or abort
  requests, and no choice of a policy is fair: a property that holds does so for every urgency
  the clocks could produce. `ConcurrentPrefill` has the engine's fairness alone.
- `AdaptivePrefillController!FairSpec`: weak fairness of `Schedule`, by the same loop, and of the
  passing of time.
- `EngineCoreProc!Spec`: weak fairness of the busy loop, of the second half of an abort in the
  input thread, and of the thread that delivers the wake-up. Clients, signals and failures owe
  nothing. `BlockingGet` is disabled on an empty queue: the engine may block there for ever
  unless something is put on it, which is what `ShutdownCompletes` is about.
- `DPWaves!WavesFairness`: the ranks, the collectives that all have entered and the coordinator
  run; messages arrive. Strong fairness of `Forward(Rank)` says that requests which are executed
  again and again end, as every request has a maximal length. Whoever paused resumes.
- `WarmupGate!GateFairness`: time passes, the server comes up, `/health` is asked. Nothing is
  assumed of the warm-up, which may hang.
- `Deployment!DeployFairness`: the launcher runs, and SIGKILL ends a server. A server need not
  obey SIGTERM, nor get healthy, nor end.

The router, the pacing and the prompt tuning have safety properties only.

## 6. Proofs

All theorems hold for every value of the constants under the modules' named assumptions
(`RequestAssumption`, `PoolAssumption`, `BudgetAssumption`, `PipelineAssumption`,
`ConfigAssumption`, `MaxTotalAssumption`, `ControllerAssumption`, `EngineAssumption`,
`WavesAssumption`, `PaceAssumption`, `CapacityAssumption`, `GateAssumption`,
`DeploymentAssumption`, `TuningAssumption`, `RouterAssumption`, `ConcurrentAssumption`,
`PatchesAssumption`, `PromptsAssumption`), which
state the types of the constants and what the configuration refuses; TLC evaluates each of them on
the runs' instances. A theorem that needs more says so in its `ASSUME`: that the set of requests
is finite where tokens are summed, and a bound on the pipeline where the code depends on one.

### The scheduler

Three layers of invariants, each proved on top of the one below.

- **Blocks and fence** (`PrefillScheduler_proofs`: `BlocksConserved`, `FenceHolds`). `PoolInv` adds
  the types of the fence numbers and of the batches to the partition. Blocks are moved by three
  operators only; each has its lemma and the actions cite them. `InflightBlocksHeld` is not
  inductive: nothing in it says why a freed block waits long enough. `FenceInv` says that each
  block a batch touches is either with a request of that batch that was scheduled no earlier than
  the batch, or in a deferred free whose fence is at least the batch's number, and that the numbers
  in flight increase and are above `processed_step_seq`.
- **Queues** (`PrefillScheduler_proofs`, second part: `QueuesAgree`, `SchedulerServes`,
  `PreemptedLead`).
  `QueuesMatchStatus` is not inductive: a request that stops while preempted is looked for in
  `waiting` only (S 3445), so `QInv` has to say why it is not in `skipped_waiting` then. `Safe`
  says that a preempted request that was passed over has no token to come, and `Depth` why: with at
  most one other batch in flight, one preempted in an earlier step has had its token, and in the
  step that preempts it the loop of the waiting requests is entered for the candidate of a swap
  only, which takes the only free slot. That is where the hypothesis
  `SmallDepth == BatchBudget => BatchQueueSize <= 2` comes from, and it is sharp: run
  `deep_pipeline` is the counterexample with 3. `SchedulerServes` is the refinement: every step is
  a step of `InferenceService` or a stutter, one lemma per kind of step. `PreemptedLead` is the
  order that promotion, requeueing and removal leave.
- **Termination** (`PrefillScheduler_proofs`, last part: `ScheduleEnds`). The loops of `schedule()`
  have no counter: the first drops the last running request when one does not fit and tries again,
  the second pops requests until the queues are empty, while preemption and the swap put requests
  on `waiting`. `Left` is a natural number that every iteration lowers and nothing else changes; a
  call starts with `2 * Len(running) + Len(waiting) + Len(skipped) + 5`. It needs that the index
  stays within a queue that gets shorter (`IndexInv`) and that promotion and the swap neither drop
  a request nor queue it twice, which is where it rests on `QInv`. Fairness is not used: the bound
  holds for each call. That an iteration is possible while a call is under way needs ENABLED and is
  left to TLC (`EveryRequestFinishes`); the one guard that could block it, an admission with no
  tokens, is `AdmissionsAlwaysGet`.
- **Tokens** (`PrefillTokens_proofs`: `BudgetIsConserved`, `CountsAgree`, `AccountAgrees`,
  `AdmissionsAlwaysGet`). These four need each other: that an admission gets tokens rests on the
  account, the account on who is in a prefill, that on what batches in flight still owe. `TInv` has
  them together: a running request has computed all but its newest token or is in its prefill with
  none to come (`Kinds`); placeholders and `output` count what is on its way (`Owed`); what a step
  gives is needed (`Needed`); a request that does not run has a token to come only if it was
  preempted after the oldest batch was built (`Late`, `Slots`). The last rests on
  `Shallow == BatchQueueSize <= 2`, which is the asynchronous engine and a pipeline of two; with
  three batches TLC finds a preempted request that is admitted again with a token still to come, and
  `CountsMatch` fails.
- **Promises of the policies** (`PrefillTokens_proofs`: `SwapsServe`, `DecodesAreServed`).
  `SwapsServe` says that who is preempted for a candidate is not preempted in vain: from the commit
  on, the candidate is at the head of `waiting`, the one free slot is kept, and whoever is popped
  before it is blocked, hence passed over. A grammar that finishes compiling in between would make a
  request of `skipped_waiting` admissible, and it could take the slot; so the theorem assumes that
  there are no grammar requests, or the batch budget, under which a request passed over has no cap.
  `DecodesAreServed` needs an invariant of the RUNNING loop (`Reserved`): what is left of the step
  covers the tokens the account may still give out and a token for each decode that the loop has yet
  to come to. It assumes one batch at a time (with a batch in flight a decode has nothing to
  compute before its token is known) and that a step can hold a token for everyone who runs, which
  the configuration demands (C 737).

### The other components

- **Concurrent prefill** (`ConcurrentPrefill_proofs`: `ConcurrentQueuesAreExact`,
  `ConcurrentPartialsWithinLimit`, `ConcurrentPrefillsShareTheBudget`). The queues' invariant
  adds that who has tokens runs, so that nobody finishes who was preempted. The limits between
  steps follow from the counters of a step only because of what the counters leave out: they count
  prefills that will still be prefills when the step is over, so `Limits` bounds those, and in the
  RUNNING loop, where one may still be preempted, all. `Shares` is a product: what is left of the
  step is at least the slot times the number of prefills ahead. Both say what they say where the
  patch is given more than one partial prefill (`Concurrent`); with one it limits nothing.
  `ConcurrentScheduleEnds` bounds the iterations of a call as `ScheduleEnds` does, with a queue that
  is reordered before each pop.
- **Policies side by side** (`MCPolicies_proofs`: `PoliciesConserveTheBudget`,
  `PoliciesShareTheTokens`, `PoliciesLeadWithPreempted`, `PoliciesKeepTheirQueues`,
  `PoliciesLimitThePartials`). The invariants of `MCPolicies`, as the run states them. Each
  instance is of the module of its proofs, so its lemmas are facts about the instance once its
  constants are shown to meet the assumptions (`BudgetConstants`, `PredictiveConstants`,
  `PatchesAssumption`). `PoliciesInv` is each policy's inductive invariant, `PolicySteps` says
  that a step of the sum is one of the policy in force. The constants are those of the run but for
  the set of requests, which is any finite one with `r3` in it.
- **Engine process** (`EngineCoreProc_proofs`: `RequestsAreKept`, `AbortsAreHandled`,
  `ResetsFindNoBatch`, `PausesAreKept`, `ExitIsClean`). One invariant for all five. An ADD is on
  the input queue at most once, an abort behind the ADD it is about (`QueueInv`); a request is in
  one place (`OnePlace`); an aborted one is nowhere or its abort is on the way, in whichever of the
  two queues has been read less far (`AbortsFollow`); a resume is sent only after the pause was
  answered (`ResumesAlone`), so nothing runs between (`PausedRunsNothing`).
- **Waves** (`DPWaves_proofs`: `CollectivesAreMatched`, `PausesHold`). `Phases` says where each rank
  may be, for each phase of the pause protocol: told or pending until all are, then all stopping,
  then stopped or resuming until all are free. What a rank may meet in its queue is part of it.
- **Adaptive controller** (`ControllerTyped`, `FailSafeIsFinal`, `SwapsStopForDecodes`,
  `DecisionsAreCurrent`). The invariant adds that the policy belongs to the state and the level,
  and that a controller that failed safe is at level -2 without swaps; `MaybeUpdateInv` goes through
  the ways out of `_decide_next`. For the last theorem, the window stays oldest-first, so that
  popping old outcomes from the left leaves none behind.
- **Accountant** (`TypeCorrect`, `BudgetNeverOverdrawn`, `AccountFollowsBatch`, together
  `AccountIsKept`; `AccountSums`). The balance of the account is inductive only together with
  "committed = what the batch holds": it is why a restore gives back exactly what it is asked for.
- **Pacing** (`PacingBounded`, `FillLeavesNoBurst`). The window's bound is inductive with the
  credit still in the bucket, and what has accrued since it was last filled, on the paying side;
  a sleeping thread has promised what it will pay.
- **Marker** (`MarkerIsOfThisBoot`, for `GcFreeze`). While a process of this boot runs, the API
  process has started and removed the old file, so a marker means that the warm-up is over.
- **Launcher** (`LauncherCleansUp`). Signals may come at any point, also to a handler. Servers before the one being terminated have ended, and the
  launcher reaches its end past the handlers only through clean-up or past the last server.
- **Router** (`RouterLoadsAreExact`). The two counters of a worker are the number of the requests
  counted there and the sum of their tokens, so the `max(0, ...)` of the decrement never hides a
  wrong one.
- **Prompt tuning** (`TuningSearches`, `TuningKeepsBest`, `StopIsJustified`). A refinement: the
  invariant ties the best score in memory to the history (it is the first of the greatest) and the
  history to the files, which are one evaluation behind until `SaveEval`; every step then is a step
  of `PromptSearch` or a stutter. `KeepsBest` follows from the specification of `PromptSearch`
  alone: a new best is followed by its prompt, or by the end of the run. For the stop: in a layout
  with fields, coverage is positive only if the HTML is not empty, and then the image is of this
  iteration.

### Data

`DataLemmas` has what these proofs say about sequences and sums: what appending, removing,
reversing, filtering and concatenating do to the elements, what one changed value does to a sum
over a finite set, and that a finite set of integers has a least element. The library's induction
theorems take an operator as a parameter, which the provers cannot instantiate; here induction is over a set instead (a set of numbers with 0 that is closed
under successor is `Nat`; the subsets for which a sum exists), so a filter has to be a recursive
function and a sum the one `Folds` defines. No module with theorems has a RECURSIVE operator.

### Only model-checked

- Liveness, and anything with ENABLED, which the prover does not reason about: `EveryRequestFinishes`,
  `EveryoneIsServed`, `LevelRecovers`, `ShutdownCompletes`, `CallsAreAnswered`, `PauseCompletes`,
  `RequestsFinish`, `GateOpens`, `SignalStopsUnlessLocked`.
- The composed machine `MCPeriphery` itself: the theorems are about the specification of each of
  its machines.
- What lies beyond a theorem's hypotheses: more than two batches in flight for the tokens, grammar
  requests for `SwapsServe` under the legacy, deadline and predictive policies (run `slot_swap` has
  one), the marker without the freeze.

Each property has a mutant of the code that breaks it, defined next to the definition it
replaces ("Mutant:" in the comments).

## Not modelled

The definitions stand for about a ninth of the implementation's lines. Most of the rest is no
state machine:

- **Text of the same program.** The patch generators (`config_yml_aira/0712-*`, `0713-*`, `0705-*`)
  hold, as text to insert, the code that is modelled in its patched form; `prefill_bias_vllm.py`
  is the same file as the modelled `prefill_bias.py`; `engine/arg_utils.py` is argument parsing,
  and the constraints the scheduler relies on are the ASSUMEs here.
- **Numerics.** Kernels (`qwen3_deltanet_opt`, `qwen_gdn_linear_attn.py`, FP8 head hooks) and the
  step-time estimators: floating point, out of TLC's reach.
- **Measurement and research.** Benchmarks (`air_mini_bench`, `air_scenario_lab`, the trace drivers
  of `prefill_chunked`), CAR-SIGReg, HiLeWM, air_data: scripts that run once, tasks that share
  nothing.
- **Sequential text processing.** `parser_postprocess/stitch` merges pages by markup, geometry and
  regular expressions; replaced by choices nothing would be left to check.
- **I/O.** Model clients, image utilities, OCR batch scripts, the LoRA demo, server wiring.
- **Inside the modelled parts.** What section 3 lists for each module: speculative decoding,
  encoder inputs, KV connectors, streaming sessions, elastic scaling of ranks, sleep level 0, the
  sockets and the output thread, the launcher's command lines, the router's requests without a
  JSON body, errors of the policies' estimators, the scan limits, tuning runs that are given the
  directory of an earlier one.
