------------------------- MODULE ConcurrentPrefill -------------------------
(***************************************************************************)
(* schedule() as three patches of earlier images make it, each over the    *)
(* unpatched loops of scheduler.py:                                        *)
(*   "v023"  prefill_chunked/scripts/scheduler_concurrent_prefill_v023.py  *)
(*   "v024"  0705-0940/patch_vllm_concurrent_prefill_v024.py               *)
(*   "cap"   sitecustomize.py, _patch_scheduler: no admission at all while *)
(*           enough prefills are partial.                                  *)
(* Scheduling is synchronous and FCFS, no prompt is cached, no request is  *)
(* blocked.  KV blocks are held by running requests: an allocation may     *)
(* fail while there are others.                                            *)
(***************************************************************************)
EXTENDS Integers, Sequences, FiniteSets, SequencesExt, Functions, Subsequences, Bounds

CONSTANTS
    Request, PromptTokens, MaxTokens,
    Patch,
    MaxNumScheduledTokens, MaxNumRunningReqs,
    MaxNumPartialPrefills, MaxLongPartialPrefills, LongPrefillTokenThreshold,
    PartialPrefillCap, PartialPrefillMinAge,   \* of "cap"
    MaxPreemptions                             \* bound: preemptions of a request

\* What the flags' parsers and the configuration allow.
ConcurrentAssumption ==
    /\ PromptTokens \in [Request -> Nat \ {0}] /\ MaxTokens \in [Request -> Nat \ {0}]
    /\ Patch \in {"v023", "v024", "cap"}
    /\ MaxNumScheduledTokens \in Nat \ {0} /\ MaxNumRunningReqs \in Nat
    /\ MaxNumPartialPrefills \in Nat /\ MaxLongPartialPrefills \in Nat
    /\ LongPrefillTokenThreshold \in Nat

VARIABLES
    waiting, skipped, running,   \* the queues
    status,        \* "new", "waiting", "running", "finished"
    computed, output, preemptions,
    age,           \* ages of "cap", up to PartialPrefillMinAge
    step           \* the locals of schedule()

concurrentVars ==
    <<waiting, skipped, running, status, computed, output, preemptions, age, step>>

NoStep == [phase |-> "idle", index |-> 1, budget |-> 0, slot |-> 0, active |-> 0, long |-> 0,
           tokens |-> [r \in Request |-> 0], passed |-> <<>>, held |-> <<>>, preempted |-> FALSE]

Init ==
    /\ waiting = <<>> /\ skipped = <<>> /\ running = <<>>
    /\ status = [r \in Request |-> "new"]
    /\ computed = [r \in Request |-> 0] /\ output = [r \in Request |-> 0]
    /\ preemptions = [r \in Request |-> 0] /\ age = [r \in Request |-> 0]
    /\ step = NoStep

NumTokens(r) == PromptTokens[r] + output[r]

\* PrefillState.
IsPrefill(r) == output[r] = 0 /\ computed[r] < PromptTokens[r]
Remaining(r) == PromptTokens[r] - computed[r]
IsLong(r) == IsPrefill(r) /\ Remaining(r) > LongPrefillTokenThreshold

Prefills(queue) == {r \in ToSet(queue) : IsPrefill(r)}
Longs(queue) == {r \in ToSet(queue) : IsLong(r)}

----------------------------------------------------------------------------
(* The start of schedule().                                                *)

\* enable_concurrent_partial_prefill_scheduling: with the default of 1 there
\* are neither limits nor slots.
Concurrent == Patch # "cap" /\ MaxNumPartialPrefills > 1

Arrive(r) ==
    /\ step.phase = "idle" /\ status[r] = "new"
    /\ status' = [status EXCEPT ![r] = "waiting"]
    /\ waiting' = Append(waiting, r)
    /\ UNCHANGED <<skipped, running, computed, output, preemptions, age, step>>

\* _build_partial_prefill_metadata: the running prefills and the waiting ones
\* that the quotas leave room for.
Schedulable ==
    LET queue == IF Patch = "v024" THEN skipped \o waiting ELSE waiting
        active == Cardinality(Prefills(running))
        short == Cardinality(Prefills(queue) \ Longs(queue))
        long == Least(Cardinality(Longs(queue)),
                      Monus(MaxLongPartialPrefills, Cardinality(Longs(running))))
    IN  Least(MaxNumPartialPrefills, active + short + long)

\* _get_prefill_slot_budget.
SlotBudget ==
    IF Schedulable = 0 THEN MaxNumScheduledTokens
    ELSE IF MaxNumScheduledTokens < Schedulable THEN 1
    ELSE MaxNumScheduledTokens \div Schedulable

Partial == {r \in ToSet(running) : computed[r] < PromptTokens[r]}
AgeNow(r) == IF r \in Partial THEN Least(PartialPrefillMinAge, age[r] + 1) ELSE 0

\* capped_schedule takes everyone who waits out of the queues.
Holds ==
    /\ Patch = "cap" /\ waiting \o skipped # <<>>
    /\ Cardinality({r \in Partial : AgeNow(r) >= PartialPrefillMinAge}) >= PartialPrefillCap

StartSchedule ==
    /\ step.phase = "idle" /\ waiting \o skipped \o running # <<>>
    /\ age' = [r \in Request |-> AgeNow(r)]
    /\ step' = [NoStep EXCEPT !.phase = "running", !.budget = MaxNumScheduledTokens,
                    !.slot = IF Concurrent THEN SlotBudget ELSE MaxNumScheduledTokens,
                    !.active = Cardinality(Prefills(running)), !.long = Cardinality(Longs(running)),
                    !.held = IF Holds THEN waiting \o skipped ELSE <<>>]
    /\ IF Holds THEN waiting' = <<>> /\ skipped' = <<>> ELSE UNCHANGED <<waiting, skipped>>
    /\ UNCHANGED <<running, status, computed, output, preemptions>>

----------------------------------------------------------------------------
(* The RUNNING loop.                                                       *)

\* num_new_tokens: what is left, a chunk of it, the budget, and the slot.
NewTokens(r) ==
    LET left == NumTokens(r) - computed[r]
        chunk == IF LongPrefillTokenThreshold > 0 THEN Least(LongPrefillTokenThreshold, left) ELSE left
    IN  Least(Least(chunk, step.budget), IF IsPrefill(r) THEN step.slot ELSE chunk)

InRunningLoop == step.phase = "running" /\ step.index <= Len(running) /\ step.budget > 0

RunningSchedule ==
    /\ InRunningLoop
    /\ LET r == running[step.index] IN
       step' = [step EXCEPT !.index = @ + 1, !.tokens[r] = NewTokens(r), !.budget = @ - NewTokens(r)]
    /\ UNCHANGED <<waiting, skipped, running, status, computed, output, preemptions, age>>

\* No blocks: the last of the running requests is preempted.
RunningPreempt ==
    LET v == Last(running) IN
    /\ InRunningLoop /\ Len(running) > 1 /\ preemptions[v] < MaxPreemptions
    /\ running' = Front(running) /\ waiting' = <<v>> \o waiting
    /\ status' = [status EXCEPT ![v] = "waiting"]
    /\ computed' = [computed EXCEPT ![v] = 0]
    /\ preemptions' = [preemptions EXCEPT ![v] = @ + 1]
    /\ step' = [step EXCEPT !.preempted = TRUE]
    /\ UNCHANGED <<skipped, output, age>>

RunningDone ==
    /\ step.phase = "running" /\ ~InRunningLoop
    /\ step' = [step EXCEPT !.phase = IF step.preempted THEN "end" ELSE "waiting"]
    /\ UNCHANGED <<waiting, skipped, running, status, computed, output, preemptions, age>>

----------------------------------------------------------------------------
(* The WAITING loop.                                                       *)

\* Mutant: only long prefills are counted, as in v023.
CanScheduleLong(n) == n > LongPrefillTokenThreshold => step.long < MaxLongPartialPrefills

\* can_schedule, can_schedule_prefill.
CanSchedule(n) ==
    /\ Patch = "v024" => step.active < MaxNumPartialPrefills
    /\ n > LongPrefillTokenThreshold => step.long < MaxLongPartialPrefills

Passed(r) == Concurrent /\ IsPrefill(r) /\ ~CanSchedule(Remaining(r))

\* _reorder_waiting_for_short_prefills: the first of the shortest prefills
\* that may be scheduled goes to the head; v023 looks at the limit of long
\* ones also where it does not apply it.
Promotable ==
    {i \in DOMAIN waiting : /\ IsPrefill(waiting[i])
                            /\ Concurrent \/ Patch = "v023" => CanSchedule(Remaining(waiting[i]))}

Reordered ==
    IF Patch = "cap" \/ Promotable = {} THEN waiting
    ELSE LET best == CHOOSE i \in Promotable : \A j \in Promotable :
                        \/ Remaining(waiting[i]) < Remaining(waiting[j])
                        \/ Remaining(waiting[i]) = Remaining(waiting[j]) /\ i <= j
         IN  <<waiting[best]>> \o RemoveAt(waiting, best)

InWaitingLoop ==
    /\ step.phase = "waiting" /\ waiting \o skipped # <<>>
    /\ step.budget > 0 /\ Len(running) < MaxNumRunningReqs

\* Those passed over in an earlier step come first.
NextWaiting == Head(skipped \o Reordered)

PopWaiting ==
    IF skipped = <<>> THEN waiting' = Tail(Reordered) /\ UNCHANGED skipped
                      ELSE waiting' = Reordered /\ skipped' = Tail(skipped)

WaitingPass ==
    /\ InWaitingLoop /\ Passed(NextWaiting)
    /\ PopWaiting
    /\ step' = [step EXCEPT !.passed = Append(@, NextWaiting)]
    /\ UNCHANGED <<running, status, computed, output, preemptions, age>>

\* Whether an admission counts: v024 leaves out a prompt that ends in the
\* step, v023 none.
Records(r) == Concurrent /\ IsPrefill(r) /\ (Patch = "v024" => computed[r] + NewTokens(r) < NumTokens(r))

WaitingAdmit ==
    /\ InWaitingLoop /\ ~Passed(NextWaiting)
    /\ PopWaiting
    /\ LET r == NextWaiting IN
       /\ running' = Append(running, r)
       /\ status' = [status EXCEPT ![r] = "running"]
       /\ step' = [step EXCEPT !.tokens[r] = NewTokens(r), !.budget = @ - NewTokens(r),
                       !.active = IF Records(r) THEN @ + 1 ELSE @,
                       !.long = IF Records(r) /\ IsLong(r) THEN @ + 1 ELSE @]
    /\ UNCHANGED <<computed, output, preemptions, age>>

\* The blocks of an admission do not fit.
WaitingNoKv ==
    /\ InWaitingLoop /\ ~Passed(NextWaiting) /\ running # <<>>
    /\ waiting' = Reordered
    /\ step' = [step EXCEPT !.phase = "end"]
    /\ UNCHANGED <<skipped, running, status, computed, output, preemptions, age>>

WaitingDone ==
    /\ step.phase = "waiting" /\ ~InWaitingLoop
    /\ step' = [step EXCEPT !.phase = "end"]
    /\ UNCHANGED <<waiting, skipped, running, status, computed, output, preemptions, age>>

----------------------------------------------------------------------------
(* The end of schedule(), and the step's result.                           *)

\* prepend_requests turns the order round.
PutBack == Reverse(step.held) \o waiting

Finish ==
    LET now(r) == computed[r] + step.tokens[r]
        samples(r) == step.tokens[r] > 0 /\ now(r) = NumTokens(r)
        done == {r \in Request : samples(r) /\ output[r] + 1 = MaxTokens[r]}
    IN  /\ step.phase = "end" /\ step' = NoStep
        /\ skipped' = Reverse(step.passed) \o skipped
        /\ waiting' = PutBack
        /\ computed' = [r \in Request |-> now(r)]
        /\ output' = [r \in Request |-> IF samples(r) THEN output[r] + 1 ELSE output[r]]
        /\ running' = Without(running, done)
        /\ status' = [r \in Request |-> IF r \in done THEN "finished" ELSE status[r]]
        /\ UNCHANGED <<preemptions, age>>

Engine ==
    \/ StartSchedule \/ RunningSchedule \/ RunningPreempt \/ RunningDone
    \/ WaitingPass \/ WaitingAdmit \/ WaitingNoKv \/ WaitingDone \/ Finish

Next == Engine \/ \E r \in Request : Arrive(r)

Spec == Init /\ [][Next]_concurrentVars /\ WF_concurrentVars(Engine)

----------------------------------------------------------------------------
(* Properties.                                                             *)

\* "the maximum number of sequences that can be partially prefilled
\* concurrently" (v024), and of long ones (both), where more than one is
\* allowed: between two steps no more prefills are under way, whatever was
\* preempted and passed over.
PartialsWithinLimit ==
    Concurrent /\ step.phase = "idle" =>
        /\ Patch = "v024" => Cardinality(Prefills(running)) <= MaxNumPartialPrefills
        /\ Cardinality(Longs(running)) <= MaxLongPartialPrefills

\* "chunk multiple active prefills fairly": in a step whose budget no decode
\* has used, and which has a token for each slot, no running prefill goes
\* without tokens because of the others.
PrefillsShareTheBudget ==
    /\ Concurrent /\ Patch = "v024" /\ step.phase \in {"waiting", "end"} /\ ~step.preempted
    /\ MaxNumPartialPrefills <= MaxNumScheduledTokens
    /\ \A r \in ToSet(running) : IsPrefill(r) \/ step.tokens[r] = 0
    => \A r \in Prefills(running) : step.tokens[r] > 0

\* A request is in the one queue its status names, also while the cap holds
\* those who wait and while some are passed over.
QueuesAreExact ==
    LET waits == waiting \o skipped \o step.passed \o step.held IN
    /\ IsInjective(waits \o running)
    /\ \A r \in Request : /\ r \in ToSet(waits) <=> status[r] = "waiting"
                          /\ r \in ToSet(running) <=> status[r] = "running"

\* Reordering, passing over and holding back starve nobody.
EveryRequestFinishes == \A r \in Request : status[r] = "waiting" ~> status[r] = "finished"
=============================================================================
