---------------------- MODULE AdaptivePrefillController ----------------------
(***************************************************************************)
(* AdaptivePrefillController of prefill_bias.py, and the calls by which    *)
(* Scheduler drives it: accepted tokens and finished requests feed a       *)
(* window of SLO observations, and every schedule() reads the pressure of  *)
(* the queues, lets the controller move its level, and takes its policy.   *)
(*                                                                         *)
(* Time is relative: the age of an observation, the time since the last    *)
(* update, the rest of the cooldown, each cut off where it stops to        *)
(* matter.  Whether a token came in time is a choice.                      *)
(***************************************************************************)
EXTENDS Integers, Sequences, FiniteSets

CONSTANTS
    Request,          \* ids; one that has finished stands for a new request
    Window,           \* adaptive_prefill_window_s
    ControlInterval,  \* adaptive_prefill_control_interval_s
    Cooldown,         \* adaptive_prefill_cooldown_s
    MinSamples,       \* adaptive_prefill_min_samples
    MaxSamples,       \* max(16, 8 * MinSamples) in the code
    MaxLevelStep,     \* adaptive_prefill_max_level_step
    TtftBadHigh,      \* 1 - adaptive_prefill_target_ttft_attainment, in percent
    TbtBadHigh,       \* 1 - adaptive_prefill_target_tbt_attainment, in percent
    TbtEmergency,     \* adaptive_prefill_tbt_emergency_ratio, in percent
    BaseReserve,      \* prefill_bias_reserve_tokens
    MinReserve,       \* adaptive_prefill_min_reserve_tokens
    MaxReserve,       \* adaptive_prefill_max_reserve_tokens
    SlotSwapEnabled   \* prefill_bias_slot_swap_enabled

ASSUME ControllerAssumption ==
    /\ Window \in Nat /\ ControlInterval \in Nat \ {0} /\ Cooldown \in Nat
    /\ MinSamples \in Nat \ {0} /\ MaxSamples \in Nat \ {0} /\ MaxLevelStep \in Nat \ {0}
    /\ TtftBadHigh \in Nat /\ TbtBadHigh \in Nat /\ TbtEmergency \in Nat
    /\ BaseReserve \in Nat /\ MinReserve \in Nat /\ MaxReserve \in Nat
    /\ MinReserve <= MaxReserve
    /\ SlotSwapEnabled \in BOOLEAN

VARIABLES
    state, level,     \* of the controller
    policy,           \* _policy, what maybe_update returns
    requests,         \* _requests: observations of the requests with a first token
    completed,        \* _completed, oldest first
    sinceUpdate,      \* now - last_update_monotonic_s, up to ControlInterval
    cooldown,         \* _cooldown_until_s - now, down to 0
    unfinished,       \* the requests of the scheduler
    used,             \* Scheduler._adaptive_prefill_policy
    swapTried,        \* a slot swap has been attempted, so swap statistics exist
    sloFinite         \* never changes: the SLOs of this deployment are finite; the
                      \* configuration only wants them > 0

control  == <<state, level, policy>>
observed == <<requests, completed>>
timers   == <<sinceUpdate, cooldown>>
vars     == <<control, observed, timers, unfinished, used, swapTried, sloFinite>>

States == {"COLD_START", "BALANCED", "PREFILL_RECOVERY", "DECODE_PROTECT", "OVERLOAD", "FAIL_SAFE"}
Levels == -2..2

AtLeast(lo, n) == IF n < lo THEN lo ELSE n
AtMost(hi, n)  == IF n > hi THEN hi ELSE n

ReserveStep == AtLeast(16, BaseReserve \div 2)

\* Mutant: the state is not looked at.
SwapAllowedAnyState(l, s) == SlotSwapEnabled /\ l >= 1

SwapAllowed(l, s) ==
    SlotSwapEnabled /\ l >= 1 /\ s \notin {"DECODE_PROTECT", "OVERLOAD", "FAIL_SAFE"}

PolicyForLevel(l, s) ==
    [level   |-> l,
     state   |-> s,
     reserve |-> AtLeast(MinReserve, AtMost(MaxReserve, BaseReserve + l * ReserveStep)),
     swap    |-> SwapAllowed(l, s)]

BaselinePolicy ==
    [level |-> 0, state |-> "COLD_START", reserve |-> BaseReserve, swap |-> SlotSwapEnabled]

Init ==
    /\ state = "COLD_START" /\ level = 0
    /\ policy = BaselinePolicy
    /\ requests = [r \in {} |-> [ttftOk |-> FALSE, tbtOk |-> TRUE, sampled |-> FALSE]]
    /\ completed = <<>>
    /\ sinceUpdate = ControlInterval     \* last_update_monotonic_s = 0 means never
    /\ cooldown = 0
    /\ unfinished = {}
    /\ used = policy
    /\ swapTried = FALSE /\ sloFinite \in BOOLEAN

-----------------------------------------------------------------------------
(* The window of finished requests *)

\* Mutant: at most one old observation goes.
TrimOne(q) == IF q # <<>> /\ Head(q).age > Window THEN Tail(q) ELSE q

\* _trim_window: the queue is popped from the left, first while its head is old,
\* then while it is longer than MaxSamples.
Old(q) == Cardinality({i \in DOMAIN q : \A j \in 1..i : q[j].age > Window})

Trim(q) == SubSeq(q, 1 + AtLeast(Old(q), Len(q) - MaxSamples), Len(q))

TtftViolations(q) == Cardinality({i \in DOMAIN q : ~q[i].ttftOk})
TbtViolations(q)  == Cardinality({i \in DOMAIN q : ~q[i].tbtOk})

\* The share n / Len(q) is above pct percent.
Above(n, q, pct) == 100 * n > pct * Len(q)

EnoughSamples(q) == Len(q) >= MinSamples
TtftBad(q)       == Above(TtftViolations(q), q, TtftBadHigh)
TbtBad(q)        == Above(TbtViolations(q), q, TbtBadHigh)
TbtDanger(q)     == Above(TbtViolations(q), q, AtLeast(TbtBadHigh, TbtEmergency))
TbtCalm(q)       == 200 * TbtViolations(q) <= TbtBadHigh * Len(q)

-----------------------------------------------------------------------------
(* Observations, made in update_from_output and in _free_request *)

Become(s, l) ==
    /\ state' = s /\ level' = l
    /\ policy' = PolicyForLevel(l, s)

\* Mutant: the policy is not rebuilt.
EnterFailSafeLater == state' = "FAIL_SAFE" /\ level' = -2 /\ UNCHANGED policy

EnterFailSafe == Become("FAIL_SAFE", -2)

Arrive(r) ==
    /\ r \notin unfinished
    /\ unfinished' = unfinished \cup {r}
    /\ UNCHANGED <<control, observed, timers, used, swapTried, sloFinite>>

\* What is known of r after a token that came in time (ok) or late.
Observation(r, ok) ==
    IF r \in DOMAIN requests
    THEN [requests[r] EXCEPT !.tbtOk = @ /\ ok, !.sampled = TRUE]
    ELSE [ttftOk |-> ok, tbtOk |-> TRUE, sampled |-> FALSE]

\* observe_accepted_tokens
AcceptTokens(r) ==
    /\ r \in unfinished
    /\ IF sloFinite
       THEN /\ \E ok \in BOOLEAN :
                 requests' = [q \in DOMAIN requests \cup {r} |->
                                 IF q = r THEN Observation(r, ok) ELSE requests[q]]
            /\ UNCHANGED control
       ELSE EnterFailSafe /\ UNCHANGED requests
    /\ UNCHANGED <<completed, timers, unfinished, used, swapTried, sloFinite>>

\* A request without a first token has missed both SLOs.
Outcome(r) ==
    IF r \in DOMAIN requests
    THEN [age |-> 0, ttftOk |-> requests[r].ttftOk, tbtOk |-> requests[r].tbtOk]
    ELSE [age |-> 0, ttftOk |-> FALSE, tbtOk |-> FALSE]

Dropped(r) == {r}

\* observe_request_finished, for a request that stops or is aborted.
Finish(r) ==
    /\ r \in unfinished
    /\ unfinished' = unfinished \ {r}
    /\ requests' = [q \in DOMAIN requests \ Dropped(r) |-> requests[q]]
    /\ completed' = Trim(Append(completed, Outcome(r)))
    /\ UNCHANGED <<control, timers, used, swapTried, sloFinite>>

-----------------------------------------------------------------------------
(* _decide_next, one action for each way out *)

FailsSafe(unstable) == state = "FAIL_SAFE" \/ unstable

FailSafe(unstable) ==
    FailsSafe(unstable) /\ EnterFailSafe /\ UNCHANGED cooldown

\* _cold_start_decision: waiting prefills are near their TTFT and nobody decodes.
ColdStart(q, pressing) ==
    /\ ~EnoughSamples(q)
    /\ Become("COLD_START", IF level < 1 /\ pressing THEN 1 ELSE level)
    /\ UNCHANGED cooldown

Lowered == AtLeast(-2, level - MaxLevelStep)

DecodeProtect(q) ==
    /\ EnoughSamples(q) /\ TbtDanger(q)
    /\ Become("DECODE_PROTECT", Lowered)
    /\ UNCHANGED cooldown

Overload(q) ==
    /\ EnoughSamples(q) /\ ~TbtDanger(q) /\ TbtBad(q) /\ TtftBad(q)
    /\ Become("OVERLOAD", AtMost(0, level))
    /\ UNCHANGED cooldown

PrefillRecovery(q) ==
    /\ EnoughSamples(q) /\ ~TbtDanger(q) /\ ~TbtBad(q) /\ TtftBad(q)
    /\ IF cooldown > 0
       THEN Become(state, level) /\ UNCHANGED cooldown
       ELSE Become("PREFILL_RECOVERY", AtMost(2, level + 1)) /\ cooldown' = Cooldown

\* Mutant: a lowered level is not raised again.
TowardsZeroFromAbove(q) == IF level > 0 THEN level - 1 ELSE level

TowardsZero(q) ==
    IF level > 0 THEN level - 1 ELSE IF level < 0 /\ TbtCalm(q) THEN level + 1 ELSE level

Balanced(q) ==
    /\ EnoughSamples(q) /\ ~TbtDanger(q) /\ ~TtftBad(q)
    /\ Become("BALANCED", TowardsZero(q))
    /\ UNCHANGED cooldown

\* maybe_update, on the observations q that are left in the window.
MaybeUpdate(q, pressing, unstable) ==
    IF sinceUpdate < ControlInterval
    THEN UNCHANGED <<control, timers>>
    ELSE /\ sinceUpdate' = 0
         /\ \/ FailSafe(unstable)
            \/ ~FailsSafe(unstable) /\ \/ ColdStart(q, pressing) \/ DecodeProtect(q)
                                       \/ Overload(q) \/ PrefillRecovery(q) \/ Balanced(q)

\* _adaptive_prefill_observe_pressure and _adaptive_prefill_refresh_policy, at the
\* head of schedule(), and the swap attempt later in the same call.
Schedule ==
    /\ \E pressing \in {FALSE, unfinished \ DOMAIN requests # {}},
          unstable \in {FALSE, swapTried} :
         MaybeUpdate(Trim(completed), pressing, unstable)
    /\ completed' = Trim(completed)
    /\ used' = policy'
    /\ swapTried' = (swapTried \/ used'.swap)
    /\ UNCHANGED <<requests, unfinished, sloFinite>>

Tick ==
    /\ completed' = [i \in DOMAIN completed |->
                        [completed[i] EXCEPT !.age = AtMost(Window + 1, @ + 1)]]
    /\ sinceUpdate' = AtMost(ControlInterval, sinceUpdate + 1)
    /\ cooldown' = AtLeast(0, cooldown - 1)
    /\ UNCHANGED <<control, requests, unfinished, used, swapTried, sloFinite>>

Next ==
    \/ \E r \in Request : Arrive(r) \/ AcceptTokens(r) \/ Finish(r)
    \/ Schedule
    \/ Tick

Spec == Init /\ [][Next]_vars

\* The engine loop calls schedule() again and again, and time passes.
FairSpec == Spec /\ WF_vars(Schedule) /\ WF_vars(Tick)

-----------------------------------------------------------------------------
(* Properties *)

Policies == [level : Levels, state : States, reserve : Nat, swap : BOOLEAN]
Known    == [ttftOk : BOOLEAN, tbtOk : BOOLEAN, sampled : BOOLEAN]

TypeOK ==
    /\ state \in States /\ level \in Levels
    /\ policy \in Policies /\ used \in Policies
    /\ unfinished \subseteq Request
    /\ DOMAIN requests \subseteq Request
    /\ requests \in [DOMAIN requests -> Known]
    /\ completed \in Seq([age : 0..(Window + 1), ttftOk : BOOLEAN, tbtOk : BOOLEAN])
    /\ sinceUpdate \in 0..ControlInterval /\ cooldown \in 0..Cooldown
    /\ swapTried \in BOOLEAN /\ sloFinite \in BOOLEAN

\* Observations are kept for requests the scheduler still has: whichever way a
\* request ends, nothing of it stays behind to be taken for a later one's.
TrackedAreUnfinished == DOMAIN requests \subseteq unfinished

\* Fail-safe is for good, whatever raised it and whatever comes later; and the
\* next schedule() already works without swaps, even within a control interval.
FailSafeHolds ==
    [][/\ state = "FAIL_SAFE" => state' = "FAIL_SAFE"
       /\ Schedule /\ state' = "FAIL_SAFE" =>
            used'.state = "FAIL_SAFE" /\ used'.level = -2 /\ ~used'.swap]_vars

\* No decision counts a request that finished longer ago than the window.
DecisionsUseFreshSamples ==
    [][Schedule => \A i \in DOMAIN completed' : completed'[i].age <= Window]_vars

\* What the controller knows is of requests that exist and of the window it
\* decides on, in a well-typed state.
ObservationsAreCurrent == [](TypeOK /\ TrackedAreUnfinished) /\ DecisionsUseFreshSamples

\* Once enough requests finished and too many of their decodes were late, the next
\* update takes the slot swap away, from whatever level, and a swap stays off
\* while both SLOs are missed.
SwapOffWhenDecodesSuffer ==
    [][/\ Schedule /\ sinceUpdate = ControlInterval
       /\ EnoughSamples(completed')
       /\ TbtDanger(completed') \/ (TbtBad(completed') /\ TtftBad(completed'))
       => ~used'.swap]_vars

Healthy ==
    LET q == Trim(completed) IN EnoughSamples(q) /\ ~TtftBad(q) /\ TbtCalm(q)

\* A level that was raised or lowered comes back to 0 when the SLOs are met.
LevelRecovers == <>[]Healthy => <>[](level = 0 \/ state = "FAIL_SAFE")

=============================================================================
