---------------------- MODULE ConcurrentPrefill_proofs ----------------------
(***************************************************************************)
(* The concurrent-prefill patches, for every set of requests and every     *)
(* configuration: each request is in the queue its status names, the       *)
(* limits on partial prefills hold between steps, and a prefill gets its   *)
(* share of the budget.                                                    *)
(***************************************************************************)
EXTENDS ConcurrentPrefill, DataLemmas

-----------------------------------------------------------------------------
(* The queues *)

Typed ==
    /\ waiting \in Seq(Request) /\ skipped \in Seq(Request) /\ running \in Seq(Request)
    /\ status \in [Request -> {"new", "waiting", "running", "finished"}]
    /\ computed \in [Request -> Nat] /\ output \in [Request -> Nat]
    /\ DOMAIN step = {"phase", "index", "budget", "slot", "active", "long", "tokens",
                      "passed", "held", "preempted"}
    /\ step.phase \in {"idle", "running", "waiting", "end"}
    /\ step.index \in Nat \ {0} /\ step.budget \in Nat /\ step.slot \in Nat
    /\ step.active \in Nat /\ step.long \in Nat
    /\ step.tokens \in [Request -> Nat] /\ step.preempted \in BOOLEAN
    /\ step.passed \in Seq(Request) /\ step.held \in Seq(Request)
    /\ step.phase = "idle" => /\ step.passed = <<>> /\ step.held = <<>>
                              /\ \A r \in Request : step.tokens[r] = 0
    /\ step.phase # "idle" => step.slot > 0

\* Nobody is in two queues, or in one twice.
Apart ==
    /\ IsInjective(waiting) /\ IsInjective(skipped) /\ IsInjective(running)
    /\ IsInjective(step.passed) /\ IsInjective(step.held)
    /\ ToSet(waiting) \cap ToSet(skipped) = {}
    /\ ToSet(waiting) \cap ToSet(step.passed) = {}
    /\ ToSet(waiting) \cap ToSet(step.held) = {}
    /\ ToSet(skipped) \cap ToSet(step.passed) = {}
    /\ ToSet(skipped) \cap ToSet(step.held) = {}
    /\ ToSet(step.passed) \cap ToSet(step.held) = {}

Waits == ToSet(waiting) \cup ToSet(skipped) \cup ToSet(step.passed) \cup ToSet(step.held)

\* The status says who waits and who runs.
Where ==
    \A r \in Request : /\ r \in Waits <=> status[r] = "waiting"
                       /\ r \in ToSet(running) <=> status[r] = "running"

\* Nobody is given more tokens than there are to compute.
Needed == \A r \in Request : computed[r] + step.tokens[r] <= NumTokens(r)

\* Who has tokens runs, and the RUNNING loop has come past him.
Given ==
    \A r \in Request : step.tokens[r] > 0 =>
        \E j \in DOMAIN running :
            running[j] = r /\ (step.phase = "running" => j < step.index)

CInv == Typed /\ Apart /\ Where /\ Needed /\ Given

-----------------------------------------------------------------------------
(* The limits *)

\* A prefill that runs, or a long one, once this step's tokens are computed.
Unfinished(r) == output[r] = 0 /\ computed[r] + step.tokens[r] < PromptTokens[r]
LongLeft(r) ==
    Unfinished(r) /\ PromptTokens[r] - (computed[r] + step.tokens[r]) > LongPrefillTokenThreshold

\* Prefills that will run after the step: in the RUNNING loop those that run
\* now, for one that is preempted is gone.
Partials == IF step.phase \in {"idle", "running"} THEN Prefills(running)
            ELSE {r \in ToSet(running) : Unfinished(r)}
LongPartials == IF step.phase \in {"idle", "running"} THEN Longs(running)
                ELSE {r \in ToSet(running) : LongLeft(r)}

\* The step's counters bound them, and the limits bound the counters.
Limits ==
    /\ Concurrent /\ Patch = "v024" =>
        /\ Cardinality(Partials) <= MaxNumPartialPrefills
        /\ step.phase # "idle" => /\ Cardinality(Partials) <= step.active
                                  /\ step.active <= MaxNumPartialPrefills
    /\ Concurrent =>
        /\ Cardinality(LongPartials) <= MaxLongPartialPrefills
        /\ step.phase # "idle" => /\ Cardinality(LongPartials) <= step.long
                                  /\ step.long <= MaxLongPartialPrefills

\* The prefills the RUNNING loop has yet to come to.
Ahead == {r \in Prefills(running) : \E j \in DOMAIN running : j >= step.index /\ running[j] = r}

\* Nobody but prefills has been given a token up to here.
OnlyPrefills ==
    \A j \in DOMAIN running : j < step.index => IsPrefill(running[j]) \/ step.tokens[running[j]] = 0

\* Each prefill ahead finds its slot in the budget, and those behind have had
\* some of theirs.
SharesAhead ==
    /\ step.budget >= step.slot * Cardinality(Ahead)
    /\ \A j \in DOMAIN running :
          j < step.index /\ IsPrefill(running[j]) => step.tokens[running[j]] > 0

Shares ==
    /\ Concurrent /\ Patch = "v024" /\ step.phase = "running" /\ ~step.preempted
       /\ MaxNumPartialPrefills <= MaxNumScheduledTokens /\ OnlyPrefills
       => SharesAhead
    /\ PrefillsShareTheBudget
-----------------------------------------------------------------------------
(* Where everybody is *)

LEMMA FreshLocals ==
    /\ DOMAIN NoStep = {"phase", "index", "budget", "slot", "active", "long", "tokens",
                        "passed", "held", "preempted"}
    /\ NoStep.phase = "idle" /\ NoStep.index = 1 /\ NoStep.budget = 0 /\ NoStep.slot = 0
    /\ NoStep.active = 0 /\ NoStep.long = 0 /\ NoStep.preempted = FALSE
    /\ NoStep.passed = <<>> /\ NoStep.held = <<>>
    /\ NoStep.tokens \in [Request -> Nat] /\ \A r \in Request : NoStep.tokens[r] = 0
BY DEF NoStep

LEMMA InitC == ConcurrentAssumption /\ Init => CInv
<1> SUFFICES ASSUME ConcurrentAssumption, Init PROVE CInv  OBVIOUS
<1>1. Typed
  <2> DEFINE none == <<>>
  <2>1. none \in Seq(Request) /\ 0 \in Nat /\ 1 \in Nat \ {0}  OBVIOUS
  <2>2. waiting = none /\ skipped = none /\ running = none /\ step = NoStep
    BY DEF Init
  <2>3. NoStep.passed = none /\ NoStep.held = none  BY FreshLocals
  <2> HIDE DEF none
  <2>4. step.passed \in Seq(Request) /\ step.held \in Seq(Request)  BY <2>1, <2>2, <2>3
  <2>5. /\ step.phase = "idle" /\ step.index = 1 /\ step.budget = 0 /\ step.slot = 0
        /\ step.active = 0 /\ step.long = 0 /\ step.preempted = FALSE
        /\ step.tokens \in [Request -> Nat] /\ \A r \in Request : step.tokens[r] = 0
    BY <2>2, FreshLocals
  <2>6. /\ status \in [Request -> {"new", "waiting", "running", "finished"}]
        /\ computed \in [Request -> Nat] /\ output \in [Request -> Nat]
    BY DEF Init
  <2>7. step.passed = <<>> /\ step.held = <<>>
        /\ DOMAIN step = {"phase", "index", "budget", "slot", "active", "long", "tokens",
                           "passed", "held", "preempted"}
    BY <2>2, FreshLocals
  <2> QED  BY <2>1, <2>2, <2>4, <2>5, <2>6, <2>7 DEF Typed
<1>2. /\ waiting = <<>> /\ skipped = <<>> /\ running = <<>>
      /\ step.passed = <<>> /\ step.held = <<>>
  BY FreshLocals DEF Init
<1>3. ToSet(<<>>) = {} /\ IsInjective(<<>>)
  <2>1. <<>> \in Seq(Request) /\ Len(<<>>) = 0  OBVIOUS
  <2> QED  BY <2>1 DEF ToSet, IsInjective
<1>4. Apart  BY <1>2, <1>3 DEF Apart
<1>5. Where  BY <1>2, <1>3 DEF Where, Waits, Init
<1>6. Needed
  <2>1. \A r \in Request : computed[r] = 0 /\ step.tokens[r] = 0 /\ output[r] = 0
    BY FreshLocals DEF Init
  <2> QED  BY <2>1 DEF Needed, NumTokens, ConcurrentAssumption
<1>7. Given
  <2>1. \A r \in Request : step.tokens[r] = 0  BY FreshLocals DEF Init
  <2> QED  BY <2>1 DEF Given
<1> QED  BY <1>1, <1>4, <1>5, <1>6, <1>7 DEF CInv

\* Tokens for a request: what it still needs, of what the step and its slot
\* have.
LEMMA NewTokensFacts ==
    ASSUME ConcurrentAssumption, CInv, NEW r \in Request
    PROVE  /\ NewTokens(r) \in Nat /\ NewTokens(r) <= step.budget
           /\ computed[r] + NewTokens(r) <= NumTokens(r)
           /\ IsPrefill(r) => NewTokens(r) <= step.slot
           /\ IsPrefill(r) /\ step.slot > 0 /\ step.budget > 0 => NewTokens(r) > 0
           /\ IsPrefill(r) => NumTokens(r) = PromptTokens[r]
<1>1. /\ computed[r] \in Nat /\ output[r] \in Nat /\ step.tokens[r] \in Nat
      /\ PromptTokens[r] \in Nat /\ NumTokens(r) = PromptTokens[r] + output[r]
      /\ computed[r] + step.tokens[r] <= NumTokens(r)
      /\ step.budget \in Nat /\ step.slot \in Nat
  BY DEF CInv, Typed, Needed, ConcurrentAssumption, NumTokens
<1> DEFINE left == NumTokens(r) - computed[r]
           part == IF LongPrefillTokenThreshold > 0 THEN Least(LongPrefillTokenThreshold, left)
                   ELSE left
<1>2. left \in Nat /\ computed[r] + left = NumTokens(r)  BY <1>1
<1>3. IsPrefill(r) => left > 0 /\ NumTokens(r) = PromptTokens[r]  BY <1>1 DEF IsPrefill
<1>4. NewTokens(r) = Least(Least(part, step.budget), IF IsPrefill(r) THEN step.slot ELSE part)
  BY DEF NewTokens
<1> HIDE DEF left
<1>5. part \in Nat /\ part <= left /\ (left > 0 => part > 0)
  BY <1>2 DEF Least, ConcurrentAssumption
<1> HIDE DEF part
<1>6. /\ NewTokens(r) \in Nat /\ NewTokens(r) <= step.budget /\ NewTokens(r) <= part
      /\ IsPrefill(r) => NewTokens(r) <= step.slot
      /\ IsPrefill(r) /\ step.slot > 0 /\ step.budget > 0 /\ part > 0 => NewTokens(r) > 0
  BY <1>1, <1>4, <1>5 DEF Least
<1>7. computed[r] + NewTokens(r) <= NumTokens(r)  BY <1>1, <1>2, <1>5, <1>6
<1> QED  BY <1>3, <1>5, <1>6, <1>7

\* The queue in its new order has the same requests.
LEMMA ReorderedFacts ==
    ASSUME ConcurrentAssumption, CInv
    PROVE  /\ Reordered \in Seq(Request) /\ IsInjective(Reordered)
           /\ ToSet(Reordered) = ToSet(waiting)
<1>1. waiting \in Seq(Request) /\ IsInjective(waiting)  BY DEF CInv, Typed, Apart
<1>2. CASE Patch = "cap" \/ Promotable = {}  BY <1>1, <1>2 DEF Reordered
<1>3. CASE ~(Patch = "cap" \/ Promotable = {})
  <2> DEFINE first(i) == \A j \in Promotable :
                             \/ Remaining(waiting[i]) < Remaining(waiting[j])
                             \/ Remaining(waiting[i]) = Remaining(waiting[j]) /\ i <= j
             best == CHOOSE i \in Promotable : first(i)
  <2>1. Promotable \subseteq 1..Len(waiting) /\ Len(waiting) \in Nat
    BY <1>1 DEF Promotable
  <2>2. \A i \in Promotable : Remaining(waiting[i]) \in Nat
    <3> SUFFICES ASSUME NEW i \in Promotable PROVE Remaining(waiting[i]) \in Nat  OBVIOUS
    <3>1. waiting[i] \in Request  BY <1>1, <2>1
    <3>2. IsPrefill(waiting[i])  BY DEF Promotable
    <3>3. computed[waiting[i]] \in Nat /\ PromptTokens[waiting[i]] \in Nat
      BY <3>1 DEF CInv, Typed, ConcurrentAssumption
    <3> QED  BY <3>2, <3>3 DEF IsPrefill, Remaining
  <2> DEFINE left == {Remaining(waiting[i]) : i \in Promotable}
  <2>3. left \in SUBSET Nat /\ left # {}  BY <1>3, <2>2
  <2>4. PICK least \in left : \A x \in left : least <= x
    <3> HIDE DEF left
    <3> QED  BY <2>3, NatMinimum
  <2> DEFINE at == {i \in Promotable : Remaining(waiting[i]) = least}
  <2>5. at \in SUBSET Nat /\ at # {}  BY <2>1, <2>4
  <2>6. PICK i \in at : \A j \in at : i <= j
    <3> HIDE DEF at
    <3> QED  BY <2>5, NatMinimum
  <2>7. first(i)
    <3> SUFFICES ASSUME NEW j \in Promotable
                 PROVE  \/ Remaining(waiting[i]) < Remaining(waiting[j])
                        \/ Remaining(waiting[i]) = Remaining(waiting[j]) /\ i <= j
      OBVIOUS
    <3>1. Remaining(waiting[i]) = least /\ least \in Nat  BY <2>2, <2>6
    <3>2. Remaining(waiting[j]) \in Nat /\ least <= Remaining(waiting[j])  BY <2>2, <2>4
    <3>3. CASE Remaining(waiting[j]) = least  BY <2>6, <3>1, <3>3
    <3>4. CASE Remaining(waiting[j]) # least  BY <3>1, <3>2, <3>4
    <3> QED  BY <3>3, <3>4
  <2>8. best \in Promotable
    <3>1. \E k \in Promotable : first(k)  BY <2>6, <2>7
    <3> HIDE DEF first
    <3> QED  BY <3>1
  <2>9. Reordered = <<waiting[best]>> \o RemoveAt(waiting, best)  BY <1>3 DEF Reordered
  <2> HIDE DEF best, first, left, at
  <2>10. best \in 1..Len(waiting)  BY <2>1, <2>8
  <2> DEFINE rest == RemoveAt(waiting, best)
             b == waiting[best]
  <2>11. /\ b \in Request /\ b \in ToSet(waiting) /\ rest \in Seq(Request)
         /\ IsInjective(rest) /\ ToSet(rest) = ToSet(waiting) \ {b}
    BY <1>1, <2>10, RemoveFacts
  <2>12. Reordered = <<b>> \o rest  BY <2>9
  <2> HIDE DEF rest, b
  <2>13. /\ <<b>> \o rest \in Seq(Request) /\ ToSet(<<b>> \o rest) = {b} \cup ToSet(rest)
         /\ IsInjective(<<b>> \o rest)
    BY <2>11, PushFacts
  <2> QED  BY <2>11, <2>12, <2>13
<1> QED  BY <1>2, <1>3

\* One request is taken off the queues.
LEMMA Popped ==
    ASSUME ConcurrentAssumption, CInv, InWaitingLoop, PopWaiting
    PROVE  /\ NextWaiting \in Request /\ NextWaiting \in ToSet(waiting) \cup ToSet(skipped)
           /\ waiting' \in Seq(Request) /\ skipped' \in Seq(Request)
           /\ IsInjective(waiting') /\ IsInjective(skipped')
           /\ ToSet(waiting') \subseteq ToSet(waiting) /\ ToSet(skipped') \subseteq ToSet(skipped)
           /\ ToSet(waiting') \cup ToSet(skipped')
                = (ToSet(waiting) \cup ToSet(skipped)) \ {NextWaiting}
<1> DEFINE w == Reordered
           r == NextWaiting
<1>1. w \in Seq(Request) /\ IsInjective(w) /\ ToSet(w) = ToSet(waiting)  BY ReorderedFacts
<1>2. /\ skipped \in Seq(Request) /\ IsInjective(skipped) /\ waiting \in Seq(Request)
      /\ ToSet(waiting) \cap ToSet(skipped) = {}
  BY DEF CInv, Typed, Apart
<1>3. waiting \o skipped # <<>>  BY DEF InWaitingLoop
<1>4. r = Head(skipped \o w)  BY DEF NextWaiting
<1>5. IF skipped = <<>> THEN waiting' = Tail(w) /\ skipped' = skipped
                        ELSE waiting' = w /\ skipped' = Tail(skipped)
  BY DEF PopWaiting
<1> HIDE DEF w, r
<1>6. CASE skipped = <<>>
  <2>1. ToSet(skipped) = {} /\ waiting # <<>>
    <3>1. ToSet(skipped) = {}  BY <1>2, <1>6, ElementFacts
    <3>2. waiting \o <<>> = waiting  BY <1>2
    <3> QED  BY <1>3, <1>6, <3>1, <3>2
  <2>2. w # <<>>
    <3>1. ToSet(waiting) # {}  BY <1>2, <2>1, ElementFacts
    <3> QED  BY <1>1, <3>1, ElementFacts
  <2>3. r = Head(w)
    <3>1. <<>> \o w = w  BY <1>1
    <3> QED  BY <1>4, <1>6, <3>1
  <2>4. /\ r \in Request /\ Tail(w) \in Seq(Request) /\ ToSet(w) = {r} \cup ToSet(Tail(w))
        /\ IsInjective(Tail(w)) /\ r \notin ToSet(Tail(w))
    BY <1>1, <2>2, <2>3, TailFacts, HeadFacts
  <2> QED  BY <1>1, <1>2, <1>5, <1>6, <2>1, <2>4 DEF r
<1>7. CASE skipped # <<>>
  <2>1. r = Head(skipped)
    <3>1. skipped \o w # <<>> /\ Head(skipped \o w) = Head(skipped)  BY <1>1, <1>2, <1>7
    <3> QED  BY <1>4, <3>1
  <2>2. /\ r \in Request /\ Tail(skipped) \in Seq(Request)
        /\ ToSet(skipped) = {r} \cup ToSet(Tail(skipped))
        /\ IsInjective(Tail(skipped)) /\ r \notin ToSet(Tail(skipped))
    BY <1>2, <1>7, <2>1, TailFacts, HeadFacts
  <2>3. r \notin ToSet(waiting)  BY <1>2, <2>2
  <2> QED  BY <1>1, <1>2, <1>5, <1>7, <2>2, <2>3 DEF r
<1> QED  BY <1>6, <1>7

-----------------------------------------------------------------------------
(* The queues through each action *)

\* A step of schedule() that touches no queue and no counter of a request.
Rests == UNCHANGED <<waiting, skipped, running, status, computed, output>>

LEMMA ArriveC == ASSUME ConcurrentAssumption, CInv, NEW r \in Request, Arrive(r) PROVE CInv'
<1>1. /\ status[r] = "new" /\ status' = [status EXCEPT ![r] = "waiting"]
      /\ waiting' = Append(waiting, r)
      /\ skipped' = skipped /\ running' = running /\ computed' = computed /\ output' = output
      /\ step' = step
  BY DEF Arrive
<1>2. Typed /\ Apart /\ Where /\ Needed /\ Given  BY DEF CInv
<1>3. /\ waiting \in Seq(Request) /\ IsInjective(waiting)
      /\ status \in [Request -> {"new", "waiting", "running", "finished"}]
  BY <1>2 DEF Typed, Apart
<1>4. r \notin Waits /\ r \notin ToSet(running)  BY <1>1, <1>2 DEF Where
<1>5. /\ waiting' \in Seq(Request) /\ IsInjective(waiting') /\ ToSet(waiting') = ToSet(waiting) \cup {r}
  BY <1>1, <1>3, <1>4, AppendFacts DEF Waits
<1>6. Typed'  BY <1>1, <1>2, <1>3, <1>5 DEF Typed
<1>7. Apart'  BY <1>1, <1>2, <1>4, <1>5 DEF Apart, Waits
<1>8. Waits' = Waits \cup {r}  BY <1>1, <1>5 DEF Waits
<1>9. Where'
  <2> SUFFICES ASSUME NEW s \in Request
               PROVE  (s \in Waits' <=> status'[s] = "waiting")
                      /\ (s \in ToSet(running') <=> status'[s] = "running")
    BY DEF Where
  <2>1. (s \in Waits <=> status[s] = "waiting") /\ (s \in ToSet(running) <=> status[s] = "running")
    BY <1>2 DEF Where
  <2>2. status'[s] = IF s = r THEN "waiting" ELSE status[s]  BY <1>1, <1>3
  <2> QED  BY <1>1, <1>4, <1>8, <2>1, <2>2
<1>10. Needed'  BY <1>1, <1>2 DEF Needed, NumTokens
<1>11. Given'  BY <1>1, <1>2 DEF Given
<1> QED  BY <1>6, <1>7, <1>9, <1>10, <1>11 DEF CInv

\* The tokens a prefill may take in a step: at least one.
LEMMA SlotIsPositive ==
    ASSUME ConcurrentAssumption, CInv
    PROVE  /\ Schedulable \in Nat /\ SlotBudget \in Nat \ {0}
           /\ Schedulable > 0 /\ Schedulable <= MaxNumScheduledTokens =>
                SlotBudget * Schedulable <= MaxNumScheduledTokens
<1> DEFINE queue == IF Patch = "v024" THEN skipped \o waiting ELSE waiting
           active == Cardinality(Prefills(running))
           short == Cardinality(Prefills(queue) \ Longs(queue))
           some == Cardinality(Longs(queue))
           long == Least(some, Monus(MaxLongPartialPrefills, Cardinality(Longs(running))))
<1>1. waiting \in Seq(Request) /\ skipped \in Seq(Request) /\ running \in Seq(Request)
  BY DEF CInv, Typed
<1>2. queue \in Seq(Request)  BY <1>1
<1> HIDE DEF queue
<1>3. IsFiniteSet(ToSet(queue)) /\ IsFiniteSet(ToSet(running))
  BY <1>1, <1>2, FiniteElements
<1>4. /\ Prefills(queue) \subseteq ToSet(queue) /\ Longs(queue) \subseteq ToSet(queue)
      /\ Prefills(running) \subseteq ToSet(running) /\ Longs(running) \subseteq ToSet(running)
      /\ Prefills(queue) \ Longs(queue) \subseteq ToSet(queue)
  BY DEF Prefills, Longs
<1>5. /\ IsFiniteSet(Prefills(queue) \ Longs(queue)) /\ IsFiniteSet(Longs(queue))
      /\ IsFiniteSet(Prefills(running)) /\ IsFiniteSet(Longs(running))
  BY <1>3, <1>4, FS_Subset
<1>6. active \in Nat /\ short \in Nat /\ some \in Nat /\ Cardinality(Longs(running)) \in Nat
  BY <1>5, FS_CardinalityType
<1>7. Schedulable = Least(MaxNumPartialPrefills, active + short + long)
  BY DEF Schedulable, queue
<1>8. MaxNumPartialPrefills \in Nat /\ MaxLongPartialPrefills \in Nat
      /\ MaxNumScheduledTokens \in Nat \ {0}
  BY DEF ConcurrentAssumption
<1> HIDE DEF active, short, some
<1>9. long \in Nat  BY <1>6, <1>8 DEF Least, Monus
<1> HIDE DEF long
<1>10. Schedulable \in Nat  BY <1>6, <1>7, <1>8, <1>9 DEF Least
<1>11. ASSUME NEW n \in Nat, n > 0, n <= MaxNumScheduledTokens
       PROVE  MaxNumScheduledTokens \div n \in Nat \ {0}
              /\ (MaxNumScheduledTokens \div n) * n <= MaxNumScheduledTokens
  BY <1>8, <1>11
<1> QED  BY <1>8, <1>10, <1>11 DEF SlotBudget

LEMMA StartC == ASSUME ConcurrentAssumption, CInv, StartSchedule PROVE CInv'
<1> DEFINE slot == IF Concurrent THEN SlotBudget ELSE MaxNumScheduledTokens
           active == Cardinality(Prefills(running))
           long == Cardinality(Longs(running))
           held == IF Holds THEN waiting \o skipped ELSE <<>>
<1>1. /\ step.phase = "idle"
      /\ step' = [NoStep EXCEPT !.phase = "running", !.budget = MaxNumScheduledTokens,
                      !.slot = slot, !.active = active, !.long = long, !.held = held]
      /\ running' = running /\ status' = status /\ computed' = computed /\ output' = output
      /\ IF Holds THEN waiting' = <<>> /\ skipped' = <<>>
                  ELSE waiting' = waiting /\ skipped' = skipped
  BY DEF StartSchedule
<1>2. Typed /\ Apart /\ Where /\ Needed /\ Given  BY DEF CInv
<1>3. /\ waiting \in Seq(Request) /\ skipped \in Seq(Request) /\ running \in Seq(Request)
      /\ step.passed = <<>> /\ step.held = <<>> /\ \A r \in Request : step.tokens[r] = 0
  BY <1>1, <1>2 DEF Typed
<1>4. ToSet(<<>>) = {} /\ <<>> \in Seq(Request) /\ IsInjective(<<>>)  BY <1>3, ElementFacts
<1>5. /\ waiting \o skipped \in Seq(Request) /\ IsInjective(waiting \o skipped)
      /\ ToSet(waiting \o skipped) = ToSet(waiting) \cup ToSet(skipped)
  BY <1>2, <1>3, ConcatFacts DEF Apart
<1>6. slot \in Nat \ {0}  BY SlotIsPositive DEF ConcurrentAssumption
<1>7. active \in Nat /\ long \in Nat
  <2>1. IsFiniteSet(ToSet(running))  BY <1>3, FiniteElements
  <2>2. Prefills(running) \subseteq ToSet(running) /\ Longs(running) \subseteq ToSet(running)
    BY DEF Prefills, Longs
  <2>3. IsFiniteSet(Prefills(running)) /\ IsFiniteSet(Longs(running))  BY <2>1, <2>2, FS_Subset
  <2> QED  BY <2>3, FS_CardinalityType
<1> HIDE DEF slot, active, long, held
<1>8. /\ DOMAIN step' = {"phase", "index", "budget", "slot", "active", "long", "tokens",
                         "passed", "held", "preempted"}
      /\ step'.phase = "running" /\ step'.index = 1 /\ step'.budget = MaxNumScheduledTokens
      /\ step'.slot = slot /\ step'.active = active /\ step'.long = long
      /\ step'.tokens = NoStep.tokens /\ step'.passed = <<>> /\ step'.held = held
      /\ step'.preempted = FALSE
  BY <1>1, FreshLocals
<1>9. /\ held \in Seq(Request) /\ IsInjective(held)
      /\ waiting' \in Seq(Request) /\ IsInjective(waiting')
      /\ skipped' \in Seq(Request) /\ IsInjective(skipped')
      /\ ToSet(waiting') \cap ToSet(skipped') = {} /\ ToSet(waiting') \cap ToSet(held) = {}
      /\ ToSet(skipped') \cap ToSet(held) = {}
      /\ ToSet(waiting') \cup ToSet(skipped') \cup ToSet(held) = ToSet(waiting) \cup ToSet(skipped)
  <2>1. CASE Holds
    <3>1. waiting' = <<>> /\ skipped' = <<>> /\ held = waiting \o skipped  BY <1>1, <2>1 DEF held
    <3> QED  BY <1>4, <1>5, <3>1
  <2>2. CASE ~Holds
    <3>1. waiting' = waiting /\ skipped' = skipped /\ held = <<>>  BY <1>1, <2>2 DEF held
    <3> QED  BY <1>2, <1>3, <1>4, <3>1 DEF Apart
  <2> QED  BY <2>1, <2>2
<1>10. Typed'
  <2>1. step'.tokens \in [Request -> Nat]  BY <1>8, FreshLocals
  <2>2. step'.index \in Nat \ {0} /\ step'.budget \in Nat /\ step'.slot \in Nat
        /\ step'.slot > 0 /\ step'.active \in Nat /\ step'.long \in Nat
    BY <1>6, <1>7, <1>8 DEF ConcurrentAssumption
  <2>3. step'.passed \in Seq(Request) /\ step'.held \in Seq(Request)  BY <1>4, <1>8, <1>9
  <2>4. step'.phase # "idle" /\ step'.phase \in {"idle", "running", "waiting", "end"}
        /\ step'.preempted \in BOOLEAN
    BY <1>8
  <2>5. /\ status' \in [Request -> {"new", "waiting", "running", "finished"}]
        /\ computed' \in [Request -> Nat] /\ output' \in [Request -> Nat]
        /\ running' \in Seq(Request)
    BY <1>1, <1>2 DEF Typed
  <2> QED  BY <1>8, <1>9, <2>1, <2>2, <2>3, <2>4, <2>5 DEF Typed
<1>11. Apart'  BY <1>1, <1>2, <1>4, <1>8, <1>9 DEF Apart
<1>12. Waits' = Waits  BY <1>3, <1>4, <1>8, <1>9 DEF Waits
<1>13. Where'  BY <1>1, <1>2, <1>12 DEF Where
<1>14. Needed'
  <2>1. \A r \in Request : step'.tokens[r] = 0 /\ step.tokens[r] = 0  BY <1>3, <1>8, FreshLocals
  <2> QED  BY <1>1, <1>2, <2>1 DEF Needed, NumTokens
<1>15. Given'
  <2>1. \A r \in Request : step'.tokens[r] = 0  BY <1>8, FreshLocals
  <2> QED  BY <2>1 DEF Given
<1> QED  BY <1>10, <1>11, <1>13, <1>14, <1>15 DEF CInv

LEMMA RunningScheduleC == ASSUME ConcurrentAssumption, CInv, RunningSchedule PROVE CInv'
<1> DEFINE r == running[step.index]
           n == NewTokens(r)
<1>1. Typed /\ Apart /\ Where /\ Needed /\ Given  BY DEF CInv
<1>2. /\ step' = [step EXCEPT !.index = @ + 1, !.tokens[r] = n, !.budget = @ - n]
      /\ waiting' = waiting /\ skipped' = skipped /\ running' = running /\ status' = status
      /\ computed' = computed /\ output' = output
      /\ step.phase = "running" /\ step.index <= Len(running)
  BY DEF RunningSchedule, InRunningLoop
<1>3. r \in Request  BY <1>1, <1>2 DEF Typed
<1>4. n \in Nat /\ n <= step.budget /\ computed[r] + n <= NumTokens(r)
  BY <1>3, NewTokensFacts
<1>5. step.index \in Nat \ {0} /\ step.budget \in Nat /\ step.tokens \in [Request -> Nat]
      /\ DOMAIN step = {"phase", "index", "budget", "slot", "active", "long", "tokens",
                         "passed", "held", "preempted"}
  BY <1>1 DEF Typed
<1> HIDE DEF r, n
<1>6. /\ DOMAIN step' = DOMAIN step /\ step'.phase = step.phase /\ step'.index = step.index + 1
      /\ step'.budget = step.budget - n /\ step'.slot = step.slot
      /\ step'.active = step.active /\ step'.long = step.long
      /\ step'.tokens = [step.tokens EXCEPT ![r] = n] /\ step'.passed = step.passed
      /\ step'.held = step.held /\ step'.preempted = step.preempted
  BY <1>2, <1>5
<1>7. step'.tokens \in [Request -> Nat] /\ step'.budget \in Nat /\ step'.index \in Nat \ {0}
      /\ \A s \in Request : step'.tokens[s] = IF s = r THEN n ELSE step.tokens[s]
  BY <1>3, <1>4, <1>5, <1>6
<1>8. Typed'  BY <1>1, <1>2, <1>6, <1>7 DEF Typed
<1>9. Apart'  BY <1>1, <1>2, <1>6 DEF Apart
<1>10. Where'  BY <1>1, <1>2, <1>6 DEF Where, Waits
<1>11. Needed'
  <2> SUFFICES ASSUME NEW s \in Request
               PROVE  computed'[s] + step'.tokens[s] <= PromptTokens[s] + output'[s]
    BY DEF Needed, NumTokens
  <2>1. computed[s] + step.tokens[s] <= PromptTokens[s] + output[s]
    BY <1>1 DEF Needed, NumTokens
  <2>2. CASE s = r  BY <1>2, <1>4, <1>7, <2>2 DEF NumTokens
  <2>3. CASE s # r  BY <1>2, <1>7, <2>1, <2>3
  <2> QED  BY <2>2, <2>3
<1>12. Given'
  <2> SUFFICES ASSUME NEW s \in Request, step'.tokens[s] > 0
               PROVE  \E j \in DOMAIN running' :
                        running'[j] = s /\ (step'.phase = "running" => j < step'.index)
    BY DEF Given
  <2>1. CASE s = r
    <3>1. step.index \in DOMAIN running /\ running[step.index] = s /\ step.index < step'.index
      BY <1>1, <1>2, <1>5, <1>6, <2>1 DEF Typed, r
    <3> QED  BY <1>2, <3>1
  <2>2. CASE s # r
    <3>1. PICK j \in DOMAIN running : running[j] = s /\ j < step.index
      BY <1>1, <1>2, <1>7, <2>2 DEF Given
    <3>2. j \in Nat
      <4>1. running \in Seq(Request)  BY <1>1 DEF Typed
      <4>2. DOMAIN running \subseteq Nat  BY <4>1
      <4> QED  BY <4>2
    <3>3. j < step'.index  BY <1>5, <1>6, <3>1, <3>2
    <3> QED  BY <1>2, <3>1, <3>3
  <2> QED  BY <2>1, <2>2
<1> QED  BY <1>8, <1>9, <1>10, <1>11, <1>12 DEF CInv

LEMMA RunningPreemptC == ASSUME ConcurrentAssumption, CInv, RunningPreempt PROVE CInv'
<1> DEFINE v == Last(running)
<1>1. Typed /\ Apart /\ Where /\ Needed /\ Given  BY DEF CInv
<1>2. /\ running' = Front(running) /\ waiting' = <<v>> \o waiting
      /\ status' = [status EXCEPT ![v] = "waiting"]
      /\ computed' = [computed EXCEPT ![v] = 0]
      /\ step' = [step EXCEPT !.preempted = TRUE]
      /\ skipped' = skipped /\ output' = output
      /\ step.phase = "running" /\ step.index <= Len(running) /\ Len(running) > 1
  BY DEF RunningPreempt, InRunningLoop
<1>3. running \in Seq(Request) /\ running # <<>> /\ waiting \in Seq(Request)
      /\ IsInjective(running) /\ IsInjective(waiting)
  BY <1>1, <1>2 DEF Typed, Apart
<1>4. /\ Front(running) \in Seq(Request) /\ v \in Request /\ v = running[Len(running)]
      /\ Len(Front(running)) = Len(running) - 1
      /\ \A i \in 1..(Len(running) - 1) : Front(running)[i] = running[i]
      /\ ToSet(running) = ToSet(Front(running)) \cup {v}
      /\ IsInjective(Front(running)) /\ v \notin ToSet(Front(running))
  BY <1>3, LastFacts
<1> HIDE DEF v
<1>5. v \notin Waits  BY <1>1, <1>4 DEF Where
<1>6. /\ waiting' \in Seq(Request) /\ ToSet(waiting') = {v} \cup ToSet(waiting)
      /\ IsInjective(waiting')
  BY <1>2, <1>3, <1>4, <1>5, PushFacts DEF Waits
<1>7. DOMAIN step = {"phase", "index", "budget", "slot", "active", "long", "tokens",
                      "passed", "held", "preempted"}
  BY <1>1 DEF Typed
<1>8. /\ DOMAIN step' = DOMAIN step /\ step'.phase = step.phase /\ step'.index = step.index
      /\ step'.budget = step.budget /\ step'.slot = step.slot
      /\ step'.active = step.active /\ step'.long = step.long
      /\ step'.tokens = step.tokens /\ step'.passed = step.passed
      /\ step'.held = step.held /\ step'.preempted = TRUE
  BY <1>2, <1>7
<1>9. /\ status' \in [Request -> {"new", "waiting", "running", "finished"}]
      /\ \A s \in Request : status'[s] = IF s = v THEN "waiting" ELSE status[s]
      /\ computed' \in [Request -> Nat]
      /\ \A s \in Request : computed'[s] = IF s = v THEN 0 ELSE computed[s]
  BY <1>1, <1>2, <1>4 DEF Typed
<1>10. Typed'  BY <1>1, <1>2, <1>4, <1>6, <1>8, <1>9 DEF Typed
<1>11. Apart'  BY <1>1, <1>2, <1>4, <1>5, <1>6, <1>8 DEF Apart, Waits
<1>12. Waits' = Waits \cup {v}  BY <1>2, <1>6, <1>8 DEF Waits
<1>13. Where'
  <2> SUFFICES ASSUME NEW s \in Request
               PROVE  (s \in Waits' <=> status'[s] = "waiting")
                      /\ (s \in ToSet(running') <=> status'[s] = "running")
    BY DEF Where
  <2>1. (s \in Waits <=> status[s] = "waiting") /\ (s \in ToSet(running) <=> status[s] = "running")
    BY <1>1 DEF Where
  <2> QED  BY <1>2, <1>4, <1>9, <1>12, <2>1
<1>14. Needed'
  <2> SUFFICES ASSUME NEW s \in Request
               PROVE  computed'[s] + step'.tokens[s] <= PromptTokens[s] + output'[s]
    BY DEF Needed, NumTokens
  <2>1. /\ computed[s] + step.tokens[s] <= PromptTokens[s] + output[s]
        /\ computed[s] \in Nat /\ step.tokens[s] \in Nat
        /\ PromptTokens[s] \in Nat /\ output[s] \in Nat
    BY <1>1 DEF Needed, NumTokens, Typed, ConcurrentAssumption
  <2>2. step'.tokens[s] = step.tokens[s] /\ output'[s] = output[s] /\ computed'[s] \in {0, computed[s]}
    BY <1>2, <1>8, <1>9
  <2> QED  BY <2>1, <2>2
<1>15. Given'
  <2> SUFFICES ASSUME NEW s \in Request, step'.tokens[s] > 0
               PROVE  \E j \in DOMAIN running' :
                        running'[j] = s /\ (step'.phase = "running" => j < step'.index)
    BY DEF Given
  <2>1. PICK j \in DOMAIN running : running[j] = s /\ j < step.index
    BY <1>1, <1>2, <1>8 DEF Given
  <2>2. j \in 1..(Len(running) - 1)
    <3>1. DOMAIN running = 1..Len(running) /\ Len(running) \in Nat  BY <1>3
    <3>2. step.index \in Nat  BY <1>1 DEF Typed
    <3> QED  BY <1>2, <2>1, <3>1, <3>2
  <2>3. j \in DOMAIN running' /\ running'[j] = s  BY <1>2, <1>4, <2>1, <2>2
  <2> QED  BY <1>8, <2>1, <2>3
<1> QED  BY <1>10, <1>11, <1>13, <1>14, <1>15 DEF CInv

LEMMA RunningDoneC == ASSUME ConcurrentAssumption, CInv, RunningDone PROVE CInv'
<1> DEFINE next == IF step.preempted THEN "end" ELSE "waiting"
<1>1. Typed /\ Apart /\ Where /\ Needed /\ Given  BY DEF CInv
<1>2. step' = [step EXCEPT !.phase = next] /\ Rests /\ step.phase = "running"
  BY DEF RunningDone, Rests
<1>3. next \in {"waiting", "end"}  OBVIOUS
<1> HIDE DEF next
<1>4. DOMAIN step = {"phase", "index", "budget", "slot", "active", "long", "tokens",
                      "passed", "held", "preempted"}
  BY <1>1 DEF Typed
<1>5. /\ DOMAIN step' = DOMAIN step /\ step'.phase = next /\ step'.index = step.index
      /\ step'.budget = step.budget /\ step'.slot = step.slot
      /\ step'.active = step.active /\ step'.long = step.long
      /\ step'.tokens = step.tokens /\ step'.passed = step.passed
      /\ step'.held = step.held /\ step'.preempted = step.preempted
  BY <1>2, <1>4
<1>6. Typed'  BY <1>1, <1>2, <1>3, <1>5 DEF Typed, Rests
<1>7. Apart'  BY <1>1, <1>2, <1>5 DEF Apart, Rests
<1>8. Where'  BY <1>1, <1>2, <1>5 DEF Where, Waits, Rests
<1>9. Needed'  BY <1>1, <1>2, <1>5 DEF Needed, NumTokens, Rests
<1>10. Given'  BY <1>1, <1>2, <1>3, <1>5 DEF Given, Rests
<1> QED  BY <1>6, <1>7, <1>8, <1>9, <1>10 DEF CInv

LEMMA WaitingDoneC == ASSUME ConcurrentAssumption, CInv, WaitingDone PROVE CInv'
<1>1. Typed /\ Apart /\ Where /\ Needed /\ Given  BY DEF CInv
<1>2. step' = [step EXCEPT !.phase = "end"] /\ Rests /\ step.phase = "waiting"
  BY DEF WaitingDone, Rests
<1>3. DOMAIN step = {"phase", "index", "budget", "slot", "active", "long", "tokens",
                      "passed", "held", "preempted"}
  BY <1>1 DEF Typed
<1>4. /\ DOMAIN step' = DOMAIN step /\ step'.phase = "end" /\ step'.index = step.index
      /\ step'.budget = step.budget /\ step'.slot = step.slot
      /\ step'.active = step.active /\ step'.long = step.long
      /\ step'.tokens = step.tokens /\ step'.passed = step.passed
      /\ step'.held = step.held /\ step'.preempted = step.preempted
  BY <1>2, <1>3
<1>5. Typed'  BY <1>1, <1>2, <1>4 DEF Typed, Rests
<1>6. Apart'  BY <1>1, <1>2, <1>4 DEF Apart, Rests
<1>7. Where'  BY <1>1, <1>2, <1>4 DEF Where, Waits, Rests
<1>8. Needed'  BY <1>1, <1>2, <1>4 DEF Needed, NumTokens, Rests
<1>9. Given'  BY <1>1, <1>2, <1>4 DEF Given, Rests
<1> QED  BY <1>5, <1>6, <1>7, <1>8, <1>9 DEF CInv

LEMMA WaitingNoKvC == ASSUME ConcurrentAssumption, CInv, WaitingNoKv PROVE CInv'
<1>1. Typed /\ Apart /\ Where /\ Needed /\ Given  BY DEF CInv
<1>2. /\ step' = [step EXCEPT !.phase = "end"] /\ step.phase = "waiting"
      /\ waiting' = Reordered /\ skipped' = skipped /\ running' = running /\ status' = status
      /\ computed' = computed /\ output' = output
  BY DEF WaitingNoKv, InWaitingLoop
<1>3. /\ waiting' \in Seq(Request) /\ IsInjective(waiting') /\ ToSet(waiting') = ToSet(waiting)
  BY <1>2, ReorderedFacts
<1>4. DOMAIN step = {"phase", "index", "budget", "slot", "active", "long", "tokens",
                      "passed", "held", "preempted"}
  BY <1>1 DEF Typed
<1>5. /\ DOMAIN step' = DOMAIN step /\ step'.phase = "end" /\ step'.index = step.index
      /\ step'.budget = step.budget /\ step'.slot = step.slot
      /\ step'.active = step.active /\ step'.long = step.long
      /\ step'.tokens = step.tokens /\ step'.passed = step.passed
      /\ step'.held = step.held /\ step'.preempted = step.preempted
  BY <1>2, <1>4
<1>6. Typed'  BY <1>1, <1>2, <1>3, <1>5 DEF Typed
<1>7. Apart'  BY <1>1, <1>2, <1>3, <1>5 DEF Apart
<1>8. Where'  BY <1>1, <1>2, <1>3, <1>5 DEF Where, Waits
<1>9. Needed'  BY <1>1, <1>2, <1>5 DEF Needed, NumTokens
<1>10. Given'  BY <1>1, <1>2, <1>5 DEF Given
<1> QED  BY <1>6, <1>7, <1>8, <1>9, <1>10 DEF CInv

LEMMA WaitingPassC == ASSUME ConcurrentAssumption, CInv, WaitingPass PROVE CInv'
<1> DEFINE r == NextWaiting
<1>1. Typed /\ Apart /\ Where /\ Needed /\ Given  BY DEF CInv
<1>2. /\ step' = [step EXCEPT !.passed = Append(@, r)] /\ step.phase = "waiting"
      /\ running' = running /\ status' = status /\ computed' = computed /\ output' = output
  BY DEF WaitingPass, InWaitingLoop
<1>3. InWaitingLoop /\ PopWaiting  BY DEF WaitingPass
<1>4. /\ r \in Request /\ r \in ToSet(waiting) \cup ToSet(skipped)
      /\ waiting' \in Seq(Request) /\ skipped' \in Seq(Request)
      /\ IsInjective(waiting') /\ IsInjective(skipped')
      /\ ToSet(waiting') \subseteq ToSet(waiting) /\ ToSet(skipped') \subseteq ToSet(skipped)
      /\ ToSet(waiting') \cup ToSet(skipped')
           = (ToSet(waiting) \cup ToSet(skipped)) \ {r}
  BY <1>3, Popped
<1> HIDE DEF r
<1>5. step.passed \in Seq(Request) /\ IsInjective(step.passed) /\ r \notin ToSet(step.passed)
      /\ r \notin ToSet(step.held)
  BY <1>1, <1>4 DEF Typed, Apart
<1>6. /\ Append(step.passed, r) \in Seq(Request) /\ IsInjective(Append(step.passed, r))
      /\ ToSet(Append(step.passed, r)) = ToSet(step.passed) \cup {r}
  BY <1>4, <1>5, AppendFacts
<1>7. DOMAIN step = {"phase", "index", "budget", "slot", "active", "long", "tokens",
                      "passed", "held", "preempted"}
  BY <1>1 DEF Typed
<1>8. /\ DOMAIN step' = DOMAIN step /\ step'.phase = "waiting" /\ step'.index = step.index
      /\ step'.budget = step.budget /\ step'.slot = step.slot
      /\ step'.active = step.active /\ step'.long = step.long
      /\ step'.tokens = step.tokens /\ step'.passed = Append(step.passed, r)
      /\ step'.held = step.held /\ step'.preempted = step.preempted
  BY <1>2, <1>7
<1>9. Typed'  BY <1>1, <1>2, <1>4, <1>6, <1>8 DEF Typed
<1>10. Apart'  BY <1>1, <1>2, <1>4, <1>5, <1>6, <1>8 DEF Apart
<1>11. Waits' = Waits  BY <1>4, <1>6, <1>8 DEF Waits
<1>12. Where'  BY <1>1, <1>2, <1>11 DEF Where
<1>13. Needed'  BY <1>1, <1>2, <1>8 DEF Needed, NumTokens
<1>14. Given'  BY <1>1, <1>2, <1>8 DEF Given
<1> QED  BY <1>9, <1>10, <1>12, <1>13, <1>14 DEF CInv

LEMMA WaitingAdmitC == ASSUME ConcurrentAssumption, CInv, WaitingAdmit PROVE CInv'
<1> DEFINE r == NextWaiting
           n == NewTokens(r)
           active == IF Records(r) THEN step.active + 1 ELSE step.active
           long == IF Records(r) /\ IsLong(r) THEN step.long + 1 ELSE step.long
<1>1. Typed /\ Apart /\ Where /\ Needed /\ Given  BY DEF CInv
<1>2. /\ step' = [step EXCEPT !.tokens[r] = n, !.budget = @ - n, !.active = active, !.long = long]
      /\ running' = Append(running, r) /\ status' = [status EXCEPT ![r] = "running"]
      /\ step.phase = "waiting"
      /\ computed' = computed /\ output' = output
  BY DEF WaitingAdmit, InWaitingLoop
<1>3. InWaitingLoop /\ PopWaiting  BY DEF WaitingAdmit
<1>4. /\ r \in Request /\ r \in ToSet(waiting) \cup ToSet(skipped)
      /\ waiting' \in Seq(Request) /\ skipped' \in Seq(Request)
      /\ IsInjective(waiting') /\ IsInjective(skipped')
      /\ ToSet(waiting') \subseteq ToSet(waiting) /\ ToSet(skipped') \subseteq ToSet(skipped)
      /\ ToSet(waiting') \cup ToSet(skipped')
           = (ToSet(waiting) \cup ToSet(skipped)) \ {r}
  BY <1>3, Popped
<1>5. n \in Nat /\ n <= step.budget /\ computed[r] + n <= NumTokens(r)
  BY <1>4, NewTokensFacts
<1>6. step.active \in Nat /\ step.long \in Nat /\ step.budget \in Nat
      /\ step.tokens \in [Request -> Nat] /\ step.index \in Nat
      /\ running \in Seq(Request) /\ IsInjective(running)
  BY <1>1 DEF Typed, Apart
<1>7. active \in Nat /\ long \in Nat  BY <1>6
<1> HIDE DEF r, n, active, long
<1>8. r \notin ToSet(step.passed) /\ r \notin ToSet(step.held)
  BY <1>1, <1>4 DEF Apart
<1>9. r \notin ToSet(running)
  <2>1. status[r] = "waiting"  BY <1>1, <1>4 DEF Where, Waits
  <2> QED  BY <1>1, <1>4, <2>1 DEF Where
<1>10. /\ Append(running, r) \in Seq(Request) /\ IsInjective(Append(running, r))
       /\ ToSet(Append(running, r)) = ToSet(running) \cup {r}
  BY <1>4, <1>6, <1>9, AppendFacts
<1>11. DOMAIN step = {"phase", "index", "budget", "slot", "active", "long", "tokens",
                       "passed", "held", "preempted"}
  BY <1>1 DEF Typed
<1>12. /\ DOMAIN step' = DOMAIN step /\ step'.phase = "waiting" /\ step'.index = step.index
       /\ step'.budget = step.budget - n /\ step'.slot = step.slot
       /\ step'.active = active /\ step'.long = long
       /\ step'.tokens = [step.tokens EXCEPT ![r] = n] /\ step'.passed = step.passed
       /\ step'.held = step.held /\ step'.preempted = step.preempted
  BY <1>2, <1>11
<1>13. step'.tokens \in [Request -> Nat] /\ step'.budget \in Nat
       /\ \A s \in Request : step'.tokens[s] = IF s = r THEN n ELSE step.tokens[s]
  BY <1>4, <1>5, <1>6, <1>12
<1>14. /\ status' \in [Request -> {"new", "waiting", "running", "finished"}]
       /\ \A s \in Request : status'[s] = IF s = r THEN "running" ELSE status[s]
  BY <1>1, <1>2, <1>4 DEF Typed
<1>15. Typed'  BY <1>1, <1>2, <1>4, <1>7, <1>10, <1>12, <1>13, <1>14 DEF Typed
<1>16. Apart'  BY <1>1, <1>2, <1>4, <1>10, <1>12 DEF Apart
<1>17. Waits' = Waits \ {r}  BY <1>4, <1>8, <1>12 DEF Waits
<1>18. Where'
  <2> SUFFICES ASSUME NEW s \in Request
               PROVE  (s \in Waits' <=> status'[s] = "waiting")
                      /\ (s \in ToSet(running') <=> status'[s] = "running")
    BY DEF Where
  <2>1. (s \in Waits <=> status[s] = "waiting") /\ (s \in ToSet(running) <=> status[s] = "running")
    BY <1>1 DEF Where
  <2> QED  BY <1>2, <1>10, <1>14, <1>17, <2>1
<1>19. Needed'
  <2> SUFFICES ASSUME NEW s \in Request
               PROVE  computed'[s] + step'.tokens[s] <= PromptTokens[s] + output'[s]
    BY DEF Needed, NumTokens
  <2>1. computed[s] + step.tokens[s] <= PromptTokens[s] + output[s]
    BY <1>1 DEF Needed, NumTokens
  <2>2. CASE s = r  BY <1>2, <1>5, <1>13, <2>2 DEF NumTokens
  <2>3. CASE s # r  BY <1>2, <1>13, <2>1, <2>3
  <2> QED  BY <2>2, <2>3
<1>20. Given'
  <2> SUFFICES ASSUME NEW s \in Request, step'.tokens[s] > 0
               PROVE  \E j \in DOMAIN running' : running'[j] = s
    BY <1>12 DEF Given
  <2>1. s \in ToSet(running')
    <3>1. CASE s = r  BY <1>2, <1>10, <3>1
    <3>2. CASE s # r
      <4>1. \E j \in DOMAIN running : running[j] = s  BY <1>1, <1>13, <3>2 DEF Given
      <4> QED  BY <1>2, <1>10, <4>1 DEF ToSet
    <3> QED  BY <3>1, <3>2
  <2> QED  BY <2>1 DEF ToSet
<1> QED  BY <1>15, <1>16, <1>18, <1>19, <1>20 DEF CInv

\* The requests a step finishes.
Samples(r) == step.tokens[r] > 0 /\ computed[r] + step.tokens[r] = NumTokens(r)
Done == {r \in Request : Samples(r) /\ output[r] + 1 = MaxTokens[r]}

\* The end of a step, item by item.
LEMMA Finished ==
    ASSUME Finish
    PROVE  /\ step.phase = "end" /\ step' = NoStep
           /\ skipped' = Reverse(step.passed) \o skipped
           /\ waiting' = Reverse(step.held) \o waiting
           /\ computed' = [r \in Request |-> computed[r] + step.tokens[r]]
           /\ output' = [r \in Request |-> IF Samples(r) THEN output[r] + 1 ELSE output[r]]
           /\ running' = Without(running, Done)
           /\ status' = [r \in Request |-> IF r \in Done THEN "finished" ELSE status[r]]
BY DEF Finish, PutBack, Samples, Done

LEMMA FinishC == ASSUME ConcurrentAssumption, CInv, Finish PROVE CInv'
<1>1. Typed /\ Apart /\ Where /\ Needed /\ Given  BY DEF CInv
<1>2. /\ skipped' = Reverse(step.passed) \o skipped /\ waiting' = Reverse(step.held) \o waiting
      /\ computed' = [r \in Request |-> computed[r] + step.tokens[r]]
      /\ output' = [r \in Request |-> IF Samples(r) THEN output[r] + 1 ELSE output[r]]
      /\ running' = Without(running, Done)
      /\ status' = [r \in Request |-> IF r \in Done THEN "finished" ELSE status[r]]
      /\ step' = NoStep
  BY Finished
<1>3. /\ waiting \in Seq(Request) /\ skipped \in Seq(Request) /\ running \in Seq(Request)
      /\ step.passed \in Seq(Request) /\ step.held \in Seq(Request)
      /\ IsInjective(waiting) /\ IsInjective(skipped) /\ IsInjective(running)
      /\ IsInjective(step.passed) /\ IsInjective(step.held)
      /\ ToSet(waiting) \cap ToSet(skipped) = {}
      /\ ToSet(waiting) \cap ToSet(step.passed) = {}
      /\ ToSet(waiting) \cap ToSet(step.held) = {}
      /\ ToSet(skipped) \cap ToSet(step.passed) = {}
      /\ ToSet(skipped) \cap ToSet(step.held) = {}
      /\ ToSet(step.passed) \cap ToSet(step.held) = {}
  BY <1>1 DEF Typed, Apart
<1> DEFINE p == Reverse(step.passed)
           h == Reverse(step.held)
<1>4. /\ p \in Seq(Request) /\ IsInjective(p) /\ ToSet(p) = ToSet(step.passed)
      /\ h \in Seq(Request) /\ IsInjective(h) /\ ToSet(h) = ToSet(step.held)
  BY <1>3, ReverseFacts
<1>5. skipped' = p \o skipped /\ waiting' = h \o waiting  BY <1>2
<1> HIDE DEF p, h
<1>6. /\ skipped' \in Seq(Request) /\ IsInjective(skipped')
      /\ ToSet(skipped') = ToSet(step.passed) \cup ToSet(skipped)
  <2>1. ToSet(p) \cap ToSet(skipped) = {}  BY <1>3, <1>4
  <2>2. /\ p \o skipped \in Seq(Request) /\ IsInjective(p \o skipped)
        /\ ToSet(p \o skipped) = ToSet(p) \cup ToSet(skipped)
    BY <1>3, <1>4, <2>1, ConcatFacts
  <2> QED  BY <1>4, <1>5, <2>2
<1>7. /\ waiting' \in Seq(Request) /\ IsInjective(waiting')
      /\ ToSet(waiting') = ToSet(step.held) \cup ToSet(waiting)
  <2>1. ToSet(h) \cap ToSet(waiting) = {}  BY <1>3, <1>4
  <2>2. /\ h \o waiting \in Seq(Request) /\ IsInjective(h \o waiting)
        /\ ToSet(h \o waiting) = ToSet(h) \cup ToSet(waiting)
    BY <1>3, <1>4, <2>1, ConcatFacts
  <2> QED  BY <1>4, <1>5, <2>2
<1>8. /\ running' \in Seq(Request) /\ IsInjective(running') /\ ToSet(running') = ToSet(running) \ Done
  BY <1>2, <1>3, WithoutFacts
<1>9. ToSet(<<>>) = {} /\ <<>> \in Seq(Request) /\ IsInjective(<<>>)  BY <1>3, ElementFacts
<1>10. /\ DOMAIN step' = {"phase", "index", "budget", "slot", "active", "long", "tokens",
                          "passed", "held", "preempted"}
       /\ step'.phase = "idle" /\ step'.index = 1 /\ step'.budget = 0 /\ step'.slot = 0
       /\ step'.active = 0 /\ step'.long = 0 /\ step'.preempted = FALSE
       /\ step'.passed = <<>> /\ step'.held = <<>>
       /\ step'.tokens \in [Request -> Nat] /\ \A r \in Request : step'.tokens[r] = 0
  BY <1>2, FreshLocals
<1>11. \A r \in Request : r \in Done => r \in ToSet(running)
  BY <1>1 DEF Done, Samples, Given, ToSet
<1>12. Typed'
  <2>1. step'.passed \in Seq(Request) /\ step'.held \in Seq(Request)  BY <1>9, <1>10
  <2>2. computed \in [Request -> Nat] /\ step.tokens \in [Request -> Nat] /\ output \in [Request -> Nat]
        /\ status \in [Request -> {"new", "waiting", "running", "finished"}]
    BY <1>1 DEF Typed
  <2>3. computed' \in [Request -> Nat]  BY <1>2, <2>2
  <2>4. output' \in [Request -> Nat]
    <3> HIDE DEF Samples
    <3> QED  BY <1>2, <2>2
  <2>5. status' \in [Request -> {"new", "waiting", "running", "finished"}]  BY <1>2, <2>2
  <2>6. 0 \in Nat /\ 1 \in Nat \ {0}  OBVIOUS
  <2>7. step'.index \in Nat \ {0} /\ step'.budget \in Nat /\ step'.slot \in Nat
        /\ step'.active \in Nat /\ step'.long \in Nat /\ step'.preempted \in BOOLEAN
        /\ step'.phase \in {"idle", "running", "waiting", "end"}
    BY <1>10, <2>6
  <2> QED  BY <1>6, <1>7, <1>8, <1>10, <2>1, <2>3, <2>4, <2>5, <2>7 DEF Typed
<1>13. Apart'  BY <1>3, <1>6, <1>7, <1>8, <1>9, <1>10 DEF Apart
<1>14. Waits' = Waits  BY <1>6, <1>7, <1>9, <1>10 DEF Waits
<1>15. Where'
  <2> SUFFICES ASSUME NEW s \in Request
               PROVE  (s \in Waits' <=> status'[s] = "waiting")
                      /\ (s \in ToSet(running') <=> status'[s] = "running")
    BY DEF Where
  <2>1. (s \in Waits <=> status[s] = "waiting") /\ (s \in ToSet(running) <=> status[s] = "running")
    BY <1>1 DEF Where
  <2>2. status'[s] = IF s \in Done THEN "finished" ELSE status[s]  BY <1>2
  <2>3. s \in Done => s \in ToSet(running)  BY <1>11
  <2> HIDE DEF Done
  <2> QED  BY <1>8, <1>14, <2>1, <2>2, <2>3
<1>16. Needed'
  <2> SUFFICES ASSUME NEW s \in Request
               PROVE  computed'[s] + step'.tokens[s] <= PromptTokens[s] + output'[s]
    BY DEF Needed, NumTokens
  <2>1. /\ computed[s] + step.tokens[s] <= PromptTokens[s] + output[s]
        /\ computed[s] \in Nat /\ step.tokens[s] \in Nat
        /\ PromptTokens[s] \in Nat /\ output[s] \in Nat
    BY <1>1 DEF Needed, NumTokens, Typed, ConcurrentAssumption
  <2>2. step'.tokens[s] = 0 /\ output'[s] \in {output[s], output[s] + 1}
        /\ computed'[s] = computed[s] + step.tokens[s]
    BY <1>2, <1>10
  <2> QED  BY <2>1, <2>2
<1>17. Given'  BY <1>10 DEF Given
<1> QED  BY <1>12, <1>13, <1>15, <1>16, <1>17 DEF CInv

LEMMA CStep == ASSUME ConcurrentAssumption, CInv, [Next]_concurrentVars PROVE CInv'
<1>1. CASE Next
  <2>1. CASE StartSchedule  BY <2>1, StartC
  <2>2. CASE RunningSchedule  BY <2>2, RunningScheduleC
  <2>3. CASE RunningPreempt  BY <2>3, RunningPreemptC
  <2>4. CASE RunningDone  BY <2>4, RunningDoneC
  <2>5. CASE WaitingPass  BY <2>5, WaitingPassC
  <2>6. CASE WaitingAdmit  BY <2>6, WaitingAdmitC
  <2>7. CASE WaitingNoKv  BY <2>7, WaitingNoKvC
  <2>8. CASE WaitingDone  BY <2>8, WaitingDoneC
  <2>9. CASE Finish  BY <2>9, FinishC
  <2>10. CASE \E r \in Request : Arrive(r)  BY <2>10, ArriveC
  <2> QED  BY <1>1, <2>1, <2>2, <2>3, <2>4, <2>5, <2>6, <2>7, <2>8, <2>9, <2>10 DEF Next, Engine
<1>2. CASE UNCHANGED concurrentVars
  BY <1>2 DEF concurrentVars, CInv, Typed, Apart, Where, Waits, Needed, NumTokens, Given
<1> QED  BY <1>1, <1>2

LEMMA QueuesImplied == ASSUME CInv PROVE QueuesAreExact
<1> DEFINE a == waiting \o skipped
           b == a \o step.passed
           waits == b \o step.held
<1>1. Typed /\ Apart /\ Where  BY DEF CInv
<1>2. /\ waiting \in Seq(Request) /\ skipped \in Seq(Request) /\ running \in Seq(Request)
      /\ step.passed \in Seq(Request) /\ step.held \in Seq(Request)
  BY <1>1 DEF Typed
<1>3. a \in Seq(Request) /\ IsInjective(a) /\ ToSet(a) = ToSet(waiting) \cup ToSet(skipped)
  BY <1>1, <1>2, ConcatFacts DEF Apart
<1> HIDE DEF a
<1>4. ToSet(a) \cap ToSet(step.passed) = {} /\ ToSet(a) \cap ToSet(step.held) = {}
      /\ IsInjective(step.passed) /\ IsInjective(step.held) /\ IsInjective(running)
      /\ ToSet(step.passed) \cap ToSet(step.held) = {}
  BY <1>1, <1>3 DEF Apart
<1>5. b \in Seq(Request) /\ IsInjective(b) /\ ToSet(b) = ToSet(a) \cup ToSet(step.passed)
  BY <1>2, <1>3, <1>4, ConcatFacts
<1> HIDE DEF b
<1>6. ToSet(b) \cap ToSet(step.held) = {}  BY <1>4, <1>5
<1>7. waits \in Seq(Request) /\ IsInjective(waits) /\ ToSet(waits) = ToSet(b) \cup ToSet(step.held)
  BY <1>2, <1>4, <1>5, <1>6, ConcatFacts
<1>8. waits = waiting \o skipped \o step.passed \o step.held  BY DEF a, b
<1> HIDE DEF waits
<1>9. ToSet(waits) = Waits  BY <1>3, <1>5, <1>7 DEF Waits
<1>10. \A r \in Request : /\ r \in ToSet(waits) <=> status[r] = "waiting"
                          /\ r \in ToSet(running) <=> status[r] = "running"
  BY <1>1, <1>9 DEF Where
<1>11. ToSet(waits) \subseteq Request  BY <1>7, ElementFacts
<1>12. ToSet(waits) \cap ToSet(running) = {}  BY <1>10, <1>11
<1>13. IsInjective(waits \o running)  BY <1>2, <1>4, <1>7, <1>12, ConcatFacts
<1> QED  BY <1>8, <1>10, <1>13 DEF QueuesAreExact

\* A request is in the one queue its status names: a waiting one in waiting,
\* in skipped, among those passed over or among those the cap holds back, a
\* running one in running, each once, at every point of schedule().
THEOREM ConcurrentQueuesAreExact == ASSUME ConcurrentAssumption PROVE Spec => []QueuesAreExact
<1>1. Init => CInv  BY InitC
<1>2. CInv /\ [Next]_concurrentVars => CInv'  BY CStep
<1> QED  BY <1>1, <1>2, QueuesImplied, PTL DEF Spec

-----------------------------------------------------------------------------
(* The limits through each action *)

LEMMA PartialsAreFinite ==
    ASSUME CInv
    PROVE  /\ IsFiniteSet(Partials) /\ IsFiniteSet(LongPartials)
           /\ Cardinality(Partials) \in Nat /\ Cardinality(LongPartials) \in Nat
<1>1. IsFiniteSet(ToSet(running))  BY FiniteElements DEF CInv, Typed
<1>2. Partials \subseteq ToSet(running) /\ LongPartials \subseteq ToSet(running)
  BY DEF Partials, LongPartials, Prefills, Longs
<1>3. IsFiniteSet(Partials) /\ IsFiniteSet(LongPartials)  BY <1>1, <1>2, FS_Subset
<1> QED  BY <1>3, FS_CardinalityType

\* Where no prefill is added and the counters stay, the limits stay.
LEMMA LimitsKept ==
    ASSUME ConcurrentAssumption, CInv, Limits,
           Partials' \subseteq Partials, LongPartials' \subseteq LongPartials,
           step'.phase # "idle" =>
              step.phase # "idle" /\ step'.active = step.active /\ step'.long = step.long
    PROVE  Limits'
<1>1. /\ IsFiniteSet(Partials) /\ IsFiniteSet(LongPartials)
      /\ Cardinality(Partials) \in Nat /\ Cardinality(LongPartials) \in Nat
  BY PartialsAreFinite
<1>2. /\ Cardinality(Partials') \in Nat /\ Cardinality(Partials') <= Cardinality(Partials)
  BY <1>1, FS_Subset, FS_CardinalityType
<1>3. /\ Cardinality(LongPartials') \in Nat
      /\ Cardinality(LongPartials') <= Cardinality(LongPartials)
  BY <1>1, FS_Subset, FS_CardinalityType
<1>4. /\ MaxNumPartialPrefills \in Nat /\ MaxLongPartialPrefills \in Nat
      /\ step.active \in Nat /\ step.long \in Nat
  BY DEF ConcurrentAssumption, CInv, Typed
<1>5. ASSUME Concurrent, Patch = "v024"
      PROVE  /\ Cardinality(Partials') <= MaxNumPartialPrefills
             /\ step'.phase # "idle" => /\ Cardinality(Partials') <= step'.active
                                        /\ step'.active <= MaxNumPartialPrefills
  BY <1>1, <1>2, <1>4, <1>5 DEF Limits
<1>6. ASSUME Concurrent
      PROVE  /\ Cardinality(LongPartials') <= MaxLongPartialPrefills
             /\ step'.phase # "idle" => /\ Cardinality(LongPartials') <= step'.long
                                        /\ step'.long <= MaxLongPartialPrefills
  BY <1>1, <1>3, <1>4, <1>6 DEF Limits
<1> QED  BY <1>5, <1>6 DEF Limits

\* A request that is unfinished after the step is a prefill now.
LEMMA UnfinishedIsPrefill ==
    ASSUME ConcurrentAssumption, CInv, NEW s \in Request
    PROVE  /\ Unfinished(s) => IsPrefill(s)
           /\ LongLeft(s) => IsLong(s)
<1>1. computed[s] \in Nat /\ step.tokens[s] \in Nat /\ PromptTokens[s] \in Nat
      /\ LongPrefillTokenThreshold \in Nat
  BY DEF CInv, Typed, ConcurrentAssumption
<1> QED  BY <1>1 DEF Unfinished, LongLeft, IsPrefill, IsLong, Remaining

LEMMA InitLimits == ConcurrentAssumption /\ Init => Limits
<1> SUFFICES ASSUME ConcurrentAssumption, Init PROVE Limits  OBVIOUS
<1>1. running = <<>> /\ step.phase = "idle"  BY FreshLocals DEF Init
<1>2. ToSet(<<>>) = {}
  <2>1. <<>> \in Seq(Request) /\ Len(<<>>) = 0  OBVIOUS
  <2> QED  BY <2>1 DEF ToSet
<1>3. Partials = {} /\ LongPartials = {}
  BY <1>1, <1>2 DEF Partials, LongPartials, Prefills, Longs
<1>4. Cardinality(Partials) = 0 /\ Cardinality(LongPartials) = 0  BY <1>3, FS_EmptySet
<1> QED  BY <1>1, <1>4 DEF Limits, ConcurrentAssumption

LEMMA StartLimits ==
    ASSUME ConcurrentAssumption, CInv, Limits, StartSchedule PROVE Limits'
<1>1. /\ step.phase = "idle"
      /\ step'.phase = "running" /\ step'.active = Cardinality(Prefills(running))
      /\ step'.long = Cardinality(Longs(running))
      /\ running' = running /\ computed' = computed /\ output' = output
  BY FreshLocals DEF StartSchedule
<1>2. Partials = Prefills(running) /\ LongPartials = Longs(running)
  BY <1>1 DEF Partials, LongPartials
<1>3. Partials' = Partials /\ LongPartials' = LongPartials
  BY <1>1 DEF Partials, LongPartials, Prefills, Longs, IsLong, IsPrefill, Remaining
<1>4. Cardinality(Partials) \in Nat /\ Cardinality(LongPartials) \in Nat  BY PartialsAreFinite
<1> QED  BY <1>1, <1>2, <1>3, <1>4 DEF Limits

LEMMA PreemptLimits ==
    ASSUME ConcurrentAssumption, CInv, Limits, RunningPreempt PROVE Limits'
<1> DEFINE v == Last(running)
<1>1. Typed  BY DEF CInv
<1>2. /\ running' = Front(running) /\ computed' = [computed EXCEPT ![v] = 0]
      /\ step' = [step EXCEPT !.preempted = TRUE] /\ output' = output
      /\ step.phase = "running" /\ Len(running) > 1
  BY DEF RunningPreempt, InRunningLoop
<1>3. running \in Seq(Request) /\ running # <<>> /\ IsInjective(running)
  BY <1>1, <1>2 DEF Typed, Apart, CInv
<1>4. /\ v \in Request /\ ToSet(running) = ToSet(Front(running)) \cup {v}
      /\ v \notin ToSet(Front(running))
  BY <1>3, LastFacts
<1>5. ToSet(running) \subseteq Request  BY <1>3, ElementFacts
<1> HIDE DEF v
<1>6. /\ step'.phase = "running" /\ step'.active = step.active /\ step'.long = step.long
  BY <1>1, <1>2 DEF Typed
<1>7. ASSUME NEW s \in ToSet(running')
      PROVE  s \in ToSet(running) /\ computed'[s] = computed[s] /\ output'[s] = output[s]
  BY <1>1, <1>2, <1>4, <1>5, <1>7 DEF Typed
<1>8. Partials' \subseteq Partials
  <2> SUFFICES ASSUME NEW s \in Partials' PROVE s \in Partials  OBVIOUS
  <2>1. s \in ToSet(running') /\ output'[s] = 0 /\ computed'[s] < PromptTokens[s]
    BY <1>6 DEF Partials, Prefills, IsPrefill
  <2> QED  BY <1>2, <1>7, <2>1 DEF Partials, Prefills, IsPrefill
<1>9. LongPartials' \subseteq LongPartials
  <2> SUFFICES ASSUME NEW s \in LongPartials' PROVE s \in LongPartials  OBVIOUS
  <2>1. s \in ToSet(running') /\ output'[s] = 0 /\ computed'[s] < PromptTokens[s]
        /\ PromptTokens[s] - computed'[s] > LongPrefillTokenThreshold
    BY <1>6 DEF LongPartials, Longs, IsLong, IsPrefill, Remaining
  <2> QED  BY <1>2, <1>7, <2>1 DEF LongPartials, Longs, IsLong, IsPrefill, Remaining
<1> QED  BY <1>2, <1>6, <1>8, <1>9, LimitsKept

LEMMA RunningDoneLimits ==
    ASSUME ConcurrentAssumption, CInv, Limits, RunningDone PROVE Limits'
<1> DEFINE next == IF step.preempted THEN "end" ELSE "waiting"
<1>1. step' = [step EXCEPT !.phase = next] /\ Rests /\ step.phase = "running"
  BY DEF RunningDone, Rests
<1>2. next \in {"waiting", "end"}  OBVIOUS
<1> HIDE DEF next
<1>3. step'.phase = next /\ step'.tokens = step.tokens
      /\ step'.active = step.active /\ step'.long = step.long
  BY <1>1 DEF CInv, Typed
<1>4. ToSet(running) \subseteq Request  BY ElementFacts DEF CInv, Typed
<1>5. Partials' \subseteq Partials
  <2>1. ASSUME NEW s \in Partials' PROVE s \in ToSet(running) /\ Unfinished(s)
    BY <1>1, <1>2, <1>3 DEF Partials, Unfinished, Rests
  <2> QED  BY <1>1, <1>4, <2>1, UnfinishedIsPrefill DEF Partials, Prefills
<1>6. LongPartials' \subseteq LongPartials
  <2>1. ASSUME NEW s \in LongPartials' PROVE s \in ToSet(running) /\ LongLeft(s)
    BY <1>1, <1>2, <1>3 DEF LongPartials, LongLeft, Unfinished, Rests
  <2> QED  BY <1>1, <1>4, <2>1, UnfinishedIsPrefill DEF LongPartials, Longs
<1> QED  BY <1>1, <1>3, <1>5, <1>6, LimitsKept

\* The steps that change neither who runs nor what he has.
LEMMA QuietLimits ==
    ASSUME ConcurrentAssumption, CInv, Limits,
           running' = running, computed' = computed, output' = output,
           step'.active = step.active, step'.long = step.long,
           \/ step.phase \in {"idle", "running"} /\ step'.phase = step.phase
           \/ /\ step.phase \in {"waiting", "end"} /\ step'.phase \in {"waiting", "end"}
              /\ step'.tokens = step.tokens
    PROVE  Limits'
<1>1. CASE step.phase \in {"idle", "running"} /\ step'.phase = step.phase
  <2>1. Partials' = Partials /\ LongPartials' = LongPartials
    BY <1>1 DEF Partials, LongPartials, Prefills, Longs, IsLong, IsPrefill, Remaining
  <2> QED  BY <1>1, <2>1, LimitsKept
<1>2. CASE step.phase \in {"waiting", "end"} /\ step'.phase \in {"waiting", "end"}
           /\ step'.tokens = step.tokens
  <2>1. Partials' = Partials /\ LongPartials' = LongPartials
    BY <1>2 DEF Partials, LongPartials, Unfinished, LongLeft
  <2> QED  BY <1>2, <2>1, LimitsKept
<1> QED  BY <1>1, <1>2

\* A set with at most one element more.
LEMMA OneMore ==
    ASSUME NEW S, IsFiniteSet(S), NEW T, NEW r, T \subseteq S \cup {r}
    PROVE  /\ Cardinality(S) \in Nat /\ Cardinality(T) \in Nat
           /\ Cardinality(T) <= Cardinality(S) + 1
           /\ r \notin T => Cardinality(T) <= Cardinality(S)
<1> DEFINE U == S \cup {r}
<1>1. IsFiniteSet(U) /\ Cardinality(U) = (IF r \in S THEN Cardinality(S) ELSE Cardinality(S) + 1)
  BY FS_AddElement
<1>2. Cardinality(S) \in Nat /\ Cardinality(U) \in Nat  BY <1>1, FS_CardinalityType
<1>3. IsFiniteSet(T) /\ Cardinality(T) <= Cardinality(U)  BY <1>1, FS_Subset
<1>4. Cardinality(T) \in Nat  BY <1>3, FS_CardinalityType
<1>5. r \notin T => Cardinality(T) <= Cardinality(S)  BY FS_Subset
<1> HIDE DEF U
<1>6. Cardinality(T) <= Cardinality(S) + 1  BY <1>1, <1>2, <1>3, <1>4
<1> QED  BY <1>2, <1>4, <1>5, <1>6

LEMMA AdmitLimits ==
    ASSUME ConcurrentAssumption, CInv, Limits, WaitingAdmit PROVE Limits'
<1> DEFINE r == NextWaiting
           n == NewTokens(r)
           active == IF Records(r) THEN step.active + 1 ELSE step.active
           long == IF Records(r) /\ IsLong(r) THEN step.long + 1 ELSE step.long
<1>1. Typed /\ Apart /\ Where /\ Needed /\ Given  BY DEF CInv
<1>2. /\ step' = [step EXCEPT !.tokens[r] = n, !.budget = @ - n, !.active = active, !.long = long]
      /\ running' = Append(running, r)
      /\ step.phase = "waiting" /\ ~Passed(r)
      /\ computed' = computed /\ output' = output
  BY DEF WaitingAdmit, InWaitingLoop
<1>3. InWaitingLoop /\ PopWaiting  BY DEF WaitingAdmit
<1>4. r \in Request /\ r \in ToSet(waiting) \cup ToSet(skipped)  BY <1>3, Popped
<1>5. n \in Nat /\ n = NewTokens(r) /\ (IsPrefill(r) => NumTokens(r) = PromptTokens[r])
  BY <1>4, NewTokensFacts
<1>6. step.active \in Nat /\ step.long \in Nat
      /\ step.tokens \in [Request -> Nat] /\ running \in Seq(Request)
      /\ computed[r] \in Nat /\ PromptTokens[r] \in Nat /\ output[r] \in Nat
      /\ MaxNumPartialPrefills \in Nat /\ MaxLongPartialPrefills \in Nat
      /\ LongPrefillTokenThreshold \in Nat
  BY <1>1, <1>4 DEF Typed, ConcurrentAssumption
<1>7. Records(r) <=> Concurrent /\ IsPrefill(r) /\ (Patch = "v024" => computed[r] + n < NumTokens(r))
  BY DEF Records
<1> HIDE DEF r, n
<1>8. ToSet(running') = ToSet(running) \cup {r} /\ ToSet(running) \subseteq Request
  BY <1>2, <1>4, <1>6, AppendFacts, ElementFacts
<1> HIDE DEF active, long
<1>9. /\ step'.phase = "waiting" /\ step'.active = active /\ step'.long = long
      /\ step'.tokens = [step.tokens EXCEPT ![r] = n]
  BY <1>1, <1>2 DEF Typed
<1>10. \A s \in Request : step'.tokens[s] = IF s = r THEN n ELSE step.tokens[s]
  BY <1>4, <1>6, <1>9
<1>11. IsPrefill(r) /\ Concurrent =>
         /\ Patch = "v024" => step.active < MaxNumPartialPrefills
         /\ IsLong(r) => step.long < MaxLongPartialPrefills
  BY <1>2 DEF Passed, CanSchedule, IsLong
<1>12. ASSUME NEW s \in Partials'
       PROVE  s \in Partials \/ (s = r /\ (Concurrent /\ Patch = "v024" => Records(r)))
  <2>1. s \in ToSet(running') /\ output[s] = 0 /\ computed[s] + step'.tokens[s] < PromptTokens[s]
    BY <1>2, <1>9 DEF Partials, Unfinished
  <2>2. CASE s # r
    <3>1. s \in ToSet(running) /\ step'.tokens[s] = step.tokens[s]  BY <1>8, <1>10, <2>1, <2>2
    <3> QED  BY <1>2, <2>1, <3>1 DEF Partials, Unfinished
  <2>3. CASE s = r
    <3>1. output[r] = 0 /\ computed[r] + n < PromptTokens[r]  BY <1>4, <1>10, <2>1, <2>3
    <3>2. IsPrefill(r)  BY <1>5, <1>6, <3>1 DEF IsPrefill
    <3> QED  BY <1>5, <1>7, <2>3, <3>1, <3>2
  <2> QED  BY <2>2, <2>3
<1>13. ASSUME NEW s \in LongPartials'
       PROVE  s \in LongPartials \/ (s = r /\ IsLong(r) /\ (Concurrent => Records(r)))
  <2>1. s \in ToSet(running') /\ output[s] = 0 /\ computed[s] + step'.tokens[s] < PromptTokens[s]
        /\ PromptTokens[s] - (computed[s] + step'.tokens[s]) > LongPrefillTokenThreshold
    BY <1>2, <1>9 DEF LongPartials, LongLeft, Unfinished
  <2>2. CASE s # r
    <3>1. s \in ToSet(running) /\ step'.tokens[s] = step.tokens[s]  BY <1>8, <1>10, <2>1, <2>2
    <3> QED  BY <1>2, <2>1, <3>1 DEF LongPartials, LongLeft, Unfinished
  <2>3. CASE s = r
    <3>1. output[r] = 0 /\ computed[r] + n < PromptTokens[r]
          /\ PromptTokens[r] - (computed[r] + n) > LongPrefillTokenThreshold
      BY <1>4, <1>10, <2>1, <2>3
    <3>2. IsPrefill(r) /\ IsLong(r)  BY <1>5, <1>6, <3>1 DEF IsPrefill, IsLong, Remaining
    <3> QED  BY <1>5, <1>7, <2>3, <3>1, <3>2
  <2> QED  BY <2>2, <2>3
<1>14. /\ IsFiniteSet(Partials) /\ IsFiniteSet(LongPartials)
       /\ Cardinality(Partials) \in Nat /\ Cardinality(LongPartials) \in Nat
  BY PartialsAreFinite
<1>15. ASSUME Concurrent, Patch = "v024"
       PROVE  Cardinality(Partials') <= active /\ active <= MaxNumPartialPrefills
              /\ Cardinality(Partials') \in Nat
  <2>1. Cardinality(Partials) <= step.active /\ step.active <= MaxNumPartialPrefills
    BY <1>2, <1>15 DEF Limits
  <2>2. Partials' \subseteq Partials \cup {r}  BY <1>12
  <2>3. /\ Cardinality(Partials) \in Nat /\ Cardinality(Partials') \in Nat
        /\ Cardinality(Partials') <= Cardinality(Partials) + 1
    BY <1>14, <2>2, OneMore
  <2>4. CASE Records(r)
    <3>1. active = step.active + 1 /\ step.active < MaxNumPartialPrefills
      BY <1>7, <1>11, <1>15, <2>4 DEF active
    <3> QED  BY <1>6, <2>1, <2>3, <3>1
  <2>5. CASE ~(Records(r))
    <3>1. active = step.active  BY <2>5 DEF active
    <3>2. Partials' \subseteq Partials  BY <1>12, <1>15, <2>5
    <3>3. Cardinality(Partials') <= Cardinality(Partials)  BY <1>14, <3>2, FS_Subset
    <3> QED  BY <1>6, <2>1, <2>3, <3>1, <3>3
  <2> QED  BY <2>4, <2>5
<1>16. ASSUME Concurrent
       PROVE  Cardinality(LongPartials') <= long /\ long <= MaxLongPartialPrefills
              /\ Cardinality(LongPartials') \in Nat
  <2>1. Cardinality(LongPartials) <= step.long /\ step.long <= MaxLongPartialPrefills
    BY <1>2, <1>16 DEF Limits
  <2>2. LongPartials' \subseteq LongPartials \cup {r}  BY <1>13
  <2>3. /\ Cardinality(LongPartials) \in Nat /\ Cardinality(LongPartials') \in Nat
        /\ Cardinality(LongPartials') <= Cardinality(LongPartials) + 1
    BY <1>14, <2>2, OneMore
  <2>4. CASE Records(r) /\ IsLong(r)
    <3>1. long = step.long + 1 /\ step.long < MaxLongPartialPrefills
      BY <1>7, <1>11, <1>16, <2>4 DEF long
    <3> QED  BY <1>6, <2>1, <2>3, <3>1
  <2>5. CASE ~(Records(r) /\ IsLong(r))
    <3>1. long = step.long  BY <2>5 DEF long
    <3>2. LongPartials' \subseteq LongPartials  BY <1>13, <1>16, <2>5
    <3>3. Cardinality(LongPartials') <= Cardinality(LongPartials)  BY <1>14, <3>2, FS_Subset
    <3> QED  BY <1>6, <2>1, <2>3, <3>1, <3>3
  <2> QED  BY <2>4, <2>5
<1>17. active \in Nat /\ long \in Nat  BY <1>6 DEF active, long
<1>18. ASSUME Concurrent, Patch = "v024"
       PROVE  /\ Cardinality(Partials') <= MaxNumPartialPrefills
              /\ step'.phase # "idle" => /\ Cardinality(Partials') <= step'.active
                                         /\ step'.active <= MaxNumPartialPrefills
  BY <1>6, <1>9, <1>15, <1>17, <1>18
<1>19. ASSUME Concurrent
       PROVE  /\ Cardinality(LongPartials') <= MaxLongPartialPrefills
              /\ step'.phase # "idle" => /\ Cardinality(LongPartials') <= step'.long
                                         /\ step'.long <= MaxLongPartialPrefills
  BY <1>6, <1>9, <1>16, <1>17, <1>19
<1> QED  BY <1>18, <1>19 DEF Limits

LEMMA FinishLimits ==
    ASSUME ConcurrentAssumption, CInv, Limits, Finish PROVE Limits'
<1>1. /\ step.phase = "end" /\ step' = NoStep
      /\ computed' = [r \in Request |-> computed[r] + step.tokens[r]]
      /\ output' = [r \in Request |-> IF Samples(r) THEN output[r] + 1 ELSE output[r]]
      /\ running' = Without(running, Done)
  BY Finished
<1>2. step'.phase = "idle"  BY <1>1, FreshLocals
<1>3. running \in Seq(Request)  BY DEF CInv, Typed
<1>4. ToSet(running') \subseteq ToSet(running) /\ ToSet(running) \subseteq Request
  BY <1>1, <1>3, WithoutFacts, ElementFacts
<1>5. ASSUME NEW s \in ToSet(running')
      PROVE  /\ s \in ToSet(running) /\ computed'[s] = computed[s] + step.tokens[s]
             /\ output'[s] = 0 => output[s] = 0
  <2>1. s \in ToSet(running) /\ s \in Request  BY <1>4
  <2>2. output[s] \in Nat  BY <2>1 DEF CInv, Typed
  <2>3. output'[s] = IF Samples(s) THEN output[s] + 1 ELSE output[s]  BY <1>1, <2>1
  <2> QED  BY <1>1, <2>1, <2>2, <2>3
<1>6. Partials' \subseteq Partials
  <2> SUFFICES ASSUME NEW s \in Partials' PROVE s \in Partials  OBVIOUS
  <2>1. s \in ToSet(running') /\ output'[s] = 0 /\ computed'[s] < PromptTokens[s]
    BY <1>2 DEF Partials, Prefills, IsPrefill
  <2> QED  BY <1>1, <1>5, <2>1 DEF Partials, Unfinished
<1>7. LongPartials' \subseteq LongPartials
  <2> SUFFICES ASSUME NEW s \in LongPartials' PROVE s \in LongPartials  OBVIOUS
  <2>1. s \in ToSet(running') /\ output'[s] = 0 /\ computed'[s] < PromptTokens[s]
        /\ PromptTokens[s] - computed'[s] > LongPrefillTokenThreshold
    BY <1>2 DEF LongPartials, Longs, IsLong, IsPrefill, Remaining
  <2> QED  BY <1>1, <1>5, <2>1 DEF LongPartials, LongLeft, Unfinished
<1> QED  BY <1>2, <1>6, <1>7, LimitsKept

LEMMA LimitsStep ==
    ASSUME ConcurrentAssumption, CInv, Limits, [Next]_concurrentVars PROVE Limits'
<1>1. DOMAIN step = {"phase", "index", "budget", "slot", "active", "long", "tokens",
                      "passed", "held", "preempted"}
  BY DEF CInv, Typed
<1>2. CASE StartSchedule  BY <1>2, StartLimits
<1>3. CASE RunningSchedule
  <2>1. /\ running' = running /\ computed' = computed /\ output' = output
        /\ step.phase = "running" /\ step'.phase = step.phase
        /\ step'.active = step.active /\ step'.long = step.long
    BY <1>1, <1>3 DEF RunningSchedule, InRunningLoop
  <2> QED  BY <2>1, QuietLimits
<1>4. CASE RunningPreempt  BY <1>4, PreemptLimits
<1>5. CASE RunningDone  BY <1>5, RunningDoneLimits
<1>6. CASE WaitingPass
  <2>1. /\ running' = running /\ computed' = computed /\ output' = output
        /\ step.phase = "waiting" /\ step'.phase = step.phase /\ step'.tokens = step.tokens
        /\ step'.active = step.active /\ step'.long = step.long
    BY <1>1, <1>6 DEF WaitingPass, InWaitingLoop
  <2> QED  BY <2>1, QuietLimits
<1>7. CASE WaitingAdmit  BY <1>7, AdmitLimits
<1>8. CASE WaitingNoKv
  <2>1. /\ running' = running /\ computed' = computed /\ output' = output
        /\ step.phase = "waiting" /\ step'.phase = "end" /\ step'.tokens = step.tokens
        /\ step'.active = step.active /\ step'.long = step.long
    BY <1>1, <1>8 DEF WaitingNoKv, InWaitingLoop
  <2> QED  BY <2>1, QuietLimits
<1>9. CASE WaitingDone
  <2>1. /\ running' = running /\ computed' = computed /\ output' = output
        /\ step.phase = "waiting" /\ step'.phase = "end" /\ step'.tokens = step.tokens
        /\ step'.active = step.active /\ step'.long = step.long
    BY <1>1, <1>9 DEF WaitingDone
  <2> QED  BY <2>1, QuietLimits
<1>10. CASE Finish  BY <1>10, FinishLimits
<1>11. CASE \E r \in Request : Arrive(r)
  <2>1. /\ running' = running /\ computed' = computed /\ output' = output
        /\ step.phase = "idle" /\ step' = step
    BY <1>11 DEF Arrive
  <2> QED  BY <2>1, QuietLimits
<1>12. CASE UNCHANGED concurrentVars
  BY <1>12 DEF concurrentVars, Limits, Partials, LongPartials, Prefills, Longs, IsLong,
       IsPrefill, Remaining, Unfinished, LongLeft
<1> QED  BY <1>2, <1>3, <1>4, <1>5, <1>6, <1>7, <1>8, <1>9, <1>10, <1>11, <1>12 DEF Next, Engine

LEMMA LimitsStay ==
    ASSUME ConcurrentAssumption
    PROVE  /\ Init => CInv /\ Limits
           /\ CInv /\ Limits /\ [Next]_concurrentVars => (CInv /\ Limits)'
           /\ CInv /\ Limits => PartialsWithinLimit
<1>1. Init => CInv /\ Limits  BY InitC, InitLimits
<1>2. CInv /\ Limits /\ [Next]_concurrentVars => (CInv /\ Limits)'  BY CStep, LimitsStep
<1>3. CInv /\ Limits => PartialsWithinLimit
  BY DEF Limits, PartialsWithinLimit, Partials, LongPartials
<1> QED  BY <1>1, <1>2, <1>3

\* Where the patch is given more than one, at most the configured number of
\* prefills is under way between two steps under v024, and at most the
\* configured number of long ones under v024 and v023, whatever was preempted,
\* promoted or passed over.  With the default of 1 the patches limit nothing.
THEOREM ConcurrentPartialsWithinLimit ==
    ASSUME ConcurrentAssumption PROVE Spec => []PartialsWithinLimit
<1> QED  BY LimitsStay, PTL DEF Spec

-----------------------------------------------------------------------------
(* The shares through each action *)

LEMMA SlotProducts ==
    ASSUME NEW s \in Nat, NEW a \in Nat, NEW b \in Nat
    PROVE  /\ s * a \in Nat /\ s * 0 = 0
           /\ a <= b => s * a <= s * b
           /\ s * (a + 1) = s * a + s
           /\ s > 0 /\ s * a <= 0 => a = 0
<1>1. s * a \in Nat /\ s * 0 = 0  OBVIOUS
<1>2. s * (a + 1) = s * a + s  OBVIOUS
<1>3. ASSUME a <= b PROVE s * a <= s * b
  <2>1. PICK d \in Nat : b = a + d
    <3>1. b - a \in Nat /\ b = a + (b - a)  BY <1>3
    <3> QED  BY <3>1
  <2>2. s * b = s * a + s * d /\ s * d \in Nat  BY <2>1
  <2> QED  BY <1>1, <2>2
<1>4. s > 0 /\ s * a <= 0 => a = 0  OBVIOUS
<1> QED  BY <1>1, <1>2, <1>3, <1>4

\* The slot is no more than an equal share of the budget, when there is a
\* token for each.
LEMMA SlotShares ==
    ASSUME ConcurrentAssumption, CInv, Limits, Concurrent, Patch = "v024", step.phase = "idle",
           MaxNumPartialPrefills <= MaxNumScheduledTokens
    PROVE  SlotBudget * Cardinality(Prefills(running)) <= MaxNumScheduledTokens
<1> DEFINE a == Cardinality(Prefills(running))
           b == Schedulable
           s == SlotBudget
<1>1. /\ b \in Nat /\ s \in Nat \ {0}
      /\ b > 0 /\ b <= MaxNumScheduledTokens => s * b <= MaxNumScheduledTokens
  BY SlotIsPositive
<1>2. a \in Nat /\ a <= MaxNumPartialPrefills
  BY PartialsAreFinite DEF Limits, Partials
<1>3. a <= b /\ b <= MaxNumPartialPrefills
  <2> DEFINE queue == skipped \o waiting
             short == Cardinality(Prefills(queue) \ Longs(queue))
             some == Cardinality(Longs(queue))
             long == Least(some, Monus(MaxLongPartialPrefills, Cardinality(Longs(running))))
  <2>1. b = Least(MaxNumPartialPrefills, a + short + long)  BY DEF Schedulable
  <2>2. queue \in Seq(Request)  BY DEF CInv, Typed
  <2> HIDE DEF queue
  <2>3. IsFiniteSet(ToSet(queue)) /\ IsFiniteSet(ToSet(running))
    BY <2>2, FiniteElements DEF CInv, Typed
  <2>4. /\ Longs(queue) \subseteq ToSet(queue) /\ Longs(running) \subseteq ToSet(running)
        /\ Prefills(queue) \ Longs(queue) \subseteq ToSet(queue)
    BY DEF Prefills, Longs
  <2>5. /\ IsFiniteSet(Prefills(queue) \ Longs(queue)) /\ IsFiniteSet(Longs(queue))
        /\ IsFiniteSet(Longs(running))
    BY <2>3, <2>4, FS_Subset
  <2>6. short \in Nat /\ some \in Nat /\ Cardinality(Longs(running)) \in Nat
    BY <2>5, FS_CardinalityType
  <2> HIDE DEF short, some
  <2>7. long \in Nat  BY <2>6 DEF Least, Monus, ConcurrentAssumption
  <2> HIDE DEF long, a, b
  <2> QED  BY <1>2, <2>1, <2>6, <2>7 DEF Least, ConcurrentAssumption
<1>4. MaxNumPartialPrefills \in Nat /\ MaxNumScheduledTokens \in Nat  BY DEF ConcurrentAssumption
<1> HIDE DEF a, b, s
<1>5. CASE b = 0
  <2>1. a = 0  BY <1>2, <1>3, <1>5
  <2>2. s * a = 0  BY <1>1, <2>1
  <2> QED  BY <1>4, <2>2 DEF a, s
<1>6. CASE b > 0
  <2>1. s * b <= MaxNumScheduledTokens  BY <1>1, <1>3, <1>4, <1>6
  <2>2. s * a <= s * b /\ s * a \in Nat /\ s * b \in Nat  BY <1>1, <1>2, <1>3, SlotProducts
  <2>3. s * a <= MaxNumScheduledTokens  BY <1>4, <2>1, <2>2
  <2> QED  BY <2>3 DEF a, s
<1> QED  BY <1>1, <1>5, <1>6

LEMMA StartShares ==
    ASSUME ConcurrentAssumption, CInv, Limits, Shares, StartSchedule PROVE Shares'
<1>1. /\ step.phase = "idle"
      /\ step'.phase = "running" /\ step'.index = 1 /\ step'.budget = MaxNumScheduledTokens
      /\ step'.slot = (IF Concurrent THEN SlotBudget ELSE MaxNumScheduledTokens)
      /\ running' = running /\ computed' = computed /\ output' = output
  BY FreshLocals DEF StartSchedule
<1>2. running \in Seq(Request)  BY DEF CInv, Typed
<1>3. DOMAIN running = 1..Len(running) /\ Len(running) \in Nat  BY <1>2
<1>4. Ahead' = Prefills(running)
  <2>1. Prefills(running)' = Prefills(running)  BY <1>1 DEF Prefills, IsPrefill
  <2>2. \A r \in ToSet(running) : \E j \in DOMAIN running : j >= 1 /\ running[j] = r
    BY <1>3 DEF ToSet
  <2> QED  BY <1>1, <2>1, <2>2 DEF Ahead, Prefills
<1>5. ASSUME Concurrent, Patch = "v024", MaxNumPartialPrefills <= MaxNumScheduledTokens
      PROVE  SharesAhead'
  <2>1. SlotBudget * Cardinality(Prefills(running)) <= MaxNumScheduledTokens
    BY <1>1, <1>5, SlotShares
  <2>2. SlotBudget \in Nat /\ Cardinality(Prefills(running)) \in Nat
    BY <1>1, SlotIsPositive, PartialsAreFinite DEF Partials
  <2>3. step'.slot = SlotBudget  BY <1>1, <1>5
  <2>4. step'.budget >= step'.slot * Cardinality(Ahead')
    <3>1. SlotBudget * Cardinality(Prefills(running)) \in Nat  BY <2>2, SlotProducts
    <3> QED  BY <1>1, <1>4, <2>1, <2>3, <3>1 DEF ConcurrentAssumption
  <2>5. \A j \in DOMAIN running' : ~(j < step'.index)  BY <1>1, <1>3
  <2> QED  BY <2>4, <2>5 DEF SharesAhead
<1> QED  BY <1>1, <1>5 DEF Shares, SharesAhead, PrefillsShareTheBudget

LEMMA RunningScheduleShares ==
    ASSUME ConcurrentAssumption, CInv, Shares, RunningSchedule PROVE Shares'
<1> DEFINE r == running[step.index]
           n == NewTokens(r)
<1>1. Typed /\ Apart  BY DEF CInv
<1>2. /\ step' = [step EXCEPT !.index = @ + 1, !.tokens[r] = n, !.budget = @ - n]
      /\ running' = running /\ computed' = computed /\ output' = output
      /\ step.phase = "running" /\ step.index <= Len(running) /\ step.budget > 0
  BY DEF RunningSchedule, InRunningLoop
<1>3. running \in Seq(Request) /\ IsInjective(running)  BY <1>1 DEF Typed, Apart
<1>4. DOMAIN running = 1..Len(running) /\ Len(running) \in Nat
      /\ \A j \in DOMAIN running : running[j] \in Request
  BY <1>3
<1>5. step.index \in Nat \ {0} /\ step.budget \in Nat /\ step.tokens \in [Request -> Nat]
      /\ step.slot \in Nat /\ step.slot > 0
      /\ DOMAIN step = {"phase", "index", "budget", "slot", "active", "long", "tokens",
                         "passed", "held", "preempted"}
  BY <1>1, <1>2 DEF Typed
<1>6. step.index \in DOMAIN running /\ r \in Request  BY <1>2, <1>4, <1>5
<1>7. n \in Nat /\ n <= step.budget /\ (IsPrefill(r) => n <= step.slot /\ n > 0)
  BY <1>2, <1>5, <1>6, NewTokensFacts
<1> HIDE DEF n
<1>8. /\ step'.phase = "running" /\ step'.index = step.index + 1
      /\ step'.budget = step.budget - n /\ step'.slot = step.slot
      /\ step'.tokens = [step.tokens EXCEPT ![r] = n] /\ step'.preempted = step.preempted
  BY <1>2, <1>5
<1>9. \A s \in Request : step'.tokens[s] = IF s = r THEN n ELSE step.tokens[s]
  BY <1>5, <1>6, <1>8
<1>10. \A j \in DOMAIN running : j # step.index => running[j] # r
  BY <1>3, <1>6 DEF IsInjective
<1>11. \A j \in DOMAIN running : j < step'.index <=> j < step.index \/ j = step.index
  BY <1>4, <1>5, <1>8
<1>12. \A j \in DOMAIN running : j >= step'.index <=> j >= step.index /\ j # step.index
  BY <1>4, <1>5, <1>8
<1>13. \A j \in DOMAIN running : j < step.index => j # step.index  BY <1>4, <1>5
<1> HIDE DEF r
<1>14. Ahead' = Ahead \ {r}
  <2>1. Prefills(running)' = Prefills(running)  BY <1>2 DEF Prefills, IsPrefill
  <2>2. ASSUME NEW s \in Ahead' PROVE s \in Ahead \ {r}
    <3>1. PICK j \in DOMAIN running : j >= step'.index /\ running[j] = s
      BY <1>2, <2>2 DEF Ahead
    <3>2. j >= step.index /\ j # step.index  BY <1>12, <3>1
    <3> QED  BY <1>10, <2>1, <2>2, <3>1, <3>2 DEF Ahead
  <2>3. ASSUME NEW s \in Ahead \ {r} PROVE s \in Ahead'
    <3>1. PICK j \in DOMAIN running : j >= step.index /\ running[j] = s
      BY <2>3 DEF Ahead
    <3>2. j # step.index  BY <2>3, <3>1 DEF r
    <3>3. j >= step'.index  BY <1>12, <3>1, <3>2
    <3> QED  BY <1>2, <2>1, <2>3, <3>1, <3>3 DEF Ahead
  <2> QED  BY <2>2, <2>3
<1>15. IsFiniteSet(Ahead)
  <2>1. IsFiniteSet(ToSet(running))  BY <1>3, FiniteElements
  <2>2. Ahead \subseteq ToSet(running)  BY DEF Ahead, Prefills
  <2> QED  BY <2>1, <2>2, FS_Subset
<1>16. Cardinality(Ahead) \in Nat  BY <1>15, FS_CardinalityType
<1>17. ASSUME Concurrent, Patch = "v024", ~step.preempted, MaxNumPartialPrefills <= MaxNumScheduledTokens,
              OnlyPrefills'
       PROVE  SharesAhead'
  <2>0. \A j \in DOMAIN running :
            j < step'.index => IsPrefill(running[j]) \/ step'.tokens[running[j]] = 0
    BY <1>2, <1>17 DEF OnlyPrefills, IsPrefill
  <2>1. OnlyPrefills
    <3> SUFFICES ASSUME NEW j \in DOMAIN running, j < step.index
                 PROVE  IsPrefill(running[j]) \/ step.tokens[running[j]] = 0
      BY DEF OnlyPrefills
    <3>1. j < step'.index /\ running[j] # r  BY <1>10, <1>11, <1>13
    <3>2. IsPrefill(running[j]) \/ step'.tokens[running[j]] = 0  BY <2>0, <3>1
    <3> QED  BY <1>4, <1>9, <3>1, <3>2
  <2>2. SharesAhead  BY <1>2, <1>17, <2>1 DEF Shares, SharesAhead
  <2>3. step.budget >= step.slot * Cardinality(Ahead)  BY <2>2 DEF SharesAhead
  <2>4. step'.budget >= step'.slot * Cardinality(Ahead')
    <3>1. CASE IsPrefill(r)
      <4>1. r \in Ahead
        <5>1. r \in ToSet(running)  BY <1>6 DEF ToSet, r
        <5>2. step.index >= step.index  BY <1>5
        <5> QED  BY <1>6, <3>1, <5>1, <5>2 DEF Ahead, Prefills, r
      <4> DEFINE c == Cardinality(Ahead \ {r})
      <4>2. c = Cardinality(Ahead) - 1 /\ c \in Nat
        <5>1. c = Cardinality(Ahead) - 1 /\ IsFiniteSet(Ahead \ {r})  BY <1>15, <4>1, FS_RemoveElement
        <5>2. c \in Nat  BY <5>1, FS_CardinalityType
        <5> QED  BY <5>1, <5>2
      <4> HIDE DEF c
      <4>3. Cardinality(Ahead) = c + 1  BY <1>16, <4>2
      <4>4. step.slot * (c + 1) = step.slot * c + step.slot /\ step.slot * c \in Nat
        BY <1>5, <4>2, SlotProducts
      <4>5. step.budget >= step.slot * c + step.slot  BY <2>3, <4>3, <4>4
      <4>6. step.budget - n >= step.slot * c  BY <1>5, <1>7, <3>1, <4>4, <4>5
      <4> QED  BY <1>8, <1>14, <4>6 DEF c
    <3>2. CASE ~IsPrefill(r)
      <4>1. n = 0
        <5>1. step.index < step'.index  BY <1>5, <1>8
        <5>2. IsPrefill(r) \/ step'.tokens[r] = 0  BY <1>6, <2>0, <5>1 DEF r
        <5> QED  BY <1>6, <1>9, <3>2, <5>2
      <4>2. r \notin Ahead  BY <3>2 DEF Ahead, Prefills
      <4>3. Ahead' = Ahead  BY <1>14, <4>2
      <4> QED  BY <1>5, <1>8, <2>3, <4>1, <4>3
    <3> QED  BY <3>1, <3>2
  <2>5. ASSUME NEW j \in DOMAIN running, j < step'.index, IsPrefill(running[j])
        PROVE  step'.tokens[running[j]] > 0
    <3>1. CASE j = step.index
      <4>1. running[j] = r  BY <3>1 DEF r
      <4> QED  BY <1>6, <1>7, <1>9, <2>5, <4>1
    <3>2. CASE j # step.index
      <4>1. j < step.index /\ running[j] # r /\ running[j] \in Request
        BY <1>4, <1>10, <1>11, <2>5, <3>2
      <4>2. step.tokens[running[j]] > 0  BY <2>2, <2>5, <4>1 DEF SharesAhead
      <4> QED  BY <1>9, <4>1, <4>2
    <3> QED  BY <3>1, <3>2
  <2> QED  BY <1>2, <2>4, <2>5 DEF SharesAhead, IsPrefill
<1> QED  BY <1>8, <1>17 DEF Shares, SharesAhead, PrefillsShareTheBudget

LEMMA RunningDoneShares ==
    ASSUME ConcurrentAssumption, CInv, Shares, RunningDone PROVE Shares'
<1>1. Typed  BY DEF CInv
<1>2. /\ step' = [step EXCEPT !.phase = IF step.preempted THEN "end" ELSE "waiting"] /\ Rests
      /\ step.phase = "running" /\ ~InRunningLoop
  BY DEF RunningDone, Rests
<1>3. /\ step'.phase \in {"waiting", "end"} /\ step'.tokens = step.tokens
      /\ step'.preempted = step.preempted
  BY <1>1, <1>2 DEF Typed
<1>4. running \in Seq(Request)  BY <1>1 DEF Typed
<1>5. DOMAIN running = 1..Len(running) /\ Len(running) \in Nat  BY <1>4
<1>6. step.index \in Nat \ {0} /\ step.budget \in Nat /\ step.slot \in Nat /\ step.slot > 0
  BY <1>1, <1>2 DEF Typed
<1>7. ASSUME Concurrent, Patch = "v024", ~step.preempted, MaxNumPartialPrefills <= MaxNumScheduledTokens,
             \A s \in ToSet(running) : IsPrefill(s) \/ step.tokens[s] = 0,
             NEW r \in Prefills(running)
      PROVE  step.tokens[r] > 0
  <2>1. OnlyPrefills  BY <1>7 DEF OnlyPrefills, ToSet
  <2>2. SharesAhead  BY <1>2, <1>7, <2>1 DEF Shares, SharesAhead
  <2>3. PICK j \in DOMAIN running : running[j] = r  BY <1>7 DEF Prefills, ToSet
  <2>4. IsPrefill(r)  BY <1>7 DEF Prefills
  <2>5. CASE j < step.index  BY <2>2, <2>3, <2>4, <2>5 DEF SharesAhead
  <2>6. CASE j >= step.index
    <3>1. step.index <= Len(running)  BY <1>5, <1>6, <2>6
    <3>2. step.budget = 0  BY <1>2, <1>6, <3>1 DEF InRunningLoop
    <3>3. r \in Ahead  BY <1>7, <2>3, <2>6 DEF Ahead
    <3>4. IsFiniteSet(Ahead)
      <4>1. IsFiniteSet(ToSet(running))  BY <1>4, FiniteElements
      <4>2. Ahead \subseteq ToSet(running)  BY DEF Ahead, Prefills
      <4> QED  BY <4>1, <4>2, FS_Subset
    <3>5. Cardinality(Ahead) \in Nat /\ Cardinality(Ahead) # 0
      BY <3>3, <3>4, FS_CardinalityType, FS_EmptySet
    <3>6. step.slot * Cardinality(Ahead) <= 0  BY <1>6, <2>2, <3>2, <3>5 DEF SharesAhead
    <3>7. Cardinality(Ahead) = 0  BY <1>6, <3>5, <3>6, SlotProducts
    <3> QED  BY <3>5, <3>7
  <2>7. j \in Nat  BY <1>5
  <2> QED  BY <1>6, <2>5, <2>6, <2>7
<1>8. ToSet(running') = ToSet(running) /\ Prefills(running)' = Prefills(running)
      /\ \A s : IsPrefill(s)' = IsPrefill(s)
  BY <1>2 DEF Rests, Prefills, IsPrefill
<1>9. PrefillsShareTheBudget'
  BY <1>3, <1>7, <1>8 DEF PrefillsShareTheBudget
<1> QED  BY <1>3, <1>9 DEF Shares

LEMMA AdmitShares ==
    ASSUME ConcurrentAssumption, CInv, Shares, WaitingAdmit PROVE Shares'
<1> DEFINE r == NextWaiting
           n == NewTokens(r)
<1>1. Typed /\ Where  BY DEF CInv
<1>2. /\ step'.phase = "waiting" /\ step'.tokens = [step.tokens EXCEPT ![r] = n]
      /\ step'.preempted = step.preempted
      /\ running' = Append(running, r)
      /\ step.phase = "waiting" /\ step.budget > 0
      /\ computed' = computed /\ output' = output
  BY <1>1 DEF WaitingAdmit, InWaitingLoop, Typed
<1>3. InWaitingLoop /\ PopWaiting  BY DEF WaitingAdmit
<1>4. r \in Request /\ r \in ToSet(waiting) \cup ToSet(skipped)  BY <1>3, Popped
<1>5. step.slot > 0 /\ step.tokens \in [Request -> Nat] /\ running \in Seq(Request)
  BY <1>1, <1>2 DEF Typed
<1>6. n \in Nat /\ (IsPrefill(r) => n > 0)  BY <1>2, <1>4, <1>5, NewTokensFacts
<1> HIDE DEF r, n
<1>7. r \notin ToSet(running)
  <2>1. status[r] = "waiting"  BY <1>1, <1>4 DEF Where, Waits
  <2> QED  BY <1>1, <1>4, <2>1 DEF Where
<1>8. ToSet(running') = ToSet(running) \cup {r} /\ ToSet(running) \subseteq Request
  BY <1>2, <1>4, <1>5, AppendFacts, ElementFacts
<1>9. \A s \in Request : step'.tokens[s] = IF s = r THEN n ELSE step.tokens[s]
  BY <1>2, <1>4, <1>5
<1>10. \A s : IsPrefill(s)' = IsPrefill(s)  BY <1>2 DEF IsPrefill
<1>11. ASSUME Concurrent, Patch = "v024", ~step.preempted, MaxNumPartialPrefills <= MaxNumScheduledTokens,
              \A s \in ToSet(running') : IsPrefill(s) \/ step'.tokens[s] = 0,
              NEW s \in ToSet(running'), IsPrefill(s)
       PROVE  step'.tokens[s] > 0
  <2>1. CASE s = r  BY <1>4, <1>6, <1>9, <1>11, <2>1
  <2>2. CASE s # r
    <3>1. \A t \in ToSet(running) : IsPrefill(t) \/ step.tokens[t] = 0
      BY <1>7, <1>8, <1>9, <1>11
    <3>2. s \in Prefills(running)  BY <1>8, <1>11, <2>2 DEF Prefills
    <3>3. step.tokens[s] > 0
      BY <1>2, <1>11, <3>1, <3>2 DEF Shares, PrefillsShareTheBudget
    <3> QED  BY <1>8, <1>9, <2>2, <1>11, <3>3
  <2> QED  BY <2>1, <2>2
<1>12. Prefills(running)' = {s \in ToSet(running') : IsPrefill(s)}  BY <1>10 DEF Prefills
<1>13. PrefillsShareTheBudget'
  BY <1>2, <1>10, <1>11, <1>12 DEF PrefillsShareTheBudget
<1> QED  BY <1>2, <1>13 DEF Shares

\* The steps of the WAITING loop that give nobody tokens.
LEMMA QuietShares ==
    ASSUME Shares, step.phase \in {"waiting", "end"}, step'.phase \in {"waiting", "end"},
           running' = running, computed' = computed, output' = output,
           step'.tokens = step.tokens, step'.preempted = step.preempted
    PROVE  Shares'
<1>1. Prefills(running)' = Prefills(running) /\ \A s : IsPrefill(s)' = IsPrefill(s)
  BY DEF Prefills, IsPrefill
<1>2. PrefillsShareTheBudget'  BY <1>1 DEF Shares, PrefillsShareTheBudget
<1> QED  BY <1>2 DEF Shares

LEMMA SharesStep ==
    ASSUME ConcurrentAssumption, CInv, Limits, Shares, [Next]_concurrentVars PROVE Shares'
<1>1. DOMAIN step = {"phase", "index", "budget", "slot", "active", "long", "tokens",
                      "passed", "held", "preempted"}
  BY DEF CInv, Typed
<1>2. CASE StartSchedule  BY <1>2, StartShares
<1>3. CASE RunningSchedule  BY <1>3, RunningScheduleShares
<1>4. CASE RunningPreempt
  <2>1. step'.preempted = TRUE  BY <1>1, <1>4 DEF RunningPreempt
  <2> QED  BY <2>1 DEF Shares, PrefillsShareTheBudget
<1>5. CASE RunningDone  BY <1>5, RunningDoneShares
<1>6. CASE WaitingPass
  <2>1. /\ running' = running /\ computed' = computed /\ output' = output
        /\ step.phase = "waiting" /\ step'.phase = "waiting" /\ step'.tokens = step.tokens
        /\ step'.preempted = step.preempted
    BY <1>1, <1>6 DEF WaitingPass, InWaitingLoop
  <2> QED  BY <2>1, QuietShares
<1>7. CASE WaitingAdmit  BY <1>7, AdmitShares
<1>8. CASE WaitingNoKv
  <2>1. /\ running' = running /\ computed' = computed /\ output' = output
        /\ step.phase = "waiting" /\ step'.phase = "end" /\ step'.tokens = step.tokens
        /\ step'.preempted = step.preempted
    BY <1>1, <1>8 DEF WaitingNoKv, InWaitingLoop
  <2> QED  BY <2>1, QuietShares
<1>9. CASE WaitingDone
  <2>1. /\ running' = running /\ computed' = computed /\ output' = output
        /\ step.phase = "waiting" /\ step'.phase = "end" /\ step'.tokens = step.tokens
        /\ step'.preempted = step.preempted
    BY <1>1, <1>9 DEF WaitingDone
  <2> QED  BY <2>1, QuietShares
<1>10. CASE Finish
  <2>1. step'.phase = "idle"  BY <1>10, Finished, FreshLocals
  <2> QED  BY <2>1 DEF Shares, PrefillsShareTheBudget
<1>11. CASE \E r \in Request : Arrive(r)
  <2>1. step.phase = "idle" /\ step' = step  BY <1>11 DEF Arrive
  <2> QED  BY <2>1 DEF Shares, PrefillsShareTheBudget
<1>12. CASE UNCHANGED concurrentVars
  BY <1>12 DEF concurrentVars, Shares, SharesAhead, PrefillsShareTheBudget, Ahead, OnlyPrefills, Prefills,
       IsPrefill
<1> QED  BY <1>2, <1>3, <1>4, <1>5, <1>6, <1>7, <1>8, <1>9, <1>10, <1>11, <1>12 DEF Next, Engine

LEMMA SharesStay ==
    ASSUME ConcurrentAssumption
    PROVE  /\ Init => CInv /\ Limits /\ Shares
           /\ CInv /\ Limits /\ Shares /\ [Next]_concurrentVars => (CInv /\ Limits /\ Shares)'
<1>1. Init => CInv /\ Limits /\ Shares
  <2>1. Init => step.phase = "idle"  BY FreshLocals DEF Init
  <2>2. Init => Shares  BY <2>1 DEF Shares, PrefillsShareTheBudget
  <2> QED  BY <2>2, InitC, InitLimits
<1>2. CInv /\ Limits /\ Shares /\ [Next]_concurrentVars => (CInv /\ Limits /\ Shares)'
  BY CStep, LimitsStep, SharesStep
<1> QED  BY <1>1, <1>2

\* "chunk multiple active prefills fairly": in a step of v024 whose budget no
\* decode has used, and which has a token for each prefill, no running prefill
\* is left without tokens.
THEOREM ConcurrentPrefillsShareTheBudget ==
    ASSUME ConcurrentAssumption PROVE Spec => []PrefillsShareTheBudget
<1>1. Shares => PrefillsShareTheBudget  BY DEF Shares
<1> QED  BY <1>1, SharesStay, PTL DEF Spec

-----------------------------------------------------------------------------
(* schedule() ends *)

Queued == Len(waiting) + Len(skipped)

\* How many iterations the call can still have.
Left ==
    CASE step.phase = "idle"    -> 0
      [] step.phase = "end"     -> 1
      [] step.phase = "waiting" -> Queued + 2
      [] step.phase = "running" -> 2 * Len(running) - step.index + Queued + 4

IndexInv == step.phase = "running" => step.index <= Len(running) + 1

LEMMA LengthFacts ==
    ASSUME CInv
    PROVE  /\ waiting \in Seq(Request) /\ skipped \in Seq(Request) /\ running \in Seq(Request)
           /\ Len(waiting) \in Nat /\ Len(skipped) \in Nat /\ Len(running) \in Nat
           /\ step.index \in Nat \ {0} /\ step.phase \in {"idle", "running", "waiting", "end"}
           /\ DOMAIN step = {"phase", "index", "budget", "slot", "active", "long", "tokens",
                             "passed", "held", "preempted"}
BY DEF CInv, Typed

LEMMA LeftIsNat == CInv /\ IndexInv => Left \in Nat
BY LengthFacts DEF IndexInv, Left, Queued

LEMMA StartLeft ==
    ASSUME ConcurrentAssumption, CInv, StartSchedule
    PROVE  Left' = 2 * Len(running) + Queued' + 3 /\ IndexInv'
<1>1. running' = running /\ step'.phase = "running" /\ step'.index = 1
  BY FreshLocals DEF StartSchedule
<1>2. Len(waiting') \in Nat /\ Len(skipped') \in Nat
  <2>1. CInv'  BY StartC
  <2>2. waiting' \in Seq(Request) /\ skipped' \in Seq(Request)  BY <2>1 DEF CInv, Typed
  <2> QED  BY <2>2
<1> QED  BY <1>1, <1>2, LengthFacts DEF Left, Queued, IndexInv

LEMMA RunningLeft ==
    ASSUME CInv, IndexInv, RunningSchedule \/ RunningPreempt \/ RunningDone
    PROVE  Left' < Left /\ IndexInv'
<1>1. /\ waiting \in Seq(Request) /\ running \in Seq(Request)
      /\ Len(waiting) \in Nat /\ Len(skipped) \in Nat /\ Len(running) \in Nat
      /\ step.index \in Nat \ {0} /\ step.phase = "running" /\ step.index <= Len(running) + 1
      /\ DOMAIN step = {"phase", "index", "budget", "slot", "active", "long", "tokens",
                        "passed", "held", "preempted"}
  BY LengthFacts DEF RunningSchedule, RunningPreempt, RunningDone, InRunningLoop, IndexInv
<1>2. CASE RunningSchedule
  <2>1. waiting' = waiting /\ skipped' = skipped /\ running' = running /\ step.index <= Len(running)
    BY <1>2 DEF RunningSchedule, InRunningLoop
  <2>2. step'.phase = "running" /\ step'.index = step.index + 1
    BY <1>1, <1>2 DEF RunningSchedule
  <2> QED  BY <1>1, <2>1, <2>2 DEF Left, Queued, IndexInv
<1>3. CASE RunningPreempt
  <2>1. /\ waiting' = <<Last(running)>> \o waiting /\ skipped' = skipped
        /\ running' = Front(running) /\ step.index <= Len(running) /\ Len(running) > 1
    BY <1>3 DEF RunningPreempt, InRunningLoop
  <2>2. step'.phase = "running" /\ step'.index = step.index  BY <1>1, <1>3 DEF RunningPreempt
  <2>3. Len(running') = Len(running) - 1
    <3>1. running # <<>>  BY <2>1
    <3> QED  BY <1>1, <2>1, <3>1, LastFacts
  <2>4. Len(waiting') = Len(waiting) + 1
    <3>1. running # <<>>  BY <2>1
    <3>2. Last(running) \in Request  BY <1>1, <3>1, LastFacts
    <3> QED  BY <1>1, <2>1, <3>2
  <2> QED  BY <1>1, <2>1, <2>2, <2>3, <2>4 DEF Left, Queued, IndexInv
<1>4. CASE RunningDone
  <2>1. waiting' = waiting /\ skipped' = skipped /\ step'.phase \in {"end", "waiting"}
    BY <1>1, <1>4 DEF RunningDone
  <2> QED  BY <1>1, <2>1 DEF Left, Queued, IndexInv
<1> QED  BY <1>2, <1>3, <1>4

\* Neither reordering nor passing over puts a request back on the queue that
\* the WAITING loop empties.
LEMMA WaitingLeft ==
    ASSUME ConcurrentAssumption, CInv, WaitingPass \/ WaitingAdmit \/ WaitingNoKv \/ WaitingDone
    PROVE  Left' < Left /\ IndexInv'
<1>1. /\ waiting \in Seq(Request) /\ skipped \in Seq(Request)
      /\ Len(waiting) \in Nat /\ Len(skipped) \in Nat /\ step.phase = "waiting"
      /\ DOMAIN step = {"phase", "index", "budget", "slot", "active", "long", "tokens",
                        "passed", "held", "preempted"}
  BY LengthFacts DEF WaitingPass, WaitingAdmit, WaitingNoKv, WaitingDone, InWaitingLoop
<1>2. CASE WaitingPass \/ WaitingAdmit
  <2> DEFINE w == Reordered
  <2>1. w \in Seq(Request) /\ IsInjective(w) /\ ToSet(w) = ToSet(waiting)  BY ReorderedFacts
  <2>2. IsInjective(waiting)  BY DEF CInv, Apart
  <2>3. waiting \o skipped # <<>>  BY <1>2 DEF WaitingPass, WaitingAdmit, InWaitingLoop
  <2>4. IF skipped = <<>> THEN waiting' = Tail(w) /\ skipped' = skipped
                          ELSE waiting' = w /\ skipped' = Tail(skipped)
    BY <1>2 DEF WaitingPass, WaitingAdmit, PopWaiting
  <2>5. step'.phase = "waiting"  BY <1>1, <1>2 DEF WaitingPass, WaitingAdmit
  <2> HIDE DEF w
  <2>6. Len(w) = Len(waiting)  BY <1>1, <2>1, <2>2, SameLength
  <2>7. CASE skipped = <<>>
    <3>1. waiting \o <<>> = waiting  BY <1>1
    <3>2. Len(waiting) # 0  BY <1>1, <2>3, <2>7, <3>1
    <3>3. w # <<>>  BY <2>1, <2>6, <3>2
    <3>4. Len(waiting') = Len(waiting) - 1 /\ skipped' = skipped
      BY <2>1, <2>4, <2>6, <2>7, <3>3, TailFacts
    <3> QED  BY <1>1, <2>5, <3>4 DEF Left, Queued, IndexInv
  <2>8. CASE skipped # <<>>
    <3>1. Len(skipped') = Len(skipped) - 1 /\ Len(waiting') = Len(waiting)
      BY <1>1, <2>4, <2>6, <2>8, TailFacts
    <3> QED  BY <1>1, <2>5, <3>1 DEF Left, Queued, IndexInv
  <2> QED  BY <2>7, <2>8
<1>3. CASE WaitingNoKv \/ WaitingDone
  <2>1. step'.phase = "end"  BY <1>1, <1>3 DEF WaitingNoKv, WaitingDone
  <2> QED  BY <1>1, <2>1 DEF Left, Queued, IndexInv
<1> QED  BY <1>2, <1>3

\* A call of schedule() ends under each of the patches: it has at most twice as
\* many iterations as there are running requests, one for each request that is
\* not held back and three more, however the queue is reordered.
THEOREM ConcurrentScheduleEnds ==
    ASSUME ConcurrentAssumption
    PROVE  Spec => /\ [](Left \in Nat)
                   /\ [][/\ StartSchedule => Left' = 2 * Len(running) + Queued' + 3
                         /\ Engine /\ ~StartSchedule => Left' < Left
                         /\ Left' # Left => Engine]_concurrentVars
<1> DEFINE I == CInv /\ IndexInv
           A == /\ StartSchedule => Left' = 2 * Len(running) + Queued' + 3
                /\ Engine /\ ~StartSchedule => Left' < Left
                /\ Left' # Left => Engine
<1>1. Init => I
  <2>1. Init => IndexInv  BY FreshLocals DEF Init, IndexInv
  <2> QED  BY <2>1, InitC
<1>2. ASSUME I, Finish PROVE Left' < Left /\ IndexInv'
  <2>1. step.phase = "end" /\ step'.phase = "idle"  BY <1>2, FreshLocals DEF Finish
  <2> QED  BY <2>1 DEF Left, IndexInv
<1>3. ASSUME I, (\E r \in Request : Arrive(r)) \/ UNCHANGED concurrentVars
      PROVE  Left' = Left /\ IndexInv'
  <2>1. CASE \E r \in Request : Arrive(r)
    <3>1. step.phase = "idle" /\ step' = step  BY <2>1 DEF Arrive
    <3> QED  BY <3>1 DEF Left, IndexInv
  <2>2. CASE UNCHANGED concurrentVars
    BY <1>3, <2>2 DEF concurrentVars, Left, Queued, IndexInv
  <2> QED  BY <1>3, <2>1, <2>2
<1>4. I /\ Engine /\ ~StartSchedule => Left' < Left /\ IndexInv'
  BY <1>2, RunningLeft, WaitingLeft DEF Engine
<1>5. I /\ StartSchedule => Left' = 2 * Len(running) + Queued' + 3 /\ IndexInv'  BY StartLeft
<1>6. I /\ [Next]_concurrentVars => I'
  <2>1. I /\ [Next]_concurrentVars => CInv'  BY CStep
  <2>2. I /\ [Next]_concurrentVars => IndexInv'  BY <1>3, <1>4, <1>5 DEF Next
  <2> QED  BY <2>1, <2>2
<1>7. I /\ [Next]_concurrentVars => A  BY <1>3, <1>4, <1>5 DEF Next
<1>8. I => Left \in Nat  BY LeftIsNat
<1>9. I /\ [Next]_concurrentVars => [A]_concurrentVars  BY <1>7
<1> HIDE DEF I, A
<1>10. Spec => [](Left \in Nat) /\ [][A]_concurrentVars  BY <1>1, <1>6, <1>8, <1>9, PTL DEF Spec
<1> QED  BY <1>10 DEF A
=============================================================================
