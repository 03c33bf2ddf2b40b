------------------------ MODULE PrefillTokens_proofs ------------------------
(***************************************************************************)
(* The tokens of the scheduler, for every set of requests and every        *)
(* policy: what a step has left, holds back and has given out adds up to   *)
(* its budget, the accountant agrees with the batch, a placeholder stands  *)
(* for each token on the way, no request is scheduled past its max_tokens, *)
(* and a request owns the blocks of the tokens it has.                     *)
(***************************************************************************)
EXTENDS PrefillScheduler_proofs

\* Two batches in flight, as in the asynchronous engine, or one.
Shallow == BatchQueueSize <= 2

\* The tokens that the batches of a queue owe r, and those in flight.
Count(queue, r) == Cardinality({i \in DOMAIN queue : r \in queue[i].emits})
Pending(r) == Count(inflight, r)

Types ==
    /\ computed \in [Request -> Nat] /\ output \in [Request -> Nat]
    /\ placeholders \in [Request -> Nat] /\ chunk \in [Request -> BOOLEAN]
    /\ step.scheduled \in [Request -> Nat]

SwapTypes ==
    preemptions \in [Request -> Nat] /\ backoff \subseteq Request /\ compiled \subseteq Request

\* What is on its way to an unfinished request; a new one has nothing yet.
Owed ==
    \A r \in Request :
        /\ status[r] # "FINISHED" =>
            /\ placeholders[r] = IF AsyncScheduling THEN Pending(r) ELSE 0
            /\ output[r] < MaxTokens[r] /\ output[r] + Pending(r) <= MaxTokens[r]
        /\ status[r] \in {"ABSENT", "WAITING", "WAITING_FOR_GRAMMAR"} => output[r] = 0

\* A running request has computed all but the newest token it has, or is
\* still in its prefill, with none to come.
Decoding(r) == ~chunk[r] /\ computed[r] = NumTokens(r) + Pending(r) - 1
Prefilling(r) ==
    Pending(r) = 0 /\ computed[r] < NumTokens(r) /\ (chunk[r] \/ step.scheduled[r] > 0)
Kinds == \A r \in Request : status[r] = "RUNNING" => Decoding(r) \/ Prefilling(r)

\* What a step gives is needed, and its token will be below max_tokens.
Needed ==
    \A r \in Request : step.scheduled[r] > 0 =>
        /\ output[r] + Pending(r) < MaxTokens[r]
        /\ computed[r] + step.scheduled[r] <= NumTokens(r) + placeholders[r]

\* A request that does not run has a token to come only if it was preempted
\* after the oldest batch was built, which is processed before the next step.
Late ==
    /\ Len(inflight) <= BatchQueueSize
    /\ step.phase # "idle" => Len(inflight) < BatchQueueSize
    /\ \A r \in Request : status[r] \notin {"RUNNING", "FINISHED"} /\ Pending(r) > 0 =>
        /\ status[r] = "PREEMPTED" /\ r \in inflight[1].emits
        /\ step.phase = "idle" => Len(inflight) = 2 /\ r \notin inflight[2].emits
        /\ step.phase # "idle" => step.preempted

\* After a preemption the loop of the waiting requests is entered for the
\* candidate of the swap only, which takes the only slot.
Slots ==
    /\ Len(running) <= MaxNumRunningReqs
    /\ step.phase = "waiting" =>
        \/ ~step.preempted
        \/ Len(running) >= MaxNumRunningReqs
        \/ /\ Len(running) >= MaxNumRunningReqs - 1 /\ waiting # <<>>
           /\ BatchBudget => HasCap(step.acct, Head(waiting))
           /\ status[Head(waiting)] = "WAITING"

Account ==
    LET a == step.acct IN
    /\ AccountType(a) /\ IsAccount(a) /\ DOMAIN a.caps \subseteq Request
    /\ a.by \in [Source -> Nat]
    /\ \A r \in DOMAIN a.caps : a.caps[r] > 0
    /\ BatchBudget =>
        /\ a.remaining >= 0
        /\ a.remaining + CommittedTokens(a) = a.total
        /\ a.total = SumFunction(a.caps)
        /\ \A r \in DOMAIN a.caps :
            /\ a.committed[r] = step.scheduled[r] /\ a.committed[r] <= a.caps[r]
            /\ step.phase \in {"running", "restore", "swap"} /\ status[r] = "RUNNING" => chunk[r]

Budget ==
    /\ step.budget \in Nat /\ step.held \in Nat
    /\ BudgetConserved

Tokens == Types /\ Owed /\ Kinds /\ Needed /\ ComputedTokensHaveBlocks

TInv == Tokens /\ Late /\ Slots /\ Account /\ Budget /\ SwapTypes

-----------------------------------------------------------------------------
(* Counts and blocks *)

LEMMA PositionsAreFinite ==
    ASSUME NEW n \in Nat, NEW S \in SUBSET (1..n)
    PROVE  IsFiniteSet(S) /\ Cardinality(S) \in 0..n /\ (Cardinality(S) = 0 <=> S = {})
<1>1. IsFiniteSet(1..n) /\ Cardinality(1..n) = n
  <2>1. IsFiniteSet(1..n) /\ Cardinality(1..n) = IF 1 > n THEN 0 ELSE n - 1 + 1  BY FS_Interval
  <2> QED  BY <2>1
<1>2. IsFiniteSet(S) /\ Cardinality(S) <= n  BY <1>1, FS_Subset
<1>3. Cardinality(S) \in Nat  BY <1>2, FS_CardinalityType
<1>4. Cardinality(S) = 0 <=> S = {}  BY <1>2, FS_EmptySet
<1> QED  BY <1>2, <1>3, <1>4

LEMMA CountFacts ==
    ASSUME NEW q \in Seq(Batch), NEW r
    PROVE  /\ Count(q, r) \in Nat /\ Count(q, r) <= Len(q)
           /\ Count(q, r) > 0 <=> \E i \in DOMAIN q : r \in q[i].emits
<1> DEFINE S == {i \in DOMAIN q : r \in q[i].emits}
<1>1. Len(q) \in Nat /\ S \in SUBSET (1..Len(q))  OBVIOUS
<1>2. Cardinality(S) \in 0..Len(q) /\ (Cardinality(S) = 0 <=> S = {})
  <2> HIDE DEF S
  <2> QED  BY <1>1, PositionsAreFinite
<1>3. S # {} <=> \E i \in DOMAIN q : r \in q[i].emits  OBVIOUS
<1>4. Count(q, r) = Cardinality(S)  BY DEF Count
<1> HIDE DEF S
<1>5. Cardinality(S) \in Nat /\ Cardinality(S) <= Len(q)  BY <1>1, <1>2
<1>6. Cardinality(S) > 0 <=> S # {}  BY <1>2, <1>5
<1> QED  BY <1>3, <1>4, <1>5, <1>6

LEMMA CountAppend ==
    ASSUME NEW q \in Seq(Batch), NEW b \in Batch, NEW r
    PROVE  Count(Append(q, b), r) = Count(q, r) + (IF r \in b.emits THEN 1 ELSE 0)
<1> DEFINE p == Append(q, b)
           n == Len(q)
           S == {i \in DOMAIN q : r \in q[i].emits}
           T == {i \in DOMAIN p : r \in p[i].emits}
<1>1. /\ n \in Nat /\ DOMAIN q = 1..n /\ DOMAIN p = 1..(n + 1) /\ p[n + 1] = b
      /\ \A i \in 1..n : p[i] = q[i]
  OBVIOUS
<1> HIDE DEF p
<1>2. \A i \in 1..(n + 1) : i = n + 1 \/ i \in 1..n  BY <1>1
<1>3. T = IF r \in b.emits THEN S \cup {n + 1} ELSE S  BY <1>1, <1>2
<1>4. n + 1 \notin S /\ S \in SUBSET (1..n)  BY <1>1
<1> HIDE DEF S, T
<1>5. IsFiniteSet(S) /\ Cardinality(S) \in Nat  BY <1>1, <1>4, PositionsAreFinite
<1>6. Cardinality(S \cup {n + 1}) = Cardinality(S) + 1  BY <1>4, <1>5, FS_AddElement
<1>7. Count(p, r) = Cardinality(T) /\ Count(q, r) = Cardinality(S)  BY DEF Count, S, T
<1> QED  BY <1>3, <1>5, <1>6, <1>7 DEF p

LEMMA CountTail ==
    ASSUME NEW q \in Seq(Batch), q # <<>>, NEW r
    PROVE  Count(q, r) = Count(Tail(q), r) + (IF r \in Head(q).emits THEN 1 ELSE 0)
<1> DEFINE t == Tail(q)
           n == Len(t)
           S == {i \in DOMAIN t : r \in t[i].emits}
           T == {i \in DOMAIN q : r \in q[i].emits}
           U == T \ {1}
<1>1. /\ n \in Nat /\ DOMAIN t = 1..n /\ DOMAIN q = 1..(n + 1) /\ q[1] = Head(q)
      /\ \A i \in 1..n : t[i] = q[i + 1]
  OBVIOUS
<1> HIDE DEF t, n
<1>2. \A i \in U : i - 1 \in S /\ i \in 2..(n + 1)
  <2> SUFFICES ASSUME NEW i \in U PROVE i - 1 \in S /\ i \in 2..(n + 1)  OBVIOUS
  <2>1. i \in 1..(n + 1) /\ i # 1 /\ r \in q[i].emits  BY <1>1
  <2>2. i - 1 \in 1..n /\ (i - 1) + 1 = i  BY <1>1, <2>1
  <2>3. t[i - 1] = q[i]  BY <1>1, <2>2
  <2> QED  BY <1>1, <2>1, <2>2, <2>3
<1>3. \A i \in S : i + 1 \in U /\ i \in 1..n  BY <1>1
<1>4. S \in SUBSET (1..n) /\ U \in SUBSET (1..(n + 1)) /\ T \in SUBSET (1..(n + 1))  BY <1>1
<1>5. 1 \in T <=> r \in Head(q).emits  BY <1>1
<1> HIDE DEF S, T
<1>6. IsFiniteSet(T) /\ Cardinality(T) \in Nat  BY <1>1, <1>4, PositionsAreFinite
<1>7. Cardinality(U) = IF 1 \in T THEN Cardinality(T) - 1 ELSE Cardinality(T)
  BY <1>6, FS_RemoveElement
<1> HIDE DEF U
<1>8. Cardinality(U) = Cardinality(S)
  <2> DEFINE f == [i \in S |-> i + 1]
  <2>1. f \in Injection(S, U)
    <3>1. f \in [S -> U]  BY <1>3
    <3>2. \A i, j \in S : f[i] = f[j] => i = j  BY <1>1, <1>3
    <3> HIDE DEF f
    <3> QED  BY <3>1, <3>2 DEF Injection, IsInjective
  <2>2. f \in Surjection(S, U)
    <3>1. f \in [S -> U]  BY <1>3
    <3>2. \A j \in U : \E i \in S : f[i] = j
      <4> SUFFICES ASSUME NEW j \in U PROVE \E i \in S : f[i] = j  OBVIOUS
      <4>1. j - 1 \in S /\ (j - 1) + 1 = j  BY <1>1, <1>2
      <4> QED  BY <4>1
    <3> HIDE DEF f
    <3> QED  BY <3>1, <3>2 DEF Surjection
  <2>3. IsFiniteSet(U) /\ IsFiniteSet(S)  BY <1>1, <1>4, PositionsAreFinite
  <2> HIDE DEF f
  <2> QED  BY <2>1, <2>2, <2>3, FS_Injection
<1>9. Count(t, r) = Cardinality(S) /\ Count(q, r) = Cardinality(T)  BY DEF Count, S, T
<1>10. Cardinality(S) \in Nat  BY <1>1, <1>4, PositionsAreFinite
<1> QED  BY <1>5, <1>6, <1>7, <1>8, <1>9, <1>10 DEF t

\* The lowest n elements of a set of positions are n.
LEMMA LowestAreMany ==
    ASSUME NEW N \in Nat, NEW S \in SUBSET (1..N), NEW n \in 0..Cardinality(S)
    PROVE  Cardinality({b \in S : Cardinality({c \in S : c < b}) < n}) = n
<1> DEFINE Below(b) == {c \in S : c < b}
           Lowest(k) == {b \in S : Cardinality(Below(b)) < k}
           L == Cardinality(S)
           T == {k \in 0..L : Cardinality(Lowest(k)) = k}
<1>1. IsFiniteSet(S) /\ L \in 0..N  BY PositionsAreFinite
<1>2. \A b \in S : Below(b) \in SUBSET S /\ Cardinality(Below(b)) \in Nat
  <2> SUFFICES ASSUME NEW b \in S PROVE Cardinality(Below(b)) \in Nat  OBVIOUS
  <2>1. Below(b) \in SUBSET (1..N)  OBVIOUS
  <2> HIDE DEF Below
  <2> QED  BY <2>1, PositionsAreFinite
<1>3. 0 \in T
  <2>1. Lowest(0) = {}
    <3>1. \A b \in S : ~(Cardinality(Below(b)) < 0)
      <4> SUFFICES ASSUME NEW b \in S PROVE ~(Cardinality(Below(b)) < 0)  OBVIOUS
      <4>1. Cardinality(Below(b)) \in Nat  BY <1>2
      <4> HIDE DEF Below
      <4> QED  BY <4>1
    <3> QED  BY <3>1
  <2> HIDE DEF Lowest, L
  <2> QED  BY <1>1, <2>1, FS_EmptySet
<1>4. ASSUME NEW k \in T, k < L PROVE k + 1 \in T
  <2>1. k \in Nat /\ Cardinality(Lowest(k)) = k /\ k + 1 \in 0..L  BY <1>1, <1>4
  <2>2. Lowest(k) \in SUBSET S  OBVIOUS
  <2>3. S \ Lowest(k) # {} /\ S \ Lowest(k) \in SUBSET Nat
    <3> HIDE DEF Lowest
    <3>1. ASSUME S \ Lowest(k) = {} PROVE FALSE
      <4>1. Lowest(k) = S  BY <2>2, <3>1
      <4> QED  BY <1>4, <2>1, <4>1
    <3>2. S \subseteq Nat  OBVIOUS
    <3> QED  BY <3>1, <3>2
  <2>4. PICK m \in S \ Lowest(k) : \A y \in S \ Lowest(k) : m <= y
    <3> HIDE DEF Lowest
    <3> QED  BY <2>3, NatMinimum
  <2>5. m \in S /\ m \in 1..N /\ Cardinality(Below(m)) >= k
    BY <1>2, <2>1, <2>4
  <2>6. Below(m) = Lowest(k)
    <3>1. \A c \in S : c < m => c \in Lowest(k)
      <4> SUFFICES ASSUME NEW c \in S, c < m, c \notin Lowest(k) PROVE FALSE  OBVIOUS
      <4>1. m <= c  BY <2>4
      <4>2. c \in 1..N  OBVIOUS
      <4> QED  BY <2>5, <4>1, <4>2
    <3>2. ASSUME NEW c \in Lowest(k), ~(c < m) PROVE FALSE
      <4>1. c \in S /\ c \in 1..N /\ Cardinality(Below(c)) < k /\ Cardinality(Below(c)) \in Nat
        BY <1>2
      <4>2. Below(m) \subseteq Below(c)
        <5> SUFFICES ASSUME NEW x \in S, x < m PROVE x < c  OBVIOUS
        <5>1. x \in 1..N  OBVIOUS
        <5> QED  BY <2>5, <3>2, <4>1, <5>1
      <4>3. IsFiniteSet(Below(c))
        <5>1. Below(c) \in SUBSET S  OBVIOUS
        <5> HIDE DEF Below
        <5> QED  BY <1>1, <5>1, FS_Subset
      <4>4. Cardinality(Below(m)) <= Cardinality(Below(c))
        <5> HIDE DEF Below
        <5> QED  BY <4>2, <4>3, FS_Subset
      <4>5. Cardinality(Below(m)) \in Nat  BY <1>2, <2>5
      <4> HIDE DEF Below
      <4> QED  BY <2>1, <2>5, <4>1, <4>4, <4>5
    <3> QED  BY <2>2, <3>1, <3>2
  <2>7. Lowest(k + 1) = Lowest(k) \cup {m}
    <3>1. m \in Lowest(k + 1)
      <4>1. Cardinality(Below(m)) = k  BY <2>1, <2>6
      <4> QED  BY <2>1, <2>5, <4>1
    <3>2. Lowest(k) \subseteq Lowest(k + 1)
      <4> SUFFICES ASSUME NEW b \in S, Cardinality(Below(b)) < k
                   PROVE  Cardinality(Below(b)) < k + 1
        OBVIOUS
      <4>1. Cardinality(Below(b)) \in Nat  BY <1>2
      <4> HIDE DEF Below
      <4> QED  BY <2>1, <4>1
    <3>3. ASSUME NEW b \in Lowest(k + 1), b \notin Lowest(k), b # m PROVE FALSE
      <4>1. b \in S /\ b \in 1..N /\ m <= b  BY <2>4, <3>3
      <4>2. m < b  BY <2>5, <3>3, <4>1
      <4>3. Below(m) \cup {m} \subseteq Below(b)
        <5> SUFFICES ASSUME NEW x \in S, x < m PROVE x < b  BY <2>5, <4>2
        <5>1. x \in 1..N  OBVIOUS
        <5> QED  BY <2>5, <4>1, <4>2, <5>1
      <4>4. IsFiniteSet(Below(b)) /\ IsFiniteSet(Below(m)) /\ m \notin Below(m)
        <5>1. Below(b) \in SUBSET S /\ Below(m) \in SUBSET S  OBVIOUS
        <5>2. m \notin Below(m)  BY <2>5
        <5> HIDE DEF Below
        <5> QED  BY <1>1, <5>1, <5>2, FS_Subset
      <4>5. Cardinality(Below(m) \cup {m}) = k + 1
        <5>1. Cardinality(Below(m)) = k  BY <2>1, <2>6
        <5> HIDE DEF Below
        <5> QED  BY <4>4, <5>1, FS_AddElement
      <4>6. Cardinality(Below(m) \cup {m}) <= Cardinality(Below(b))
        <5> HIDE DEF Below
        <5> QED  BY <4>3, <4>4, FS_Subset
      <4>7. Cardinality(Below(b)) < k + 1 /\ Cardinality(Below(b)) \in Nat  BY <1>2, <3>3, <4>1
      <4> HIDE DEF Below
      <4> QED  BY <2>1, <4>5, <4>6, <4>7
    <3> HIDE DEF Lowest
    <3> QED  BY <3>1, <3>2, <3>3
  <2>8. m \notin Lowest(k) /\ IsFiniteSet(Lowest(k))
    <3> HIDE DEF Lowest
    <3> QED  BY <1>1, <2>2, <2>4, FS_Subset
  <2>9. Cardinality(Lowest(k + 1)) = k + 1
    <3> HIDE DEF Lowest
    <3> QED  BY <2>1, <2>7, <2>8, FS_AddElement
  <2> QED  BY <2>1, <2>9
<1>5. T = 0..L
  <2>1. T \in SUBSET (0..L) /\ L \in Nat  BY <1>1
  <2> HIDE DEF T, L
  <2> QED  BY <1>3, <1>4, <2>1, BoundedInduction
<1>6. n \in T  BY <1>5
<1> QED  BY <1>6

LEMMA BlocksForType == ASSUME NEW n \in Nat PROVE BlocksFor(n) \in Int
BY PoolAssumption DEF BlocksFor

\* A number of tokens rounded down to whole blocks.
LEMMA RoundedDown ==
    ASSUME NEW n \in Nat
    PROVE  (n \div BlockSize) * BlockSize \in 0..n
<1>1. BlockSize \in Nat /\ BlockSize > 0  BY PoolAssumption
<1> DEFINE d == n \div BlockSize
<1>2. d \in Nat  BY <1>1
<1>3. n = BlockSize * d + (n % BlockSize) /\ n % BlockSize \in 0..(BlockSize - 1)  BY <1>1
<1> HIDE DEF d
<1>4. d * BlockSize \in Nat /\ d * BlockSize = BlockSize * d  BY <1>1, <1>2
<1>5. d * BlockSize <= n
  <2> DEFINE m == d * BlockSize
             k == n % BlockSize
  <2>1. n = m + k /\ k \in 0..(BlockSize - 1) /\ m \in Nat  BY <1>3, <1>4
  <2> HIDE DEF m, k
  <2>2. m <= n  BY <1>1, <2>1
  <2> QED  BY <2>2 DEF m
<1> QED  BY <1>4, <1>5 DEF d

\* At least one token of a request has to be computed.
LEMMA CachedFacts ==
    ASSUME Types, NEW r \in Request
    PROVE  /\ NumTokens(r) \in Nat \ {0}
           /\ CachedPrefix(r) \in Nat /\ CachedPrefix(r) < NumTokens(r)
           /\ output[r] = 0 => WaitingRemaining(r) \in Nat \ {0}
<1>1. PromptTokens[r] \in Nat \ {0} /\ CachedTokens[r] \in Nat /\ output[r] \in Nat
  BY RequestAssumption DEF Types
<1>2. NumTokens(r) \in Nat \ {0} /\ (output[r] = 0 => NumTokens(r) = PromptTokens[r])
  BY <1>1 DEF NumTokens
<1> DEFINE n == Least(CachedTokens[r], NumTokens(r) - 1)
<1>3. n \in Nat /\ n < NumTokens(r)  BY <1>1, <1>2 DEF Least
<1> HIDE DEF n
<1>4. (n \div BlockSize) * BlockSize \in 0..n  BY <1>3, RoundedDown
<1>5. CachedPrefix(r) \in 0..n  BY <1>4 DEF CachedPrefix, n
<1> QED  BY <1>1, <1>2, <1>3, <1>5 DEF WaitingRemaining

\* A request for which there are enough free blocks gets them.
LEMMA AllocateEnough ==
    ASSUME PoolInv, NEW r \in Request, NEW n \in Nat, Allocate(r, n),
           MoreBlocks(r, n) <= Cardinality(freeBlocks)
    PROVE  /\ BlocksFor(n) <= Cardinality(blocks'[r])
           /\ \A q \in Request : q # r => blocks'[q] = blocks[q]
<1> DEFINE m == MoreBlocks(r, n)
           new == TakeBlocks(m)
<1>1. /\ blocks \in [Request -> SUBSET Block] /\ freeBlocks \in SUBSET (1..NumBlocks)
      /\ blocks[r] \in SUBSET (1..NumBlocks) /\ blocks[r] \cap freeBlocks = {} /\ NumBlocks \in Nat
  BY PoolAssumption DEF PoolInv, PoolOf, Partitioned, Block
<1>2. IsFiniteSet(freeBlocks) /\ Cardinality(freeBlocks) \in Nat  BY <1>1, PositionsAreFinite
<1>3. IsFiniteSet(blocks[r]) /\ Cardinality(blocks[r]) \in Nat  BY <1>1, PositionsAreFinite
<1>4. BlocksFor(n) \in Int  BY BlocksForType
<1>5. m \in Nat /\ BlocksFor(n) <= Cardinality(blocks[r]) + m
  BY <1>3, <1>4 DEF MoreBlocks, Monus
<1>6. m \in 0..Cardinality(freeBlocks)  BY <1>2, <1>5
<1>7. /\ blocks' = [blocks EXCEPT ![r] = @ \cup new]
  BY DEF Allocate
<1> HIDE DEF m
<1>8. Cardinality(new) = m /\ new \subseteq freeBlocks
  BY <1>1, <1>6, LowestAreMany DEF TakeBlocks
<1> HIDE DEF new
<1>9. IsFiniteSet(new)  BY <1>2, <1>8, FS_Subset
<1>10. blocks[r] \cap new = {}  BY <1>1, <1>8
<1>11. Cardinality(blocks[r] \cup new) = Cardinality(blocks[r]) + Cardinality(new)
  <2>1. Cardinality(blocks[r] \cup new)
          = Cardinality(blocks[r]) + Cardinality(new) - Cardinality(blocks[r] \cap new)
    BY <1>3, <1>9, FS_Union
  <2>2. Cardinality(blocks[r] \cap new) = 0  BY <1>10, FS_EmptySet
  <2> QED  BY <1>3, <1>5, <1>8, <2>1, <2>2
<1>12. blocks'[r] = blocks[r] \cup new  BY <1>1, <1>7
<1>13. BlocksFor(n) <= Cardinality(blocks'[r])  BY <1>5, <1>8, <1>11, <1>12
<1> QED  BY <1>1, <1>7, <1>13

\* The caps are what the budget allows: one for each request that is named,
\* not zero, and never more than the budget in all.
LEMMA GrantedFacts ==
    ASSUME NEW order \in Seq(Request), IsInjective(order), NEW remaining,
           \A r \in ToSet(order) : remaining[r] \in Nat \ {0}, NEW budget \in Nat
    PROVE  LET caps == GrantedCaps(order, remaining, budget) IN
           /\ caps \in [DOMAIN caps -> Nat] /\ \A r \in DOMAIN caps : caps[r] > 0
           /\ DOMAIN caps \subseteq ToSet(order) /\ IsFiniteSet(DOMAIN caps)
           /\ SumFunction(caps) \in 0..budget
<1> DEFINE N == Len(order)
           need(n) == [j \in 1..n |-> remaining[order[j]]]
           before(i) == SumFunction([j \in 1..(i - 1) |-> remaining[order[j]]])
           used(n) == SumFunctionOnSet(need(n), 1..n)
           chosen == {i \in DOMAIN order : i <= MaxRequestsPerStep /\ before(i) < budget}
           caps == GrantedCaps(order, remaining, budget)
<1>1. N \in Nat /\ DOMAIN order = 1..N /\ chosen \subseteq 1..N  OBVIOUS
<1>2. \A i \in 1..N : order[i] \in ToSet(order) /\ remaining[order[i]] \in Nat \ {0}
  BY <1>1 DEF ToSet
<1>3. \A i, j \in 1..N : order[i] = order[j] => i = j  BY <1>1 DEF IsInjective
<1>4. \A n \in 0..N : used(n) \in Nat /\ (n < N => used(n + 1) = used(n) + remaining[order[n + 1]])
  <2>1. ASSUME NEW n \in 0..N, n < N
        PROVE  used(n) \in Int /\ used(n + 1) = used(n) + remaining[order[n + 1]]
    <3> DEFINE f == need(n + 1)
               g == need(n)
    <3>1. n \in Nat /\ n + 1 \in 1..N  BY <1>1, <2>1
    <3>2. \A j \in 1..(n + 1) : f[j] = remaining[order[j]] /\ j \in 1..N  BY <1>1, <3>1
    <3>3. \A j \in 1..n : g[j] = remaining[order[j]] /\ j \in 1..(n + 1)  BY <3>1
    <3> HIDE DEF f, g
    <3>4. \A j \in 1..(n + 1) : f[j] \in Int  BY <1>2, <3>2
    <3>5. \A j \in 1..n : g[j] = f[j]  BY <3>2, <3>3
    <3>6. /\ SumFunctionOnSet(g, 1..n) \in Int
          /\ SumFunctionOnSet(f, 1..(n + 1)) = SumFunctionOnSet(g, 1..n) + f[n + 1]
      BY <3>1, <3>4, <3>5, SumNext
    <3>7. f[n + 1] = remaining[order[n + 1]]  BY <3>1, <3>2
    <3> QED  BY <3>6, <3>7 DEF f, g
  <2> DEFINE T == {n \in 0..N : used(n) \in Nat}
  <2>2. 0 \in T
    <3>1. 1..0 = {}  OBVIOUS
    <3>2. used(0) = 0  BY <3>1, SumEmpty
    <3> HIDE DEF used
    <3> QED  BY <1>1, <3>2
  <2>3. ASSUME NEW n \in T, n < N PROVE n + 1 \in T
    <3>1. used(n + 1) = used(n) + remaining[order[n + 1]] /\ n + 1 \in 1..N
      BY <1>1, <2>1, <2>3
    <3>2. used(n) \in Nat /\ remaining[order[n + 1]] \in Nat  BY <1>2, <3>1
    <3> HIDE DEF used
    <3> QED  BY <3>1, <3>2
  <2>4. T = 0..N
    <3>1. T \in SUBSET (0..N)  OBVIOUS
    <3> HIDE DEF T
    <3> QED  BY <1>1, <2>2, <2>3, <3>1, BoundedInduction
  <2> HIDE DEF used
  <2> QED  BY <2>1, <2>4
<1>5. \A i \in 1..N : before(i) = used(i - 1)
  BY DEF SumFunction
<1> HIDE DEF need, used
<1>6. /\ DOMAIN caps = {order[i] : i \in chosen}
      /\ \A i \in chosen : caps[order[i]] = Least(remaining[order[i]], budget - before(i))
  <2>1. caps = [r \in {order[i] : i \in chosen} |->
                   LET i == CHOOSE j \in chosen : order[j] = r
                   IN Least(remaining[r], budget - before(i))]
    BY DEF GrantedCaps
  <2>2. ASSUME NEW i \in chosen PROVE (CHOOSE j \in chosen : order[j] = order[i]) = i
    <3> DEFINE c == CHOOSE j \in chosen : order[j] = order[i]
    <3>1. c \in chosen /\ order[c] = order[i]  OBVIOUS
    <3> HIDE DEF c, chosen
    <3> QED  BY <1>1, <1>3, <3>1
  <2> HIDE DEF caps, before, chosen
  <2> QED  BY <2>1, <2>2
<1>7. \A i \in chosen : i \in 1..N /\ before(i) < budget  OBVIOUS
<1> HIDE DEF caps, before, chosen
<1>8. \A i \in chosen : /\ caps[order[i]] \in Nat /\ caps[order[i]] > 0
                        /\ caps[order[i]] + used(i - 1) <= budget
                        /\ caps[order[i]] <= remaining[order[i]]
  <2> SUFFICES ASSUME NEW i \in chosen
               PROVE  /\ caps[order[i]] \in Nat /\ caps[order[i]] > 0
                      /\ caps[order[i]] + used(i - 1) <= budget
                      /\ caps[order[i]] <= remaining[order[i]]
    OBVIOUS
  <2>1. i \in 1..N /\ i - 1 \in 0..N /\ used(i - 1) < budget  BY <1>1, <1>5, <1>7
  <2>2. used(i - 1) \in Nat  BY <1>4, <2>1
  <2>3. remaining[order[i]] \in Nat \ {0}  BY <1>2, <2>1
  <2>4. caps[order[i]] = Least(remaining[order[i]], budget - used(i - 1))
    BY <1>5, <1>6, <2>1
  <2> QED  BY <2>1, <2>2, <2>3, <2>4 DEF Least
<1> DEFINE part(k) == {order[i] : i \in {j \in chosen : j <= k}}
           T == {k \in 0..N : /\ SumFunctionOnSet(caps, part(k)) \in Nat
                              /\ SumFunctionOnSet(caps, part(k)) <= used(k)
                              /\ SumFunctionOnSet(caps, part(k)) <= budget}
<1>9. \A k \in 0..N : IsFiniteSet(part(k)) /\ \A x \in part(k) : caps[x] \in Int
  <2> SUFFICES ASSUME NEW k \in 0..N PROVE IsFiniteSet(part(k)) /\ \A x \in part(k) : caps[x] \in Int
    OBVIOUS
  <2>1. IsFiniteSet(ToSet(order))  BY QueueIsFinite
  <2>2. part(k) \subseteq ToSet(order)  BY <1>2, <1>7
  <2>3. \A x \in part(k) : caps[x] \in Int  BY <1>8
  <2> HIDE DEF part
  <2> QED  BY <2>1, <2>2, <2>3, FS_Subset
<1>10. 0 \in T
  <2>1. part(0) = {}  BY <1>1
  <2>2. SumFunctionOnSet(caps, part(0)) = 0  BY <2>1, SumEmpty
  <2>3. used(0) \in Nat /\ 0 \in 0..N  BY <1>1, <1>4
  <2> HIDE DEF part
  <2> QED  BY <2>2, <2>3
<1>11. ASSUME NEW k \in T, k < N PROVE k + 1 \in T
  <2> DEFINE r == order[k + 1]
             sum == SumFunctionOnSet(caps, part(k))
             next == SumFunctionOnSet(caps, part(k + 1))
  <2>1. /\ k \in 0..N /\ k + 1 \in 1..N /\ k + 1 \in 0..N
        /\ sum \in Nat /\ sum <= used(k) /\ sum <= budget
    <3>1. k \in 0..N /\ sum \in Nat /\ sum <= used(k) /\ sum <= budget  OBVIOUS
    <3> HIDE DEF T, sum
    <3> QED  BY <1>1, <1>11, <3>1
  <2>2. used(k) \in Nat /\ used(k + 1) = used(k) + remaining[r]  BY <1>4, <1>11, <2>1
  <2>3. remaining[r] \in Nat  BY <1>2, <2>1
  <2>4. \A j \in chosen : j <= k + 1 <=> (j <= k \/ j = k + 1)  BY <1>1, <2>1
  <2>5. CASE k + 1 \notin chosen
    <3>1. part(k + 1) = part(k)  BY <2>4, <2>5
    <3>2. next = sum  BY <3>1
    <3> HIDE DEF part, sum, next
    <3>3. next \in Nat /\ next <= used(k + 1) /\ next <= budget  BY <2>1, <2>2, <2>3, <3>2
    <3> QED  BY <2>1, <3>3 DEF next
  <2>6. CASE k + 1 \in chosen
    <3>1. r \in part(k + 1)  BY <2>1, <2>6
    <3>2. part(k + 1) \ {r} = part(k)
      <4>1. \A j \in chosen : j <= k => order[j] # r /\ j \in 1..N
        <5> SUFFICES ASSUME NEW j \in chosen, j <= k PROVE order[j] # r /\ j \in 1..N  OBVIOUS
        <5>1. j \in 1..N /\ j # k + 1  BY <1>7, <2>1
        <5> QED  BY <1>3, <2>1, <5>1
      <4> QED  BY <2>4, <4>1
    <3>3. IsFiniteSet(part(k + 1)) /\ \A x \in part(k + 1) : caps[x] \in Int  BY <1>9, <2>1
    <3> HIDE DEF part
    <3>4. next = caps[r] + sum  BY <3>1, <3>2, <3>3, SumSplit
    <3>5. caps[r] \in Nat /\ caps[r] + used(k) <= budget /\ caps[r] <= remaining[r]
      <4>1. k + 1 - 1 = k  BY <2>1
      <4> QED  BY <1>8, <2>6, <4>1
    <3> HIDE DEF sum, next
    <3>6. next \in Nat /\ next <= used(k + 1) /\ next <= budget
      BY <2>1, <2>2, <2>3, <3>4, <3>5
    <3> QED  BY <2>1, <3>6 DEF next
  <2> QED  BY <2>5, <2>6
<1>12. T = 0..N
  <2>1. T \in SUBSET (0..N)  OBVIOUS
  <2> HIDE DEF T
  <2> QED  BY <1>1, <1>10, <1>11, <2>1, BoundedInduction
<1>13. DOMAIN caps = part(N)
  <2>1. \A j \in chosen : j <= N  BY <1>1, <1>7
  <2> QED  BY <1>6, <2>1
<1>14. SumFunction(caps) \in 0..budget
  <2>1. N \in T  BY <1>1, <1>12
  <2>2. SumFunction(caps) = SumFunctionOnSet(caps, part(N))  BY <1>13 DEF SumFunction
  <2> HIDE DEF part
  <2> QED  BY <2>1, <2>2
<1>15. \A r \in DOMAIN caps : caps[r] \in Nat /\ caps[r] > 0  BY <1>6, <1>8
<1>16. DOMAIN caps \subseteq ToSet(order) /\ IsFiniteSet(DOMAIN caps)
  <2>1. N \in 0..N  BY <1>1
  <2>2. DOMAIN caps \subseteq ToSet(order)  BY <1>2, <1>6, <1>7
  <2>3. IsFiniteSet(part(N))  BY <1>9, <2>1
  <2> HIDE DEF part
  <2> QED  BY <1>13, <2>2, <2>3
<1>17. caps \in [DOMAIN caps -> Nat]
  <2>1. caps = [r \in DOMAIN caps |-> caps[r]]  BY DEF caps, GrantedCaps
  <2> QED  BY <1>15, <2>1
<1> QED  BY <1>14, <1>15, <1>16, <1>17 DEF caps

-----------------------------------------------------------------------------
(* What a decision holds back and grants *)

\* An accountant as a decision makes it.
Fresh(a) ==
    /\ a = NewAccountant(a.total, a.caps) /\ a.total \in Nat
    /\ a.caps \in [DOMAIN a.caps -> Nat] /\ DOMAIN a.caps \subseteq Request
    /\ \A r \in DOMAIN a.caps : a.caps[r] > 0
    /\ BatchBudget => a.total = SumFunction(a.caps)

Granted(d) ==
    /\ d.reserve \in 0..MaxNumScheduledTokens
    /\ Fresh(d.acct)
    /\ BatchBudget => \A r \in DOMAIN d.acct.caps : status[r] = "RUNNING" => chunk[r]

LEMMA FreshMade ==
    ASSUME NEW total \in Nat, NEW caps, caps \in [DOMAIN caps -> Nat],
           DOMAIN caps \subseteq Request, \A r \in DOMAIN caps : caps[r] > 0,
           BatchBudget => total = SumFunction(caps)
    PROVE  Fresh(NewAccountant(total, caps))
<1> DEFINE a == NewAccountant(total, caps)
<1>1. a.total = total /\ a.caps = caps  BY DEF NewAccountant
<1> HIDE DEF a
<1> QED  BY <1>1 DEF Fresh, a

LEMMA FreshInactive == Fresh(NewAccountant(0, <<>>))
<1>1. DOMAIN <<>> = {} /\ <<>> \in [DOMAIN <<>> -> Nat]  OBVIOUS
<1>2. SumFunction(<<>>) = 0  BY <1>1, SumEmpty DEF SumFunction
<1> DEFINE none == <<>>
<1>3. /\ none \in [DOMAIN none -> Nat] /\ DOMAIN none = {} /\ SumFunction(none) = 0
      /\ 0 \in Nat
  BY <1>1, <1>2
<1> HIDE DEF none
<1>4. Fresh(NewAccountant(0, none))
  <2>1. DOMAIN none \subseteq Request /\ (\A r \in DOMAIN none : none[r] > 0)
        /\ (BatchBudget => 0 = SumFunction(none))
    BY <1>3
  <2> QED  BY <1>3, <2>1, FreshMade
<1> QED  BY <1>4 DEF none

LEMMA GrantedInactive == Granted(Inactive)
<1>1. Inactive.reserve = 0 /\ Inactive.acct = NewAccountant(0, <<>>)  BY DEF Inactive
<1>2. DOMAIN Inactive.acct.caps = {}  BY <1>1 DEF NewAccountant
<1> QED  BY <1>1, <1>2, FreshInactive, BudgetAssumption DEF Granted

LEMMA SafeReserveType ==
    ASSUME QTyped
    PROVE  MaxSafeReserve \in 0..MaxNumScheduledTokens
<1> DEFINE S == {i \in DOMAIN running : ~chunk[running[i]]}
<1>1. Len(running) \in Nat /\ S \in SUBSET (1..Len(running))  BY DEF QTyped
<1> HIDE DEF S
<1>2. Cardinality(S) \in Nat  BY <1>1, PositionsAreFinite
<1>3. MaxNumScheduledTokens \in Nat  BY BudgetAssumption
<1>4. DecodeFloor = Least(MaxNumScheduledTokens, Cardinality(S))  BY DEF DecodeFloor, S
<1> QED  BY <1>2, <1>3, <1>4 DEF MaxSafeReserve, Least

LEMMA ReservedGranted ==
    ASSUME QTyped, NEW d,
           d.acct = NewAccountant(0, <<>>), d.reserve = Least(ReserveTokens, MaxSafeReserve)
    PROVE  Granted(d)
<1>1. d.reserve \in 0..MaxNumScheduledTokens
  BY SafeReserveType, BudgetAssumption DEF Least
<1>2. DOMAIN d.acct.caps = {}  BY DEF NewAccountant
<1> QED  BY <1>1, <1>2, FreshInactive DEF Granted

LEMMA LegacyGranted ==
    ASSUME QTyped, NEW d \in LegacyDecisions
    PROVE  Granted(d)
<1>1. CASE d = Inactive  BY <1>1, GrantedInactive
<1>2. CASE d # Inactive
  <2>1. PICK c : d = [Inactive EXCEPT !.reserve = Least(ReserveTokens, MaxSafeReserve),
                                      !.candidates = c]
    BY <1>2 DEF LegacyDecisions
  <2>2. d.reserve = Least(ReserveTokens, MaxSafeReserve) /\ d.acct = NewAccountant(0, <<>>)
    BY <2>1 DEF Inactive
  <2> QED  BY <2>2, ReservedGranted
<1> QED  BY <1>1, <1>2

LEMMA DeadlineGranted ==
    ASSUME QTyped, NEW d \in DeadlineDecisions
    PROVE  Granted(d)
<1>1. CASE d = Inactive  BY <1>1, GrantedInactive
<1>2. CASE d # Inactive
  <2>1. PICK c : d = [Inactive EXCEPT !.reserve = Least(ReserveTokens, MaxSafeReserve),
                                      !.candidates = c]
    BY <1>2 DEF DeadlineDecisions
  <2>2. d.reserve = Least(ReserveTokens, MaxSafeReserve) /\ d.acct = NewAccountant(0, <<>>)
    BY <2>1 DEF Inactive
  <2> QED  BY <2>2, ReservedGranted
<1> QED  BY <1>1, <1>2

\* A waiting request that a policy may name needs tokens.
LEMMA NamedNeed ==
    ASSUME QTyped, Apart, Types, Owed, NEW r \in ToSet(NormalWaiting)
    PROVE  r \in Request /\ status[r] = "WAITING" /\ WaitingRemaining(r) \in Nat \ {0}
<1>1. r \in Request /\ status[r] = "WAITING"  BY NormalWaitingFacts
<1>2. output[r] = 0  BY <1>1 DEF Owed
<1> QED  BY <1>1, <1>2, CachedFacts

\* The budget that is selected is at most the largest safe one.
LEMMA SelectedFacts ==
    ASSUME QTyped, NEW sum \in Nat,
           NEW budget \in SelectedBudgets(Least(Least(MaxPrefillTokens, MaxSafeReserve), sum))
    PROVE  budget \in Nat /\ budget <= MaxSafeReserve /\ budget <= MaxNumScheduledTokens
<1> DEFINE upper == Least(Least(MaxPrefillTokens, MaxSafeReserve), sum)
<1>1. /\ upper \in Nat /\ upper <= MaxSafeReserve
      /\ MaxSafeReserve \in Nat /\ MaxSafeReserve <= MaxNumScheduledTokens
  BY SafeReserveType, BudgetAssumption DEF Least
<1>2. budget \in 0..upper
  <2> HIDE DEF upper
  <2>1. SelectedBudgets(upper) \subseteq 0..upper  BY <1>1 DEF SelectedBudgets
  <2> QED  BY <2>1 DEF upper
<1> HIDE DEF upper
<1> QED  BY <1>1, <1>2, BudgetAssumption

LEMMA PredictiveGranted ==
    ASSUME QTyped, Apart, Types, Owed, ~BatchBudget, NEW d \in PredictiveDecisions
    PROVE  Granted(d)
<1>1. CASE d = Inactive  BY <1>1, GrantedInactive
<1>2. CASE d # Inactive
  <2> DEFINE need == [r \in ToSet(NormalWaiting) |-> WaitingRemaining(r)]
             reserve == Least(MaxPrefillTokens, MaxSafeReserve)
             wanted(urgent) == SumFunction([i \in DOMAIN urgent |-> need[urgent[i]]])
  <2>1. PICK urgent \in SetToAllKPermutations(DOMAIN need) :
            \E budget \in SelectedBudgets(Least(reserve, wanted(urgent))) :
                /\ d.reserve = SumFunction(GrantedCaps(urgent, need, budget))
                /\ d.acct = NewAccountant(d.reserve, GrantedCaps(urgent, need, budget))
    <3> DEFINE
           made(urgent, budget, eligible) ==
               LET caps == GrantedCaps(urgent, need, budget)
                   total == SumFunction(caps)
               IN [reserve      |-> total,
                   candidates   |-> Keep(urgent, DOMAIN caps),
                   swapEligible |-> eligible,
                   acct         |-> NewAccountant(total, caps)]
           orders  == SetToAllKPermutations(DOMAIN need) \ {<<>>}
           budgets(urgent) == SelectedBudgets(Least(reserve, wanted(urgent)))
    <3>0. d \in UNION {UNION {{made(urgent, budget, eligible) : eligible \in SwapEligibility} :
                                  budget \in budgets(urgent) \ {0}} : urgent \in orders}
      BY <1>2 DEF PredictiveDecisions
    <3> HIDE DEF made, budgets, need
    <3>1. \E urgent \in SetToAllKPermutations(DOMAIN need) :
              \E budget \in budgets(urgent) : \E eligible : d = made(urgent, budget, eligible)
      BY <3>0
    <3>2. PICK urgent \in SetToAllKPermutations(DOMAIN need) :
              \E budget \in budgets(urgent) : \E eligible : d = made(urgent, budget, eligible)
      BY <3>1
    <3>3. PICK budget \in budgets(urgent) : \E eligible : d = made(urgent, budget, eligible)
      BY <3>2
    <3>4. /\ d.reserve = SumFunction(GrantedCaps(urgent, need, budget))
          /\ d.acct = NewAccountant(d.reserve, GrantedCaps(urgent, need, budget))
      BY <3>3 DEF made
    <3> QED  BY <3>3, <3>4 DEF budgets
  <2>2. DOMAIN need = ToSet(NormalWaiting)  OBVIOUS
  <2>3. urgent \in Seq(Request) /\ IsInjective(urgent) /\ ToSet(urgent) \subseteq ToSet(NormalWaiting)
    <3> HIDE DEF need
    <3> QED  BY <2>2, NormalWaitingFacts, OrdersFacts
  <2>4. \A r \in ToSet(urgent) : need[r] \in Nat \ {0}  BY <2>3, NamedNeed
  <2>5. wanted(urgent) \in Nat
    <3> DEFINE f == [i \in DOMAIN urgent |-> need[urgent[i]]]
    <3>1. IsFiniteSet(DOMAIN urgent)
      <4>1. DOMAIN urgent \in SUBSET (1..Len(urgent)) /\ Len(urgent) \in Nat  BY <2>3
      <4> QED  BY <4>1, PositionsAreFinite
    <3>2. \A i \in DOMAIN urgent : urgent[i] \in ToSet(urgent)  BY DEF ToSet
    <3>3. \A i \in DOMAIN urgent : f[i] \in Nat  BY <2>4, <3>2
    <3>4. DOMAIN f = DOMAIN urgent  OBVIOUS
    <3> HIDE DEF f
    <3>5. SumFunctionOnSet(f, DOMAIN urgent) \in Nat  BY <3>1, <3>3, SumNat
    <3> QED  BY <3>4, <3>5 DEF SumFunction, f
  <2>6. PICK budget \in SelectedBudgets(Least(reserve, wanted(urgent))) :
            /\ d.reserve = SumFunction(GrantedCaps(urgent, need, budget))
            /\ d.acct = NewAccountant(d.reserve, GrantedCaps(urgent, need, budget))
    BY <2>1
  <2> HIDE DEF need, wanted
  <2>7. budget \in Nat /\ budget <= MaxNumScheduledTokens  BY <2>5, SelectedFacts
  <2> DEFINE caps == GrantedCaps(urgent, need, budget)
  <2>8. /\ caps \in [DOMAIN caps -> Nat] /\ \A r \in DOMAIN caps : caps[r] > 0
        /\ DOMAIN caps \subseteq ToSet(urgent) /\ SumFunction(caps) \in 0..budget
    BY <2>3, <2>4, <2>7, GrantedFacts
  <2>9. ToSet(urgent) \subseteq Request  BY <2>3, ElementFacts
  <2> HIDE DEF caps
  <2>10. d.reserve \in Nat /\ d.reserve <= MaxNumScheduledTokens
    BY <2>6, <2>7, <2>8, BudgetAssumption DEF caps
  <2>11. Fresh(d.acct)
    <3>1. DOMAIN caps \subseteq Request /\ d.acct = NewAccountant(d.reserve, caps)
      BY <2>6, <2>8, <2>9 DEF caps
    <3>2. ~BatchBudget  OBVIOUS
    <3> QED  BY <2>8, <2>10, <3>1, <3>2, FreshMade
  <2>12. d.reserve \in 0..MaxNumScheduledTokens  BY <2>10, BudgetAssumption
  <2> QED  BY <2>11, <2>12 DEF Granted
<1> QED  BY <1>1, <1>2

LEMMA BatchBudgetGranted ==
    ASSUME QTyped, Apart, Types, Owed, NEW d \in BatchBudgetDecisions
    PROVE  Granted(d) /\ d.reserve = 0 /\ d.acct.total <= MaxSafeReserve
<1>1. CASE d = Inactive
  <2>1. d.reserve = 0 /\ d.acct.total = 0  BY <1>1 DEF Inactive, NewAccountant
  <2>2. MaxSafeReserve >= 0  BY SafeReserveType
  <2> QED  BY <1>1, <2>1, <2>2, GrantedInactive
<1>2. CASE d # Inactive
  <2> DEFINE chunks == {r \in ToSet(running) : chunk[r] /\ RunningRemaining(r) > 0}
             items == chunks \cup ToSet(NormalWaiting)
             need == [r \in items |-> IF r \in chunks THEN RunningRemaining(r)
                                      ELSE WaitingRemaining(r)]
             upper == Least(Least(MaxPrefillTokens, MaxSafeReserve), SumFunction(need))
  <2>1. PICK order \in SetToSeqs(items) : \E budget \in SelectedBudgets(upper) :
            /\ d.reserve = 0
            /\ \E caps : /\ caps = GrantedCaps(order, need, budget)
                        /\ d.acct = NewAccountant(SumFunction(caps), caps)
    <3> DEFINE made(order, eligible, budget) ==
                   LET caps == GrantedCaps(order, need, budget) IN
                    [reserve      |-> 0,
                     candidates   |-> Keep(order, DOMAIN caps \ chunks),
                     swapEligible |-> eligible,
                     acct         |-> NewAccountant(SumFunction(caps), caps)]
               all == UNION {{made(order, eligible, budget) :
                                 order \in SetToSeqs(items), eligible \in SwapEligibility} :
                             budget \in SelectedBudgets(upper)}
    <3>1. BatchBudgetDecisions = IF upper = 0 THEN {Inactive} ELSE all
      BY DEF BatchBudgetDecisions
    <3>2. d \in all
      <4> HIDE DEF all, upper
      <4> QED  BY <1>2, <3>1
    <3> HIDE DEF made, upper, items, need, chunks
    <3>3. PICK order \in SetToSeqs(items), eligible \in SwapEligibility,
               budget \in SelectedBudgets(upper) : d = made(order, eligible, budget)
      BY <3>2
    <3> QED  BY <3>3 DEF made
  <2>2. items \subseteq Request /\ IsFiniteSet(items)
    <3>1. running \in Seq(Request)  BY DEF QTyped
    <3>2. IsFiniteSet(ToSet(running)) /\ ToSet(running) \subseteq Request
      BY <3>1, QueueIsFinite, ElementFacts
    <3>3. IsFiniteSet(chunks)  BY <3>2, FS_Subset
    <3>4. IsFiniteSet(ToSet(NormalWaiting)) /\ ToSet(NormalWaiting) \subseteq Request
      BY NormalWaitingFacts
    <3> QED  BY <3>2, <3>3, <3>4, FS_Union
  <2>3. \A r \in items : need[r] \in Nat \ {0}
    <3> SUFFICES ASSUME NEW r \in items PROVE need[r] \in Nat \ {0}  OBVIOUS
    <3>1. CASE r \in chunks
      <4>1. need[r] = RunningRemaining(r) /\ RunningRemaining(r) > 0 /\ r \in Request
        BY <2>2, <3>1
      <4>2. RunningRemaining(r) \in Int
        BY <4>1, RequestAssumption DEF RunningRemaining, NumTokens, Types
      <4> HIDE DEF need
      <4> QED  BY <4>1, <4>2
    <3>2. CASE r \notin chunks
      <4>1. need[r] = WaitingRemaining(r) /\ r \in ToSet(NormalWaiting)  BY <3>2
      <4> HIDE DEF need
      <4> QED  BY <4>1, NamedNeed
    <3> QED  BY <3>1, <3>2
  <2>4. DOMAIN need = items  OBVIOUS
  <2>5. \A r \in items : status[r] = "RUNNING" => chunk[r]
    BY NormalWaitingFacts
  <2> HIDE DEF items, need
  <2>6. order \in Seq(Request) /\ IsInjective(order) /\ ToSet(order) \subseteq items
    BY <2>2, OrderFacts
  <2>7. SumFunction(need) \in Nat
    <3>1. SumFunctionOnSet(need, items) \in Nat  BY <2>2, <2>3, SumNat
    <3> QED  BY <2>4, <3>1 DEF SumFunction
  <2>8. PICK budget \in SelectedBudgets(upper) :
            /\ d.reserve = 0
            /\ \E caps : /\ caps = GrantedCaps(order, need, budget)
                        /\ d.acct = NewAccountant(SumFunction(caps), caps)
    BY <2>1
  <2>81. budget \in Nat /\ budget <= MaxSafeReserve  BY <2>7, <2>8, SelectedFacts
  <2> DEFINE caps == GrantedCaps(order, need, budget)
  <2>9. /\ caps \in [DOMAIN caps -> Nat] /\ \A r \in DOMAIN caps : caps[r] > 0
        /\ DOMAIN caps \subseteq ToSet(order) /\ SumFunction(caps) \in 0..budget
    <3>1. \A r \in ToSet(order) : need[r] \in Nat \ {0}  BY <2>3, <2>6
    <3> QED  BY <2>6, <2>81, <3>1, GrantedFacts
  <2>10. d.reserve = 0 /\ d.acct = NewAccountant(SumFunction(caps), caps)  BY <2>8
  <2> HIDE DEF caps
  <2>11. DOMAIN caps \subseteq items /\ DOMAIN caps \subseteq Request  BY <2>2, <2>6, <2>9
  <2>12. Fresh(d.acct)
    <3>1. SumFunction(caps) \in Nat  BY <2>9
    <3> QED  BY <2>9, <2>10, <2>11, <3>1, FreshMade
  <2>13. d.acct.caps = caps /\ d.acct.total = SumFunction(caps)  BY <2>10 DEF NewAccountant
  <2>14. d.reserve \in 0..MaxNumScheduledTokens  BY <2>10, BudgetAssumption
  <2>15. Granted(d)  BY <2>5, <2>11, <2>12, <2>13, <2>14 DEF Granted
  <2>16. d.acct.total <= MaxSafeReserve
    <3>1. MaxSafeReserve \in Nat  BY SafeReserveType
    <3> QED  BY <2>9, <2>13, <2>81, <3>1
  <2> QED  BY <2>10, <2>15, <2>16
<1> QED  BY <1>1, <1>2

LEMMA DecisionGrants ==
    ASSUME QTyped, Apart, Types, Owed, NEW d \in Decisions
    PROVE  Granted(d)
<1>1. \/ d \in LegacyDecisions
      \/ d \in DeadlineDecisions
      \/ ~BatchBudget /\ d \in PredictiveDecisions
      \/ d \in BatchBudgetDecisions
      \/ d = Inactive
  <2>1. PICK D \in {IF PolicyMode = "legacy" THEN LegacyDecisions ELSE {},
                    IF PolicyMode = "deadline" THEN DeadlineDecisions ELSE {},
                    IF PolicyMode = "predictive" THEN PredictiveDecisions ELSE {},
                    IF BatchBudget THEN BatchBudgetDecisions ELSE {},
                    IF PolicyMode = "off" THEN {Inactive} ELSE {}} : d \in D
    BY DEF Decisions
  <2>2. PolicyMode = "predictive" => ~BatchBudget  BY DEF BatchBudget
  <2> QED  BY <2>1, <2>2
<1> QED
  BY <1>1, LegacyGranted, DeadlineGranted, PredictiveGranted, BatchBudgetGranted, GrantedInactive

-----------------------------------------------------------------------------
(* The beginning, and the steps that give nothing *)

LEMMA CountNone == ASSUME NEW r PROVE Count(<<>>, r) = 0
<1>1. {i \in DOMAIN <<>> : r \in <<>>[i].emits} = {}  OBVIOUS
<1>2. Cardinality({}) = 0  BY FS_EmptySet
<1> QED  BY <1>1, <1>2 DEF Count

\* Nothing is committed of a fresh account.
LEMMA FreshAccount ==
    ASSUME NEW a, Fresh(a), IsFiniteSet(Request), NEW s \in [Request -> Nat],
           \A r \in Request : s[r] = 0
    PROVE  /\ AccountType(a) /\ IsAccount(a) /\ DOMAIN a.caps \subseteq Request
           /\ a.by \in [Source -> Nat]
           /\ \A r \in DOMAIN a.caps : a.caps[r] > 0
           /\ BatchBudget =>
               /\ a.remaining >= 0
               /\ a.remaining + CommittedTokens(a) = a.total
               /\ a.total = SumFunction(a.caps)
               /\ \A r \in DOMAIN a.caps : a.committed[r] = s[r] /\ a.committed[r] <= a.caps[r]
<1> DEFINE D == DOMAIN a.caps
<1>1. /\ a = NewAccountant(a.total, a.caps) /\ a.total \in Nat
      /\ a.caps \in [D -> Nat] /\ D \subseteq Request
      /\ \A r \in D : a.caps[r] > 0
      /\ BatchBudget => a.total = SumFunction(a.caps)
  BY DEF Fresh
<1>2. a = [total |-> a.total, remaining |-> a.total, caps |-> a.caps,
           committed |-> [r \in D |-> 0], by |-> [q \in Source |-> 0]]
  BY <1>1 DEF NewAccountant
<1>3. a.remaining = a.total  BY <1>2
<1>4. a.committed = [r \in D |-> 0]  BY <1>2
<1>5. a.by = [q \in Source |-> 0]  BY <1>2
<1>6. IsAccount(a)  BY <1>2, <1>3, <1>4, <1>5 DEF IsAccount
<1> HIDE DEF D
<1>7. AccountType(a)
  <2>1. a.committed \in [D -> Int]  BY <1>4
  <2> QED  BY <1>1, <1>3, <2>1 DEF AccountType, D
<1>8. a.by \in [Source -> Nat]  BY <1>5
<1>9. CommittedTokens(a) = 0
  <2>1. DOMAIN a.committed = D /\ \A r \in D : a.committed[r] = 0  BY <1>4
  <2>2. IsFiniteSet(D)  BY <1>1, FS_Subset
  <2> QED  BY <2>1, <2>2, SumZero DEF CommittedTokens, SumFunction
<1>10. \A r \in D : a.committed[r] = s[r] /\ a.committed[r] <= a.caps[r]
  <2> SUFFICES ASSUME NEW r \in D PROVE a.committed[r] = s[r] /\ a.committed[r] <= a.caps[r]
    OBVIOUS
  <2>1. a.committed[r] = 0 /\ s[r] = 0 /\ a.caps[r] \in Nat  BY <1>1, <1>4
  <2> QED  BY <2>1
<1>11. a.remaining >= 0 /\ a.remaining + CommittedTokens(a) = a.total
  BY <1>1, <1>3, <1>9
<1> QED  BY <1>1, <1>6, <1>7, <1>8, <1>10, <1>11 DEF D

LEMMA FreshNoStep ==
    /\ NoStep.scheduled \in [Request -> Nat] /\ \A r \in Request : NoStep.scheduled[r] = 0
    /\ NoStep.phase = "idle" /\ NoStep.budget = 0 /\ NoStep.held = 0
    /\ Fresh(NoStep.acct)
<1>1. NoStep.scheduled = [r \in Request |-> 0]  BY DEF NoStep
<1>2. NoStep.acct = NewAccountant(0, <<>>)  BY DEF NoStep
<1>3. NoStep.phase = "idle" /\ NoStep.budget = 0 /\ NoStep.held = 0  BY DEF NoStep
<1> QED  BY <1>1, <1>2, <1>3, FreshInactive

\* Between two steps there is nothing to account for.
LEMMA IdleAccount ==
    ASSUME IsFiniteSet(Request)
    PROVE  /\ step = NoStep => Account /\ Budget
           /\ step' = NoStep => Account' /\ Budget'
<1> DEFINE a == NoStep.acct
           s == NoStep.scheduled
<1>1. /\ s \in [Request -> Nat] /\ (\A r \in Request : s[r] = 0) /\ Fresh(a)
      /\ NoStep.phase = "idle" /\ NoStep.budget = 0 /\ NoStep.held = 0
  BY FreshNoStep
<1> HIDE DEF a, s
<1>2. /\ AccountType(a) /\ IsAccount(a) /\ DOMAIN a.caps \subseteq Request
      /\ a.by \in [Source -> Nat]
      /\ \A r \in DOMAIN a.caps : a.caps[r] > 0
      /\ BatchBudget =>
          /\ a.remaining >= 0
          /\ a.remaining + CommittedTokens(a) = a.total
          /\ a.total = SumFunction(a.caps)
          /\ \A r \in DOMAIN a.caps : a.committed[r] = s[r] /\ a.committed[r] <= a.caps[r]
  BY <1>1, FreshAccount
<1>3. step = NoStep => Account  BY <1>1, <1>2 DEF Account, a, s
<1>4. step' = NoStep => Account'  BY <1>1, <1>2 DEF Account, a, s
<1>5. /\ step = NoStep => Budget
      /\ step' = NoStep => Budget'
  BY <1>1 DEF Budget, BudgetConserved
<1> QED  BY <1>3, <1>4, <1>5

LEMMA InitTokens == IsFiniteSet(Request) /\ Init => TInv
<1> SUFFICES ASSUME IsFiniteSet(Request), Init PROVE TInv  OBVIOUS
<1>1. /\ status = [r \in Request |-> "ABSENT"] /\ running = <<>> /\ inflight = <<>>
      /\ computed = [r \in Request |-> 0] /\ output = [r \in Request |-> 0]
      /\ placeholders = [r \in Request |-> 0] /\ chunk = [r \in Request |-> FALSE]
      /\ blocks = [r \in Request |-> {}] /\ step = NoStep
      /\ preemptions = [r \in Request |-> 0] /\ backoff = {} /\ compiled = {}
  BY DEF Init
<1>2. \A r \in Request : Pending(r) = 0  BY <1>1, CountNone DEF Pending
<1>3. /\ step.scheduled \in [Request -> Nat] /\ \A r \in Request : step.scheduled[r] = 0
      /\ step.phase = "idle"
  BY <1>1, FreshNoStep
<1>4. Types  BY <1>1, <1>3 DEF Types
<1>5. Owed
  <2> SUFFICES ASSUME NEW r \in Request
               PROVE  /\ placeholders[r] = IF AsyncScheduling THEN Pending(r) ELSE 0
                      /\ output[r] < MaxTokens[r] /\ output[r] + Pending(r) <= MaxTokens[r]
                      /\ output[r] = 0
    BY DEF Owed
  <2>1. placeholders[r] = 0 /\ output[r] = 0 /\ Pending(r) = 0 /\ MaxTokens[r] \in Nat \ {0}
    BY <1>1, <1>2, RequestAssumption
  <2> QED  BY <2>1
<1>6. Kinds /\ ComputedTokensHaveBlocks  BY <1>1 DEF Kinds, ComputedTokensHaveBlocks
<1>7. Needed  BY <1>3 DEF Needed
<1>8. Late
  <2>1. Len(inflight) <= BatchQueueSize  BY <1>1, PipelineAssumption
  <2> QED  BY <1>2, <1>3, <2>1 DEF Late
<1>9. Slots
  <2>1. Len(running) <= MaxNumRunningReqs  BY <1>1, BudgetAssumption
  <2> QED  BY <1>3, <2>1 DEF Slots
<1>10. Account /\ Budget  BY <1>1, IdleAccount
<1>11. SwapTypes  BY <1>1 DEF SwapTypes
<1> QED  BY <1>4, <1>5, <1>6, <1>7, <1>8, <1>9, <1>10, <1>11 DEF TInv, Tokens

\* What no request notices: its tokens stay, and it does not begin or stop to run.
Quiet ==
    /\ computed' = computed /\ output' = output /\ placeholders' = placeholders
    /\ chunk' = chunk /\ blocks' = blocks /\ inflight' = inflight
    /\ step'.scheduled = step.scheduled
    /\ \A r \in Request :
        \/ status'[r] = status[r]
        \/ /\ status[r] \in {"ABSENT", "WAITING", "WAITING_FOR_GRAMMAR"}
           /\ status'[r] \in {"WAITING", "WAITING_FOR_GRAMMAR"}

LEMMA QuietTokens == ASSUME Tokens, Quiet PROVE Tokens'
<1>1. \A r \in Request : Pending(r)' = Pending(r)  BY DEF Quiet, Pending
<1>2. \A r \in Request : NumTokens(r)' = NumTokens(r)  BY DEF Quiet, NumTokens
<1>3. \A r \in Request : /\ status'[r] = "RUNNING" <=> status[r] = "RUNNING"
                         /\ status'[r] # "FINISHED" => status[r] # "FINISHED"
  BY DEF Quiet
<1>4. Types'  BY DEF Types, Tokens, Quiet
<1>5. Owed'
  <2>1. \A r \in Request : status'[r] \in {"ABSENT", "WAITING", "WAITING_FOR_GRAMMAR"} =>
                           status[r] \in {"ABSENT", "WAITING", "WAITING_FOR_GRAMMAR"}
    BY DEF Quiet
  <2>2. placeholders' = placeholders /\ output' = output  BY DEF Quiet
  <2> QED  BY <1>1, <1>3, <2>1, <2>2 DEF Owed, Tokens
<1>6. Kinds'  BY <1>1, <1>2, <1>3 DEF Kinds, Tokens, Quiet, Decoding, Prefilling
<1>7. Needed'  BY <1>1, <1>2 DEF Needed, Tokens, Quiet
<1>8. ComputedTokensHaveBlocks'
  BY <1>3 DEF ComputedTokensHaveBlocks, Tokens, Quiet, BlocksFor
<1> QED  BY <1>4, <1>5, <1>6, <1>7, <1>8 DEF Tokens

LEMMA QuietLate ==
    ASSUME Late, Quiet, step'.phase = "idle" <=> step.phase = "idle",
           step.preempted => step'.preempted
    PROVE  Late'
<1>1. \A r \in Request : Pending(r)' = Pending(r)  BY DEF Quiet, Pending
<1>2. \A r \in Request : status'[r] \notin {"RUNNING", "FINISHED"} =>
         /\ status[r] \notin {"RUNNING", "FINISHED"}
         /\ status[r] = "PREEMPTED" => status'[r] = "PREEMPTED"
  BY DEF Quiet
<1>3. inflight' = inflight  BY DEF Quiet
<1> QED  BY <1>1, <1>2, <1>3 DEF Late

\* The account stays what it was.
LEMMA SameAccount ==
    ASSUME Account, step'.acct = step.acct, step'.scheduled = step.scheduled,
           step'.phase \in {"running", "restore", "swap"} =>
               /\ step.phase \in {"running", "restore", "swap"} /\ chunk' = chunk
               /\ \A r \in Request : status'[r] = "RUNNING" => status[r] = "RUNNING"
    PROVE  Account'
BY DEF Account

LEMMA SameBudget ==
    ASSUME Budget, step'.budget = step.budget, step'.held = step.held,
           step'.scheduled = step.scheduled, step'.phase # "idle" => step.phase # "idle"
    PROVE  Budget'
BY DEF Budget, BudgetConserved

\* The parts of TInv that a step of schedule() has to keep.
Kept5 == Tokens /\ Late /\ Slots /\ Account /\ Budget

LEMMA OutsideKeeps ==
    ASSUME TInv, NEW r \in Request, AddRequest(r) \/ GrammarReady(r) \/ BackoffExpires(r)
    PROVE  Kept5'
<1>1. /\ computed' = computed /\ output' = output /\ placeholders' = placeholders
      /\ chunk' = chunk /\ blocks' = blocks /\ inflight' = inflight /\ step' = step
      /\ running' = running
  BY DEF AddRequest, GrammarReady, BackoffExpires, queues, requests, pool
<1>2. \A q \in Request :
        \/ status'[q] = status[q]
        \/ status[q] = "ABSENT" /\ status'[q] \in {"WAITING", "WAITING_FOR_GRAMMAR"}
  <2>1. CASE AddRequest(r)
    <3>1. status[r] = "ABSENT"  BY <2>1 DEF AddRequest
    <3>2. \E s \in {"WAITING", "WAITING_FOR_GRAMMAR"} : status' = [status EXCEPT ![r] = s]
      BY <2>1 DEF AddRequest
    <3>3. status \in [Request -> Statuses] \/ status \notin [Request -> Statuses]  OBVIOUS
    <3>4. ASSUME NEW q \in Request, status'[q] # status[q]
          PROVE  q = r /\ status'[q] \in {"WAITING", "WAITING_FOR_GRAMMAR"}
      BY <3>2, <3>4
    <3> QED  BY <3>1, <3>4
  <2>2. CASE GrammarReady(r) \/ BackoffExpires(r)
    BY <2>2 DEF GrammarReady, BackoffExpires, requests
  <2> QED  BY <2>1, <2>2
<1>3. Quiet  BY <1>1, <1>2 DEF Quiet
<1>4. Tokens' /\ Late'  BY <1>1, <1>3, QuietTokens, QuietLate DEF TInv
<1>5. Slots'
  <2>1. CASE step.phase = "waiting"
    <3>1. GrammarReady(r)  BY <2>1 DEF AddRequest, BetweenSteps, BackoffExpires
    <3>2. waiting' = waiting /\ status' = status  BY <3>1 DEF GrammarReady, queues, requests
    <3> QED  BY <1>1, <3>2 DEF Slots, TInv
  <2>2. CASE step.phase # "waiting"  BY <1>1, <2>2 DEF Slots, TInv
  <2> QED  BY <2>1, <2>2
<1>6. Account'
  <2>1. \A q \in Request : status'[q] = "RUNNING" => status[q] = "RUNNING"  BY <1>2
  <2> QED  BY <1>1, <2>1, SameAccount DEF TInv
<1>7. Budget'  BY <1>1, SameBudget DEF TInv
<1> QED  BY <1>4, <1>5, <1>6, <1>7 DEF Kept5

\* The next request of a loop, the next loop, the end of the loops.
LEMMA MovesKeep ==
    ASSUME QInv, TInv, \/ \E r \in Request : RunningSkip(r)
                       \/ SwapReject
                       \/ \E c, v \in Request : SwapPreflightFails(c, v)
                       \/ WaitingDone
    PROVE  Kept5'
<1>1. /\ computed' = computed /\ output' = output /\ placeholders' = placeholders
      /\ chunk' = chunk /\ blocks' = blocks /\ inflight' = inflight
      /\ running' = running /\ status' = status
  BY DEF RunningSkip, SwapReject, SwapPreflightFails, WaitingDone, queues, requests, pool
<1>2. \/ step.phase = "running" /\ step' = [step EXCEPT !.index = @ + 1]
      \/ step.phase = "swap" /\ step' = [step EXCEPT !.phase = WaitingPhase(step)]
      \/ step.phase = "waiting" /\ step' = [step EXCEPT !.phase = "finish"]
  BY DEF RunningSkip, SwapReject, SwapPreflightFails, WaitingDone, InRunningLoop
<1>3. DOMAIN step = DOMAIN NoStep  BY DEF QInv, QTyped
<1>4. /\ step'.scheduled = step.scheduled /\ step'.acct = step.acct
      /\ step'.budget = step.budget /\ step'.held = step.held
      /\ step'.preempted = step.preempted
  BY <1>2, <1>3 DEF NoStep
<1>5. /\ step.phase # "idle" /\ step'.phase # "idle"
      /\ step'.phase \in {"running", "restore", "swap"} => step.phase \in {"running", "restore", "swap"}
      /\ step'.phase = "waiting" => step.phase = "swap" /\ (~step.preempted \/ step.swappedFor # {})
  BY <1>2, <1>3 DEF NoStep, WaitingPhase
<1>6. Quiet  BY <1>1, <1>4 DEF Quiet
<1>7. Tokens' /\ Late'  BY <1>4, <1>5, <1>6, QuietTokens, QuietLate DEF TInv
<1>8. Slots'
  <2>1. step'.phase = "waiting" => ~step'.preempted  BY <1>4, <1>5 DEF QInv, InBatch
  <2> QED  BY <1>1, <2>1 DEF Slots, TInv
<1>9. Account'  BY <1>1, <1>4, <1>5, SameAccount DEF TInv
<1>10. Budget'  BY <1>4, <1>5, SameBudget DEF TInv
<1> QED  BY <1>7, <1>8, <1>9, <1>10 DEF Kept5

\* A request that is passed over, and one that does not fit.
LEMMA PassingKeeps ==
    ASSUME QInv, TInv, NEW r \in Request, WaitingSkip(r) \/ WaitingNoKv(r)
    PROVE  Kept5'
<1>1. /\ computed' = computed /\ output' = output /\ placeholders' = placeholders
      /\ chunk' = chunk /\ blocks' = blocks /\ inflight' = inflight
      /\ running' = running /\ status' = [status EXCEPT ![r] = Promoted(r)]
      /\ InWaitingLoop /\ r = NextWaiting
  BY DEF WaitingSkip, WaitingNoKv, queues, pool
<1>2. \/ WaitingSkip(r) /\ step' = [step EXCEPT !.skipped = Append(@, r)]
      \/ WaitingNoKv(r) /\ step' = [step EXCEPT !.phase = "finish"]
  BY DEF WaitingSkip, WaitingNoKv
<1>3. DOMAIN step = DOMAIN NoStep /\ status \in [Request -> Statuses]  BY DEF QInv, QTyped
<1>4. /\ step'.scheduled = step.scheduled /\ step'.acct = step.acct
      /\ step'.budget = step.budget /\ step'.held = step.held
      /\ step'.preempted = step.preempted
  BY <1>2, <1>3 DEF NoStep
<1>5. /\ step.phase = "waiting" /\ Len(running) < MaxNumRunningReqs
      /\ step'.phase \in {"waiting", "finish"}
      /\ WaitingNoKv(r) => step'.phase = "finish" \/ WaitingSkip(r)
  BY <1>1, <1>2, <1>3 DEF NoStep, InWaitingLoop
<1>6. \A q \in Request :
        \/ status'[q] = status[q]
        \/ status[q] = "WAITING_FOR_GRAMMAR" /\ status'[q] = "WAITING"
  BY <1>1, <1>3 DEF Promoted
<1>7. Quiet  BY <1>1, <1>4, <1>6 DEF Quiet
<1>8. Tokens' /\ Late'  BY <1>4, <1>5, <1>7, QuietTokens, QuietLate DEF TInv
<1>9. Slots'
  <2> SUFFICES ASSUME step'.phase = "waiting", step'.preempted PROVE Slots'
    BY <1>1 DEF Slots, TInv
  <2>1. WaitingSkip(r)  BY <1>2, <1>3, <1>5 DEF NoStep
  <2>2. /\ Len(running) >= MaxNumRunningReqs - 1 /\ waiting # <<>>
        /\ BatchBudget => HasCap(step.acct, Head(waiting))
        /\ status[Head(waiting)] = "WAITING"
    <3>1. Len(running) \in Nat /\ MaxNumRunningReqs \in Nat  BY BudgetAssumption DEF QInv, QTyped
    <3>2. ~(Len(running) >= MaxNumRunningReqs)  BY <1>5, <3>1
    <3> QED  BY <1>4, <1>5, <3>2 DEF Slots, TInv
  <2>3. skipped # <<>>
    <3> SUFFICES ASSUME skipped = <<>> PROVE FALSE  OBVIOUS
    <3>1. r = Head(waiting)  BY <1>1 DEF NextWaiting
    <3>2. WaitingPassesOver(r)  BY <2>1 DEF WaitingSkip
    <3> QED  BY <2>2, <3>1, <3>2 DEF WaitingPassesOver, StillBlocked, Promoted
  <2>4. waiting' = waiting  BY <2>1, <2>3 DEF WaitingSkip, PopWaiting
  <2>5. r \in ToSet(skipped) /\ Head(waiting) \in ToSet(waiting) /\ r # Head(waiting)
    <3>1. r = Head(skipped)  BY <1>1, <2>3 DEF NextWaiting
    <3>2. waiting \in Seq(Request) /\ skipped \in Seq(Request)  BY DEF QInv, QTyped
    <3>3. r \in ToSet(skipped) /\ Head(waiting) \in ToSet(waiting)
      BY <2>2, <2>3, <3>1, <3>2, TailFacts
    <3> QED  BY <3>3 DEF QInv, Apart
  <2>6. Head(waiting) \in Request
    <3>1. waiting \in Seq(Request)  BY DEF QInv, QTyped
    <3> QED  BY <2>5, <3>1, ElementFacts
  <2>7. status'[Head(waiting')] = "WAITING"  BY <1>1, <1>3, <2>2, <2>4, <2>5, <2>6
  <2>8. Len(running) <= MaxNumRunningReqs  BY DEF Slots, TInv
  <2> QED  BY <1>1, <1>4, <2>2, <2>4, <2>7, <2>8 DEF Slots
<1>10. Account'
  <2>1. step'.phase \notin {"running", "restore", "swap"}  BY <1>5
  <2> QED  BY <1>4, <2>1, SameAccount DEF TInv
<1>11. Budget'  BY <1>4, <1>5, SameBudget DEF TInv
<1> QED  BY <1>8, <1>9, <1>10, <1>11 DEF Kept5

\* The held tokens come back: the budget stays what it was.
LEMMA RestoreKeeps ==
    ASSUME IsFiniteSet(Request), QInv, TInv, RestoreHeld
    PROVE  Kept5'
<1>1. /\ computed' = computed /\ output' = output /\ placeholders' = placeholders
      /\ chunk' = chunk /\ blocks' = blocks /\ inflight' = inflight
      /\ running' = running /\ status' = status /\ step.phase \in {"running", "restore"}
  BY DEF RestoreHeld, requests, pool
<1>2. DOMAIN step = DOMAIN NoStep  BY DEF QInv, QTyped
<1>3. \/ step.held = 0 /\ step' = [step EXCEPT !.phase = "swap"]
      \/ \E s \in Rescored : step' = [s EXCEPT !.phase = "swap", !.budget = @ + s.held, !.held = 0]
  BY DEF RestoreHeld
<1>4. PICK s \in Rescored \cup {step} :
        \/ s = step /\ step' = [s EXCEPT !.phase = "swap"]
        \/ step' = [s EXCEPT !.phase = "swap", !.budget = @ + s.held, !.held = 0]
  BY <1>3
<1>5. /\ DOMAIN s = DOMAIN NoStep /\ s.scheduled = step.scheduled
      /\ s.budget = step.budget /\ s.held = step.held /\ s.preempted = step.preempted
      /\ s.acct = step.acct \/ (s.acct = NewAccountant(0, <<>>) /\ ~BatchBudget)
  <2>1. CASE s = step  BY <1>2, <2>1
  <2>2. CASE s # step
    <3>1. CacheAware  BY <1>4, <2>2 DEF Rescored
    <3>2. PICK c : s = [step EXCEPT !.candidates = c, !.swapEligible = FALSE,
                                    !.acct = NewAccountant(0, <<>>)]
      BY <1>4, <2>2, <3>1 DEF Rescored
    <3>3. ~BatchBudget  BY <3>1, ConfigAssumption DEF BatchBudget
    <3> QED  BY <1>2, <3>2, <3>3 DEF NoStep
  <2> QED  BY <2>1, <2>2
<1>6. /\ step'.scheduled = step.scheduled /\ step'.preempted = step.preempted
      /\ step'.phase = "swap" /\ step'.acct = s.acct
      /\ \/ step'.budget = step.budget /\ step'.held = step.held
         \/ step'.budget = step.budget + step.held /\ step'.held = 0
  <2>1. CASE s = step /\ step' = [s EXCEPT !.phase = "swap"]
    BY <1>2, <2>1 DEF NoStep
  <2>2. CASE step' = [s EXCEPT !.phase = "swap", !.budget = @ + s.held, !.held = 0]
    <3>1. step'.budget = s.budget + s.held /\ step'.held = 0 /\ step'.phase = "swap"
      BY <1>5, <2>2 DEF NoStep
    <3>2. /\ step'.scheduled = s.scheduled /\ step'.preempted = s.preempted
          /\ step'.acct = s.acct
      BY <2>2 DEF NoStep
    <3> QED  BY <1>5, <3>1, <3>2
  <2> QED  BY <1>4, <2>1, <2>2
<1>7. Quiet  BY <1>1, <1>6 DEF Quiet
<1>8. Tokens' /\ Late'
  <2>1. step'.phase # "idle" /\ step.phase # "idle"  BY <1>1, <1>6
  <2> QED  BY <1>6, <1>7, <2>1, QuietTokens, QuietLate DEF TInv
<1>9. Slots'  BY <1>1, <1>6 DEF Slots, TInv
<1>10. Account'
  <2>1. CASE s.acct = step.acct  BY <1>1, <1>6, <2>1, SameAccount DEF TInv
  <2>2. CASE s.acct = NewAccountant(0, <<>>) /\ ~BatchBudget
    <3> DEFINE a == NewAccountant(0, <<>>)
               z == NoStep.scheduled
    <3>1. Fresh(a) /\ z \in [Request -> Nat] /\ \A r \in Request : z[r] = 0
      BY FreshInactive, FreshNoStep
    <3>2. step'.acct = a  BY <1>6, <2>2
    <3> HIDE DEF a, z
    <3>3. /\ AccountType(a) /\ IsAccount(a) /\ DOMAIN a.caps \subseteq Request
          /\ a.by \in [Source -> Nat]
          /\ \A r \in DOMAIN a.caps : a.caps[r] > 0
          /\ BatchBudget =>
              /\ a.remaining >= 0
              /\ a.remaining + CommittedTokens(a) = a.total
              /\ a.total = SumFunction(a.caps)
              /\ \A r \in DOMAIN a.caps : a.committed[r] = z[r] /\ a.committed[r] <= a.caps[r]
      BY <3>1, FreshAccount
    <3> QED  BY <2>2, <3>2, <3>3 DEF Account
  <2> QED  BY <1>5, <2>1, <2>2
<1>11. Budget'
  <2> DEFINE sum == SumFunction(step.scheduled)
  <2>1. step.budget \in Nat /\ step.held \in Nat
        /\ step.budget + step.held + sum = MaxNumScheduledTokens
    BY <1>1 DEF TInv, Budget, BudgetConserved
  <2>2. step'.budget \in Nat /\ step'.held \in Nat
        /\ step'.budget + step'.held = step.budget + step.held
    BY <1>6, <2>1
  <2>3. SumFunction(step'.scheduled) = sum  BY <1>6
  <2> HIDE DEF sum
  <2> QED  BY <2>1, <2>2, <2>3 DEF Budget, BudgetConserved
<1> QED  BY <1>8, <1>9, <1>10, <1>11 DEF Kept5

\* schedule() begins when at most one batch is in flight, and what it holds
\* back for prefills comes out of the budget.
LEMMA StartKeeps ==
    ASSUME Shallow, IsFiniteSet(Request), PoolInv, QInv, TInv, StartSchedule
    PROVE  Kept5'
<1>1. /\ computed' = computed /\ output' = output /\ placeholders' = placeholders
      /\ chunk' = chunk /\ blocks' = blocks /\ inflight' = inflight
      /\ running' = running /\ status' = status /\ step.phase = "idle"
      /\ Len(inflight) < BatchQueueSize
  BY DEF StartSchedule, BetweenSteps, requests, pool
<1>2. PICK d \in Decisions :
        step' = [NoStep EXCEPT !.phase = "running",
                               !.budget = MaxNumScheduledTokens - d.reserve,
                               !.held = d.reserve,
                               !.candidates = d.candidates,
                               !.swapEligible = d.swapEligible,
                               !.acct = d.acct]
  BY DEF StartSchedule
<1>3. /\ step'.phase = "running" /\ step'.budget = MaxNumScheduledTokens - d.reserve
      /\ step'.held = d.reserve /\ step'.acct = d.acct
      /\ step'.scheduled = NoStep.scheduled
  BY <1>2 DEF NoStep
<1>4. step = NoStep  BY <1>1 DEF QInv, InBatch
<1>5. Granted(d)  BY DecisionGrants DEF QInv, TInv, Tokens
<1>6. Quiet  BY <1>1, <1>3, <1>4 DEF Quiet
<1>7. Tokens'  BY <1>6, QuietTokens DEF TInv
<1>8. /\ Len(inflight) \in Nat /\ BatchQueueSize \in Nat /\ Len(inflight) < 2
  BY <1>1, InflightType, PipelineAssumption DEF Shallow
<1>9. Late'
  <2>1. \A r \in Request : status[r] \notin {"RUNNING", "FINISHED"} => ~(Pending(r) > 0)
    BY <1>1, <1>8 DEF TInv, Late
  <2>2. \A r \in Request : Pending(r)' = Pending(r)  BY <1>1 DEF Pending
  <2>3. Len(inflight) <= BatchQueueSize  BY <1>1, <1>8
  <2> QED  BY <1>1, <1>3, <2>1, <2>2, <2>3 DEF Late
<1>10. Slots'  BY <1>1, <1>3 DEF Slots, TInv
<1>11. Account'
  <2> DEFINE a == d.acct
             z == NoStep.scheduled
  <2>1. /\ Fresh(a) /\ z \in [Request -> Nat] /\ (\A r \in Request : z[r] = 0)
        /\ BatchBudget => \A r \in DOMAIN a.caps : status[r] = "RUNNING" => chunk[r]
    BY <1>5, FreshNoStep DEF Granted
  <2>2. step'.acct = a /\ step'.scheduled = z  BY <1>3
  <2> HIDE DEF a, z
  <2>3. /\ AccountType(a) /\ IsAccount(a) /\ DOMAIN a.caps \subseteq Request
        /\ a.by \in [Source -> Nat]
        /\ \A r \in DOMAIN a.caps : a.caps[r] > 0
        /\ BatchBudget =>
            /\ a.remaining >= 0
            /\ a.remaining + CommittedTokens(a) = a.total
            /\ a.total = SumFunction(a.caps)
            /\ \A r \in DOMAIN a.caps : a.committed[r] = z[r] /\ a.committed[r] <= a.caps[r]
    BY <2>1, FreshAccount
  <2> QED  BY <1>1, <2>1, <2>2, <2>3 DEF Account
<1>12. Budget'
  <2>1. SumFunction(step'.scheduled) = 0
    <3> DEFINE z == NoStep.scheduled
    <3>1. DOMAIN z = Request /\ \A r \in Request : z[r] = 0  BY FreshNoStep
    <3> HIDE DEF z
    <3>2. SumFunction(z) = 0  BY <3>1, SumZero DEF SumFunction
    <3> QED  BY <1>3, <3>2 DEF z
  <2>2. d.reserve \in Nat /\ d.reserve <= MaxNumScheduledTokens /\ MaxNumScheduledTokens \in Nat
    BY <1>5, BudgetAssumption DEF Granted
  <2> QED  BY <1>3, <2>1, <2>2 DEF Budget, BudgetConserved
<1> QED  BY <1>7, <1>9, <1>10, <1>11, <1>12 DEF Kept5

-----------------------------------------------------------------------------
(* What a request is given *)

LEMMA ThresholdFacts ==
    ASSUME NEW n \in Nat PROVE UpToThreshold(n) \in Nat /\ UpToThreshold(n) <= n
BY BudgetAssumption DEF UpToThreshold, Least

\* A request that is scheduled needs the tokens it gets, and the one they
\* produce is not past its max_tokens.
LEMMA RunningGrant ==
    ASSUME Shallow, PoolInv, QInv, TInv, NEW r \in Request,
           InRunningLoop, r = running[step.index], ~RunningPassesOver(r)
    PROVE  LET n == RunningTokens(r) IN
           /\ n \in Nat \ {0} /\ n <= step.budget
           /\ computed[r] + n <= NumTokens(r) + placeholders[r]
           /\ output[r] + Pending(r) < MaxTokens[r]
           /\ status[r] = "RUNNING" /\ step.scheduled[r] = 0
           /\ BatchBudget /\ chunk[r] =>
                /\ HasCap(step.acct, r) /\ n <= step.acct.remaining
                /\ step.acct.committed[r] + n <= step.acct.caps[r]
<1> DEFINE n == RunningTokens(r)
           rem == RunningRemaining(r)
<1>1. running \in Seq(Request) /\ step.index \in Nat \ {0} /\ step.phase = "running"
      /\ step.index <= Len(running) /\ step.budget > 0 /\ step.budget \in Nat
  BY DEF QInv, QTyped, InRunningLoop, TInv, Budget
<1>2. step.index \in DOMAIN running /\ r \in ToSet(running)  BY <1>1 DEF ToSet
<1>3. status[r] = "RUNNING"  BY <1>2 DEF QInv, Where
<1>4. step.scheduled[r] = 0
  <2>1. step.index >= step.index  BY <1>1
  <2> QED  BY <1>1, <1>2, <2>1 DEF QInv, InBatch
<1>5. /\ computed[r] \in Nat /\ output[r] \in Nat /\ placeholders[r] \in Nat
      /\ PromptTokens[r] \in Nat \ {0} /\ MaxTokens[r] \in Nat \ {0}
      /\ NumTokens(r) = PromptTokens[r] + output[r]
  BY RequestAssumption DEF TInv, Tokens, Types, NumTokens
<1>6. /\ placeholders[r] = IF AsyncScheduling THEN Pending(r) ELSE 0
      /\ output[r] < MaxTokens[r]
  BY <1>3 DEF TInv, Tokens, Owed
<1>7. Pending(r) \in {0, 1}
  <2>1. Pending(r) \in Nat /\ Pending(r) <= Len(inflight)  BY CountFacts DEF Pending, PoolInv
  <2>2. Len(inflight) \in Nat /\ Len(inflight) < BatchQueueSize /\ BatchQueueSize \in Nat
        /\ BatchQueueSize <= 2
    BY <1>1, InflightType, PipelineAssumption DEF TInv, Late, Shallow
  <2> QED  BY <2>1, <2>2
<1>8. Decoding(r) \/ Prefilling(r)  BY <1>3 DEF TInv, Tokens, Kinds
<1>9. rem \in Nat
  <2>1. rem = PromptTokens[r] + output[r] + placeholders[r] - computed[r]
    BY <1>5 DEF RunningRemaining
  <2>2. CASE Decoding(r)
    <3>1. computed[r] = PromptTokens[r] + output[r] + Pending(r) - 1  BY <1>5, <2>2 DEF Decoding
    <3> HIDE DEF rem
    <3> QED  BY <1>5, <1>6, <1>7, <2>1, <3>1
  <2>3. CASE Prefilling(r)
    <3>1. computed[r] < PromptTokens[r] + output[r]  BY <1>5, <2>3 DEF Prefilling
    <3> HIDE DEF rem
    <3> QED  BY <1>5, <1>6, <1>7, <2>1, <3>1
  <2> QED  BY <1>8, <2>2, <2>3
<1> DEFINE m == Least(UpToThreshold(rem), step.budget)
<1>10. m \in Nat /\ m <= rem /\ m <= step.budget
  <2> HIDE DEF rem
  <2>1. UpToThreshold(rem) \in Nat /\ UpToThreshold(rem) <= rem  BY <1>9, ThresholdFacts
  <2> QED  BY <1>1, <1>9, <2>1 DEF Least
<1>11. n = IF BatchBudget /\ chunk[r] THEN Clamp(step.acct, r, m) ELSE m
  BY DEF RunningTokens
<1>12. ~AtMaxTokens(r) /\ n # 0  BY DEF RunningPassesOver
<1> HIDE DEF m, n
<1>13. /\ n \in Nat \ {0} /\ n <= m
       /\ BatchBudget /\ chunk[r] =>
            /\ HasCap(step.acct, r) /\ n <= step.acct.remaining
            /\ step.acct.committed[r] + n <= step.acct.caps[r]
  <2>1. CASE BatchBudget /\ chunk[r]
    <3>1. AccountType(step.acct) /\ step.acct.remaining >= 0  BY <2>1 DEF TInv, Account
    <3> DEFINE k == Clamp(step.acct, r, m)
    <3>2. /\ k \in Nat /\ k <= m /\ k <= step.acct.remaining
          /\ k > 0 => /\ HasCap(step.acct, r)
                      /\ step.acct.committed[r] + k <= step.acct.caps[r]
      BY <1>10, <3>1, ClampBounds
    <3>3. n = k  BY <1>11, <2>1
    <3> HIDE DEF k
    <3>4. n \in Nat \ {0} /\ n > 0 /\ n <= m  BY <1>12, <3>2, <3>3
    <3> QED  BY <3>2, <3>3, <3>4
  <2>2. CASE ~(BatchBudget /\ chunk[r])
    <3>1. n = m  BY <1>11, <2>2
    <3> QED  BY <1>10, <1>12, <2>2, <3>1
  <2> QED  BY <2>1, <2>2
<1>14. n <= step.budget /\ n <= rem  BY <1>1, <1>9, <1>10, <1>13
<1>15. computed[r] + n <= NumTokens(r) + placeholders[r]
  <2>1. rem = NumTokens(r) + placeholders[r] - computed[r]  BY DEF RunningRemaining
  <2> HIDE DEF rem
  <2> QED  BY <1>5, <1>9, <1>13, <1>14, <2>1
<1>16. output[r] + Pending(r) < MaxTokens[r]
  <2>1. CASE Pending(r) = 0  BY <1>5, <1>6, <2>1
  <2>2. CASE Pending(r) = 1
    <3>1. computed[r] = PromptTokens[r] + output[r]
      <4>1. Decoding(r)  BY <1>8, <2>2 DEF Prefilling
      <4> QED  BY <1>5, <2>2, <4>1 DEF Decoding
    <3>2. AsyncScheduling
      <4> SUFFICES ASSUME ~AsyncScheduling PROVE FALSE  OBVIOUS
      <4>1. placeholders[r] = 0  BY <1>6
      <4> QED  BY <1>5, <1>13, <1>15, <3>1, <4>1
    <3>3. placeholders[r] = 1  BY <1>6, <2>2, <3>2
    <3>4. computed[r] + 2 - placeholders[r] < PromptTokens[r] + MaxTokens[r]
      BY <1>5, <1>12, <3>3 DEF AtMaxTokens
    <3> QED  BY <1>5, <2>2, <3>1, <3>3, <3>4
  <2> QED  BY <1>7, <2>1, <2>2
<1> QED  BY <1>3, <1>4, <1>13, <1>14, <1>15, <1>16 DEF n

\* A request that is admitted has no token to come.
LEMMA NothingPending ==
    ASSUME PoolInv, QInv, TInv, InWaitingLoop, ~WaitingPassesOver(NextWaiting)
    PROVE  /\ NextWaiting \in Request /\ status[NextWaiting] \in Waits
           /\ Pending(NextWaiting) = 0 /\ step.scheduled[NextWaiting] = 0
<1> DEFINE r == NextWaiting
<1>1. waiting \in Seq(Request) /\ skipped \in Seq(Request)  BY DEF QInv, QTyped
<1>2. r \in ToSet(waiting) \cup ToSet(skipped)  BY NextIsQueued DEF QInv
<1>3. r \in Request  BY <1>1, <1>2, ElementFacts
<1>4. status[r] \in Waits  BY <1>2, <1>3 DEF QInv, Where, PassedOver
<1>5. step.scheduled[r] = 0  BY <1>3, <1>4 DEF QInv, InBatch, Waits
<1>6. Pending(r) \in Nat /\ (Pending(r) > 0 => ~Gone(r))
  BY CountFacts DEF Pending, PoolInv, Gone
<1>7. ~(Pending(r) > 0)
  <2> SUFFICES ASSUME Pending(r) > 0 PROVE FALSE  OBVIOUS
  <2>1. step.phase = "waiting" /\ ~(Len(running) >= MaxNumRunningReqs)
    <3>1. Len(running) \in Nat /\ MaxNumRunningReqs \in Nat  BY BudgetAssumption DEF QInv, QTyped
    <3> QED  BY <3>1 DEF InWaitingLoop
  <2>2. status[r] = "PREEMPTED" /\ step.preempted
    <3>1. status[r] \notin {"RUNNING", "FINISHED"}  BY <1>4 DEF Waits
    <3> QED  BY <1>3, <2>1, <3>1 DEF TInv, Late
  <2>3. waiting # <<>> /\ status[Head(waiting)] = "WAITING"
    BY <2>1, <2>2 DEF TInv, Slots
  <2>4. skipped # <<>> /\ r = Head(skipped)  BY <2>2, <2>3 DEF NextWaiting
  <2>5. r \in PassedOver  BY <1>1, <2>4, TailFacts DEF PassedOver
  <2>6. Gone(r)  BY <2>2, <2>5 DEF QInv, Safe
  <2> QED  BY <1>6, <2>6
<1>8. Pending(r) = 0  BY <1>6, <1>7
<1> QED  BY <1>3, <1>4, <1>5, <1>8

LEMMA WaitingGrant ==
    ASSUME PoolInv, QInv, TInv, NEW r \in Request,
           InWaitingLoop, r = NextWaiting, ~WaitingPassesOver(r)
    PROVE  LET n == WaitingTokens(r) IN
           /\ n \in Nat /\ n <= step.budget
           /\ CachedPrefix(r) \in Nat /\ CachedPrefix(r) < NumTokens(r)
           /\ CachedPrefix(r) + n <= NumTokens(r)
           /\ output[r] < MaxTokens[r] /\ placeholders[r] = 0
           /\ BatchBudget => HasCap(step.acct, r) /\ n <= step.acct.remaining
           /\ BatchBudget /\ n > 0 => step.acct.committed[r] + n <= step.acct.caps[r]
<1> DEFINE n == WaitingTokens(r)
           rem == NumTokens(r) - CachedPrefix(r)
           m == Least(UpToThreshold(rem), step.budget)
<1>1. Pending(r) = 0 /\ status[r] \in Waits  BY NothingPending
<1>2. NumTokens(r) \in Nat /\ CachedPrefix(r) \in Nat /\ CachedPrefix(r) < NumTokens(r)
  BY CachedFacts DEF TInv, Tokens
<1>3. step.budget \in Nat  BY DEF TInv, Budget
<1>4. output[r] < MaxTokens[r] /\ placeholders[r] = 0
  <2>1. status[r] # "FINISHED"  BY <1>1 DEF Waits
  <2> QED  BY <1>1, <2>1 DEF TInv, Tokens, Owed
<1>5. rem \in Nat  BY <1>2
<1>6. m \in Nat /\ m <= rem /\ m <= step.budget
  <2> HIDE DEF rem
  <2>1. UpToThreshold(rem) \in Nat /\ UpToThreshold(rem) <= rem  BY <1>5, ThresholdFacts
  <2> QED  BY <1>3, <1>5, <2>1 DEF Least
<1>7. n = IF BatchBudget THEN Clamp(step.acct, r, m)
          ELSE IF HasCap(step.acct, r) THEN Least(m, step.acct.caps[r]) ELSE m
  BY DEF WaitingTokens
<1> HIDE DEF m, n
<1>8. /\ n \in Nat /\ n <= m
      /\ BatchBudget => HasCap(step.acct, r) /\ n <= step.acct.remaining
      /\ BatchBudget /\ n > 0 => step.acct.committed[r] + n <= step.acct.caps[r]
  <2>1. CASE BatchBudget
    <3>1. AccountType(step.acct) /\ step.acct.remaining >= 0  BY <2>1 DEF TInv, Account
    <3> DEFINE k == Clamp(step.acct, r, m)
    <3>2. /\ k \in Nat /\ k <= m /\ k <= step.acct.remaining
          /\ k > 0 => step.acct.committed[r] + k <= step.acct.caps[r]
      BY <1>6, <3>1, ClampBounds
    <3>3. n = k  BY <1>7, <2>1
    <3>4. HasCap(step.acct, r)  BY <2>1 DEF WaitingPassesOver
    <3> HIDE DEF k
    <3> QED  BY <3>2, <3>3, <3>4
  <2>2. CASE ~BatchBudget /\ HasCap(step.acct, r)
    <3>1. step.acct.caps[r] \in Nat  BY <2>2 DEF TInv, Account, AccountType, HasCap
    <3>2. n = Least(m, step.acct.caps[r])  BY <1>7, <2>2
    <3> QED  BY <1>6, <2>2, <3>1, <3>2 DEF Least
  <2>3. CASE ~BatchBudget /\ ~HasCap(step.acct, r)
    <3>1. n = m  BY <1>7, <2>3
    <3> QED  BY <1>6, <2>3, <3>1
  <2> QED  BY <2>1, <2>2, <2>3
<1>9. n <= step.budget /\ n <= rem
  <2> HIDE DEF rem
  <2> QED  BY <1>3, <1>5, <1>6, <1>8
<1>10. CachedPrefix(r) + n <= NumTokens(r)  BY <1>2, <1>8, <1>9
<1> QED  BY <1>2, <1>4, <1>8, <1>9, <1>10 DEF n

\* A sum after a term that was nothing has become n.
LEMMA SumGranted ==
    ASSUME NEW D, IsFiniteSet(D), NEW f, f \in [D -> Int], NEW x \in D, f[x] = 0,
           NEW n, n \in Int, NEW g, g = [f EXCEPT ![x] = n]
    PROVE  SumFunction(f) \in Int /\ SumFunction(g) = SumFunction(f) + n
<1>1. SumFunction(f) \in Int /\ SumFunction([f EXCEPT ![x] = n]) = SumFunction(f) - f[x] + n
  BY SumUpdate
<1> QED  BY <1>1

LEMMA BatchGrows ==
    ASSUME IsFiniteSet(Request), NEW r \in Request, NEW n \in Nat,
           step.scheduled \in [Request -> Int], step.scheduled[r] = 0,
           step'.scheduled = [step.scheduled EXCEPT ![r] = n]
    PROVE  SumFunction(step.scheduled) \in Int
           /\ SumFunction(step'.scheduled) = SumFunction(step.scheduled) + n
<1>1. n \in Int  OBVIOUS
<1> QED  BY <1>1, SumGranted

LEMMA CommittedGrows ==
    ASSUME NEW D, IsFiniteSet(D), NEW r \in D, NEW n \in Nat, NEW a, NEW b,
           a.committed \in [D -> Int], a.committed[r] = 0,
           b.committed = [a.committed EXCEPT ![r] = n]
    PROVE  CommittedTokens(a) \in Int /\ CommittedTokens(b) = CommittedTokens(a) + n
<1>1. n \in Int  OBVIOUS
<1>2. SumFunction(a.committed) \in Int
      /\ SumFunction(b.committed) = SumFunction(a.committed) + n
  BY <1>1, SumGranted
<1> QED  BY <1>2 DEF CommittedTokens

\* Tokens that are given leave the budget for the batch.
LEMMA GrantBudget ==
    ASSUME IsFiniteSet(Request), Budget, step.phase # "idle",
           step.scheduled \in [Request -> Nat], NEW r \in Request, step.scheduled[r] = 0,
           NEW n \in Nat, n <= step.budget,
           step'.budget = step.budget - n, step'.held = step.held,
           step'.scheduled = [step.scheduled EXCEPT ![r] = n]
    PROVE  Budget'
<1>1. step.scheduled \in [Request -> Int]  OBVIOUS
<1>2. SumFunction(step.scheduled) \in Int
      /\ SumFunction(step'.scheduled) = SumFunction(step.scheduled) + n
  BY <1>1, BatchGrows
<1>3. step.budget \in Nat /\ step.held \in Nat
      /\ step.budget + step.held + SumFunction(step.scheduled) = MaxNumScheduledTokens
  BY DEF Budget, BudgetConserved
<1>4. step'.budget + step'.held + SumFunction(step'.scheduled) = MaxNumScheduledTokens
  BY <1>2, <1>3
<1>5. step'.budget \in Nat /\ step'.held \in Nat  BY <1>3
<1> QED  BY <1>4, <1>5 DEF Budget, BudgetConserved

\* Tokens that are committed to a request leave the account.
LEMMA CommitAccount ==
    ASSUME IsFiniteSet(Request), BatchBudget, Account, NEW r \in Request, HasCap(step.acct, r),
           step.scheduled \in [Request -> Nat], step.scheduled[r] = 0,
           NEW n \in Nat, n <= step.acct.remaining,
           step.acct.committed[r] + n <= step.acct.caps[r],
           NEW source \in Source, step'.acct = Commit(step.acct, r, n, source),
           step'.scheduled = [step.scheduled EXCEPT ![r] = n],
           step'.phase \in {"running", "restore", "swap"} =>
               /\ step.phase \in {"running", "restore", "swap"} /\ chunk' = chunk
               /\ \A q \in Request : status'[q] = "RUNNING" => status[q] = "RUNNING"
    PROVE  Account'
<1> DEFINE a == step.acct
           b == step'.acct
           D == DOMAIN a.caps
<1>1. /\ AccountType(a) /\ IsAccount(a) /\ D \subseteq Request /\ a.by \in [Source -> Nat]
      /\ \A q \in D : a.caps[q] > 0
      /\ a.remaining >= 0 /\ a.remaining + CommittedTokens(a) = a.total
      /\ a.total = SumFunction(a.caps)
      /\ \A q \in D :
          /\ a.committed[q] = step.scheduled[q] /\ a.committed[q] <= a.caps[q]
          /\ step.phase \in {"running", "restore", "swap"} /\ status[q] = "RUNNING" => chunk[q]
  BY DEF Account
<1>2. r \in D  BY DEF HasCap
<1>3. b = Commit(a, r, n, source)  OBVIOUS
<1> HIDE DEF a, b
<1>4. a = [total |-> a.total, remaining |-> a.remaining, caps |-> a.caps,
           committed |-> a.committed, by |-> a.by]
  BY <1>1 DEF IsAccount
<1>5. /\ b.total = a.total /\ b.remaining = a.remaining - n /\ b.caps = a.caps
      /\ b.committed = [a.committed EXCEPT ![r] = a.committed[r] + n]
      /\ b.by = [a.by EXCEPT ![source] = a.by[source] + n]
      /\ IsAccount(b)
  BY <1>3, <1>4 DEF Commit, IsAccount
<1>6. a.remaining \in Int /\ a.caps \in [D -> Nat] /\ a.committed \in [D -> Int]
  BY <1>1 DEF AccountType
<1>7. a.committed[r] = 0  BY <1>1, <1>2
<1>8. b.committed \in [D -> Int] /\ b.committed[r] = n /\ \A q \in D : q # r => b.committed[q] = a.committed[q]
  BY <1>2, <1>5, <1>6, <1>7
<1>9. AccountType(b) /\ DOMAIN b.caps = D
  BY <1>5, <1>6, <1>8 DEF AccountType
<1>10. b.by \in [Source -> Nat]  BY <1>1, <1>5
<1>11. CommittedTokens(b) = CommittedTokens(a) + n /\ CommittedTokens(a) \in Int
  <2>1. IsFiniteSet(D)  BY <1>1, FS_Subset
  <2>2. a.committed \in [D -> Int] /\ a.committed[r] = 0 /\ a.committed[r] + n = n
    BY <1>6, <1>7
  <2>3. b.committed = [a.committed EXCEPT ![r] = n]  BY <1>5, <2>2
  <2> HIDE DEF D
  <2> QED  BY <1>2, <2>1, <2>2, <2>3, CommittedGrows
<1>12. a.total \in Int  BY <1>1, <1>6, <1>11
<1>13. b.remaining >= 0 /\ b.remaining + CommittedTokens(b) = b.total
  <2>1. n <= a.remaining  BY DEF a
  <2>2. b.remaining >= 0  BY <1>5, <1>6, <2>1
  <2> QED  BY <1>1, <1>5, <1>6, <1>11, <1>12, <2>2
<1>14. \A q \in D : /\ b.committed[q] = step'.scheduled[q] /\ b.committed[q] <= b.caps[q]
  <2> SUFFICES ASSUME NEW q \in D
               PROVE  b.committed[q] = step'.scheduled[q] /\ b.committed[q] <= b.caps[q]
    OBVIOUS
  <2>1. q \in Request  BY <1>1
  <2>2. CASE q = r
    <3>1. n <= a.caps[r]
      <4>1. a.committed[r] + n <= a.caps[r]  BY DEF a
      <4> QED  BY <1>7, <4>1
    <3>2. step'.scheduled[r] = n  OBVIOUS
    <3> QED  BY <1>5, <1>8, <2>2, <3>1, <3>2
  <2>3. CASE q # r
    <3>1. step'.scheduled[q] = step.scheduled[q]  BY <2>1, <2>3
    <3> QED  BY <1>1, <1>5, <1>8, <2>3, <3>1
  <2> QED  BY <2>2, <2>3
<1>15. ASSUME NEW q \in D, step'.phase \in {"running", "restore", "swap"}, status'[q] = "RUNNING"
       PROVE  chunk'[q]
  BY <1>1, <1>15
<1>16. \A q \in D : b.caps[q] > 0  BY <1>1, <1>5
<1>17. b.total = SumFunction(b.caps)  BY <1>1, <1>5
<1> HIDE DEF D
<1> QED  BY <1>1, <1>5, <1>9, <1>10, <1>13, <1>14, <1>15, <1>16, <1>17 DEF Account, b

-----------------------------------------------------------------------------
(* The steps that change one request *)

\* A step that changes one request keeps the tokens in order if it does so for
\* that request.
LEMMA OneTokens ==
    ASSUME Tokens, NEW r \in Request, Types', status[r] # "FINISHED",
           output' = output, placeholders' = placeholders, inflight' = inflight,
           \A q \in Request : q # r =>
               /\ computed'[q] = computed[q] /\ chunk'[q] = chunk[q] /\ blocks'[q] = blocks[q]
               /\ status'[q] = status[q] /\ step'.scheduled[q] = step.scheduled[q],
           status'[r] \in {"RUNNING", "PREEMPTED", "FINISHED"},
           status'[r] = "RUNNING" => Decoding(r)' \/ Prefilling(r)',
           step'.scheduled[r] > 0 =>
               /\ output[r] + Pending(r) < MaxTokens[r]
               /\ computed'[r] + step'.scheduled[r] <= NumTokens(r) + placeholders[r],
           IF status'[r] = "RUNNING"
           THEN BlocksFor(computed'[r] + step'.scheduled[r]) <= Cardinality(blocks'[r])
           ELSE blocks'[r] = {}
    PROVE  Tokens'
<1>1. \A q \in Request : Pending(q)' = Pending(q) /\ NumTokens(q)' = NumTokens(q)
  BY DEF Pending, NumTokens
<1>2. Owed'
  <2> SUFFICES ASSUME NEW q \in Request
               PROVE  /\ status'[q] # "FINISHED" =>
                          /\ placeholders[q] = IF AsyncScheduling THEN Pending(q) ELSE 0
                          /\ output[q] < MaxTokens[q] /\ output[q] + Pending(q) <= MaxTokens[q]
                      /\ status'[q] \in {"ABSENT", "WAITING", "WAITING_FOR_GRAMMAR"} => output[q] = 0
    BY <1>1 DEF Owed
  <2>1. CASE q = r  BY <2>1 DEF Tokens, Owed
  <2>2. CASE q # r  BY <2>2 DEF Tokens, Owed
  <2> QED  BY <2>1, <2>2
<1>3. Kinds'
  <2> SUFFICES ASSUME NEW q \in Request, status'[q] = "RUNNING"
               PROVE  Decoding(q)' \/ Prefilling(q)'
    BY DEF Kinds
  <2>1. CASE q = r  BY <2>1
  <2>2. CASE q # r
    <3>1. Decoding(q) \/ Prefilling(q)  BY <2>2 DEF Tokens, Kinds
    <3> QED  BY <1>1, <2>2, <3>1 DEF Decoding, Prefilling
  <2> QED  BY <2>1, <2>2
<1>4. Needed'
  <2> SUFFICES ASSUME NEW q \in Request, step'.scheduled[q] > 0
               PROVE  /\ output[q] + Pending(q) < MaxTokens[q]
                      /\ computed'[q] + step'.scheduled[q] <= NumTokens(q) + placeholders[q]
    BY <1>1 DEF Needed
  <2>1. CASE q = r  BY <2>1
  <2>2. CASE q # r  BY <2>2 DEF Tokens, Needed
  <2> QED  BY <2>1, <2>2
<1>5. ComputedTokensHaveBlocks'
  <2> SUFFICES ASSUME NEW q \in Request
               PROVE  IF status'[q] = "RUNNING"
                      THEN BlocksFor(computed'[q] + step'.scheduled[q]) <= Cardinality(blocks'[q])
                      ELSE blocks'[q] = {}
    BY DEF ComputedTokensHaveBlocks, BlocksFor
  <2>1. CASE q = r  BY <2>1
  <2>2. CASE q # r  BY <2>2 DEF Tokens, ComputedTokensHaveBlocks
  <2> QED  BY <2>1, <2>2
<1> QED  BY <1>2, <1>3, <1>4, <1>5 DEF Tokens

\* No request joins those that wait with a token to come.
LEMMA StillLate ==
    ASSUME Late, inflight' = inflight, step'.phase = "idle" <=> step.phase = "idle",
           step.preempted => step'.preempted,
           \A q \in Request : status'[q] = status[q] \/ status'[q] \in {"RUNNING", "FINISHED"}
    PROVE  Late'
<1>1. \A q \in Request : Pending(q)' = Pending(q)  BY DEF Pending
<1> QED  BY <1>1 DEF Late

LEMMA ScheduleKeeps ==
    ASSUME Shallow, IsFiniteSet(Request), PoolInv, QInv, TInv, NEW r \in Request,
           RunningSchedule(r)
    PROVE  Kept5'
<1> DEFINE n == RunningTokens(r)
<1>1. /\ computed' = computed /\ output' = output /\ placeholders' = placeholders
      /\ chunk' = chunk /\ inflight' = inflight /\ running' = running /\ status' = status
      /\ InRunningLoop /\ r = running[step.index] /\ ~RunningPassesOver(r) /\ RunningFits(r)
      /\ Allocate(r, computed[r] + n) /\ step.phase = "running"
  BY DEF RunningSchedule, InRunningLoop, queues, requests
<1>2. step' = [step EXCEPT !.index = @ + 1, !.budget = @ - n, !.scheduled[r] = n,
                           !.acct = IF BatchBudget /\ chunk[r]
                                    THEN Commit(@, r, n, "running") ELSE @]
  BY DEF RunningSchedule
<1>3. /\ n \in Nat \ {0} /\ n <= step.budget
      /\ computed[r] + n <= NumTokens(r) + placeholders[r]
      /\ output[r] + Pending(r) < MaxTokens[r]
      /\ status[r] = "RUNNING" /\ step.scheduled[r] = 0
      /\ BatchBudget /\ chunk[r] =>
           /\ HasCap(step.acct, r) /\ n <= step.acct.remaining
           /\ step.acct.committed[r] + n <= step.acct.caps[r]
  BY <1>1, RunningGrant
<1>4. MoreBlocks(r, computed[r] + n) <= Cardinality(freeBlocks)  BY <1>1 DEF RunningFits
<1> HIDE DEF n
<1>5. DOMAIN step = DOMAIN NoStep  BY DEF QInv, QTyped
<1>6. step.scheduled \in [Request -> Nat] /\ computed \in [Request -> Nat]
  BY DEF TInv, Tokens, Types
<1>7. /\ step'.scheduled = [step.scheduled EXCEPT ![r] = n]
      /\ step'.budget = step.budget - n /\ step'.held = step.held
      /\ step'.phase = "running" /\ step'.preempted = step.preempted
  BY <1>1, <1>2, <1>5 DEF NoStep
<1>8. step'.acct = IF BatchBudget /\ chunk[r] THEN Commit(step.acct, r, n, "running")
                   ELSE step.acct
  BY <1>2, <1>5 DEF NoStep
<1>9. /\ step'.scheduled \in [Request -> Nat] /\ step'.scheduled[r] = n
      /\ \A q \in Request : q # r => step'.scheduled[q] = step.scheduled[q]
  BY <1>3, <1>6, <1>7
<1>10. Tokens'
  <2>1. computed[r] + n \in Nat  BY <1>3, <1>6
  <2>2. /\ BlocksFor(computed[r] + n) <= Cardinality(blocks'[r])
        /\ \A q \in Request : q # r => blocks'[q] = blocks[q]
    BY <1>1, <1>4, <2>1, AllocateEnough
  <2>3. Types'  BY <1>1, <1>9 DEF TInv, Tokens, Types
  <2>4. Decoding(r)' \/ Prefilling(r)'
    <3>1. Decoding(r) \/ Prefilling(r)  BY <1>3 DEF TInv, Tokens, Kinds
    <3>2. Pending(r)' = Pending(r) /\ NumTokens(r)' = NumTokens(r)
      BY <1>1 DEF Pending, NumTokens
    <3>3. step'.scheduled[r] > 0  BY <1>3, <1>9
    <3> QED  BY <1>1, <3>1, <3>2, <3>3 DEF Decoding, Prefilling
  <2>5. Tokens  BY DEF TInv
  <2> QED  BY <1>1, <1>3, <1>9, <2>2, <2>3, <2>4, <2>5, OneTokens
<1>11. Late'  BY <1>1, <1>7, StillLate DEF TInv
<1>12. Slots'  BY <1>1, <1>7 DEF TInv, Slots
<1>13. Budget'
  <2>1. Budget /\ n \in Nat /\ step.phase # "idle"  BY <1>1, <1>3 DEF TInv
  <2> QED  BY <1>3, <1>6, <1>7, <2>1, GrantBudget
<1>14. Account'
  <2>1. CASE BatchBudget /\ chunk[r]
    <3>1. step'.acct = Commit(step.acct, r, n, "running")  BY <1>8, <2>1
    <3>2. n \in Nat /\ "running" \in Source /\ Account  BY <1>3 DEF TInv, Source
    <3> QED  BY <1>1, <1>3, <1>6, <1>7, <2>1, <3>1, <3>2, CommitAccount
  <2>2. CASE BatchBudget /\ ~chunk[r]
    <3>1. step'.acct = step.acct  BY <1>8, <2>2
    <3>2. r \notin DOMAIN step.acct.caps  BY <1>1, <1>3, <2>2 DEF TInv, Account
    <3>3. DOMAIN step.acct.caps \subseteq Request  BY DEF TInv, Account
    <3>4. \A q \in DOMAIN step.acct.caps : step'.scheduled[q] = step.scheduled[q]
      BY <1>9, <3>2, <3>3
    <3>5. Account  BY DEF TInv
    <3> QED  BY <1>1, <1>7, <3>1, <3>4, <3>5 DEF Account
  <2>3. CASE ~BatchBudget
    <3>1. step'.acct = step.acct  BY <1>8, <2>3
    <3>2. Account  BY DEF TInv
    <3> QED  BY <2>3, <3>1, <3>2 DEF Account
  <2> QED  BY <2>1, <2>2, <2>3
<1> QED  BY <1>10, <1>11, <1>12, <1>13, <1>14 DEF Kept5

LEMMA AdmitKeeps ==
    ASSUME IsFiniteSet(Request), PoolInv, QInv, TInv, NEW r \in Request, WaitingAdmit(r)
    PROVE  Kept5'
<1> DEFINE n == WaitingTokens(r)
           k == CachedPrefix(r)
<1>1. /\ output' = output /\ placeholders' = placeholders /\ chunk' = chunk
      /\ inflight' = inflight /\ running' = Append(running, r)
      /\ status' = [status EXCEPT ![r] = "RUNNING"] /\ computed' = [computed EXCEPT ![r] = k]
      /\ InWaitingLoop /\ r = NextWaiting /\ ~WaitingPassesOver(r) /\ n > 0 /\ AdmissionFits(r)
      /\ Allocate(r, k + n)
  BY DEF WaitingAdmit
<1>2. step' = [step EXCEPT !.budget = @ - n, !.scheduled[r] = n,
                           !.acct = IF BatchBudget THEN Commit(@, r, n, "waiting") ELSE @]
  BY DEF WaitingAdmit
<1>3. Pending(r) = 0 /\ step.scheduled[r] = 0 /\ status[r] \in Waits
  BY <1>1, NothingPending
<1>4. /\ n \in Nat /\ n <= step.budget /\ k \in Nat /\ k < NumTokens(r)
      /\ k + n <= NumTokens(r)
      /\ output[r] < MaxTokens[r] /\ placeholders[r] = 0
      /\ BatchBudget => HasCap(step.acct, r) /\ n <= step.acct.remaining
      /\ BatchBudget /\ n > 0 => step.acct.committed[r] + n <= step.acct.caps[r]
  BY <1>1, WaitingGrant
<1> DEFINE watermark == IF running = <<>> THEN 0 ELSE WatermarkBlocks
<1>5. MoreBlocks(r, k + n) + watermark <= Cardinality(freeBlocks)  BY <1>1 DEF AdmissionFits
<1> HIDE DEF n, k
<1>6. DOMAIN step = DOMAIN NoStep /\ step.phase = "waiting" /\ running \in Seq(Request)
      /\ Len(running) < MaxNumRunningReqs /\ status \in [Request -> Statuses]
  BY <1>1 DEF QInv, QTyped, InWaitingLoop
<1>7. step.scheduled \in [Request -> Nat] /\ computed \in [Request -> Nat] /\ output[r] \in Nat
      /\ NumTokens(r) \in Nat
  BY CachedFacts DEF TInv, Tokens, Types
<1>8. /\ step'.scheduled = [step.scheduled EXCEPT ![r] = n]
      /\ step'.budget = step.budget - n /\ step'.held = step.held
      /\ step'.phase = "waiting" /\ step'.preempted = step.preempted
  BY <1>2, <1>6 DEF NoStep
<1>9. step'.acct = IF BatchBudget THEN Commit(step.acct, r, n, "waiting") ELSE step.acct
  BY <1>2, <1>6 DEF NoStep
<1>10. /\ step'.scheduled \in [Request -> Nat] /\ step'.scheduled[r] = n
       /\ \A q \in Request : q # r => step'.scheduled[q] = step.scheduled[q]
  BY <1>4, <1>7, <1>8
<1>11. /\ computed' \in [Request -> Nat] /\ computed'[r] = k
       /\ \A q \in Request : q # r => computed'[q] = computed[q]
  BY <1>1, <1>4, <1>7
<1>12. status'[r] = "RUNNING" /\ \A q \in Request : q # r => status'[q] = status[q]
  BY <1>1, <1>6
<1>13. Tokens'
  <2>1. k + n \in Nat  BY <1>4
  <2>2. MoreBlocks(r, k + n) <= Cardinality(freeBlocks)
    <3>1. Cardinality(freeBlocks) \in Nat
      BY PositionsAreFinite, PoolAssumption DEF PoolInv, PoolOf, Partitioned, Block
    <3>2. watermark \in Nat  BY PoolAssumption
    <3>3. MoreBlocks(r, k + n) \in Int
      <4>1. blocks[r] \in SUBSET (1..NumBlocks) /\ NumBlocks \in Nat
        BY PoolAssumption DEF PoolInv, PoolOf, Partitioned, Block
      <4>2. Cardinality(blocks[r]) \in Nat  BY <4>1, PositionsAreFinite
      <4>3. BlocksFor(k + n) \in Int  BY <2>1, BlocksForType
      <4> QED  BY <4>2, <4>3 DEF MoreBlocks, Monus
    <3> HIDE DEF watermark
    <3> QED  BY <1>5, <3>1, <3>2, <3>3
  <2>3. /\ BlocksFor(k + n) <= Cardinality(blocks'[r])
        /\ \A q \in Request : q # r => blocks'[q] = blocks[q]
    BY <1>1, <2>1, <2>2, AllocateEnough
  <2>4. Types'  BY <1>1, <1>10, <1>11 DEF TInv, Tokens, Types
  <2>5. Prefilling(r)'
    <3>1. Pending(r)' = 0 /\ NumTokens(r)' = NumTokens(r)  BY <1>1, <1>3 DEF Pending, NumTokens
    <3>2. step'.scheduled[r] > 0  BY <1>1, <1>10
    <3> QED  BY <1>4, <1>11, <3>1, <3>2 DEF Prefilling
  <2>6. output[r] + Pending(r) < MaxTokens[r]
        /\ computed'[r] + step'.scheduled[r] <= NumTokens(r) + placeholders[r]
    BY <1>3, <1>4, <1>7, <1>10, <1>11
  <2>7. status[r] # "FINISHED" /\ Tokens  BY <1>3 DEF TInv, Waits
  <2>8. IF status'[r] = "RUNNING"
        THEN BlocksFor(computed'[r] + step'.scheduled[r]) <= Cardinality(blocks'[r])
        ELSE blocks'[r] = {}
    BY <1>10, <1>11, <1>12, <2>3
  <2> QED  BY <1>1, <1>10, <1>11, <1>12, <2>3, <2>4, <2>5, <2>6, <2>7, <2>8, OneTokens
<1>14. Late'
  <2>1. \A q \in Request : status'[q] = status[q] \/ status'[q] = "RUNNING"  BY <1>12
  <2> QED  BY <1>1, <1>6, <1>8, <2>1, StillLate DEF TInv
<1>15. Slots'
  <2>1. Len(running') = Len(running) + 1 /\ Len(running) \in Nat /\ MaxNumRunningReqs \in Nat
    BY <1>1, <1>6, BudgetAssumption
  <2>2. ~step.preempted \/ Len(running') >= MaxNumRunningReqs
    BY <1>6, <2>1 DEF TInv, Slots
  <2>3. Len(running') <= MaxNumRunningReqs  BY <1>6, <2>1
  <2> QED  BY <1>8, <2>2, <2>3 DEF Slots
<1>16. Budget'
  <2>1. Budget /\ step.phase # "idle"  BY <1>6 DEF TInv
  <2> QED  BY <1>3, <1>4, <1>7, <1>8, <2>1, GrantBudget
<1>17. Account'
  <2>1. CASE BatchBudget
    <3>1. step'.acct = Commit(step.acct, r, n, "waiting")  BY <1>9, <2>1
    <3>2. "waiting" \in Source /\ Account  BY DEF TInv, Source
    <3> QED  BY <1>1, <1>3, <1>4, <1>7, <1>8, <2>1, <3>1, <3>2, CommitAccount
  <2>2. CASE ~BatchBudget
    <3>1. step'.acct = step.acct  BY <1>9, <2>2
    <3>2. Account  BY DEF TInv
    <3> QED  BY <2>2, <3>1, <3>2 DEF Account
  <2> QED  BY <2>1, <2>2
<1> QED  BY <1>13, <1>14, <1>15, <1>16, <1>17 DEF Kept5

\* A preempted request gives its blocks back and may still have one token to
\* come, from the only batch in flight.
LEMMA PreemptTokens ==
    ASSUME Shallow, PoolInv, TInv, NEW v \in Request, status[v] = "RUNNING",
           status \in [Request -> Statuses], Preempt(v), inflight' = inflight,
           step.phase # "idle", step'.phase # "idle", step'.preempted,
           step'.scheduled \in [Request -> Nat], step'.scheduled[v] = 0,
           \A q \in Request : q # v => step'.scheduled[q] = step.scheduled[q]
    PROVE  Tokens' /\ Late'
<1>1. /\ output' = output /\ placeholders' = placeholders /\ chunk' = chunk
      /\ status' = [status EXCEPT ![v] = "PREEMPTED"]
      /\ computed' = [computed EXCEPT ![v] = 0]
      /\ blocks' = [r \in Request |-> IF r \in {v} THEN {} ELSE blocks[r]]
  BY DEF Preempt, FreeRequestBlocks
<1>2. computed \in [Request -> Nat]  BY DEF TInv, Tokens, Types
<1>3. /\ computed' \in [Request -> Nat] /\ status'[v] = "PREEMPTED" /\ blocks'[v] = {}
      /\ \A q \in Request : q # v => /\ computed'[q] = computed[q] /\ status'[q] = status[q]
                                     /\ blocks'[q] = blocks[q]
  BY <1>1, <1>2
<1>4. Tokens'
  <2>1. Types'  BY <1>1, <1>3 DEF TInv, Tokens, Types
  <2>2. Tokens  BY DEF TInv
  <2>3. ~(step'.scheduled[v] > 0)  OBVIOUS
  <2> QED  BY <1>1, <1>3, <2>1, <2>2, <2>3, OneTokens
<1>5. Len(inflight) \in Nat /\ Len(inflight) <= 1 /\ DOMAIN inflight = 1..Len(inflight)
  BY InflightType, PipelineAssumption DEF TInv, Late, Shallow
<1>6. \A q \in Request : Pending(q)' = Pending(q)  BY DEF Pending
<1>7. ASSUME NEW q \in Request, status'[q] \notin {"RUNNING", "FINISHED"}, Pending(q) > 0
      PROVE  status'[q] = "PREEMPTED" /\ q \in inflight[1].emits
  <2>1. CASE q = v
    <3>1. PICK i \in DOMAIN inflight : q \in inflight[i].emits
      BY <1>7, CountFacts DEF Pending, PoolInv
    <3>2. i = 1  BY <1>5, <3>1
    <3> QED  BY <1>3, <2>1, <3>1, <3>2
  <2>2. CASE q # v  BY <1>3, <1>7, <2>2 DEF TInv, Late
  <2> QED  BY <2>1, <2>2
<1>8. Late'  BY <1>6, <1>7 DEF TInv, Late
<1> QED  BY <1>4, <1>8

LEMMA PreemptKeeps ==
    ASSUME Shallow, PoolInv, QInv, TInv, NEW r \in Request, NEW v \in Request,
           RunningPreempt(r, v)
    PROVE  Kept5'
<1>1. /\ running' = Front(running) /\ inflight' = inflight /\ chunk' = chunk
      /\ step.phase = "running" /\ step.index <= Len(running) /\ v = Last(running)
      /\ Preempt(v)
      /\ step' = [step EXCEPT !.preempted = TRUE, !.phase = IF v = r THEN "restore" ELSE @]
  BY DEF RunningPreempt, InRunningLoop, Preempt
<1>2. /\ DOMAIN step = DOMAIN NoStep /\ step.index \in Nat \ {0}
      /\ running \in Seq(Request) /\ status \in [Request -> Statuses]
  BY DEF QInv, QTyped
<1>3. /\ step'.scheduled = step.scheduled /\ step'.acct = step.acct
      /\ step'.budget = step.budget /\ step'.held = step.held
      /\ step'.phase \in {"running", "restore"}
  BY <1>1, <1>2 DEF NoStep
<1>4. step'.preempted  BY <1>1, <1>2 DEF NoStep
<1>5. status[v] = "RUNNING"  BY VictimRuns DEF QInv
<1>6. /\ running # <<>> /\ Len(running) \in Nat \ {0} /\ DOMAIN running = 1..Len(running)
  BY <1>1, <1>2
<1>7. v = running[Len(running)] /\ Len(running') = Len(running) - 1
  BY <1>1, <1>2, <1>6, LastFacts
<1>8. step.scheduled[v] = 0
  <2>1. Len(running) \in DOMAIN running /\ Len(running) >= step.index  BY <1>1, <1>2, <1>6
  <2> QED  BY <1>1, <1>7, <2>1 DEF QInv, InBatch
<1>9. step.scheduled \in [Request -> Nat]  BY DEF TInv, Tokens, Types
<1>10. Tokens' /\ Late'  BY <1>1, <1>2, <1>3, <1>4, <1>5, <1>8, <1>9, PreemptTokens
<1>11. Slots'
  <2>1. Len(running) <= MaxNumRunningReqs /\ MaxNumRunningReqs \in Nat
    BY BudgetAssumption DEF TInv, Slots
  <2>2. Len(running') <= MaxNumRunningReqs  BY <1>6, <1>7, <2>1
  <2> QED  BY <1>3, <2>2 DEF Slots
<1>12. Account'
  <2>1. \A q \in Request : status'[q] = "RUNNING" => status[q] = "RUNNING"
    BY <1>1, <1>2 DEF Preempt
  <2> QED  BY <1>1, <1>3, <2>1, SameAccount DEF TInv
<1>13. Budget'  BY <1>1, <1>3, SameBudget DEF TInv
<1> QED  BY <1>10, <1>11, <1>12, <1>13 DEF Kept5

\* Tokens that are taken back return to the budget.
LEMMA BatchShrinks ==
    ASSUME IsFiniteSet(Request), NEW v \in Request, step.scheduled \in [Request -> Int],
           step'.scheduled = [step.scheduled EXCEPT ![v] = 0]
    PROVE  SumFunction(step.scheduled) \in Int
           /\ SumFunction(step'.scheduled) = SumFunction(step.scheduled) - step.scheduled[v]
<1>1. 0 \in Int  OBVIOUS
<1>2. /\ SumFunction(step.scheduled) \in Int
      /\ SumFunction([step.scheduled EXCEPT ![v] = 0])
           = SumFunction(step.scheduled) - step.scheduled[v] + 0
  BY <1>1, SumUpdate
<1>3. step.scheduled[v] \in Int  OBVIOUS
<1> QED  BY <1>2, <1>3

\* An account restores nothing to a request without a cap.
LEMMA RestoreNothing ==
    ASSUME NEW a, AccountType(a), IsAccount(a), a.by \in [Source -> Nat],
           NEW v, ~HasCap(a, v), NEW n, NEW source \in Source, NEW b, b = Restore(a, v, n, source)
    PROVE  /\ AccountType(b) /\ IsAccount(b) /\ b.by \in [Source -> Nat]
           /\ b.total = a.total /\ b.remaining = a.remaining
           /\ b.caps = a.caps /\ b.committed = a.committed
<1>1. Restored(a, v, n) = 0  BY DEF Restored
<1>2. a = [total |-> a.total, remaining |-> a.remaining, caps |-> a.caps,
           committed |-> a.committed, by |-> a.by]
  BY DEF IsAccount
<1>3. a.remaining \in Int /\ a.committed \in [DOMAIN a.caps -> Int]  BY DEF AccountType
<1>4. b = [a EXCEPT !.committed = [q \in DOMAIN a.caps |-> IF q = v THEN a.committed[q] - 0
                                                           ELSE a.committed[q]],
                    !.remaining = a.remaining + 0, !.by[source] = a.by[source] - 0]
  BY <1>1 DEF Restore
<1>5. /\ b.total = a.total /\ b.remaining = a.remaining + 0 /\ b.caps = a.caps
      /\ b.committed = [q \in DOMAIN a.caps |-> IF q = v THEN a.committed[q] - 0
                                                ELSE a.committed[q]]
      /\ b.by = [a.by EXCEPT ![source] = a.by[source] - 0]
      /\ IsAccount(b)
  BY <1>2, <1>4 DEF IsAccount
<1>6. b.committed = a.committed  BY <1>3, <1>5
<1>7. b.by \in [Source -> Nat]  BY <1>5
<1>8. AccountType(b)  BY <1>3, <1>5, <1>6 DEF AccountType
<1> QED  BY <1>3, <1>5, <1>6, <1>7, <1>8

LEMMA SwapKeeps ==
    ASSUME Shallow, IsFiniteSet(Request), PoolInv, QInv, TInv,
           NEW c \in Request, NEW v \in Request, SwapCommit(c, v)
    PROVE  Kept5'
<1>1. /\ running' = Without(running, {v}) /\ inflight' = inflight /\ chunk' = chunk
      /\ waiting' = ForceFirst(<<v>> \o waiting, c)
      /\ step.phase = "swap" /\ Preempt(v)
      /\ step' = [TakenBack(step, v) EXCEPT !.phase = "waiting", !.preempted = TRUE,
                                            !.swappedFor = {c}]
  BY DEF SwapCommit, Preempt
<1>2. /\ c \in ToSet(step.candidates) /\ status[c] = "WAITING"
      /\ ~chunk[v] /\ Len(running) >= MaxNumRunningReqs
  <2>1. c \in ToSet(step.candidates)  BY DEF SwapCommit, SwapWanted
  <2> QED  BY <2>1 DEF SwapCommit, SwapWanted, SwapVictim, IsActiveDecode
<1>3. /\ DOMAIN step = DOMAIN NoStep /\ running \in Seq(Request)
      /\ waiting \in Seq(Request) /\ status \in [Request -> Statuses] /\ IsInjective(running)
  BY DEF QInv, QTyped, Apart
<1>4. /\ step'.scheduled = [step.scheduled EXCEPT ![v] = 0]
      /\ step'.budget = step.budget + step.scheduled[v] /\ step'.held = step.held
      /\ step'.phase = "waiting"
  BY <1>1, <1>3 DEF NoStep, TakenBack
<1>5. step'.preempted  BY <1>1, <1>3 DEF NoStep, TakenBack
<1>6. step'.acct = IF BatchBudget THEN Restore(step.acct, v, step.scheduled[v], "running")
                   ELSE step.acct
  BY <1>1, <1>3 DEF NoStep, TakenBack
<1>7. step.scheduled \in [Request -> Nat]  BY DEF TInv, Tokens, Types
<1>8. /\ step'.scheduled \in [Request -> Nat] /\ step'.scheduled[v] = 0
      /\ \A q \in Request : q # v => step'.scheduled[q] = step.scheduled[q]
  BY <1>4, <1>7
<1>9. status[v] = "RUNNING"  BY VictimRuns DEF QInv
<1>10. Tokens' /\ Late'
  <2>1. step.phase # "idle" /\ step'.phase # "idle"  BY <1>1, <1>4
  <2> QED  BY <1>1, <1>3, <1>5, <1>8, <1>9, <2>1, PreemptTokens
<1>11. status' = [status EXCEPT ![v] = "PREEMPTED"]  BY <1>1 DEF Preempt
<1>12. AccountType(step.acct) /\ IsAccount(step.acct) /\ step.acct.by \in [Source -> Nat]
       /\ DOMAIN step.acct.caps \subseteq Request
  BY DEF TInv, Account
<1>13. BatchBudget =>
         /\ AccountType(step'.acct) /\ IsAccount(step'.acct) /\ step'.acct.by \in [Source -> Nat]
         /\ step'.acct.total = step.acct.total /\ step'.acct.remaining = step.acct.remaining
         /\ step'.acct.caps = step.acct.caps /\ step'.acct.committed = step.acct.committed
         /\ ~HasCap(step.acct, v)
  <2> SUFFICES ASSUME BatchBudget
               PROVE  /\ AccountType(step'.acct) /\ IsAccount(step'.acct)
                      /\ step'.acct.by \in [Source -> Nat]
                      /\ step'.acct.total = step.acct.total
                      /\ step'.acct.remaining = step.acct.remaining
                      /\ step'.acct.caps = step.acct.caps
                      /\ step'.acct.committed = step.acct.committed
                      /\ ~HasCap(step.acct, v)
    OBVIOUS
  <2>1. ~HasCap(step.acct, v)  BY <1>1, <1>2, <1>9 DEF TInv, Account, HasCap
  <2>2. step'.acct = Restore(step.acct, v, step.scheduled[v], "running")  BY <1>6
  <2>3. "running" \in Source  BY DEF Source
  <2> QED  BY <1>12, <2>1, <2>2, <2>3, RestoreNothing
<1>14. Account'
  <2>1. CASE BatchBudget
    <3>1. \A q \in DOMAIN step.acct.caps : q # v /\ step'.scheduled[q] = step.scheduled[q]
      BY <1>8, <1>12, <1>13, <2>1 DEF HasCap
    <3>2. CommittedTokens(step'.acct) = CommittedTokens(step.acct)
      BY <1>13, <2>1 DEF CommittedTokens
    <3>3. Account  BY DEF TInv
    <3> QED  BY <1>4, <1>13, <2>1, <3>1, <3>2, <3>3 DEF Account
  <2>2. CASE ~BatchBudget
    <3>1. step'.acct = step.acct  BY <1>6, <2>2
    <3>2. Account  BY DEF TInv
    <3> QED  BY <2>2, <3>1, <3>2 DEF Account
  <2> QED  BY <2>1, <2>2
<1>15. Slots'
  <2>1. /\ running' \in Seq(Request) /\ Len(running') <= Len(running)
        /\ Len(running') >= Len(running) - 1
    BY <1>1, <1>3, WithoutFacts, RemoveOne
  <2>2. Len(running) \in Nat /\ Len(running') \in Nat /\ MaxNumRunningReqs \in Nat
        /\ Len(running) <= MaxNumRunningReqs
    BY <1>3, <2>1, BudgetAssumption DEF TInv, Slots
  <2>3. Len(running') <= MaxNumRunningReqs /\ Len(running') >= MaxNumRunningReqs - 1
    BY <1>2, <2>1, <2>2
  <2>4. waiting' # <<>> /\ Head(waiting') = c
    <3> DEFINE q == <<v>> \o waiting
               w == Without(q, {c})
    <3>1. q \in Seq(Request) /\ IsInjective(q)
      <4>1. IsInjective(waiting) /\ v \notin ToSet(waiting)
        BY <1>9 DEF QInv, Apart, Where, Waits
      <4> QED  BY <1>3, <4>1, PushFacts
    <3>2. waiting' = <<c>> \o w  BY <1>1 DEF ForceFirst
    <3> HIDE DEF q
    <3>3. w \in Seq(Request) /\ ToSet(w) = ToSet(q) \ {c}  BY <3>1, WithoutFacts
    <3>4. IsInjective(w)  BY <3>1, WithoutFacts
    <3> HIDE DEF w
    <3>5. <<c>> \o w # <<>> /\ Head(<<c>> \o w) = c  BY <3>3, <3>4, PushFacts
    <3> QED  BY <3>2, <3>5
  <2>5. status'[c] = "WAITING"  BY <1>2, <1>3, <1>9, <1>11
  <2>6. BatchBudget => HasCap(step'.acct, c)
    <3>1. BatchBudget => HasCap(step.acct, c)  BY <1>1, <1>2 DEF QInv, Depth
    <3> QED  BY <1>13, <3>1 DEF HasCap
  <2> QED  BY <2>3, <2>4, <2>5, <2>6 DEF Slots
<1>16. Budget'
  <2>1. step.budget \in Nat /\ step.held \in Nat
        /\ step.budget + step.held + SumFunction(step.scheduled) = MaxNumScheduledTokens
    BY <1>1 DEF TInv, Budget, BudgetConserved
  <2>2. step.scheduled \in [Request -> Int] /\ step.scheduled[v] \in Nat  BY <1>7
  <2>3. SumFunction(step.scheduled) \in Int
        /\ SumFunction(step'.scheduled) = SumFunction(step.scheduled) - step.scheduled[v]
    BY <1>4, <2>2, BatchShrinks
  <2>4. step'.budget + step'.held + SumFunction(step'.scheduled) = MaxNumScheduledTokens
    BY <1>4, <2>1, <2>2, <2>3
  <2>5. step'.budget \in Nat /\ step'.held \in Nat  BY <1>4, <2>1, <2>2
  <2> QED  BY <2>4, <2>5 DEF Budget, BudgetConserved
<1> QED  BY <1>10, <1>14, <1>15, <1>16 DEF Kept5

\* An aborted request leaves with its blocks.
LEMMA AbortKeeps ==
    ASSUME QInv, TInv, NEW r \in Request, Abort(r)
    PROVE  Kept5'
<1>1. /\ computed' = computed /\ output' = output /\ placeholders' = placeholders
      /\ chunk' = chunk /\ inflight' = inflight /\ step' = step /\ step.phase = "idle"
      /\ status[r] # "FINISHED"
      /\ status' = [q \in Request |-> IF q \in {r} THEN "FINISHED" ELSE status[q]]
      /\ blocks' = [q \in Request |-> IF q \in {r} THEN {} ELSE blocks[q]]
  BY DEF Abort, Forget, FreeRequestBlocks
<1>2. step.scheduled[r] = 0
  <2>1. step = NoStep  BY <1>1 DEF QInv, InBatch
  <2> QED  BY <2>1 DEF NoStep
<1>3. status'[r] = "FINISHED" /\ blocks'[r] = {}
      /\ \A q \in Request : q # r => status'[q] = status[q] /\ blocks'[q] = blocks[q]
  BY <1>1
<1>4. Tokens'
  <2>1. Types'  BY <1>1 DEF TInv, Tokens, Types
  <2>2. Tokens  BY DEF TInv
  <2>3. ~(step'.scheduled[r] > 0)  BY <1>1, <1>2
  <2> QED  BY <1>1, <1>3, <2>1, <2>2, <2>3, OneTokens
<1>5. Late'
  <2>1. \A q \in Request : status'[q] = status[q] \/ status'[q] \in {"RUNNING", "FINISHED"}
    BY <1>3
  <2> QED  BY <1>1, <2>1, StillLate DEF TInv
<1>6. Slots'
  <2>1. running \in Seq(Request) /\ IsInjective(running)  BY DEF QInv, QTyped, Apart
  <2>2. Len(running) <= MaxNumRunningReqs /\ MaxNumRunningReqs \in Nat
    BY BudgetAssumption DEF TInv, Slots
  <2>3. CASE running' = running  BY <1>1, <2>2, <2>3 DEF Slots
  <2>4. CASE running' = Without(running, {r})
    <3>1. Len(running') <= Len(running) /\ running' \in Seq(Request)
      BY <2>1, <2>4, WithoutFacts
    <3>2. Len(running) \in Nat /\ Len(running') \in Nat  BY <2>1, <3>1
    <3>3. Len(running') <= MaxNumRunningReqs  BY <2>2, <3>1, <3>2
    <3> QED  BY <1>1, <3>3 DEF Slots
  <2> QED  BY <2>3, <2>4 DEF Abort
<1>7. Account'  BY <1>1, SameAccount DEF TInv
<1>8. Budget'  BY <1>1, SameBudget DEF TInv
<1> QED  BY <1>4, <1>5, <1>6, <1>7, <1>8 DEF Kept5

-----------------------------------------------------------------------------
(* The batches: one is built, one is done *)

\* The tokens of the batch become tokens to come.
LEMMA FinishKeeps ==
    ASSUME Shallow, IsFiniteSet(Request), PoolInv, PoolInv', QInv, TInv, FinishSchedule
    PROVE  Kept5'
<1> DEFINE batch == {r \in Request : step.scheduled[r] > 0}
           emits == {r \in batch : computed[r] + step.scheduled[r] >= NumTokens(r) + placeholders[r]}
           x == [requests |-> batch, emits |-> emits, touches |-> OwnedBlocks(batch),
                 seq |-> schedSeq']
<1>1. /\ step.phase = "finish" /\ step' = NoStep
      /\ running' = running /\ status' = status /\ output' = output /\ blocks' = blocks
  BY DEF FinishSchedule, pool
<1>2. /\ computed' = [r \in Request |-> computed[r] + step.scheduled[r]]
      /\ chunk' = [r \in Request |-> IF r \in batch THEN r \notin emits ELSE chunk[r]]
      /\ placeholders' = [r \in Request |->
                             placeholders[r] + (IF AsyncScheduling /\ r \in emits THEN 1 ELSE 0)]
      /\ inflight' = Append(inflight, x)
  <2>1. emits = {r \in batch : [q \in Request |-> computed[q] + step.scheduled[q]][r]
                                 >= NumTokens(r) + placeholders[r]}
    OBVIOUS
  <2> QED  BY <2>1 DEF FinishSchedule
<1>3. /\ computed \in [Request -> Nat] /\ output \in [Request -> Nat]
      /\ placeholders \in [Request -> Nat] /\ chunk \in [Request -> BOOLEAN]
      /\ step.scheduled \in [Request -> Nat]
  BY DEF TInv, Tokens, Types
<1>4. /\ emits \subseteq Request
      /\ \A r \in Request :
          /\ r \in batch <=> step.scheduled[r] > 0
          /\ r \in emits <=> r \in batch /\ computed[r] + step.scheduled[r]
                                              >= NumTokens(r) + placeholders[r]
  OBVIOUS
<1>5. x.emits = emits  OBVIOUS
<1> HIDE DEF batch, emits, x
<1>6. /\ Len(inflight) \in Nat /\ Len(inflight) <= 1 /\ Len(inflight) < BatchQueueSize
      /\ DOMAIN inflight = 1..Len(inflight) /\ BatchQueueSize \in Nat
  BY <1>1, InflightType, PipelineAssumption DEF TInv, Late, Shallow
<1>7. /\ Len(inflight') = Len(inflight) + 1 /\ inflight'[Len(inflight) + 1] = x
      /\ \A i \in 1..Len(inflight) : inflight'[i] = inflight[i]
  BY <1>2, AppendProperties DEF PoolInv
<1>8. x \in Batch
  <2>1. Len(inflight) + 1 \in DOMAIN inflight'  BY <1>6, <1>7, InflightType DEF PoolInv
  <2>2. inflight' \in Seq(Batch)  BY DEF PoolInv
  <2> QED  BY <1>7, <2>1, <2>2, ElementOfSeq
<1>9. \A r \in Request : Pending(r)' = Pending(r) + (IF r \in emits THEN 1 ELSE 0)
  <2> SUFFICES ASSUME NEW r \in Request
               PROVE  Pending(r)' = Pending(r) + (IF r \in emits THEN 1 ELSE 0)
    OBVIOUS
  <2>1. inflight \in Seq(Batch)  BY DEF PoolInv
  <2>2. Count(Append(inflight, x), r) = Count(inflight, r) + (IF r \in x.emits THEN 1 ELSE 0)
    BY <1>8, <2>1, CountAppend
  <2>3. Pending(r)' = Count(inflight', r)  BY DEF Pending, Count
  <2> QED  BY <1>2, <1>5, <2>2, <2>3 DEF Pending
<1>10. \A r \in Request : Pending(r) \in {0, 1}
  <2> SUFFICES ASSUME NEW r \in Request PROVE Pending(r) \in {0, 1}  OBVIOUS
  <2>1. Pending(r) \in Nat /\ Pending(r) <= Len(inflight)  BY CountFacts DEF Pending, PoolInv
  <2> QED  BY <1>6, <2>1
<1>11. \A r \in Request : NumTokens(r) \in Nat /\ NumTokens(r)' = NumTokens(r)
  BY <1>1, <1>3, CachedFacts DEF NumTokens, TInv, Tokens
<1>12. NoStep.scheduled \in [Request -> Nat] /\ \A r \in Request : NoStep.scheduled[r] = 0
  BY FreshNoStep
<1>13. \A r \in Request : r \in batch => status[r] = "RUNNING"
  <2>1. \A r \in Request : r \in batch => step.scheduled[r] # 0  BY <1>3, <1>4
  <2> QED  BY <2>1 DEF QInv, InBatch
<1>14. \A r \in Request : r \in emits =>
         /\ computed[r] + step.scheduled[r] = NumTokens(r) + placeholders[r]
         /\ output[r] + Pending(r) < MaxTokens[r]
  <2> SUFFICES ASSUME NEW r \in Request, r \in emits
               PROVE  /\ computed[r] + step.scheduled[r] = NumTokens(r) + placeholders[r]
                      /\ output[r] + Pending(r) < MaxTokens[r]
    OBVIOUS
  <2>1. step.scheduled[r] > 0
        /\ computed[r] + step.scheduled[r] >= NumTokens(r) + placeholders[r]
    BY <1>4
  <2>2. /\ output[r] + Pending(r) < MaxTokens[r]
        /\ computed[r] + step.scheduled[r] <= NumTokens(r) + placeholders[r]
    BY <2>1 DEF TInv, Tokens, Needed
  <2>3. /\ computed[r] \in Nat /\ step.scheduled[r] \in Nat /\ placeholders[r] \in Nat
        /\ NumTokens(r) \in Nat
    BY <1>3, <1>11
  <2> QED  BY <2>1, <2>2, <2>3
<1>15. Types'
  <2>1. computed' \in [Request -> Nat]  BY <1>2, <1>3
  <2>2. placeholders' \in [Request -> Nat]  BY <1>2, <1>3
  <2>3. chunk' \in [Request -> BOOLEAN]  BY <1>2, <1>3
  <2>4. step'.scheduled \in [Request -> Nat]  BY <1>1, <1>12
  <2> QED  BY <1>1, <1>3, <2>1, <2>2, <2>3, <2>4 DEF Types
<1>16. Owed'
  <2> SUFFICES ASSUME NEW r \in Request
               PROVE  /\ status[r] # "FINISHED" =>
                          /\ placeholders'[r] = IF AsyncScheduling THEN Pending(r)' ELSE 0
                          /\ output[r] < MaxTokens[r] /\ output[r] + Pending(r)' <= MaxTokens[r]
                      /\ status[r] \in {"ABSENT", "WAITING", "WAITING_FOR_GRAMMAR"} => output[r] = 0
    BY <1>1 DEF Owed
  <2>1. /\ status[r] # "FINISHED" =>
             /\ placeholders[r] = IF AsyncScheduling THEN Pending(r) ELSE 0
             /\ output[r] < MaxTokens[r] /\ output[r] + Pending(r) <= MaxTokens[r]
        /\ status[r] \in {"ABSENT", "WAITING", "WAITING_FOR_GRAMMAR"} => output[r] = 0
    BY DEF TInv, Tokens, Owed
  <2>2. /\ placeholders'[r] = placeholders[r] + (IF AsyncScheduling /\ r \in emits THEN 1 ELSE 0)
        /\ placeholders[r] \in Nat /\ output[r] \in Nat /\ MaxTokens[r] \in Nat
    BY <1>2, <1>3, RequestAssumption
  <2>3. Pending(r) \in {0, 1}  BY <1>10
  <2>4. CASE r \in emits
    <3>1. Pending(r)' = Pending(r) + 1  BY <1>9, <2>4
    <3>2. output[r] + Pending(r) < MaxTokens[r]  BY <1>14, <2>4
    <3> QED  BY <2>1, <2>2, <2>3, <2>4, <3>1, <3>2
  <2>5. CASE r \notin emits
    <3>1. Pending(r)' = Pending(r)  BY <1>9, <2>3, <2>5
    <3>2. placeholders'[r] = placeholders[r]  BY <2>2, <2>5
    <3> QED  BY <2>1, <3>1, <3>2
  <2> QED  BY <2>4, <2>5
<1>17. Kinds'
  <2> SUFFICES ASSUME NEW r \in Request, status[r] = "RUNNING"
               PROVE  Decoding(r)' \/ Prefilling(r)'
    BY <1>1 DEF Kinds
  <2>1. Decoding(r) \/ Prefilling(r)  BY DEF TInv, Tokens, Kinds
  <2>2. /\ computed[r] \in Nat /\ step.scheduled[r] \in Nat /\ placeholders[r] \in Nat
        /\ NumTokens(r) \in Nat /\ NumTokens(r)' = NumTokens(r) /\ Pending(r) \in {0, 1}
        /\ computed'[r] = computed[r] + step.scheduled[r]
        /\ chunk'[r] = IF r \in batch THEN r \notin emits ELSE chunk[r]
    BY <1>2, <1>3, <1>10, <1>11
  <2>3. placeholders[r] = IF AsyncScheduling THEN Pending(r) ELSE 0
    BY DEF TInv, Tokens, Owed
  <2>4. CASE r \in emits
    <3>1. ~chunk'[r] /\ Pending(r)' = Pending(r) + 1 /\ step.scheduled[r] > 0
      BY <1>4, <1>9, <2>2, <2>4
    <3>2. computed'[r] = NumTokens(r) + placeholders[r]  BY <1>14, <2>2, <2>4
    <3>3. placeholders[r] = Pending(r)
      <4> SUFFICES ASSUME ~AsyncScheduling, Pending(r) = 1 PROVE FALSE  BY <2>2, <2>3
      <4>1. Decoding(r)  BY <2>1 DEF Prefilling
      <4>2. computed[r] = NumTokens(r) + 1 - 1  BY <4>1 DEF Decoding
      <4> QED  BY <2>2, <2>3, <3>1, <3>2, <4>2
    <3>4. computed'[r] = NumTokens(r)' + Pending(r)' - 1  BY <2>2, <3>1, <3>2, <3>3
    <3> QED  BY <3>1, <3>4 DEF Decoding
  <2>5. CASE r \in batch /\ r \notin emits
    <3>1. Pending(r)' = Pending(r) /\ step.scheduled[r] > 0  BY <1>4, <1>9, <2>2, <2>5
    <3>2. chunk'[r] <=> r \notin emits  BY <1>2, <2>5
    <3>3. chunk'[r]  BY <2>5, <3>2
    <3>4. computed[r] + step.scheduled[r] < NumTokens(r) + placeholders[r]  BY <1>4, <2>2, <2>5
    <3>5. ~Decoding(r)
      <4> SUFFICES ASSUME computed[r] = NumTokens(r) + Pending(r) - 1 PROVE FALSE
        BY DEF Decoding
      <4> QED  BY <2>2, <2>3, <3>1, <3>4
    <3>6. Pending(r) = 0  BY <2>1, <3>5 DEF Prefilling
    <3>7. computed'[r] < NumTokens(r)'  BY <2>2, <2>3, <3>4, <3>6
    <3> QED  BY <3>1, <3>3, <3>6, <3>7 DEF Prefilling
  <2>6. CASE r \notin batch
    <3>1. r \notin emits /\ step.scheduled[r] = 0  BY <1>4, <2>2, <2>6
    <3>2. chunk'[r] = chunk[r] /\ Pending(r)' = Pending(r) /\ computed'[r] = computed[r]
      BY <1>9, <2>2, <2>6, <3>1
    <3>3. ~(step.scheduled[r] > 0)  BY <3>1
    <3> QED  BY <2>1, <2>2, <3>2, <3>3 DEF Decoding, Prefilling
  <2> QED  BY <2>4, <2>5, <2>6
<1>18. Needed'
  <2>1. \A r \in Request : ~(step'.scheduled[r] > 0)  BY <1>1, <1>12
  <2> QED  BY <2>1 DEF Needed
<1>19. ComputedTokensHaveBlocks'
  <2> SUFFICES ASSUME NEW r \in Request
               PROVE  IF status[r] = "RUNNING"
                      THEN BlocksFor(computed'[r] + step'.scheduled[r]) <= Cardinality(blocks[r])
                      ELSE blocks[r] = {}
    BY <1>1 DEF ComputedTokensHaveBlocks, BlocksFor
  <2>1. computed'[r] + step'.scheduled[r] = computed[r] + step.scheduled[r]
    BY <1>1, <1>2, <1>3, <1>12
  <2> QED  BY <2>1 DEF TInv, Tokens, ComputedTokensHaveBlocks
<1>20. Late'
  <2>1. Len(inflight') <= BatchQueueSize  BY <1>6, <1>7
  <2>2. step'.phase = "idle"  BY <1>1 DEF NoStep
  <2>3. ASSUME NEW r \in Request, status[r] \notin {"RUNNING", "FINISHED"}, Pending(r)' > 0
        PROVE  /\ status[r] = "PREEMPTED" /\ r \in inflight'[1].emits
               /\ Len(inflight') = 2 /\ r \notin inflight'[2].emits
    <3>1. r \notin emits  BY <1>4, <1>13, <2>3
    <3>2. Pending(r) > 0  BY <1>9, <1>10, <2>3, <3>1
    <3>3. status[r] = "PREEMPTED" /\ r \in inflight[1].emits
      BY <2>3, <3>2 DEF TInv, Late
    <3>4. Len(inflight) = 1
      <4>1. Pending(r) \in Nat /\ Pending(r) <= Len(inflight)  BY CountFacts DEF Pending, PoolInv
      <4> QED  BY <1>6, <3>2, <4>1
    <3>5. inflight'[1] = inflight[1] /\ inflight'[2] = x /\ Len(inflight') = 2
      BY <1>7, <3>4
    <3> QED  BY <1>5, <3>1, <3>3, <3>5
  <2> QED  BY <1>1, <2>1, <2>2, <2>3 DEF Late
<1>21. Slots'
  <2>1. step'.phase # "waiting"  BY <1>1 DEF NoStep
  <2> QED  BY <1>1, <2>1 DEF TInv, Slots
<1>22. Account' /\ Budget'  BY <1>1, IdleAccount
<1>23. Tokens'  BY <1>15, <1>16, <1>17, <1>18, <1>19 DEF Tokens
<1> QED  BY <1>20, <1>21, <1>22, <1>23 DEF Kept5

\* A batch is done: its tokens come out, and what stops leaves with its blocks.
LEMMA UpdateKeeps ==
    ASSUME Shallow, PoolInv, PoolInv', QInv, TInv, UpdateFromOutput
    PROVE  Kept5'
<1> DEFINE batch == Head(inflight)
           live == Receiving(batch)
<1>1. /\ step.phase = "idle" /\ step' = step /\ inflight # <<>> /\ inflight' = Tail(inflight)
      /\ computed' = computed /\ chunk' = chunk
      /\ output' = [r \in Request |-> IF r \in live THEN output[r] + 1 ELSE output[r]]
      /\ placeholders' = [r \in Request |->
                             IF AsyncScheduling /\ r \in live THEN placeholders[r] - 1
                             ELSE placeholders[r]]
  BY DEF UpdateFromOutput
<1>2. PICK R : /\ R \subseteq live /\ DropStopped(R)
               /\ \A r \in live : output'[r] >= MaxTokens[r] => r \in R
               /\ status' = [r \in Request |-> IF r \in R THEN "FINISHED" ELSE status[r]]
               /\ blocks' = [r \in Request |-> IF r \in R THEN {} ELSE blocks[r]]
  <2> DEFINE stopped(eos) == {r \in live : r \in eos \/ output'[r] >= MaxTokens[r]}
  <2>1. PICK eos \in SUBSET (live \cap MayStopEarly) :
            /\ DropStopped(stopped(eos))
            /\ status' = [r \in Request |-> IF r \in stopped(eos) THEN "FINISHED" ELSE status[r]]
            /\ blocks' = [r \in Request |-> IF r \in stopped(eos) THEN {} ELSE blocks[r]]
    BY DEF UpdateFromOutput, Forget, FreeRequestBlocks
  <2>2. stopped(eos) \subseteq live
        /\ \A r \in live : output'[r] >= MaxTokens[r] => r \in stopped(eos)
    OBVIOUS
  <2> HIDE DEF live, stopped
  <2> QED  BY <2>1, <2>2
<1>3. live \subseteq Request
      /\ \A r \in Request : r \in live <=> /\ r \in batch.emits
                                           /\ status[r] \in {"RUNNING", "PREEMPTED"}
  <2>1. batch.emits \subseteq Request  BY <1>1, TakenBatches DEF Batch
  <2> QED  BY <2>1 DEF Receiving
<1> HIDE DEF live
<1>4. /\ computed \in [Request -> Nat] /\ output \in [Request -> Nat]
      /\ placeholders \in [Request -> Nat] /\ chunk \in [Request -> BOOLEAN]
      /\ step.scheduled \in [Request -> Nat] /\ \A r \in Request : step.scheduled[r] = 0
  <2>1. step = NoStep  BY <1>1 DEF QInv, InBatch
  <2> QED  BY <2>1, FreshNoStep DEF TInv, Tokens, Types
<1>5. /\ Len(inflight) \in {1, 2} /\ Len(inflight) <= BatchQueueSize /\ BatchQueueSize \in Nat
      /\ Len(inflight') = Len(inflight) - 1 /\ batch = inflight[1]
  <2>1. Len(inflight) \in Nat \ {0} /\ Len(inflight') = Len(inflight) - 1 /\ batch = inflight[1]
    BY <1>1, TakenBatches
  <2>2. Len(inflight) <= BatchQueueSize /\ BatchQueueSize \in Nat /\ BatchQueueSize <= 2
    BY PipelineAssumption DEF TInv, Late, Shallow
  <2> QED  BY <2>1, <2>2
<1>6. \A r \in Request : /\ Pending(r) = Pending(r)' + (IF r \in batch.emits THEN 1 ELSE 0)
                         /\ Pending(r) \in Nat /\ Pending(r)' \in Nat
  <2> SUFFICES ASSUME NEW r \in Request
               PROVE  /\ Pending(r) = Pending(r)' + (IF r \in batch.emits THEN 1 ELSE 0)
                      /\ Pending(r) \in Nat /\ Pending(r)' \in Nat
    OBVIOUS
  <2>1. inflight \in Seq(Batch) /\ inflight' \in Seq(Batch)  BY DEF PoolInv
  <2>2. Pending(r)' = Count(inflight', r)  BY DEF Pending, Count
  <2>3. Count(inflight, r) = Count(Tail(inflight), r) + (IF r \in batch.emits THEN 1 ELSE 0)
    BY <1>1, <2>1, CountTail
  <2>4. Count(inflight, r) \in Nat /\ Count(inflight', r) \in Nat  BY <2>1, CountFacts
  <2> QED  BY <1>1, <2>2, <2>3, <2>4 DEF Pending
<1> HIDE DEF batch
<1>7. \A r \in Request : status[r] # "FINISHED" /\ r \in batch.emits => r \in live
  <2> SUFFICES ASSUME NEW r \in Request, status[r] # "FINISHED", r \in batch.emits
               PROVE  status[r] \in {"RUNNING", "PREEMPTED"}
    BY <1>3
  <2>1. Pending(r) > 0  BY <1>6
  <2> QED  BY <2>1 DEF TInv, Late
<1>8. \A r \in Request : status'[r] # "FINISHED" =>
         /\ status'[r] = status[r] /\ blocks'[r] = blocks[r]
         /\ r \in batch.emits <=> r \in live
         /\ output'[r] + Pending(r)' = output[r] + Pending(r)
         /\ output'[r] < MaxTokens[r]
         /\ placeholders'[r] = IF AsyncScheduling THEN Pending(r)' ELSE 0
  <2> SUFFICES ASSUME NEW r \in Request, status'[r] # "FINISHED"
               PROVE  /\ status'[r] = status[r] /\ blocks'[r] = blocks[r]
                      /\ r \in batch.emits <=> r \in live
                      /\ output'[r] + Pending(r)' = output[r] + Pending(r)
                      /\ output'[r] < MaxTokens[r]
                      /\ placeholders'[r] = IF AsyncScheduling THEN Pending(r)' ELSE 0
    OBVIOUS
  <2>1. r \notin R /\ status'[r] = status[r] /\ blocks'[r] = blocks[r]  BY <1>2
  <2>2. r \in batch.emits <=> r \in live  BY <1>3, <1>7, <2>1
  <2>3. /\ Pending(r) = Pending(r)' + (IF r \in live THEN 1 ELSE 0)
        /\ Pending(r) \in Nat /\ Pending(r)' \in Nat
    BY <1>6, <2>2
  <2>4. /\ output'[r] = IF r \in live THEN output[r] + 1 ELSE output[r]
        /\ placeholders'[r] = IF AsyncScheduling /\ r \in live THEN placeholders[r] - 1
                              ELSE placeholders[r]
        /\ output[r] \in Nat /\ placeholders[r] \in Nat /\ MaxTokens[r] \in Nat
    BY <1>1, <1>4, RequestAssumption
  <2>5. /\ placeholders[r] = IF AsyncScheduling THEN Pending(r) ELSE 0
        /\ output[r] < MaxTokens[r]
    BY <2>1 DEF TInv, Tokens, Owed
  <2>6. CASE r \in live
    <3>1. ~(output'[r] >= MaxTokens[r])  BY <1>2, <2>1, <2>6
    <3> QED  BY <2>1, <2>2, <2>3, <2>4, <2>5, <2>6, <3>1
  <2>7. CASE r \notin live  BY <2>1, <2>2, <2>3, <2>4, <2>5, <2>7
  <2> QED  BY <2>6, <2>7
<1>9. Types'
  <2>1. output' \in [Request -> Nat]  BY <1>1, <1>4
  <2>2. \A r \in live : AsyncScheduling => placeholders[r] \in Nat \ {0}
    <3> SUFFICES ASSUME NEW r \in live, AsyncScheduling PROVE placeholders[r] \in Nat \ {0}
      OBVIOUS
    <3>1. r \in Request /\ r \in batch.emits /\ status[r] # "FINISHED"  BY <1>3
    <3>2. Pending(r) \in Nat \ {0}  BY <1>6, <3>1
    <3>3. placeholders[r] = Pending(r)  BY <3>1 DEF TInv, Tokens, Owed
    <3> QED  BY <3>2, <3>3
  <2>3. placeholders' \in [Request -> Nat]  BY <1>1, <1>4, <2>2
  <2> QED  BY <1>1, <1>4, <2>1, <2>3 DEF Types
<1>10. Owed'
  <2> SUFFICES ASSUME NEW r \in Request
               PROVE  /\ status'[r] # "FINISHED" =>
                          /\ placeholders'[r] = IF AsyncScheduling THEN Pending(r)' ELSE 0
                          /\ output'[r] < MaxTokens[r]
                          /\ output'[r] + Pending(r)' <= MaxTokens[r]
                      /\ status'[r] \in {"ABSENT", "WAITING", "WAITING_FOR_GRAMMAR"} => output'[r] = 0
    BY DEF Owed
  <2>1. status'[r] # "FINISHED" =>
            /\ placeholders'[r] = IF AsyncScheduling THEN Pending(r)' ELSE 0
            /\ output'[r] < MaxTokens[r]
            /\ output'[r] + Pending(r)' <= MaxTokens[r]
    BY <1>8 DEF TInv, Tokens, Owed
  <2>2. ASSUME status'[r] \in {"ABSENT", "WAITING", "WAITING_FOR_GRAMMAR"} PROVE output'[r] = 0
    <3>1. status[r] \in {"ABSENT", "WAITING", "WAITING_FOR_GRAMMAR"}  BY <1>8, <2>2
    <3>2. output[r] = 0  BY <3>1 DEF TInv, Tokens, Owed
    <3>3. r \notin live  BY <1>3, <3>1
    <3> QED  BY <1>1, <3>2, <3>3
  <2> QED  BY <2>1, <2>2
<1>11. Kinds'
  <2> SUFFICES ASSUME NEW r \in Request, status'[r] = "RUNNING"
               PROVE  Decoding(r)' \/ Prefilling(r)'
    BY DEF Kinds
  <2>1. /\ status[r] = "RUNNING" /\ r \in batch.emits <=> r \in live
        /\ output'[r] + Pending(r)' = output[r] + Pending(r)
    BY <1>8
  <2>2. Decoding(r) \/ Prefilling(r)  BY <1>8 DEF TInv, Tokens, Kinds
  <2>3. /\ PromptTokens[r] \in Nat /\ output[r] \in Nat /\ computed[r] \in Nat
        /\ Pending(r) \in Nat /\ Pending(r)' \in Nat /\ computed'[r] = computed[r]
        /\ chunk'[r] = chunk[r] /\ NumTokens(r) = PromptTokens[r] + output[r]
        /\ NumTokens(r)' = PromptTokens[r] + output'[r]
        /\ step'.scheduled[r] = step.scheduled[r]
    BY <1>1, <1>4, <1>6, RequestAssumption DEF NumTokens
  <2>4. output'[r] \in Nat  BY <1>1, <1>4
  <2>5. CASE Decoding(r)
    <3>1. computed[r] = PromptTokens[r] + output[r] + Pending(r) - 1 /\ ~chunk[r]
      BY <2>3, <2>5 DEF Decoding
    <3>2. computed'[r] = NumTokens(r)' + Pending(r)' - 1  BY <2>1, <2>3, <2>4, <3>1
    <3> QED  BY <2>3, <3>1, <3>2 DEF Decoding
  <2>6. CASE Prefilling(r)
    <3>1. Pending(r) = 0 /\ computed[r] < NumTokens(r)
          /\ (chunk[r] \/ step.scheduled[r] > 0)
      BY <2>6 DEF Prefilling
    <3>2. Pending(r)' = 0 /\ r \notin batch.emits  BY <1>6, <3>1
    <3>3. output'[r] = output[r]  BY <2>1, <2>3, <2>4, <3>1, <3>2
    <3> QED  BY <2>3, <3>1, <3>2, <3>3 DEF Prefilling
  <2> QED  BY <2>2, <2>5, <2>6
<1>12. Needed'
  <2>1. \A r \in Request : ~(step'.scheduled[r] > 0)  BY <1>1, <1>4
  <2> QED  BY <2>1 DEF Needed
<1>13. ComputedTokensHaveBlocks'
  <2> SUFFICES ASSUME NEW r \in Request
               PROVE  IF status'[r] = "RUNNING"
                      THEN BlocksFor(computed[r] + step.scheduled[r]) <= Cardinality(blocks'[r])
                      ELSE blocks'[r] = {}
    BY <1>1 DEF ComputedTokensHaveBlocks, BlocksFor
  <2>1. CASE r \in R  BY <1>2, <2>1
  <2>2. CASE r \notin R
    <3>1. status'[r] = status[r] /\ blocks'[r] = blocks[r]  BY <1>2, <2>2
    <3> QED  BY <3>1 DEF TInv, Tokens, ComputedTokensHaveBlocks
  <2> QED  BY <2>1, <2>2
<1>14. Tokens'  BY <1>9, <1>10, <1>11, <1>12, <1>13 DEF Tokens
<1>15. Late'
  <2>1. ASSUME NEW r \in Request, status'[r] \notin {"RUNNING", "FINISHED"}, Pending(r)' > 0
        PROVE  FALSE
    <3>1. status[r] \notin {"RUNNING", "FINISHED"}  BY <1>8, <2>1
    <3>2. Pending(r) > 0  BY <1>6, <2>1
    <3>3. Len(inflight) = 2 /\ r \notin inflight[2].emits  BY <1>1, <3>1, <3>2 DEF TInv, Late
    <3>4. PICK i \in DOMAIN inflight' : r \in inflight'[i].emits
      <4>1. Pending(r)' = Count(inflight', r)  BY DEF Pending, Count
      <4>2. inflight' \in Seq(Batch) /\ Count(inflight', r) > 0  BY <2>1, <4>1 DEF PoolInv
      <4> QED  BY <4>2, CountFacts
    <3>5. DOMAIN Tail(inflight) = 1..(Len(inflight) - 1)  BY <1>1, TakenBatches
    <3>6. i = 1  BY <1>1, <3>3, <3>4, <3>5
    <3>7. inflight'[1] = inflight[2]  BY <1>1, <3>4, <3>6, TakenBatches
    <3> QED  BY <3>3, <3>4, <3>6, <3>7
  <2>2. Len(inflight') <= BatchQueueSize  BY <1>5
  <2> QED  BY <1>1, <2>1, <2>2 DEF Late
<1>16. Slots'
  <2>1. running \in Seq(Request) /\ IsInjective(running)  BY DEF QInv, QTyped, Apart
  <2>2. Len(running') <= Len(running) /\ running' \in Seq(Request)
    BY <1>2, <2>1, WithoutFacts DEF DropStopped
  <2>3. Len(running) <= MaxNumRunningReqs /\ MaxNumRunningReqs \in Nat
    BY BudgetAssumption DEF TInv, Slots
  <2>4. Len(running) \in Nat /\ Len(running') \in Nat  BY <2>1, <2>2
  <2>5. Len(running') <= MaxNumRunningReqs  BY <2>2, <2>3, <2>4
  <2> QED  BY <1>1, <2>5 DEF Slots
<1>17. Account'  BY <1>1, SameAccount DEF TInv
<1>18. Budget'  BY <1>1, SameBudget DEF TInv
<1> QED  BY <1>14, <1>15, <1>16, <1>17, <1>18 DEF Kept5

-----------------------------------------------------------------------------
(* Every step, and what follows *)

LEMMA NextSwapTypes == SwapTypes /\ [Next]_vars => SwapTypes'
<1> SUFFICES ASSUME SwapTypes, [Next]_vars PROVE SwapTypes'  OBVIOUS
<1>1. ASSUME UNCHANGED <<preemptions, backoff, compiled>> PROVE SwapTypes'
  BY <1>1 DEF SwapTypes
<1>2. ASSUME NEW r \in Request,
             AddRequest(r) \/ RunningSkip(r) \/ RunningSchedule(r) \/ WaitingSkip(r) \/ WaitingAdmit(r)
      PROVE  SwapTypes'
  BY <1>1, <1>2 DEF AddRequest, RunningSkip, RunningSchedule, WaitingSkip, WaitingAdmit, swaps
<1>3. ASSUME NEW r \in Request, Abort(r) PROVE SwapTypes'
  <2>1. /\ preemptions' = [q \in Request |-> IF q \in {r} THEN 0 ELSE preemptions[q]]
        /\ backoff' = backoff \ {r} /\ compiled' = compiled
    BY <1>3 DEF Abort, Forget
  <2> QED  BY <2>1 DEF SwapTypes
<1>4. ASSUME NEW r \in Request, GrammarReady(r) \/ BackoffExpires(r) \/ WaitingNoKv(r)
      PROVE  SwapTypes'
  BY <1>4 DEF GrammarReady, BackoffExpires, WaitingNoKv, swaps, SwapTypes
<1>5. ASSUME NEW r \in Request, NEW v \in Request, RunningPreempt(r, v) \/ SwapPreflightFails(r, v)
      PROVE  SwapTypes'
  BY <1>1, <1>5 DEF RunningPreempt, SwapPreflightFails, swaps
<1>6. ASSUME NEW r \in Request, NEW v \in Request, SwapCommit(r, v) PROVE SwapTypes'
  BY <1>6 DEF SwapCommit, SwapTypes
<1>7. CASE StartSchedule \/ RestoreHeld \/ SwapReject \/ WaitingDone \/ FinishSchedule
  BY <1>1, <1>7 DEF StartSchedule, RestoreHeld, SwapReject, WaitingDone, FinishSchedule, swaps
<1>8. CASE UpdateFromOutput
  <2>1. PICK R : /\ preemptions' = [q \in Request |-> IF q \in R THEN 0 ELSE preemptions[q]]
                 /\ backoff' = backoff \ R /\ compiled' = compiled
    BY <1>8 DEF UpdateFromOutput, Forget
  <2> QED  BY <2>1 DEF SwapTypes
<1>9. CASE UNCHANGED vars  BY <1>1, <1>9 DEF vars, swaps
<1> QED  BY <1>2, <1>3, <1>4, <1>5, <1>6, <1>7, <1>8, <1>9
            DEF Next, Engine, ScheduleStep, Environment

LEMMA NextTokens ==
    ASSUME Shallow, IsFiniteSet(Request)
    PROVE  PoolInv /\ QInv /\ TInv /\ [Next]_vars => TInv'
<1> SUFFICES ASSUME PoolInv, QInv, TInv, [Next]_vars PROVE Kept5'
  BY NextSwapTypes DEF Kept5, TInv
<1>1. PoolInv'  BY NextPool
<1>2. CASE UNCHANGED vars
  <2>1. UNCHANGED <<waiting, running, status, computed, output, placeholders, chunk, preemptions,
                    backoff, compiled, blocks, inflight, step>>
    BY <1>2 DEF vars, queues, requests, swaps, pool
  <2>2. Quiet  BY <2>1 DEF Quiet
  <2>3. Tokens' /\ Late'  BY <2>1, <2>2, QuietTokens, QuietLate DEF TInv
  <2>4. Slots'  BY <2>1 DEF TInv, Slots
  <2>5. Account' /\ Budget'  BY <2>1, SameAccount, SameBudget DEF TInv
  <2> QED  BY <2>3, <2>4, <2>5 DEF Kept5
<1>3. CASE ScheduleStep
  <2>1. ASSUME NEW r \in Request, NEW v \in Request, RunningPreempt(r, v) \/ SwapCommit(r, v)
        PROVE  Kept5'
    BY <2>1, PreemptKeeps, SwapKeeps
  <2>2. ASSUME NEW r \in Request, RunningSchedule(r) \/ WaitingAdmit(r) PROVE Kept5'
    BY <2>2, ScheduleKeeps, AdmitKeeps
  <2>3. ASSUME NEW r \in Request, WaitingSkip(r) \/ WaitingNoKv(r) PROVE Kept5'
    BY <2>3, PassingKeeps
  <2>4. CASE RestoreHeld \/ FinishSchedule  BY <1>1, <2>4, RestoreKeeps, FinishKeeps
  <2>5. CASE \/ \E r \in Request : RunningSkip(r)
             \/ SwapReject
             \/ \E c, v \in Request : SwapPreflightFails(c, v)
             \/ WaitingDone
    BY <2>5, MovesKeep
  <2> QED  BY <1>3, <2>1, <2>2, <2>3, <2>4, <2>5 DEF ScheduleStep
<1>4. CASE StartSchedule \/ UpdateFromOutput  BY <1>1, <1>4, StartKeeps, UpdateKeeps
<1>5. CASE Environment  BY <1>5, OutsideKeeps, AbortKeeps DEF Environment
<1> QED  BY <1>2, <1>3, <1>4, <1>5 DEF Next, Engine

\* An admission is never left with nothing to give: what the account has left
\* is what is not committed of the caps, and the cap of a request that waits
\* is untouched.
LEMMA AdmissionsGet ==
    ASSUME IsFiniteSet(Request), PoolInv, QInv, TInv
    PROVE  AdmissionsGetTokens
<1> SUFFICES ASSUME InWaitingLoop, ~WaitingPassesOver(NextWaiting)
             PROVE  WaitingTokens(NextWaiting) > 0
  BY DEF AdmissionsGetTokens
<1>1. PICK r \in Request : r = NextWaiting  BY NothingPending
<1>2. step.scheduled[r] = 0  BY <1>1, NothingPending
<1> DEFINE rem == NumTokens(r) - CachedPrefix(r)
           m == Least(UpToThreshold(rem), step.budget)
           a == step.acct
<1>3. rem \in Nat \ {0}
  <2>1. NumTokens(r) \in Nat /\ CachedPrefix(r) \in Nat /\ CachedPrefix(r) < NumTokens(r)
    BY CachedFacts DEF TInv, Tokens
  <2> QED  BY <2>1
<1>4. m \in Nat \ {0}
  <2> HIDE DEF rem
  <2>1. UpToThreshold(rem) \in Nat \ {0}  BY <1>3, BudgetAssumption DEF UpToThreshold, Least
  <2>2. step.budget \in Nat \ {0}
    <3>1. step.budget \in Nat /\ step.budget > 0  BY DEF TInv, Budget, InWaitingLoop
    <3> QED  BY <3>1
  <2> QED  BY <2>1, <2>2 DEF Least
<1>5. WaitingTokens(r) = IF BatchBudget THEN Clamp(a, r, m)
                         ELSE IF HasCap(a, r) THEN Least(m, a.caps[r]) ELSE m
  BY DEF WaitingTokens
<1> HIDE DEF m, rem
<1>6. /\ a.remaining \in Int /\ a.caps \in [DOMAIN a.caps -> Nat]
      /\ a.committed \in [DOMAIN a.caps -> Int]
      /\ DOMAIN a.caps \subseteq Request /\ \A q \in DOMAIN a.caps : a.caps[q] > 0
  BY DEF TInv, Account, AccountType
<1>7. CASE BatchBudget
  <2>1. r \in DOMAIN a.caps  BY <1>1, <1>7 DEF WaitingPassesOver, HasCap
  <2>2. /\ a.remaining + CommittedTokens(a) = a.total /\ a.total = SumFunction(a.caps)
        /\ \A q \in DOMAIN a.caps : /\ a.committed[q] = step.scheduled[q]
                                    /\ a.committed[q] <= a.caps[q]
    BY <1>7 DEF TInv, Account
  <2> DEFINE D == DOMAIN a.caps
             f == a.committed
             g == a.caps
  <2>3. f[r] = 0 /\ f[r] < g[r]  BY <1>2, <1>6, <2>1, <2>2
  <2>4. IsFiniteSet(D)  BY <1>6, FS_Subset
  <2>5. DOMAIN f = D /\ DOMAIN g = D  BY <1>6
  <2>6. \A q \in D : f[q] \in Int /\ g[q] \in Int /\ f[q] <= g[q]  BY <1>6, <2>2
  <2>7. SumFunction(f) \in Int /\ SumFunction(g) \in Int /\ SumFunction(f) < SumFunction(g)
    <3> HIDE DEF D, f, g
    <3>1. SumFunctionOnSet(f, D) < SumFunctionOnSet(g, D)
      BY <2>1, <2>3, <2>4, <2>6, SumBelow DEF D
    <3>2. SumFunctionOnSet(f, D) \in Int  BY <2>4, <2>6, SumType
    <3>3. SumFunctionOnSet(g, D) \in Int  BY <2>4, <2>6, SumType
    <3> QED  BY <2>5, <3>1, <3>2, <3>3 DEF SumFunction
  <2>8. a.remaining + SumFunction(f) = SumFunction(g)  BY <2>2 DEF CommittedTokens
  <2>9. a.remaining > 0
    <3> HIDE DEF f, g, a
    <3>1. a.remaining \in Int  BY <1>6 DEF a
    <3> QED  BY <2>7, <2>8, <3>1
  <2>10. a.caps[r] \in Nat /\ a.caps[r] > 0 /\ a.committed[r] = 0  BY <1>6, <2>1, <2>3
  <2>11. Clamp(a, r, m) > 0
    <3>1. Monus(a.caps[r], a.committed[r]) \in Nat \ {0}  BY <2>10 DEF Monus
    <3>2. Clamp(a, r, m) = Least(Least(m, Monus(a.caps[r], a.committed[r])), a.remaining)
      BY <2>1 DEF Clamp, HasCap
    <3> QED  BY <1>4, <1>6, <2>9, <3>1, <3>2 DEF Least
  <2> QED  BY <1>1, <1>5, <1>7, <2>11
<1>8. CASE ~BatchBudget
  <2>1. CASE HasCap(a, r)
    <3>1. a.caps[r] \in Nat \ {0}  BY <1>6, <2>1 DEF HasCap
    <3> QED  BY <1>1, <1>4, <1>5, <1>8, <2>1, <3>1 DEF Least
  <2>2. CASE ~HasCap(a, r)  BY <1>1, <1>4, <1>5, <1>8, <2>2
  <2> QED  BY <2>1, <2>2
<1> QED  BY <1>7, <1>8

\* The invariants together.
TokenInv == PoolInv /\ FenceInv /\ QInv /\ TInv

LEMMA CountsImplied == TokenInv => CountsMatch
<1> SUFFICES ASSUME TokenInv PROVE CountsMatch  OBVIOUS
<1>1. TypeOK
  <2>1. QTyped /\ Types /\ SwapTypes /\ Budget  BY DEF TokenInv, QInv, TInv, Tokens
  <2>2. /\ blocks \in [Request -> SUBSET Block] /\ freeBlocks \in SUBSET Block
        /\ deferred \in Seq([fence : Nat, blocks : SUBSET Block]) /\ schedSeq \in Nat
        /\ inflight \in Seq([requests : SUBSET Request, emits : SUBSET Request,
                             touches : SUBSET Block, seq : Nat])
    BY DEF TokenInv, PoolInv, PoolOf, DeferredFree, Batch
  <2>3. procSeq \in Nat /\ lastSeq \in [Request -> Nat]  BY DEF TokenInv, FenceInv
  <2>4. step.index \in Nat  BY <2>1 DEF QTyped
  <2> QED  BY <2>1, <2>2, <2>3, <2>4 DEF TypeOK, QTyped, Types, SwapTypes, Budget, Phases
<1>2. ComputedTokensHaveBlocks  BY DEF TokenInv, TInv, Tokens
<1>3. PlaceholdersMatchInflight
  <2> SUFFICES ASSUME NEW r \in Request, status[r] \in {"WAITING", "RUNNING", "PREEMPTED"}
               PROVE  /\ AsyncScheduling => placeholders[r] = Pending(r)
                      /\ output[r] + Pending(r) <= MaxTokens[r]
    BY DEF PlaceholdersMatchInflight, Pending, Count
  <2>1. status[r] # "FINISHED"  OBVIOUS
  <2> QED  BY <2>1 DEF TokenInv, TInv, Tokens, Owed
<1> QED  BY <1>1, <1>2, <1>3 DEF CountsMatch

LEMMA AccountImplied == TokenInv => AccountMatchesBatch
<1> SUFFICES ASSUME TokenInv, BatchBudget PROVE AccountMatchesBatch  BY DEF AccountMatchesBatch
<1>1. Account  BY DEF TokenInv, TInv
<1>2. step.acct.by["running"] \in Nat /\ step.acct.by["waiting"] \in Nat
  BY <1>1 DEF Account, Source
<1>3. step.acct.by["running"] >= 0 /\ step.acct.by["waiting"] >= 0  BY <1>2
<1> QED  BY <1>1, <1>3 DEF Account, AccountMatchesBatch

LEMMA TokensStay ==
    ASSUME Shallow, IsFiniteSet(Request)
    PROVE  /\ Init => TokenInv
           /\ TokenInv /\ [Next]_vars => TokenInv'
<1>1. SmallDepth  BY DEF Shallow, SmallDepth
<1>2. Init => TokenInv  BY InitPool, InitFence, InitQueues, InitTokens DEF TokenInv
<1>3. TokenInv /\ [Next]_vars => TokenInv'
  BY <1>1, NextPool, NextFence, NextQueues, NextTokens DEF TokenInv
<1> QED  BY <1>2, <1>3

\* What a step has left, what it holds back for prefills and what it has given
\* out add up to its budget, through every grant, restore and swap.
THEOREM BudgetIsConserved ==
    ASSUME Shallow, IsFiniteSet(Request)
    PROVE  Spec => []BudgetConserved
<1>1. Init => TokenInv  BY TokensStay
<1>2. TokenInv /\ [Next]_vars => TokenInv'  BY TokensStay
<1>3. TokenInv => BudgetConserved  BY DEF TokenInv, TInv, Budget
<1> QED  BY <1>1, <1>2, <1>3, PTL DEF Spec

\* The types; a running request owns the blocks of its tokens and no other owns
\* any; a placeholder stands for each token on the way, and no request is
\* scheduled past its max_tokens.  Two batches in flight are few enough; with
\* three, a preempted request is admitted with a token still to come.
THEOREM CountsAgree ==
    ASSUME Shallow, IsFiniteSet(Request)
    PROVE  Spec => []CountsMatch
<1>1. Init => TokenInv  BY TokensStay
<1>2. TokenInv /\ [Next]_vars => TokenInv'  BY TokensStay
<1> QED  BY <1>1, <1>2, CountsImplied, PTL DEF Spec

\* In batch-budget mode the account agrees with the batch: exactly the tokens
\* given to capped requests are committed, never more than a cap or the total.
THEOREM AccountAgrees ==
    ASSUME Shallow, IsFiniteSet(Request)
    PROVE  Spec => []AccountMatchesBatch
<1>1. Init => TokenInv  BY TokensStay
<1>2. TokenInv /\ [Next]_vars => TokenInv'  BY TokensStay
<1> QED  BY <1>1, <1>2, AccountImplied, PTL DEF Spec

\* The assertion of the WAITING loop, num_new_tokens > 0, never fails.
THEOREM AdmissionsAlwaysGet ==
    ASSUME Shallow, IsFiniteSet(Request)
    PROVE  Spec => []AdmissionsGetTokens
<1>1. Init => TokenInv  BY TokensStay
<1>2. TokenInv /\ [Next]_vars => TokenInv'  BY TokensStay
<1>3. TokenInv => AdmissionsGetTokens  BY AdmissionsGet DEF TokenInv
<1> QED  BY <1>1, <1>2, <1>3, PTL DEF Spec

-----------------------------------------------------------------------------
(* The slot swap.  A grammar request that waits in skipped_waiting is      *)
(* looked at before the candidate, and takes the slot if its compilation   *)
(* ends in between; under the batch budget it has no cap, and cannot.      *)

\* Who is passed over has no cap in this step; without the batch budget nobody
\* is passed over but for a grammar.
Unnamed ==
    /\ \A r \in ToSet(waiting) : status[r] # "WAITING_FOR_GRAMMAR"
    /\ IF BatchBudget
       THEN step.phase # "idle" => \A r \in PassedOver : ~HasCap(step.acct, r)
       ELSE PassedOver = {}

\* Nothing but those passed over keeps c from its admission.
NextInLine(c) ==
    /\ waiting # <<>> /\ Head(waiting) = c /\ status[c] = "WAITING"
    /\ BatchBudget => HasCap(step.acct, c)
    /\ step.budget > 0 /\ Len(running) < MaxNumRunningReqs

\* The steps that move requests only out of the queues, or as preempted ones
\* into waiting.
LEMMA UnnamedStays ==
    ASSUME Unnamed, ToSet(waiting) \subseteq Request,
           PassedOver' \subseteq PassedOver,
           \A r \in ToSet(waiting') : r \in ToSet(waiting) \/ status'[r] # "WAITING_FOR_GRAMMAR",
           \A r \in Request : status'[r] = "WAITING_FOR_GRAMMAR" => status[r] = "WAITING_FOR_GRAMMAR",
           BatchBudget /\ step'.phase # "idle" =>
               step.phase # "idle" /\ step'.acct.caps = step.acct.caps
    PROVE  Unnamed'
<1>1. \A r \in ToSet(waiting') : status'[r] # "WAITING_FOR_GRAMMAR"  BY DEF Unnamed
<1>2. CASE BatchBudget
  <2>1. step'.phase # "idle" => \A r \in PassedOver' : ~HasCap(step'.acct, r)
    BY <1>2 DEF Unnamed, HasCap
  <2>2. BatchBudget'  BY <1>2 DEF BatchBudget
  <2> QED  BY <1>1, <1>2, <2>1, <2>2 DEF Unnamed
<1>3. CASE ~BatchBudget
  <2>1. PassedOver' = {}  BY <1>3 DEF Unnamed
  <2>2. ~BatchBudget'  BY <1>3 DEF BatchBudget
  <2> QED  BY <1>1, <1>3, <2>1, <2>2 DEF Unnamed
<1> QED  BY <1>2, <1>3

\* The caps of a step are of requests that run or wait in waiting.
LEMMA CapsAreQueued ==
    ASSUME QTyped, Apart, Types, Owed, BatchBudget, NEW d \in Decisions, NEW r, HasCap(d.acct, r)
    PROVE  r \in ToSet(running) \cup ToSet(waiting)
<1>1. d \in BatchBudgetDecisions  BY DEF Decisions, BatchBudget
<1>2. CASE d = Inactive
  <2>1. d.acct.caps = <<>>  BY <1>2 DEF Inactive, NewAccountant
  <2> QED  BY <2>1 DEF HasCap
<1>3. CASE d # Inactive
  <2> DEFINE chunks == {q \in ToSet(running) : chunk[q] /\ RunningRemaining(q) > 0}
             items == chunks \cup ToSet(NormalWaiting)
             need == [q \in items |-> IF q \in chunks THEN RunningRemaining(q)
                                      ELSE WaitingRemaining(q)]
  <2>1. PICK order \in SetToSeqs(items) : \E budget :
            d.acct.caps = GrantedCaps(order, need, budget)
    <3> DEFINE upper == Least(Least(MaxPrefillTokens, MaxSafeReserve), SumFunction(need))
               made(order, eligible, budget) ==
                   LET caps == GrantedCaps(order, need, budget) IN
                    [reserve      |-> 0,
                     candidates   |-> Keep(order, DOMAIN caps \ chunks),
                     swapEligible |-> eligible,
                     acct         |-> NewAccountant(SumFunction(caps), caps)]
               all == UNION {{made(order, eligible, budget) :
                                 order \in SetToSeqs(items), eligible \in SwapEligibility} :
                             budget \in SelectedBudgets(upper)}
    <3>1. BatchBudgetDecisions = IF upper = 0 THEN {Inactive} ELSE all
      BY DEF BatchBudgetDecisions
    <3>2. d \in all
      <4> HIDE DEF all, upper
      <4> QED  BY <1>1, <1>3, <3>1
    <3> HIDE DEF made, upper, items, need, chunks
    <3>3. PICK order \in SetToSeqs(items), eligible \in SwapEligibility,
               budget \in SelectedBudgets(upper) : d = made(order, eligible, budget)
      BY <3>2
    <3> QED  BY <3>3 DEF made, NewAccountant
  <2>2. items \subseteq Request /\ IsFiniteSet(items)
    <3>1. running \in Seq(Request)  BY DEF QTyped
    <3>2. IsFiniteSet(ToSet(running)) /\ ToSet(running) \subseteq Request
      BY <3>1, QueueIsFinite, ElementFacts
    <3>3. IsFiniteSet(chunks)  BY <3>2, FS_Subset
    <3>4. IsFiniteSet(ToSet(NormalWaiting)) /\ ToSet(NormalWaiting) \subseteq Request
      BY NormalWaitingFacts
    <3> QED  BY <3>2, <3>3, <3>4, FS_Union
  <2>3. items \subseteq ToSet(running) \cup ToSet(waiting)  BY NormalWaitingFacts
  <2> HIDE DEF items, need
  <2>4. order \in Seq(Request) /\ ToSet(order) \subseteq items  BY <2>2, OrderFacts
  <2>5. \A i \in DOMAIN order : order[i] \in ToSet(order)  BY DEF ToSet
  <2>6. PICK budget : d.acct.caps = GrantedCaps(order, need, budget)  BY <2>1
  <2>7. PICK chosen \in SUBSET (DOMAIN order) :
            DOMAIN GrantedCaps(order, need, budget) = {order[i] : i \in chosen}
    BY DEF GrantedCaps
  <2> QED  BY <2>3, <2>4, <2>5, <2>6, <2>7 DEF HasCap
<1> QED  BY <1>2, <1>3

LEMMA UnnamedOutside ==
    ASSUME BatchBudget \/ Grammar = {}, QInv, Unnamed, NEW r \in Request,
           AddRequest(r) \/ GrammarReady(r) \/ BackoffExpires(r)
    PROVE  Unnamed'
<1>1. QTyped /\ Where /\ InBatch /\ ToSet(waiting) \subseteq Request  BY QueueElements DEF QInv
<1>2. CASE GrammarReady(r) \/ BackoffExpires(r)
  BY <1>2 DEF GrammarReady, BackoffExpires, Unnamed, queues, requests, PassedOver, BatchBudget, HasCap
<1>3. CASE AddRequest(r)
  <2>1. /\ step' = step /\ step.phase = "idle" /\ status[r] = "ABSENT"
    BY <1>3 DEF AddRequest, BetweenSteps
  <2>2. r \notin ToSet(waiting)  BY <1>1, <2>1 DEF Where, Waits
  <2>3. CASE r \in Grammar
    <3>1. /\ waiting' = waiting /\ status' = [status EXCEPT ![r] = "WAITING_FOR_GRAMMAR"]
      BY <1>3, <2>3 DEF AddRequest
    <3>2. \A q \in ToSet(waiting) : status'[q] = status[q]  BY <1>1, <2>2, <3>1 DEF QTyped
    <3> QED  BY <2>1, <2>3, <3>1, <3>2 DEF Unnamed, BatchBudget
  <2>4. CASE r \notin Grammar
    <3>1. /\ waiting' = Append(waiting, r) /\ skipped' = skipped
          /\ status' = [status EXCEPT ![r] = "WAITING"]
      BY <1>3, <2>4 DEF AddRequest
    <3>2. ToSet(waiting') = ToSet(waiting) \cup {r}  BY <1>1, <3>1, AppendFacts DEF QTyped
    <3>3. \A q \in ToSet(waiting') : status'[q] # "WAITING_FOR_GRAMMAR"
      BY <1>1, <3>1, <3>2 DEF QTyped, Unnamed
    <3> QED  BY <2>1, <3>1, <3>3 DEF Unnamed, BatchBudget, PassedOver
  <2> QED  BY <2>3, <2>4
<1> QED  BY <1>2, <1>3

\* An abort or a result takes requests out of the queues.
LEMMA UnnamedEnds ==
    ASSUME PoolInv, QInv, Unnamed, (\E r \in Request : Abort(r)) \/ UpdateFromOutput
    PROVE  Unnamed'
<1>1. QTyped /\ Apart /\ Where /\ InBatch /\ ToSet(waiting) \subseteq Request  BY QueueElements DEF QInv
<1>2. step.phase = "idle" /\ step' = step
  BY DEF Abort, UpdateFromOutput
<1>3. ToSet(waiting') \subseteq ToSet(waiting) /\ ToSet(skipped') \subseteq ToSet(skipped)
  <2>1. waiting \in Seq(Request) /\ skipped \in Seq(Request)  BY <1>1 DEF QTyped
  <2>2. \A S : ToSet(Without(waiting, S)) \subseteq ToSet(waiting)
               /\ ToSet(Without(skipped, S)) \subseteq ToSet(skipped)
    BY <2>1, WithoutFacts
  <2>3. CASE \E r \in Request : Abort(r)  BY <2>2, <2>3 DEF Abort
  <2>4. CASE UpdateFromOutput
    <3>1. \E stopped : DropStopped(stopped)  BY <2>4 DEF UpdateFromOutput
    <3>2. skipped' = skipped  BY <2>4 DEF UpdateFromOutput
    <3> QED  BY <2>2, <3>1, <3>2 DEF DropStopped
  <2> QED  BY <2>3, <2>4
<1>4. \E R : status' = [q \in Request |-> IF q \in R THEN "FINISHED" ELSE status[q]]
  BY DEF Abort, UpdateFromOutput, Forget
<1>5. \A q \in Request : status'[q] = "WAITING_FOR_GRAMMAR" => status[q] = "WAITING_FOR_GRAMMAR"
  BY <1>4
<1>6. PassedOver' \subseteq PassedOver  BY <1>2, <1>3 DEF PassedOver
<1> QED  BY <1>1, <1>2, <1>3, <1>5, <1>6, UnnamedStays

\* The RUNNING loop, the swap and the refusals.
LEMMA UnnamedInLoop ==
    ASSUME QInv, Unnamed,
           \/ \E r \in Request : RunningSkip(r) \/ RunningSchedule(r) \/ WaitingNoKv(r)
           \/ SwapReject \/ WaitingDone
           \/ \E c, v \in Request : SwapPreflightFails(c, v)
    PROVE  Unnamed'
<1>1. QTyped /\ ToSet(waiting) \subseteq Request  BY QueueElements DEF QInv
<1>2. DOMAIN step = DOMAIN NoStep /\ "caps" \in DOMAIN step.acct  BY <1>1 DEF QTyped
<1>3. queues' = queues /\ step.phase # "idle"
  BY DEF RunningSkip, RunningSchedule, WaitingNoKv, SwapReject, WaitingDone, SwapPreflightFails,
         InRunningLoop, InWaitingLoop
<1>4. step'.skipped = step.skipped /\ step'.acct.caps = step.acct.caps
  <2>1. CASE \E r \in Request : RunningSchedule(r)
    <3>1. PICK r \in Request : RunningSchedule(r)  BY <2>1
    <3>2. /\ step'.skipped = step.skipped
          /\ step'.acct = step.acct \/ \E n : step'.acct = Commit(step.acct, r, n, "running")
      BY <1>2, <3>1 DEF RunningSchedule, NoStep
    <3> QED  BY <1>2, <3>2, CapsStay
  <2>2. CASE ~\E r \in Request : RunningSchedule(r)
    BY <1>2, <2>2 DEF RunningSkip, WaitingNoKv, SwapReject, WaitingDone, SwapPreflightFails, NoStep
  <2> QED  BY <2>1, <2>2
<1>5. \A q \in Request : status'[q] = "WAITING_FOR_GRAMMAR" => status[q] = "WAITING_FOR_GRAMMAR"
  <2>1. CASE \E r \in Request : WaitingNoKv(r)
    <3>1. PICK r \in Request : status' = [status EXCEPT ![r] = Promoted(r)]
      BY <2>1 DEF WaitingNoKv
    <3> QED  BY <1>1, <3>1 DEF QTyped, Promoted
  <2>2. CASE ~\E r \in Request : WaitingNoKv(r)
    BY <2>2 DEF RunningSkip, RunningSchedule, SwapReject, WaitingDone, SwapPreflightFails, requests
  <2> QED  BY <2>1, <2>2
<1>6. PassedOver' = PassedOver  BY <1>3, <1>4 DEF PassedOver, queues
<1>7. waiting' = waiting  BY <1>3 DEF queues
<1> QED  BY <1>1, <1>3, <1>4, <1>5, <1>6, <1>7, UnnamedStays DEF Unnamed

\* A victim goes to waiting as a preempted request.
LEMMA UnnamedVictims ==
    ASSUME QInv, Unnamed, NEW r \in Request, NEW v \in Request,
           RunningPreempt(r, v) \/ SwapCommit(r, v)
    PROVE  Unnamed'
<1>1. QTyped /\ ToSet(waiting) \subseteq Request  BY QueueElements DEF QInv
<1>2. DOMAIN step = DOMAIN NoStep /\ "caps" \in DOMAIN step.acct /\ waiting \in Seq(Request)
  BY <1>1 DEF QTyped
<1>3. skipped' = skipped /\ step.phase # "idle" /\ status' = [status EXCEPT ![v] = "PREEMPTED"]
  BY DEF RunningPreempt, SwapCommit, Preempt, InRunningLoop
<1>4. step'.skipped = step.skipped /\ step'.acct.caps = step.acct.caps
  <2>1. CASE RunningPreempt(r, v)  BY <1>2, <2>1 DEF RunningPreempt, NoStep
  <2>2. CASE SwapCommit(r, v)
    <3>1. /\ step'.skipped = step.skipped
          /\ step'.acct = step.acct \/ step'.acct = Restore(step.acct, v, step.scheduled[v], "running")
      BY <1>2, <2>2 DEF SwapCommit, TakenBack, NoStep
    <3> QED  BY <1>2, <3>1, CapsStay
  <2> QED  BY <2>1, <2>2
<1>5. ToSet(waiting') \subseteq ToSet(waiting) \cup {v} \cup {q \in {r} : SwapCommit(r, v)}
  <2>1. <<v>> \o waiting \in Seq(Request) /\ ToSet(<<v>> \o waiting) = {v} \cup ToSet(waiting)
    BY <1>2, PushFacts
  <2>2. CASE RunningPreempt(r, v)  BY <2>1, <2>2 DEF RunningPreempt
  <2>3. CASE SwapCommit(r, v)
    <3> DEFINE q == <<v>> \o waiting
               w == Without(q, {r})
    <3>1. waiting' = <<r>> \o w  BY <2>3 DEF SwapCommit, ForceFirst
    <3>2. q \in Seq(Request) /\ ToSet(q) = {v} \cup ToSet(waiting)  BY <2>1
    <3> HIDE DEF q
    <3>3. w \in Seq(Request) /\ ToSet(w) = ({v} \cup ToSet(waiting)) \ {r}
      BY <3>2, WithoutFacts
    <3> HIDE DEF w
    <3>4. ToSet(waiting') = {r} \cup ToSet(w)  BY <3>3, <3>1, PushFacts
    <3> QED  BY <2>3, <3>3, <3>4
  <2> QED  BY <2>2, <2>3
<1>6. SwapCommit(r, v) => r \in ToSet(waiting)
  <2>1. SwapCommit(r, v) => \E i \in DOMAIN waiting : waiting[i] = r  BY DEF SwapCommit, SwapWanted
  <2> QED  BY <2>1 DEF ToSet
<1>7. \A q \in ToSet(waiting') : q \in ToSet(waiting) \/ status'[q] # "WAITING_FOR_GRAMMAR"
  BY <1>1, <1>3, <1>5, <1>6 DEF QTyped
<1>8. \A q \in Request : status'[q] = "WAITING_FOR_GRAMMAR" => status[q] = "WAITING_FOR_GRAMMAR"
  BY <1>1, <1>3 DEF QTyped
<1>9. PassedOver' = PassedOver  BY <1>3, <1>4 DEF PassedOver
<1> QED  BY <1>1, <1>3, <1>4, <1>7, <1>8, <1>9, UnnamedStays

\* The selected requests change their places in waiting only.
LEMMA UnnamedRestored ==
    ASSUME QInv, Unnamed, RestoreHeld
    PROVE  Unnamed'
<1>1. QTyped /\ Apart /\ Selected /\ ToSet(waiting) \subseteq Request
  BY QueueElements DEF QInv
<1>2. /\ step.phase \in {"running", "restore"} /\ skipped' = skipped /\ status' = status
  BY DEF RestoreHeld, requests
<1>3. DOMAIN step = DOMAIN NoStep  BY <1>1 DEF QTyped
<1>4. PICK s \in Rescored \cup {step} :
         /\ step' = [s EXCEPT !.phase = "swap"]
            \/ step' = [s EXCEPT !.phase = "swap", !.budget = @ + s.held, !.held = 0]
         /\ waiting' = waiting \/ (s \in Rescored /\ waiting' = PromoteWaiting(s.candidates))
  BY DEF RestoreHeld
<1>5. s = step \/ CacheAware  BY <1>4 DEF Rescored
<1>6. DOMAIN s = DOMAIN NoStep /\ s.skipped = step.skipped
  <2>1. CASE s = step  BY <1>3, <2>1
  <2>2. CASE s # step
    <3>1. PICK c : s = [step EXCEPT !.candidates = c, !.swapEligible = FALSE,
                                    !.acct = NewAccountant(0, <<>>)]
      BY <2>2, <1>4 DEF Rescored
    <3> QED  BY <1>3, <3>1 DEF NoStep
  <2> QED  BY <2>1, <2>2
<1>7. step'.skipped = step.skipped /\ step'.acct = s.acct
  BY <1>4, <1>6 DEF NoStep
<1>8. BatchBudget => step'.acct = step.acct  BY <1>5, <1>7, ConfigAssumption DEF BatchBudget
<1>9. s \in Rescored => /\ s.candidates \in Seq(Request) /\ IsInjective(s.candidates)
                        /\ \A c \in ToSet(s.candidates) : c \in ToSet(waiting) /\ status[c] = "WAITING"
  BY <1>1, <1>2, RescoredFacts
<1>10. ToSet(waiting') = ToSet(waiting)  BY <1>4, <1>9, PromoteQueues
<1>11. PassedOver' = PassedOver  BY <1>2, <1>7 DEF PassedOver
<1> QED  BY <1>1, <1>2, <1>8, <1>10, <1>11, UnnamedStays DEF Unnamed

\* A step begins with caps for requests that run or wait in waiting.
LEMMA UnnamedStarts ==
    ASSUME QInv, TInv, Unnamed, StartSchedule
    PROVE  Unnamed'
<1>1. /\ QTyped /\ Apart /\ Where /\ InBatch /\ Types /\ Owed
      /\ PassedOver \subseteq Request
  BY QueueElements DEF QInv, TInv, Tokens
<1>2. /\ step.phase = "idle" /\ skipped' = skipped /\ running' = running /\ status' = status
  BY DEF StartSchedule, BetweenSteps, requests
<1>3. PICK d \in Decisions :
         /\ step' = [NoStep EXCEPT !.phase = "running",
                                   !.budget = MaxNumScheduledTokens - d.reserve,
                                   !.held = d.reserve,
                                   !.candidates = d.candidates,
                                   !.swapEligible = d.swapEligible,
                                   !.acct = d.acct]
         /\ waiting' = IF BatchBudget THEN PromoteWaiting(d.candidates) ELSE waiting
  BY DEF StartSchedule
<1>4. Candidates(d)  BY <1>1, DecisionCandidates
<1>5. step'.skipped = <<>> /\ step'.acct = d.acct  BY <1>3 DEF NoStep
<1>6. step.skipped = <<>>  BY <1>1, <1>2 DEF InBatch, NoStep
<1>7. PassedOver' = PassedOver  BY <1>2, <1>5, <1>6 DEF PassedOver
<1>8. \A c \in ToSet(d.candidates) : c \in ToSet(waiting) /\ status[c] = "WAITING"
  BY <1>1, <1>4, NormalWaitingFacts DEF Candidates
<1>9. ToSet(waiting') = ToSet(waiting)  BY <1>3, <1>4, <1>8, PromoteQueues DEF Candidates
<1>10. \A r \in ToSet(waiting') : status'[r] # "WAITING_FOR_GRAMMAR"
  BY <1>2, <1>9 DEF Unnamed
<1>11. CASE BatchBudget
  <2>1. ASSUME NEW r \in PassedOver PROVE ~HasCap(d.acct, r)
    <3>1. r \in ToSet(skipped)  BY <1>6, <2>1 DEF PassedOver, ToSet
    <3>2. r \notin ToSet(waiting)  BY <1>1, <3>1 DEF Apart
    <3>3. r \in Request /\ r \notin ToSet(running)  BY <1>1, <2>1 DEF Where, Waits
    <3> QED  BY <1>1, <1>11, <3>2, <3>3, CapsAreQueued
  <2>2. \A r \in PassedOver' : ~HasCap(step'.acct, r)  BY <1>5, <1>7, <2>1
  <2>3. BatchBudget'  BY <1>11 DEF BatchBudget
  <2> QED  BY <1>10, <2>2, <2>3 DEF Unnamed
<1>12. CASE ~BatchBudget
  <2>1. ~BatchBudget' /\ PassedOver' = {}  BY <1>7, <1>12 DEF BatchBudget, Unnamed
  <2> QED  BY <1>10, <2>1 DEF Unnamed
<1> QED  BY <1>11, <1>12

\* Who is popped and passed over, or popped and admitted.
LEMMA UnnamedPopped ==
    ASSUME QInv, Unnamed, NEW r \in Request, WaitingSkip(r) \/ WaitingAdmit(r)
    PROVE  Unnamed'
<1>1. QTyped /\ Apart /\ Where /\ ToSet(waiting) \subseteq Request  BY QueueElements DEF QInv
<1>2. InWaitingLoop /\ r = NextWaiting /\ PopWaiting /\ step.phase # "idle"
  BY DEF WaitingSkip, WaitingAdmit, InWaitingLoop
<1>3. /\ ToSet(waiting') = ToSet(waiting) \ {r} /\ ToSet(skipped') = ToSet(skipped) \ {r}
      /\ r \in ToSet(waiting) \cup ToSet(skipped)
  BY <1>1, <1>2, PopFacts
<1>4. /\ DOMAIN step = DOMAIN NoStep /\ step.skipped \in Seq(Request) /\ "caps" \in DOMAIN step.acct
  BY <1>1 DEF QTyped
<1>5. \A q \in Request : status'[q] = "WAITING_FOR_GRAMMAR" => status[q] = "WAITING_FOR_GRAMMAR"
  <2>1. status' = [status EXCEPT ![r] = Promoted(r)] \/ status' = [status EXCEPT ![r] = "RUNNING"]
    BY DEF WaitingSkip, WaitingAdmit
  <2> QED  BY <1>1, <2>1 DEF QTyped, Promoted
<1>6. CASE WaitingAdmit(r)
  <2>1. PICK n : step' = [step EXCEPT !.budget = @ - n, !.scheduled[r] = n,
                            !.acct = IF BatchBudget THEN Commit(@, r, n, "waiting") ELSE @]
    BY <1>6 DEF WaitingAdmit
  <2>2. /\ step'.skipped = step.skipped
        /\ step'.acct = step.acct \/ step'.acct = Commit(step.acct, r, n, "waiting")
    BY <1>4, <2>1 DEF NoStep
  <2>3. step'.acct.caps = step.acct.caps  BY <1>4, <2>2, CapsStay
  <2>4. PassedOver' \subseteq PassedOver  BY <1>3, <2>2 DEF PassedOver
  <2> QED  BY <1>1, <1>2, <1>3, <1>5, <2>3, <2>4, UnnamedStays
<1>7. CASE WaitingSkip(r)
  <2>1. step' = [step EXCEPT !.skipped = Append(@, r)] /\ WaitingPassesOver(r)
    BY <1>7 DEF WaitingSkip
  <2>2. step'.skipped = Append(step.skipped, r) /\ step'.acct = step.acct  BY <1>4, <2>1 DEF NoStep
  <2>3. ToSet(step'.skipped) = ToSet(step.skipped) \cup {r}  BY <1>4, <2>2, AppendFacts
  <2>4. PassedOver' \subseteq PassedOver \cup {r}  BY <1>3, <2>3 DEF PassedOver
  <2>5. r \in PassedOver \/ (BatchBudget /\ ~HasCap(step.acct, r))
    <3>1. CASE r \in ToSet(skipped)  BY <3>1 DEF PassedOver
    <3>2. CASE r \in ToSet(waiting)
      <4>1. status[r] # "WAITING_FOR_GRAMMAR"  BY <3>2 DEF Unnamed
      <4> QED  BY <2>1, <4>1 DEF WaitingPassesOver, StillBlocked, Promoted
    <3> QED  BY <1>3, <3>1, <3>2
  <2>6. \A q \in ToSet(waiting') : status'[q] # "WAITING_FOR_GRAMMAR"
    BY <1>1, <1>3, <1>5 DEF Unnamed
  <2>7. CASE BatchBudget
    <3>1. \A q \in PassedOver' : ~HasCap(step'.acct, q)
      BY <1>2, <2>2, <2>4, <2>5, <2>7 DEF Unnamed
    <3>2. BatchBudget'  BY <2>7 DEF BatchBudget
    <3> QED  BY <2>6, <3>1, <3>2 DEF Unnamed
  <2>8. CASE ~BatchBudget
    <3>1. r \notin PassedOver  BY <2>8 DEF Unnamed
    <3> QED  BY <2>5, <2>8, <3>1
  <2> QED  BY <2>7, <2>8
<1> QED  BY <1>6, <1>7

LEMMA UnnamedFinishes ==
    ASSUME QInv, Unnamed, FinishSchedule
    PROVE  Unnamed'
<1>1. QTyped /\ ToSet(waiting) \subseteq Request  BY QueueElements DEF QInv
<1>2. /\ skipped' = step.skipped \o skipped /\ step' = NoStep
      /\ waiting' = waiting /\ status' = status
  BY DEF FinishSchedule
<1>3. step'.skipped = <<>> /\ step'.phase = "idle"  BY <1>2 DEF NoStep
<1>4. ToSet(skipped') = ToSet(step.skipped) \cup ToSet(skipped)
  BY <1>1, <1>2, ConcatFacts DEF QTyped
<1>5. PassedOver' \subseteq PassedOver  BY <1>3, <1>4 DEF PassedOver, ToSet
<1> QED  BY <1>1, <1>2, <1>3, <1>5, UnnamedStays DEF Unnamed

LEMMA NextUnnamed ==
    ASSUME BatchBudget \/ Grammar = {}, PoolInv, QInv, TInv, Unnamed, [Next]_vars
    PROVE  Unnamed'
<1>1. CASE UNCHANGED vars
  BY <1>1 DEF vars, queues, requests, Unnamed, PassedOver, BatchBudget, HasCap
<1>2. CASE ScheduleStep
  <2>1. ASSUME NEW r \in Request, NEW v \in Request, RunningPreempt(r, v) \/ SwapCommit(r, v)
        PROVE  Unnamed'
    BY <2>1, UnnamedVictims
  <2>2. ASSUME NEW r \in Request, WaitingSkip(r) \/ WaitingAdmit(r) PROVE Unnamed'
    BY <2>2, UnnamedPopped
  <2>3. CASE RestoreHeld \/ FinishSchedule  BY <2>3, UnnamedRestored, UnnamedFinishes
  <2>4. CASE \/ \E r \in Request : RunningSkip(r) \/ RunningSchedule(r) \/ WaitingNoKv(r)
             \/ SwapReject \/ WaitingDone
             \/ \E c, v \in Request : SwapPreflightFails(c, v)
    BY <2>4, UnnamedInLoop
  <2> QED  BY <1>2, <2>1, <2>2, <2>3, <2>4 DEF ScheduleStep
<1>3. CASE StartSchedule  BY <1>3, UnnamedStarts
<1>4. CASE UpdateFromOutput  BY <1>4, UnnamedEnds
<1>5. CASE Environment
  <2>1. PICK r \in Request : AddRequest(r) \/ Abort(r) \/ GrammarReady(r) \/ BackoffExpires(r)
    BY <1>5 DEF Environment
  <2> QED  BY <2>1, UnnamedOutside, UnnamedEnds
<1> QED  BY <1>1, <1>2, <1>3, <1>4, <1>5 DEF Next, Engine

\* What the next steps have to keep beside Unnamed.
Served ==
    /\ step.phase = "waiting" =>
        \A c \in step.swappedFor : c \in Request /\ (status[c] = "RUNNING" \/ NextInLine(c))
    /\ SwapServesCandidate

\* Elsewhere no swap has been made yet.
LEMMA ServedBefore ==
    ASSUME QInv, TInv,
           \/ StartSchedule \/ RestoreHeld \/ FinishSchedule \/ UpdateFromOutput
           \/ \E r \in Request : AddRequest(r) \/ Abort(r) \/ BackoffExpires(r)
           \/ \E r \in Request : RunningSkip(r) \/ RunningSchedule(r)
           \/ \E r, v \in Request : RunningPreempt(r, v)
    PROVE  Served'
<1>1. DOMAIN step = DOMAIN NoStep  BY DEF QInv, QTyped
<1>2. step'.phase \in {"idle", "running", "restore", "swap"}
  <2>1. CASE StartSchedule
    <3>1. PICK d \in Decisions :
             step' = [NoStep EXCEPT !.phase = "running",
                                    !.budget = MaxNumScheduledTokens - d.reserve,
                                    !.held = d.reserve,
                                    !.candidates = d.candidates,
                                    !.swapEligible = d.swapEligible,
                                    !.acct = d.acct]
      BY <2>1 DEF StartSchedule
    <3> QED  BY <3>1 DEF NoStep
  <2>2. CASE RestoreHeld
    <3>1. PICK s \in Rescored \cup {step} :
             \/ step' = [s EXCEPT !.phase = "swap"]
             \/ step' = [s EXCEPT !.phase = "swap", !.budget = @ + s.held, !.held = 0]
      BY <2>2 DEF RestoreHeld
    <3>2. DOMAIN s = DOMAIN NoStep
      <4>1. CASE s = step  BY <1>1, <4>1
      <4>2. CASE s # step
        <5>1. PICK c : s = [step EXCEPT !.candidates = c, !.swapEligible = FALSE,
                                        !.acct = NewAccountant(0, <<>>)]
          BY <3>1, <4>2 DEF Rescored
        <5> QED  BY <1>1, <5>1
      <4> QED  BY <4>1, <4>2
    <3> QED  BY <3>1, <3>2 DEF NoStep
  <2>3. CASE UpdateFromOutput \/ \E r \in Request : AddRequest(r) \/ Abort(r) \/ BackoffExpires(r)
    BY <2>3 DEF UpdateFromOutput, AddRequest, Abort, BackoffExpires, BetweenSteps
  <2>4. CASE \E r \in Request : RunningSkip(r) \/ RunningSchedule(r)
    BY <1>1, <2>4 DEF RunningSkip, RunningSchedule, InRunningLoop, NoStep
  <2>5. CASE \E r, v \in Request : RunningPreempt(r, v)
    BY <1>1, <2>5 DEF RunningPreempt, InRunningLoop, NoStep
  <2>6. CASE FinishSchedule
    <3>1. step' = NoStep  BY <2>6 DEF FinishSchedule
    <3> QED  BY <3>1 DEF NoStep
  <2> QED  BY <2>1, <2>2, <2>3, <2>4, <2>5, <2>6
<1> QED  BY <1>2 DEF Served, SwapServesCandidate

\* Without a swap there is nobody to serve.
LEMMA ServedNobody ==
    ASSUME QInv, SwapReject \/ \E c, v \in Request : SwapPreflightFails(c, v)
    PROVE  Served'
<1>1. step.phase = "swap" /\ step' = [step EXCEPT !.phase = WaitingPhase(step)]
  BY DEF SwapReject, SwapPreflightFails
<1>2. step'.swappedFor = {}  BY <1>1 DEF QInv, QTyped, InBatch, NoStep
<1> QED  BY <1>2 DEF Served, SwapServesCandidate

\* The victim's slot is free, and the candidate is first.
LEMMA ServedBySwap ==
    ASSUME QInv, TInv, NEW c \in Request, NEW v \in Request, SwapCommit(c, v)
    PROVE  Served'
<1>1. /\ QTyped /\ Apart /\ Where /\ Depth /\ Types /\ step.budget \in Nat
      /\ Len(running) <= MaxNumRunningReqs
  BY DEF QInv, TInv, Tokens, Budget, Slots
<1>2. /\ waiting' = ForceFirst(<<v>> \o waiting, c)
      /\ running' = Without(running, {v})
      /\ status' = [status EXCEPT ![v] = "PREEMPTED"]
      /\ step.phase = "swap" /\ step.budget > 0
      /\ step' = [TakenBack(step, v) EXCEPT !.phase = "waiting", !.preempted = TRUE,
                                            !.swappedFor = {c}]
  BY DEF SwapCommit, SwapWanted, Preempt
<1>3. c \in ToSet(step.candidates) /\ status[c] = "WAITING" /\ v \in ToSet(running)
  BY DEF SwapCommit, SwapWanted, SwapVictim
<1>4. DOMAIN step = DOMAIN NoStep /\ "caps" \in DOMAIN step.acct  BY <1>1 DEF QTyped
<1>5. step'.phase = "waiting" /\ step'.swappedFor = {c}
  BY <1>2, <1>4 DEF TakenBack, NoStep
<1>6. step'.budget = step.budget + step.scheduled[v]
  BY <1>2, <1>4 DEF TakenBack, NoStep
<1>7. step'.budget > 0  BY <1>1, <1>2, <1>6 DEF Types
<1>8. step'.acct.caps = step.acct.caps
  <2>1. step'.acct = step.acct \/ step'.acct = Restore(step.acct, v, step.scheduled[v], "running")
    BY <1>2, <1>4 DEF TakenBack, NoStep
  <2> QED  BY <1>4, <2>1, CapsStay
<1>9. BatchBudget => HasCap(step'.acct, c)
  <2>1. BatchBudget => HasCap(step.acct, c)  BY <1>1, <1>2, <1>3 DEF Depth
  <2> QED  BY <1>8, <2>1 DEF HasCap
<1>10. status'[c] = "WAITING"
  <2>1. status[v] = "RUNNING"  BY <1>1, <1>3 DEF Where
  <2> QED  BY <1>1, <1>2, <1>3, <2>1 DEF QTyped
<1>11. waiting' # <<>> /\ Head(waiting') = c
  <2> DEFINE q == <<v>> \o waiting
             w == Without(q, {c})
  <2>1. waiting' = <<c>> \o w  BY <1>2 DEF ForceFirst
  <2>2. q \in Seq(Request)  BY <1>1, PushFacts DEF QTyped
  <2> HIDE DEF q
  <2>3. w \in Seq(Request)  BY <2>2, WithoutFacts
  <2> HIDE DEF w
  <2> QED  BY <2>1, <2>3, PushFacts
<1>12. Len(running') < MaxNumRunningReqs
  <2>1. /\ running \in Seq(Request) /\ IsInjective(running) /\ Len(running) \in Nat
    BY <1>1 DEF QTyped, Apart
  <2>2. /\ running' \in Seq(Request) /\ IsInjective(running') /\ Len(running') \in Nat
        /\ ToSet(running') = ToSet(running) \ {v}
    BY <1>2, <2>1, WithoutFacts
  <2>3. /\ IsFiniteSet(ToSet(running)) /\ Cardinality(ToSet(running)) = Len(running)
        /\ Cardinality(ToSet(running')) = Len(running')
    BY <2>1, <2>2, QueueIsFinite
  <2>4. Cardinality(ToSet(running) \ {v}) = Cardinality(ToSet(running)) - 1
    BY <1>3, <2>3, FS_RemoveElement
  <2>5. Len(running') = Len(running) - 1  BY <2>2, <2>3, <2>4
  <2>6. MaxNumRunningReqs \in Nat  BY BudgetAssumption
  <2> QED  BY <1>1, <2>1, <2>5, <2>6
<1>13. NextInLine(c)'
  <2>1. (BatchBudget => HasCap(step.acct, c))'  BY <1>9 DEF BatchBudget
  <2> QED  BY <1>7, <1>10, <1>11, <1>12, <2>1 DEF NextInLine
<1> QED  BY <1>5, <1>13 DEF Served, SwapServesCandidate

\* In the WAITING loop only those without a cap come before the candidate, and
\* they are passed over.
LEMMA ServedInLoop ==
    ASSUME QInv, Unnamed, Served, NEW r \in Request,
           WaitingSkip(r) \/ WaitingAdmit(r) \/ WaitingNoKv(r)
    PROVE  Served'
<1>1. QTyped /\ Apart /\ Where /\ step.phase = "waiting"
  BY DEF QInv, WaitingSkip, WaitingAdmit, WaitingNoKv, InWaitingLoop
<1>2. InWaitingLoop /\ r = NextWaiting  BY DEF WaitingSkip, WaitingAdmit, WaitingNoKv
<1>3. DOMAIN step = DOMAIN NoStep /\ "caps" \in DOMAIN step.acct  BY <1>1 DEF QTyped
<1>4. r \in ToSet(waiting) \cup ToSet(skipped) /\ status[r] \in Waits
  <2>1. r \in ToSet(waiting) \cup ToSet(skipped)  BY <1>1, <1>2, NextIsQueued
  <2> QED  BY <1>1, <2>1 DEF Where, PassedOver
<1>5. step'.swappedFor = step.swappedFor
  BY <1>3 DEF WaitingSkip, WaitingAdmit, WaitingNoKv, NoStep
<1>6. status' = [status EXCEPT ![r] = Promoted(r)] \/ status' = [status EXCEPT ![r] = "RUNNING"]
  BY DEF WaitingSkip, WaitingAdmit, WaitingNoKv
<1>7. \A c \in Request : c # r => status'[c] = status[c]  BY <1>1, <1>6 DEF QTyped
<1>8. \A c \in Request : status[c] = "RUNNING" => status'[c] = "RUNNING"
  BY <1>4, <1>7 DEF Waits
<1>9. ASSUME NEW c \in step.swappedFor, NextInLine(c)
      PROVE  IF skipped = <<>> THEN r = c /\ ~WaitingPassesOver(r)
             ELSE r # c /\ r = Head(skipped) /\ WaitingPassesOver(r)
  <2>1. CASE skipped = <<>>
    <3>1. r = c /\ status[r] = "WAITING"  BY <1>2, <1>9, <2>1 DEF NextWaiting, NextInLine
    <3>2. ~StillBlocked(r)  BY <3>1 DEF StillBlocked, Promoted
    <3> QED  BY <1>9, <2>1, <3>1, <3>2 DEF WaitingPassesOver, NextInLine
  <2>2. CASE skipped # <<>>
    <3>1. r = Head(skipped) /\ skipped \in Seq(Request) /\ waiting \in Seq(Request)
      BY <1>1, <1>2, <2>2 DEF NextWaiting, QTyped
    <3>2. r \in ToSet(skipped) /\ Head(waiting) \in ToSet(waiting)
      BY <1>9, <2>2, <3>1, TailFacts DEF NextInLine
    <3>3. r # c  BY <1>1, <1>9, <3>2 DEF Apart, NextInLine
    <3>4. r \in PassedOver  BY <3>2 DEF PassedOver
    <3>5. BatchBudget /\ ~HasCap(step.acct, r)  BY <1>1, <3>4 DEF Unnamed
    <3> QED  BY <2>2, <3>1, <3>3, <3>5 DEF WaitingPassesOver
  <2> QED  BY <2>1, <2>2
<1>10. CASE WaitingSkip(r)
  <2>1. /\ WaitingPassesOver(r) /\ PopWaiting /\ running' = running
        /\ step' = [step EXCEPT !.skipped = Append(@, r)]
    BY <1>10 DEF WaitingSkip
  <2>2. step'.phase = "waiting" /\ step'.budget = step.budget /\ step'.acct = step.acct
    BY <1>1, <1>3, <2>1 DEF NoStep
  <2>3. ASSUME NEW c \in step.swappedFor, NextInLine(c) PROVE NextInLine(c)'
    <3>1. skipped # <<>> /\ r # c  BY <1>9, <2>1, <2>3
    <3>2. waiting' = waiting  BY <2>1, <3>1 DEF PopWaiting
    <3>3. status'[c] = "WAITING"  BY <1>1, <1>7, <2>3, <3>1 DEF NextInLine, Served
    <3>4. (BatchBudget => HasCap(step.acct, c))'  BY <2>2, <2>3 DEF NextInLine, BatchBudget
    <3> QED  BY <2>1, <2>2, <2>3, <3>2, <3>3, <3>4 DEF NextInLine
  <2>4. \A c \in step'.swappedFor : c \in Request /\ (status'[c] = "RUNNING" \/ NextInLine(c)')
    BY <1>1, <1>5, <1>8, <2>3 DEF Served
  <2> QED  BY <2>2, <2>4 DEF Served, SwapServesCandidate
<1>11. CASE WaitingAdmit(r)
  <2>1. ~WaitingPassesOver(r) /\ status' = [status EXCEPT ![r] = "RUNNING"]
    BY <1>11 DEF WaitingAdmit
  <2>2. step'.phase = "waiting"  BY <1>1, <1>3, <1>11 DEF WaitingAdmit, NoStep
  <2>3. ASSUME NEW c \in step.swappedFor, NextInLine(c) PROVE status'[c] = "RUNNING"
    <3>1. r = c  BY <1>9, <2>1, <2>3
    <3> QED  BY <1>1, <2>1, <2>3, <3>1 DEF QTyped
  <2>4. \A c \in step'.swappedFor : c \in Request /\ status'[c] = "RUNNING"
    BY <1>1, <1>5, <1>8, <2>3 DEF Served
  <2> QED  BY <2>2, <2>4 DEF Served, SwapServesCandidate
<1>12. CASE WaitingNoKv(r)
  <2>1. ~WaitingPassesOver(r) /\ backoff' = backoff \cup (step.swappedFor \cap {r})
    BY <1>12 DEF WaitingNoKv
  <2>2. step'.phase = "finish"  BY <1>3, <1>12 DEF WaitingNoKv, NoStep
  <2>3. ASSUME NEW c \in step.swappedFor, NextInLine(c) PROVE c \in backoff'
    <3>1. r = c  BY <1>9, <2>1, <2>3
    <3> QED  BY <2>1, <2>3, <3>1
  <2>4. \A c \in step'.swappedFor : status'[c] = "RUNNING" \/ c \in backoff'
    BY <1>1, <1>5, <1>8, <2>3 DEF Served
  <2> QED  BY <2>2, <2>4 DEF Served, SwapServesCandidate
<1> QED  BY <1>10, <1>11, <1>12

LEMMA NextServed ==
    ASSUME PoolInv, QInv, TInv, Unnamed, Served, [Next]_vars
    PROVE  Served'
<1>1. CASE UNCHANGED vars \/ \E r \in Request : GrammarReady(r)
  <2>1. UNCHANGED <<waiting, running, status, backoff, step>>
    BY <1>1 DEF vars, GrammarReady, queues, requests, swaps
  <2> QED  BY <2>1 DEF Served, SwapServesCandidate, NextInLine, BatchBudget, HasCap
<1>2. CASE \/ StartSchedule \/ RestoreHeld \/ FinishSchedule \/ UpdateFromOutput
           \/ \E r \in Request : AddRequest(r) \/ Abort(r) \/ BackoffExpires(r)
           \/ \E r \in Request : RunningSkip(r) \/ RunningSchedule(r)
           \/ \E r, v \in Request : RunningPreempt(r, v)
  BY <1>2, ServedBefore
<1>3. CASE SwapReject \/ \E c, v \in Request : SwapPreflightFails(c, v)  BY <1>3, ServedNobody
<1>4. CASE \E c, v \in Request : SwapCommit(c, v)  BY <1>4, ServedBySwap
<1>5. CASE \E r \in Request : WaitingSkip(r) \/ WaitingAdmit(r) \/ WaitingNoKv(r)
  BY <1>5, ServedInLoop
<1>6. CASE WaitingDone
  <2>1. /\ step.phase = "waiting" /\ ~InWaitingLoop /\ step' = [step EXCEPT !.phase = "finish"]
        /\ status' = status
    BY <1>6 DEF WaitingDone, requests
  <2>2. step'.phase = "finish" /\ step'.swappedFor = step.swappedFor
    BY <2>1 DEF QInv, QTyped, NoStep
  <2>3. \A c : ~NextInLine(c)  BY <2>1 DEF NextInLine, InWaitingLoop
  <2> QED  BY <2>1, <2>2, <2>3 DEF Served, SwapServesCandidate
<1> QED  BY <1>1, <1>2, <1>3, <1>4, <1>5, <1>6 DEF Next, Engine, ScheduleStep, Environment

\* A swap frees a slot for its candidate: at the end of the step the candidate
\* runs in it, or it backs off because its blocks were not there.  The batch
\* budget keeps everyone else out of the slot; without it nobody may wait for
\* a grammar.
THEOREM SwapsServe ==
    ASSUME Shallow, IsFiniteSet(Request), BatchBudget \/ Grammar = {}
    PROVE  Spec => []SwapServesCandidate
<1>1. Init => TokenInv  BY TokensStay
<1>2. TokenInv /\ [Next]_vars => TokenInv'  BY TokensStay
<1>3. Init => Unnamed /\ Served
  <2> SUFFICES ASSUME Init PROVE Unnamed /\ Served  OBVIOUS
  <2>1. step.phase = "idle" /\ step.skipped = <<>>  BY DEF Init, NoStep
  <2>2. ToSet(waiting) = {} /\ PassedOver = {}  BY <2>1 DEF Init, PassedOver, ToSet
  <2> QED  BY <2>1, <2>2 DEF Unnamed, Served, SwapServesCandidate
<1>4. TokenInv /\ Unnamed /\ Served /\ [Next]_vars => Unnamed' /\ Served'
  BY NextUnnamed, NextServed DEF TokenInv
<1>5. Served => SwapServesCandidate  BY DEF Served
<1> QED  BY <1>1, <1>2, <1>3, <1>4, <1>5, PTL DEF Spec

-----------------------------------------------------------------------------
(* Decodes under the batch budget.  The reserve of the prefills leaves one *)
(* token for each, and the account keeps the prefills within it.           *)

\* The running decodes the RUNNING loop has yet to come to.
DecodesAhead == {j \in DOMAIN running : j >= step.index /\ ~chunk[running[j]]}

\* r is a decode with a token to compute, and none for it in this batch.
Hungry(r) == ~chunk[r] /\ RunningRemaining(r) > 0 /\ ~(step.scheduled[r] > 0)

\* Until somebody is preempted, what the prefills may still take leaves one
\* token for every decode ahead, and those behind have theirs.
Reserved ==
    /\ step.phase = "restore" => step.preempted
    /\ BatchBudget /\ ~step.preempted =>
        /\ step.phase = "running" =>
            /\ step.budget >= step.acct.remaining + Cardinality(DecodesAhead)
            /\ \A j \in DOMAIN running : Hungry(running[j]) => j >= step.index
        /\ step.phase = "swap" => \A r \in ToSet(running) : ~Hungry(r)

LEMMA AheadIsFinite ==
    ASSUME QTyped
    PROVE  /\ IsFiniteSet(DecodesAhead) /\ Cardinality(DecodesAhead) \in Nat
           /\ Cardinality(DecodesAhead) <= Len(running)
           /\ Cardinality(DecodesAhead) = 0 => DecodesAhead = {}
<1>1. Len(running) \in Nat /\ DecodesAhead \in SUBSET (1..Len(running))
  BY DEF QTyped, DecodesAhead
<1>2. /\ IsFiniteSet(DecodesAhead) /\ Cardinality(DecodesAhead) \in 0..Len(running)
      /\ Cardinality(DecodesAhead) = 0 <=> DecodesAhead = {}
  BY <1>1, PositionsAreFinite
<1> QED  BY <1>1, <1>2

\* A running decode needs at most one token, and is not past its last.
LEMMA DecodeNeeds ==
    ASSUME BatchBudget, PoolInv, TInv, NEW r \in Request,
           status[r] = "RUNNING", ~chunk[r], step.scheduled[r] = 0
    PROVE  /\ RunningRemaining(r) \in Int /\ RunningRemaining(r) <= 1
           /\ ~AtMaxTokens(r)
<1>1. ~AsyncScheduling  BY ConfigAssumption DEF BatchBudget
<1>2. placeholders[r] = 0  BY <1>1 DEF TInv, Tokens, Owed
<1>3. Decoding(r)
  <2>1. Decoding(r) \/ Prefilling(r)  BY DEF TInv, Tokens, Kinds
  <2> QED  BY <2>1 DEF Prefilling
<1>4. Pending(r) \in Nat  BY CountFacts DEF Pending, PoolInv
<1>5. NumTokens(r) \in Nat
  <2>1. PromptTokens[r] \in Nat /\ output[r] \in Nat
    BY RequestAssumption DEF TInv, Tokens, Types
  <2> QED  BY <2>1 DEF NumTokens
<1>6. RunningRemaining(r) = NumTokens(r) + 0 - (NumTokens(r) + Pending(r) - 1)
  BY <1>2, <1>3 DEF RunningRemaining, Decoding
<1>7. RunningRemaining(r) = 1 - Pending(r)  BY <1>4, <1>5, <1>6
<1>8. ~AtMaxTokens(r)  BY <1>2 DEF AtMaxTokens
<1> QED  BY <1>4, <1>7, <1>8

\* The loop goes on to the next request: one decode less is ahead, if it was
\* one, and nobody behind is left without.
LEMMA LoopGoesOn ==
    ASSUME QTyped, BatchBudget, ~step.preempted, Reserved,
           step.phase = "running", step.index <= Len(running),
           NEW r \in Request, r = running[step.index],
           step'.index = step.index + 1,
           step'.phase = "running", step'.preempted = step.preempted,
           running' = running, chunk' = chunk,
           \A q \in Request : Hungry(q)' => Hungry(q),
           ~Hungry(r)',
           NEW n \in Nat, step.budget \in Nat, step.acct.remaining \in Int,
           step'.budget = step.budget - n,
           IF chunk[r] THEN step'.acct.remaining = step.acct.remaining - n
           ELSE step'.acct.remaining = step.acct.remaining /\ n <= 1
    PROVE  Reserved'
<1> DEFINE i == step.index
<1>1. /\ i \in Nat \ {0} /\ Len(running) \in Nat /\ DOMAIN running = 1..Len(running)
      /\ i \in DOMAIN running /\ r = running[i] /\ \A j \in DOMAIN running : running[j] \in Request
  BY DEF QTyped
<1>2. /\ step.budget >= step.acct.remaining + Cardinality(DecodesAhead)
      /\ \A j \in DOMAIN running : Hungry(running[j]) => j >= i
  BY DEF Reserved
<1>3. DecodesAhead' = DecodesAhead \ {i}
  <2>1. DecodesAhead' = {j \in DOMAIN running : j >= i + 1 /\ ~chunk[running[j]]}
    BY DEF DecodesAhead
  <2>2. \A j \in DOMAIN running : j >= i + 1 <=> j >= i /\ j # i  BY <1>1
  <2> HIDE DEF i
  <2>3. DecodesAhead = {j \in DOMAIN running : j >= i /\ ~chunk[running[j]]}
    BY DEF DecodesAhead, i
  <2> QED  BY <2>1, <2>2, <2>3
<1>4. i \in DecodesAhead <=> ~chunk[r]
  <2>1. i >= i  BY <1>1
  <2> QED  BY <1>1, <2>1 DEF DecodesAhead
<1>5. IsFiniteSet(DecodesAhead) /\ Cardinality(DecodesAhead) \in Nat  BY AheadIsFinite
<1>6. Cardinality(DecodesAhead') =
        IF chunk[r] THEN Cardinality(DecodesAhead) ELSE Cardinality(DecodesAhead) - 1
  <2>1. CASE chunk[r]
    <3>1. DecodesAhead' = DecodesAhead  BY <1>3, <1>4, <2>1
    <3> QED  BY <2>1, <3>1
  <2>2. CASE ~chunk[r]
    <3>1. Cardinality(DecodesAhead \ {i}) = Cardinality(DecodesAhead) - 1
      BY <1>4, <1>5, <2>2, FS_RemoveElement
    <3> QED  BY <1>3, <2>2, <3>1
  <2> QED  BY <2>1, <2>2
<1> HIDE DEF i
<1>7. Cardinality(DecodesAhead)' = Cardinality(DecodesAhead')  OBVIOUS
<1>8. step'.budget >= step'.acct.remaining + Cardinality(DecodesAhead')
  <2> DEFINE c == Cardinality(DecodesAhead)
             d == Cardinality(DecodesAhead')
  <2>1. c \in Nat /\ d = IF chunk[r] THEN c ELSE c - 1  BY <1>5, <1>6
  <2>2. step.budget >= step.acct.remaining + c  BY <1>2
  <2> HIDE DEF c, d
  <2>3. CASE chunk[r]
    <3>1. step'.acct.remaining = step.acct.remaining - n  BY <2>3 DEF i
    <3>2. step'.budget >= step'.acct.remaining + d  BY <2>1, <2>2, <2>3, <3>1
    <3> QED  BY <3>2 DEF d
  <2>4. CASE ~chunk[r]
    <3>1. step'.acct.remaining = step.acct.remaining /\ n <= 1  BY <2>4 DEF i
    <3>2. step'.budget >= step'.acct.remaining + d  BY <2>1, <2>2, <2>4, <3>1
    <3> QED  BY <3>2 DEF d
  <2> QED  BY <2>3, <2>4
<1>9. ASSUME NEW j \in DOMAIN running, Hungry(running[j])' PROVE j >= i + 1
  <2>1. Hungry(running[j])  BY <1>1, <1>9
  <2>2. j # i
    <3> SUFFICES ASSUME j = i PROVE FALSE  OBVIOUS
    <3>1. r = running[j]  BY <1>1
    <3>2. Hungry(r)'  BY <1>9, <3>1 DEF Hungry, RunningRemaining, NumTokens
    <3> QED  BY <3>2
  <2> QED  BY <1>1, <1>2, <2>1, <2>2
<1>10. step'.index = i + 1  BY DEF i
<1> QED  BY <1>7, <1>8, <1>9, <1>10 DEF Reserved

\* The selected budget leaves the decodes theirs.
LEMMA ReservedStarts ==
    ASSUME PoolInv, QInv, TInv, MaxNumRunningReqs <= MaxNumScheduledTokens, StartSchedule
    PROVE  Reserved'
<1>1. PICK d \in Decisions :
        step' = [NoStep EXCEPT !.phase = "running",
                               !.budget = MaxNumScheduledTokens - d.reserve,
                               !.held = d.reserve,
                               !.candidates = d.candidates,
                               !.swapEligible = d.swapEligible,
                               !.acct = d.acct]
  BY DEF StartSchedule
<1>2. /\ step'.phase = "running" /\ step'.index = 1 /\ step'.acct = d.acct
      /\ step'.budget = MaxNumScheduledTokens - d.reserve
  BY <1>1 DEF NoStep
<1>3. running' = running /\ chunk' = chunk  BY DEF StartSchedule, requests
<1>4. ASSUME BatchBudget
      PROVE  step'.budget >= step'.acct.remaining + Cardinality(DecodesAhead')
  <2>1. d \in BatchBudgetDecisions  BY <1>4 DEF Decisions, BatchBudget
  <2>2. Granted(d) /\ d.reserve = 0 /\ d.acct.total <= MaxSafeReserve
    BY <2>1, BatchBudgetGranted DEF QInv, TInv, Tokens
  <2>3. d.acct.remaining = d.acct.total /\ d.acct.total \in Nat
    <3>1. d.acct = NewAccountant(d.acct.total, d.acct.caps) /\ d.acct.total \in Nat
      BY <2>2 DEF Granted, Fresh
    <3>2. NewAccountant(d.acct.total, d.acct.caps).remaining = d.acct.total
      BY DEF NewAccountant
    <3> QED  BY <3>1, <3>2
  <2> DEFINE S == {j \in DOMAIN running : ~chunk[running[j]]}
  <2>4. Len(running) \in Nat /\ DOMAIN running = 1..Len(running)  BY DEF QInv, QTyped
  <2>5. DecodesAhead' = S
    <3>1. DecodesAhead' = {j \in DOMAIN running : j >= 1 /\ ~chunk[running[j]]}
      BY <1>2, <1>3 DEF DecodesAhead
    <3> QED  BY <2>4, <3>1
  <2>6. Cardinality(S) \in Nat /\ Cardinality(S) <= Len(running)
    <3>1. S \in SUBSET (1..Len(running))  BY <2>4
    <3> HIDE DEF S
    <3>2. Cardinality(S) \in 0..Len(running)  BY <2>4, <3>1, PositionsAreFinite
    <3> QED  BY <2>4, <3>2
  <2>7. DecodeFloor = Least(MaxNumScheduledTokens, Cardinality(S))  BY DEF DecodeFloor
  <2> HIDE DEF S
  <2>8. Cardinality(S) <= MaxNumScheduledTokens
    <3>1. Len(running) <= MaxNumRunningReqs  BY DEF TInv, Slots
    <3> QED  BY <2>4, <2>6, <3>1, BudgetAssumption
  <2>9. DecodeFloor = Cardinality(S)  BY <2>6, <2>7, <2>8, BudgetAssumption DEF Least
  <2>10. d.acct.total <= MaxNumScheduledTokens - Cardinality(S)
    BY <2>2, <2>9 DEF MaxSafeReserve
  <2>11. step'.budget = MaxNumScheduledTokens /\ step'.acct.remaining = d.acct.total
    BY <1>2, <2>2, <2>3, BudgetAssumption
  <2>12. Cardinality(DecodesAhead') = Cardinality(S)  BY <2>5
  <2> QED  BY <2>3, <2>6, <2>10, <2>11, <2>12, BudgetAssumption
<1>5. \A j \in DOMAIN running' : j >= step'.index
  <2>1. Len(running) \in Nat /\ DOMAIN running = 1..Len(running)  BY DEF QInv, QTyped
  <2> QED  BY <1>2, <1>3, <2>1
<1>6. Cardinality(DecodesAhead)' = Cardinality(DecodesAhead')  OBVIOUS
<1>7. BatchBudget' <=> BatchBudget  BY DEF BatchBudget
<1> QED  BY <1>2, <1>4, <1>5, <1>6, <1>7 DEF Reserved

\* A decode that is passed over needs nothing.
LEMMA PassedDecode ==
    ASSUME BatchBudget, PoolInv, QInv, TInv, NEW r \in Request,
           InRunningLoop, r = running[step.index], RunningPassesOver(r)
    PROVE  ~Hungry(r)
<1> SUFFICES ASSUME Hungry(r) PROVE FALSE  OBVIOUS
<1>1. /\ running \in Seq(Request) /\ step.index \in Nat \ {0} /\ step.phase = "running"
      /\ step.index <= Len(running) /\ step.budget > 0 /\ step.budget \in Nat
  BY DEF QInv, QTyped, InRunningLoop, TInv, Budget
<1>2. step.index \in DOMAIN running /\ r \in ToSet(running)  BY <1>1 DEF ToSet
<1>3. status[r] = "RUNNING"  BY <1>2 DEF QInv, Where
<1>4. step.scheduled[r] = 0
  <2>1. step.index >= step.index  BY <1>1
  <2> QED  BY <1>1, <1>2, <2>1 DEF QInv, InBatch
<1>5. ~chunk[r] /\ RunningRemaining(r) > 0  BY DEF Hungry
<1>6. RunningRemaining(r) = 1 /\ ~AtMaxTokens(r)
  <2>1. RunningRemaining(r) \in Int /\ RunningRemaining(r) <= 1 /\ ~AtMaxTokens(r)
    BY <1>3, <1>4, <1>5, DecodeNeeds
  <2> QED  BY <1>5, <2>1
<1>7. RunningTokens(r) = 0  BY <1>5, <1>6 DEF RunningPassesOver
<1>8. RunningTokens(r) = Least(UpToThreshold(1), step.budget)
  BY <1>5, <1>6 DEF RunningTokens
<1>9. UpToThreshold(1) = 1  BY BudgetAssumption DEF UpToThreshold, Least
<1> QED  BY <1>1, <1>7, <1>8, <1>9 DEF Least

LEMMA ReservedSkipped ==
    ASSUME PoolInv, QInv, TInv, Reserved, NEW r \in Request, RunningSkip(r)
    PROVE  Reserved'
<1>1. /\ InRunningLoop /\ r = running[step.index] /\ RunningPassesOver(r)
      /\ step' = [step EXCEPT !.index = @ + 1] /\ step.phase = "running"
      /\ step.index <= Len(running)
      /\ running' = running /\ chunk' = chunk /\ computed' = computed /\ output' = output
      /\ placeholders' = placeholders
  BY DEF RunningSkip, InRunningLoop, queues, requests
<1>2. DOMAIN step = DOMAIN NoStep /\ step.preempted \in BOOLEAN  BY DEF QInv, QTyped
<1>3. /\ step'.index = step.index + 1 /\ step'.phase = "running"
      /\ step'.preempted = step.preempted /\ step'.scheduled = step.scheduled
      /\ step'.budget = step.budget /\ step'.acct = step.acct
  BY <1>1, <1>2 DEF NoStep
<1>4. \A q : Hungry(q)' <=> Hungry(q)
  BY <1>1, <1>3 DEF Hungry, RunningRemaining, NumTokens
<1>5. CASE BatchBudget /\ ~step.preempted
  <2>1. ~Hungry(r)'  BY <1>1, <1>4, <1>5, PassedDecode
  <2>2. step.budget \in Nat /\ step.acct.remaining \in Int /\ 0 \in Nat
    BY DEF TInv, Budget, Account, AccountType
  <2>3. step'.budget = step.budget - 0 /\ step'.acct.remaining = step.acct.remaining - 0
    BY <1>3, <2>2
  <2>4. step'.acct.remaining = step.acct.remaining  BY <1>3
  <2>5. QTyped  BY DEF QInv
  <2> QED  BY <1>1, <1>3, <1>4, <1>5, <2>1, <2>2, <2>3, <2>4, <2>5, LoopGoesOn
<1>6. CASE ~(BatchBudget /\ ~step.preempted)
  BY <1>3, <1>6 DEF Reserved, BatchBudget
<1> QED  BY <1>5, <1>6

LEMMA ReservedScheduled ==
    ASSUME Shallow, PoolInv, QInv, TInv, Reserved, NEW r \in Request, RunningSchedule(r)
    PROVE  Reserved'
<1> DEFINE n == RunningTokens(r)
<1>1. /\ InRunningLoop /\ r = running[step.index] /\ ~RunningPassesOver(r)
      /\ step.phase = "running" /\ step.index <= Len(running)
      /\ running' = running /\ chunk' = chunk /\ computed' = computed /\ output' = output
      /\ placeholders' = placeholders
  BY DEF RunningSchedule, InRunningLoop, queues, requests
<1>2. step' = [step EXCEPT !.index = @ + 1, !.budget = @ - n, !.scheduled[r] = n,
                           !.acct = IF BatchBudget /\ chunk[r]
                                    THEN Commit(@, r, n, "running") ELSE @]
  BY DEF RunningSchedule
<1>3. /\ n \in Nat \ {0} /\ computed[r] + n <= NumTokens(r) + placeholders[r]
      /\ status[r] = "RUNNING" /\ step.scheduled[r] = 0
  BY <1>1, RunningGrant
<1> HIDE DEF n
<1>4. DOMAIN step = DOMAIN NoStep /\ step.preempted \in BOOLEAN  BY DEF QInv, QTyped
<1>5. step.scheduled \in [Request -> Nat]  BY DEF TInv, Tokens, Types
<1>6. /\ step'.index = step.index + 1 /\ step'.phase = "running"
      /\ step'.preempted = step.preempted /\ step'.budget = step.budget - n
      /\ step'.scheduled = [step.scheduled EXCEPT ![r] = n]
      /\ step'.acct = IF BatchBudget /\ chunk[r] THEN Commit(step.acct, r, n, "running")
                      ELSE step.acct
  BY <1>1, <1>2, <1>4 DEF NoStep
<1>7. CASE BatchBudget /\ ~step.preempted
  <2>1. step'.scheduled[r] > 0  BY <1>3, <1>5, <1>6
  <2>2. ~Hungry(r)'  BY <2>1 DEF Hungry
  <2>3. \A q \in Request : Hungry(q)' => Hungry(q)
    <3> SUFFICES ASSUME NEW q \in Request, Hungry(q)' PROVE Hungry(q)  OBVIOUS
    <3>1. q # r  BY <2>2
    <3>2. step'.scheduled[q] = step.scheduled[q]  BY <1>5, <1>6, <3>1
    <3> QED  BY <1>1, <3>2 DEF Hungry, RunningRemaining, NumTokens
  <2>4. AccountType(step.acct) /\ step.acct.remaining \in Int /\ step.budget \in Nat
    BY DEF TInv, Budget, Account, AccountType
  <2>5. IF chunk[r] THEN step'.acct.remaining = step.acct.remaining - n
        ELSE step'.acct.remaining = step.acct.remaining /\ n <= 1
    <3>1. CASE chunk[r]
      <4>1. step'.acct = Commit(step.acct, r, n, "running")  BY <1>6, <1>7, <3>1
      <4>2. "remaining" \in DOMAIN step.acct  BY DEF TInv, Account, IsAccount
      <4> QED  BY <3>1, <4>1, <4>2 DEF Commit
    <3>2. CASE ~chunk[r]
      <4>1. RunningRemaining(r) \in Int /\ RunningRemaining(r) <= 1
        BY <1>3, <1>7, <3>2, DecodeNeeds
      <4>2. RunningRemaining(r) = NumTokens(r) + placeholders[r] - computed[r]
        BY DEF RunningRemaining
      <4>3. /\ NumTokens(r) \in Nat /\ placeholders[r] \in Nat /\ computed[r] \in Nat
        BY RequestAssumption DEF TInv, Tokens, Types, NumTokens
      <4>4. n <= 1  BY <1>3, <4>1, <4>2, <4>3
      <4> QED  BY <1>6, <3>2, <4>4
    <3> QED  BY <3>1, <3>2
  <2>6. QTyped /\ n \in Nat  BY <1>3 DEF QInv
  <2> QED  BY <1>1, <1>6, <1>7, <2>2, <2>3, <2>4, <2>5, <2>6, LoopGoesOn
<1>8. CASE ~(BatchBudget /\ ~step.preempted)
  BY <1>6, <1>8 DEF Reserved, BatchBudget
<1> QED  BY <1>7, <1>8

\* When the loop ends without a preemption, it has come to every decode: the
\* budget is used up only when none is ahead.
LEMMA ReservedRestored ==
    ASSUME PoolInv, QInv, TInv, Reserved, RestoreHeld
    PROVE  Reserved'
<1>1. /\ running' = running /\ chunk' = chunk /\ computed' = computed /\ output' = output
      /\ placeholders' = placeholders
      /\ step.phase = "restore" \/ (step.phase = "running" /\ ~InRunningLoop)
  BY DEF RestoreHeld, requests
<1>2. PICK s \in Rescored \cup {step} :
        \/ step' = [s EXCEPT !.phase = "swap"]
        \/ step' = [s EXCEPT !.phase = "swap", !.budget = @ + s.held, !.held = 0]
  BY DEF RestoreHeld
<1>3. DOMAIN step = DOMAIN NoStep  BY DEF QInv, QTyped
<1>4. DOMAIN s = DOMAIN NoStep /\ s.scheduled = step.scheduled /\ s.preempted = step.preempted
  <2>1. CASE s = step  BY <1>3, <2>1
  <2>2. CASE s # step
    <3>1. PICK c : s = [step EXCEPT !.candidates = c, !.swapEligible = FALSE,
                                    !.acct = NewAccountant(0, <<>>)]
      BY <1>2, <2>2 DEF Rescored
    <3> QED  BY <1>3, <3>1 DEF NoStep
  <2> QED  BY <2>1, <2>2
<1>5. /\ step'.phase = "swap" /\ step'.scheduled = step.scheduled
      /\ step'.preempted = step.preempted
  BY <1>2, <1>4 DEF NoStep
<1>6. \A r : Hungry(r)' <=> Hungry(r)
  BY <1>1, <1>5 DEF Hungry, RunningRemaining, NumTokens
<1>7. ASSUME BatchBudget, ~step.preempted, NEW r \in ToSet(running), Hungry(r)
      PROVE  FALSE
  <2>1. step.phase = "running" /\ ~InRunningLoop  BY <1>1, <1>7 DEF Reserved
  <2>2. PICK j \in DOMAIN running : r = running[j]  BY <1>7 DEF ToSet
  <2>3. j >= step.index  BY <1>7, <2>1, <2>2 DEF Reserved
  <2>4. j \in DecodesAhead  BY <1>7, <2>2, <2>3 DEF DecodesAhead, Hungry
  <2>5. Cardinality(DecodesAhead) \in Nat /\ Cardinality(DecodesAhead) # 0
    BY <2>4, AheadIsFinite DEF QInv
  <2>6. step.budget >= step.acct.remaining + Cardinality(DecodesAhead)
    BY <1>7, <2>1 DEF Reserved
  <2>7. step.budget \in Nat /\ step.acct.remaining \in Int /\ step.acct.remaining >= 0
    BY <1>7 DEF TInv, Budget, Account, AccountType
  <2>8. step.budget > 0  BY <2>5, <2>6, <2>7
  <2>9. step.index <= Len(running)
    <3>1. running \in Seq(Request) /\ step.index \in Nat  BY DEF QInv, QTyped
    <3>2. j \in 1..Len(running) /\ Len(running) \in Nat  BY <3>1
    <3> QED  BY <2>3, <3>1, <3>2
  <2> QED  BY <2>1, <2>8, <2>9 DEF InRunningLoop
<1> QED  BY <1>1, <1>5, <1>6, <1>7 DEF Reserved, BatchBudget

\* Everywhere else nothing is to be shown: the loop is not on its way, or
\* somebody was preempted.
LEMMA NextReserved ==
    ASSUME Shallow, PoolInv, QInv, TInv, Reserved, MaxNumRunningReqs <= MaxNumScheduledTokens,
           [Next]_vars
    PROVE  Reserved'
<1>1. DOMAIN step = DOMAIN NoStep  BY DEF QInv, QTyped
<1>2. CASE UNCHANGED vars \/ \E r \in Request : GrammarReady(r)
  <2>1. UNCHANGED <<running, chunk, computed, output, placeholders, step>>
    BY <1>2 DEF vars, GrammarReady, queues, requests
  <2>2. \A r : Hungry(r)' <=> Hungry(r)
    BY <2>1 DEF Hungry, RunningRemaining, NumTokens
  <2>3. Cardinality(DecodesAhead)' = Cardinality(DecodesAhead)  BY <2>1 DEF DecodesAhead
  <2> QED  BY <2>1, <2>2, <2>3 DEF Reserved, BatchBudget
<1>3. CASE StartSchedule  BY <1>3, ReservedStarts
<1>4. CASE RestoreHeld  BY <1>4, ReservedRestored
<1>5. CASE \E r \in Request : RunningSkip(r) \/ RunningSchedule(r)
  BY <1>5, ReservedSkipped, ReservedScheduled
<1>6. CASE \E r, v \in Request : RunningPreempt(r, v)
  <2>1. step'.preempted  BY <1>1, <1>6 DEF RunningPreempt, NoStep
  <2> QED  BY <2>1 DEF Reserved
<1>7. CASE \/ UpdateFromOutput
           \/ \E r \in Request : AddRequest(r) \/ Abort(r) \/ BackoffExpires(r)
           \/ FinishSchedule
  <2>1. step'.phase = "idle"
    <3>1. CASE FinishSchedule
      <4>1. step' = NoStep  BY <3>1 DEF FinishSchedule
      <4> QED  BY <4>1 DEF NoStep
    <3>2. CASE UpdateFromOutput \/ \E r \in Request : AddRequest(r) \/ Abort(r) \/ BackoffExpires(r)
      BY <3>2 DEF UpdateFromOutput, AddRequest, Abort, BackoffExpires, BetweenSteps
    <3> QED  BY <1>7, <3>1, <3>2
  <2> QED  BY <2>1 DEF Reserved
<1>8. CASE \/ SwapReject
           \/ \E c, v \in Request : SwapCommit(c, v) \/ SwapPreflightFails(c, v)
           \/ \E r \in Request : WaitingSkip(r) \/ WaitingAdmit(r) \/ WaitingNoKv(r)
           \/ WaitingDone
  <2>1. step'.phase \in {"waiting", "finish"}
    <3>1. CASE SwapReject \/ \E c, v \in Request : SwapPreflightFails(c, v)
      BY <1>1, <3>1 DEF SwapReject, SwapPreflightFails, WaitingPhase, NoStep
    <3>2. CASE \E c, v \in Request : SwapCommit(c, v)
      BY <1>1, <3>2 DEF SwapCommit, TakenBack, NoStep
    <3>3. CASE \/ \E r \in Request : WaitingSkip(r) \/ WaitingAdmit(r) \/ WaitingNoKv(r)
               \/ WaitingDone
      BY <1>1, <3>3 DEF WaitingSkip, WaitingAdmit, WaitingNoKv, WaitingDone, InWaitingLoop, NoStep
    <3> QED  BY <1>8, <3>1, <3>2, <3>3
  <2> QED  BY <2>1 DEF Reserved
<1> QED  BY <1>2, <1>3, <1>4, <1>5, <1>6, <1>7, <1>8 DEF Next, Engine, ScheduleStep, Environment

LEMMA ReservedStays ==
    ASSUME BatchQueueSize = 1, IsFiniteSet(Request), MaxNumRunningReqs <= MaxNumScheduledTokens
    PROVE  /\ Init => TokenInv /\ Reserved
           /\ TokenInv /\ Reserved /\ [Next]_vars => (TokenInv /\ Reserved)'
           /\ TokenInv /\ Reserved => DecodesAreScheduled
<1>1. Shallow  BY DEF Shallow
<1>2. Init => TokenInv /\ Reserved
  <2>1. Init => Reserved  BY DEF Init, NoStep, Reserved
  <2> QED  BY <1>1, <2>1, TokensStay
<1>3. TokenInv /\ Reserved /\ [Next]_vars => (TokenInv /\ Reserved)'
  BY <1>1, TokensStay, NextReserved DEF TokenInv
<1>4. TokenInv /\ Reserved => DecodesAreScheduled
  <2> SUFFICES ASSUME TokenInv, Reserved, BatchBudget, step.phase = "swap", ~step.preempted,
                      NEW r \in ToSet(running), ~chunk[r]
               PROVE  step.scheduled[r] > 0
    BY DEF DecodesAreScheduled
  <2> SUFFICES ASSUME ~(step.scheduled[r] > 0) PROVE FALSE  OBVIOUS
  <2>1. PoolInv /\ QInv /\ TInv  BY DEF TokenInv
  <2>2. r \in Request /\ status[r] = "RUNNING"
    <3>1. r \in Request  BY <2>1, ElementFacts DEF QInv, QTyped
    <3> QED  BY <2>1, <3>1 DEF QInv, Where
  <2>3. step.scheduled[r] = 0
    <3>1. step.scheduled[r] \in Nat  BY <2>1, <2>2 DEF TInv, Tokens, Types
    <3> QED  BY <3>1
  <2>4. Pending(r) = 0
    <3>1. Pending(r) \in Nat /\ Pending(r) <= Len(inflight)
      BY <2>1, CountFacts DEF Pending, PoolInv
    <3>2. Len(inflight) \in Nat /\ Len(inflight) < 1
      BY <2>1, InflightType DEF TInv, Late
    <3> QED  BY <3>1, <3>2
  <2>5. placeholders[r] = 0
    <3>1. ~AsyncScheduling  BY ConfigAssumption DEF BatchBudget
    <3> QED  BY <2>1, <2>2, <3>1 DEF TInv, Tokens, Owed
  <2>6. Decoding(r)
    <3>1. Decoding(r) \/ Prefilling(r)  BY <2>1, <2>2 DEF TInv, Tokens, Kinds
    <3> QED  BY <2>3, <3>1 DEF Prefilling
  <2>7. NumTokens(r) \in Nat
    <3>1. PromptTokens[r] \in Nat /\ output[r] \in Nat
      BY <2>1, <2>2, RequestAssumption DEF TInv, Tokens, Types
    <3> QED  BY <3>1 DEF NumTokens
  <2>8. RunningRemaining(r) = NumTokens(r) + 0 - (NumTokens(r) + 0 - 1)
    BY <2>4, <2>5, <2>6 DEF RunningRemaining, Decoding
  <2>9. RunningRemaining(r) > 0  BY <2>7, <2>8
  <2> QED  BY <2>9 DEF Reserved, Hungry
<1> QED  BY <1>2, <1>3, <1>4

\* Under the batch budget no decode goes without its token because of
\* prefills, whatever the reserve, the caps and the order of the batch.  Two
\* hypotheses: no batch is in flight while the next is built, for a decode has
\* nothing to compute before its token is known; and a step can hold a token
\* for everyone who runs (config/scheduler.py refuses to start otherwise).
THEOREM DecodesAreServed ==
    ASSUME BatchQueueSize = 1, IsFiniteSet(Request), MaxNumRunningReqs <= MaxNumScheduledTokens
    PROVE  Spec => []DecodesAreScheduled
<1> QED  BY ReservedStays, PTL DEF Spec
=============================================================================
