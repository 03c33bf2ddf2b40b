------------------------- MODULE MCPolicies_proofs -------------------------
(***************************************************************************)
(* The account of one scheduling step, for every order of calls, and then  *)
(* the policies side by side: every instance of MCPolicies meets the       *)
(* assumptions of the module it instantiates, so the inductive invariants  *)
(* proved there are invariants here, each for its policy, whatever the set *)
(* of requests.                                                            *)
(***************************************************************************)
EXTENDS MCPolicies, DataLemmas

-----------------------------------------------------------------------------
(* The account of one step, for every set of requests, every decision and *)
(* every order of calls.                                                  *)

\* The invariant that is proved inductive: the properties themselves, and the
\* fields of the record.
Inv == TypeOK /\ IsAccount(acct) /\ AccountBalances /\ CommittedMatchesBatch

LEMMA InitInv == Init => Inv
  <1> SUFFICES ASSUME Init PROVE Inv
    OBVIOUS
  <1>1. PICK total \in 0..MaxTotal, named \in SUBSET Request : \E caps \in [named -> 0..total] :
           acct = NewAccountant(total, caps)
    BY DEF Init
  <1>2. PICK caps \in [named -> 0..total] : acct = NewAccountant(total, caps)
    BY <1>1
  <1>3. total \in Nat /\ caps \in [named -> Nat] /\ DOMAIN caps = named
    BY MaxTotalAssumption
  <1>4. /\ acct.total = total /\ acct.remaining = total /\ acct.caps = caps
        /\ acct.committed = [r \in named |-> 0] /\ acct.by = [s \in Source |-> 0]
        /\ IsAccount(acct)
    BY <1>2, <1>3 DEF NewAccountant, IsAccount
  <1>5. TypeOK
    BY <1>3, <1>4 DEF TypeOK, Init
  <1>6. AccountBalances
    BY <1>3, <1>4 DEF AccountBalances, Source
  <1>7. CommittedMatchesBatch
    BY <1>3, <1>4 DEF CommittedMatchesBatch, Init, HasCap, Source
  <1> QED
    BY <1>4, <1>5, <1>6, <1>7 DEF Inv

LEMMA ScheduleInv ==
    ASSUME Inv, NEW r \in Request, NEW n \in 1..MaxTotal, NEW source \in Source,
           Schedule(r, n, source)
    PROVE  Inv'
  <1> DEFINE given == Clamp(acct, r, n)
  <1>1. AccountType(acct) /\ acct.remaining >= 0 /\ n \in Nat
    BY MaxTotalAssumption DEF Inv, TypeOK, AccountBalances, AccountType
  <1>2. /\ given \in Nat /\ given > 0 /\ given <= acct.remaining
        /\ r \in DOMAIN acct.caps
        /\ acct.committed[r] + given <= acct.caps[r]
    BY <1>1, ClampBounds DEF Schedule, HasCap
  <1>3. /\ batch["running"][r] = 0 /\ batch["waiting"][r] = 0
        /\ acct.committed[r] = 0
    BY <1>2 DEF Schedule, Source, Inv, CommittedMatchesBatch, HasCap
  <1>4. /\ acct'.total = acct.total
        /\ acct'.remaining = acct.remaining - given
        /\ acct'.caps = acct.caps
        /\ acct'.committed = [acct.committed EXCEPT ![r] = @ + given]
        /\ acct'.by = [acct.by EXCEPT ![source] = @ + given]
        /\ IsAccount(acct')
    BY DEF Schedule, Commit, Inv, IsAccount
  <1>5. batch' = [batch EXCEPT ![source][r] = given]
    BY DEF Schedule
  <1> HIDE DEF given
  <1>6. TypeOK'
    BY <1>2, <1>4, <1>5 DEF Inv, TypeOK
  <1>7. AccountBalances'
    <2>1. acct'.remaining >= 0
      BY <1>1, <1>2, <1>4 DEF AccountType
    <2>2. acct'.remaining + acct'.by["running"] + acct'.by["waiting"] = acct'.total
      BY <1>2, <1>4 DEF Inv, TypeOK, AccountBalances, Source
    <2>3. \A q \in DOMAIN acct'.caps :
             0 <= acct'.committed[q] /\ acct'.committed[q] <= acct'.caps[q]
      BY <1>2, <1>3, <1>4 DEF Inv, TypeOK, AccountBalances
    <2> QED
      BY <2>1, <2>2, <2>3 DEF AccountBalances
  <1>8. CommittedMatchesBatch'
    <2> SUFFICES ASSUME NEW q \in Request
                 PROVE  batch'["running"][q] + batch'["waiting"][q]
                          = IF HasCap(acct', q) THEN acct'.committed[q] ELSE 0
      BY DEF CommittedMatchesBatch
    <2>1. CASE q = r
      BY <2>1, <1>2, <1>3, <1>4, <1>5 DEF Inv, TypeOK, Source, HasCap
    <2>2. CASE q # r
      BY <2>2, <1>4, <1>5 DEF Inv, TypeOK, Source, HasCap, CommittedMatchesBatch
    <2> QED
      BY <2>1, <2>2
  <1> QED
    BY <1>4, <1>6, <1>7, <1>8 DEF Inv

LEMMA TakeBackInv ==
    ASSUME Inv, NEW r \in Request, TakeBack(r)
    PROVE  Inv'
  <1> DEFINE given == batch["running"][r]
  <1>1. given \in Nat /\ given > 0 /\ batch["waiting"][r] \in Nat
    BY DEF TakeBack, Inv, TypeOK, Source
  <1>2. r \in DOMAIN acct.caps /\ given + batch["waiting"][r] = acct.committed[r]
    BY <1>1 DEF Inv, CommittedMatchesBatch, HasCap
  <1>3. Restored(acct, r, given) = given
    BY <1>1, <1>2, RestoredBounds DEF Inv, TypeOK, AccountBalances, AccountType, HasCap
  <1>4. /\ acct'.total = acct.total
        /\ acct'.remaining = acct.remaining + given
        /\ acct'.caps = acct.caps
        /\ acct'.committed = [q \in DOMAIN acct.caps |->
                                 IF q = r THEN acct.committed[q] - given ELSE acct.committed[q]]
        /\ acct'.by = [acct.by EXCEPT !["running"] = @ - given]
        /\ IsAccount(acct')
    BY <1>3 DEF TakeBack, Restore, Inv, IsAccount
  <1>5. batch' = [batch EXCEPT !["running"][r] = 0]
    BY DEF TakeBack
  <1> HIDE DEF given
  <1>6. TypeOK'
    BY <1>1, <1>4, <1>5 DEF Inv, TypeOK, Source
  <1>7. AccountBalances'
    BY <1>1, <1>2, <1>4 DEF Inv, TypeOK, AccountBalances, Source
  <1>8. CommittedMatchesBatch'
    <2> SUFFICES ASSUME NEW q \in Request
                 PROVE  batch'["running"][q] + batch'["waiting"][q]
                          = IF HasCap(acct', q) THEN acct'.committed[q] ELSE 0
      BY DEF CommittedMatchesBatch
    <2>1. CASE q = r
      BY <2>1, <1>1, <1>2, <1>4, <1>5 DEF Inv, TypeOK, Source, HasCap
    <2>2. CASE q # r
      BY <2>2, <1>4, <1>5 DEF Inv, TypeOK, Source, HasCap, CommittedMatchesBatch
    <2> QED
      BY <2>1, <2>2
  <1> QED
    BY <1>4, <1>6, <1>7, <1>8 DEF Inv

LEMMA NextInv == Inv /\ [Next]_vars => Inv'
  <1> SUFFICES ASSUME Inv, [Next]_vars PROVE Inv'
    OBVIOUS
  <1>1. CASE \E r \in Request, n \in 1..MaxTotal, s \in Source : Schedule(r, n, s)
    BY <1>1, ScheduleInv
  <1>2. CASE \E r \in Request : TakeBack(r)
    BY <1>2, TakeBackInv
  <1>3. CASE UNCHANGED vars
    BY <1>3 DEF vars, Inv, TypeOK, IsAccount, AccountBalances, CommittedMatchesBatch, HasCap
  <1> QED
    BY <1>1, <1>2, <1>3 DEF Next

\* The account of a step stays well-formed.
THEOREM TypeCorrect == Spec => []TypeOK
  <1>1. Inv => TypeOK
    BY DEF Inv
  <1> QED
    BY <1>1, InitInv, NextInv, PTL DEF Spec

\* assert_invariants() cannot fail request by request and source by source: no
\* order of scheduling and preemption overdraws the prefill budget of a step
\* or a request's cap.
THEOREM BudgetNeverOverdrawn == Spec => []AccountBalances
  <1>1. Inv => AccountBalances
    BY DEF Inv
  <1> QED
    BY <1>1, InitInv, NextInv, PTL DEF Spec

\* The account of a step is balanced and agrees with the batch, in any order of
\* calls and for any caps.
THEOREM AccountIsKept == Spec => []AccountKept
  <1>1. Inv => AccountKept
    BY DEF Inv, AccountKept
  <1> QED
    BY <1>1, InitInv, NextInv, PTL DEF Spec

\* The account holds for each request exactly what the batch gives it.
THEOREM AccountFollowsBatch == Spec => []CommittedMatchesBatch
  <1>1. Inv => CommittedMatchesBatch
    BY DEF Inv
  <1> QED
    BY <1>1, InitInv, NextInv, PTL DEF Spec

\* The sums agree when the account opens.
LEMMA InitSums == ASSUME IsFiniteSet(Request), Init PROVE SumsMatchBatch
<1>1. PICK total \in 0..MaxTotal, named \in SUBSET Request : \E caps \in [named -> 0..total] :
         acct = NewAccountant(total, caps)
  BY DEF Init
<1>2. PICK caps \in [named -> 0..total] : acct = NewAccountant(total, caps)
  BY <1>1
<1>3. /\ acct.committed = [r \in named |-> 0] /\ acct.by = [s \in Source |-> 0]
      /\ batch = [s \in Source |-> [r \in Request |-> 0]]
  BY <1>2 DEF NewAccountant, Init
<1>4. CommittedTokens(acct) = 0
  <2>1. DOMAIN acct.committed = named /\ \A r \in named : acct.committed[r] = 0  BY <1>3
  <2>2. IsFiniteSet(named)  BY FS_Subset
  <2> QED  BY <2>1, <2>2, SumZero DEF CommittedTokens, SumFunction
<1>5. ASSUME NEW s \in Source PROVE SumFunction(batch[s]) = 0
  <2> DEFINE f == batch[s]
  <2>1. DOMAIN f = Request /\ \A r \in Request : f[r] = 0  BY <1>3
  <2> HIDE DEF f
  <2>2. SumFunction(f) = 0  BY <2>1, SumZero DEF SumFunction
  <2> QED  BY <2>2 DEF f
<1> QED  BY <1>3, <1>4, <1>5 DEF SumsMatchBatch, Source

\* A commit adds its tokens to all three sums.
LEMMA ScheduleSums ==
    ASSUME IsFiniteSet(Request), Inv, SumsMatchBatch,
           NEW r \in Request, NEW n \in 1..MaxTotal, NEW source \in Source,
           Schedule(r, n, source)
    PROVE  SumsMatchBatch'
<1> DEFINE given == Clamp(acct, r, n)
<1>1. AccountType(acct) /\ acct.remaining >= 0 /\ n \in Nat
  BY MaxTotalAssumption DEF Inv, TypeOK, AccountBalances, AccountType
<1>2. given \in Nat /\ r \in DOMAIN acct.caps
  BY <1>1, ClampBounds DEF Schedule, HasCap
<1>3. \A s \in Source : batch[s][r] = 0  BY DEF Schedule
<1>4. /\ acct'.committed = [acct.committed EXCEPT ![r] = acct.committed[r] + given]
      /\ acct'.by = [acct.by EXCEPT ![source] = acct.by[source] + given]
      /\ batch' = [batch EXCEPT ![source][r] = given]
  BY DEF Schedule, Commit, Inv, IsAccount
<1> HIDE DEF given
<1>5. /\ acct.by \in [Source -> Int] /\ acct.committed \in [DOMAIN acct.caps -> Int]
      /\ batch \in [Source -> [Request -> Nat]] /\ DOMAIN acct.caps \subseteq Request
  BY DEF Inv, TypeOK
<1>6. CommittedTokens(acct') = CommittedTokens(acct) + given
  <2>1. IsFiniteSet(DOMAIN acct.caps)  BY <1>5, FS_Subset
  <2>2. acct.committed[r] \in Int /\ acct.committed[r] + given \in Int  BY <1>2, <1>5
  <2>3. /\ SumFunction(acct.committed) \in Int
        /\ SumFunction([acct.committed EXCEPT ![r] = acct.committed[r] + given])
             = SumFunction(acct.committed) - acct.committed[r] + (acct.committed[r] + given)
    BY <1>2, <1>5, <2>1, <2>2, SumUpdate
  <2> QED  BY <1>2, <1>4, <2>2, <2>3 DEF CommittedTokens
<1>7. ASSUME NEW s \in Source
      PROVE  SumFunction(batch'[s]) = SumFunction(batch[s]) + (IF s = source THEN given ELSE 0)
  <2> DEFINE f == batch[s]
  <2>1. f \in [Request -> Int] /\ f[r] = 0 /\ given \in Int  BY <1>2, <1>3, <1>5
  <2>2. batch'[s] = IF s = source THEN [f EXCEPT ![r] = given] ELSE f  BY <1>4, <1>5
  <2> HIDE DEF f
  <2>3. SumFunction(f) \in Int /\ SumFunction([f EXCEPT ![r] = given]) = SumFunction(f) - f[r] + given
    BY <2>1, SumUpdate
  <2> QED  BY <1>2, <2>1, <2>2, <2>3 DEF f
<1>8. \A s \in Source : acct'.by[s] = acct.by[s] + (IF s = source THEN given ELSE 0)
  BY <1>2, <1>4, <1>5
<1>9. /\ \A s \in Source : acct.by[s] = SumFunction(batch[s])
      /\ CommittedTokens(acct) = acct.by["running"] + acct.by["waiting"]
  BY DEF SumsMatchBatch
<1>10. acct.by["running"] \in Int /\ acct.by["waiting"] \in Int  BY <1>5 DEF Source
<1>11. CommittedTokens(acct') = acct'.by["running"] + acct'.by["waiting"]
  BY <1>2, <1>6, <1>8, <1>9, <1>10 DEF Source
<1>12. \A s \in Source : acct'.by[s] = SumFunction(batch'[s])  BY <1>7, <1>8, <1>9
<1> QED  BY <1>11, <1>12 DEF SumsMatchBatch

\* What is taken back leaves the committed and the running sum.
LEMMA TakeBackSums ==
    ASSUME IsFiniteSet(Request), Inv, SumsMatchBatch, NEW r \in Request, TakeBack(r)
    PROVE  SumsMatchBatch'
<1> DEFINE given == batch["running"][r]
<1>1. given \in Nat /\ given > 0 /\ batch["waiting"][r] \in Nat
  BY DEF TakeBack, Inv, TypeOK, Source
<1>2. r \in DOMAIN acct.caps /\ given + batch["waiting"][r] = acct.committed[r]
  BY <1>1 DEF Inv, CommittedMatchesBatch, HasCap
<1>3. Restored(acct, r, given) = given
  BY <1>1, <1>2, RestoredBounds DEF Inv, TypeOK, AccountBalances, AccountType, HasCap
<1>4. /\ acct'.committed = [q \in DOMAIN acct.caps |->
                               IF q = r THEN acct.committed[q] - given ELSE acct.committed[q]]
      /\ acct'.by = [acct.by EXCEPT !["running"] = acct.by["running"] - given]
      /\ batch' = [batch EXCEPT !["running"][r] = 0]
  BY <1>3 DEF TakeBack, Restore, Inv, IsAccount
<1>5. /\ acct.by \in [Source -> Int] /\ acct.committed \in [DOMAIN acct.caps -> Int]
      /\ batch \in [Source -> [Request -> Nat]] /\ DOMAIN acct.caps \subseteq Request
  BY DEF Inv, TypeOK
<1>6. CommittedTokens(acct') = CommittedTokens(acct) - given
  <2> HIDE DEF given
  <2>1. IsFiniteSet(DOMAIN acct.caps)  BY <1>5, FS_Subset
  <2>2. acct.committed[r] \in Int /\ acct.committed[r] - given \in Int  BY <1>1, <1>2, <1>5
  <2>3. acct'.committed = [acct.committed EXCEPT ![r] = acct.committed[r] - given]
    BY <1>4, <1>5
  <2>4. /\ SumFunction(acct.committed) \in Int
        /\ SumFunction([acct.committed EXCEPT ![r] = acct.committed[r] - given])
             = SumFunction(acct.committed) - acct.committed[r] + (acct.committed[r] - given)
    BY <1>2, <1>5, <2>1, <2>2, SumUpdate
  <2> QED  BY <1>1, <2>2, <2>3, <2>4 DEF CommittedTokens
<1>7. SumFunction(batch'["running"]) = SumFunction(batch["running"]) - given
  <2> DEFINE f == batch["running"]
  <2>1. f \in [Request -> Int] /\ f[r] = given /\ 0 \in Int  BY <1>5 DEF Source
  <2>2. batch'["running"] = [f EXCEPT ![r] = 0]  BY <1>4, <1>5 DEF Source
  <2> HIDE DEF f, given
  <2>3. SumFunction(f) \in Int /\ SumFunction([f EXCEPT ![r] = 0]) = SumFunction(f) - f[r] + 0
    BY <2>1, SumUpdate
  <2> QED  BY <1>1, <2>1, <2>2, <2>3 DEF f
<1> HIDE DEF given
<1>8. batch'["waiting"] = batch["waiting"]  BY <1>4, <1>5 DEF Source
<1>9. acct'.by["running"] = acct.by["running"] - given /\ acct'.by["waiting"] = acct.by["waiting"]
  BY <1>4, <1>5 DEF Source
<1>10. /\ \A s \in Source : acct.by[s] = SumFunction(batch[s])
       /\ CommittedTokens(acct) = acct.by["running"] + acct.by["waiting"]
  BY DEF SumsMatchBatch
<1>11. acct.by["running"] \in Int /\ acct.by["waiting"] \in Int  BY <1>5 DEF Source
<1>12. CommittedTokens(acct') = acct'.by["running"] + acct'.by["waiting"]
  BY <1>1, <1>6, <1>9, <1>10, <1>11
<1>13. \A s \in Source : acct'.by[s] = SumFunction(batch'[s])
  BY <1>7, <1>8, <1>9, <1>10 DEF Source
<1> QED  BY <1>12, <1>13 DEF SumsMatchBatch

LEMMA SumsStay ==
    ASSUME IsFiniteSet(Request)
    PROVE  /\ Init => Inv /\ SumsMatchBatch
           /\ Inv /\ SumsMatchBatch /\ [Next]_vars => (Inv /\ SumsMatchBatch)'
<1>1. Init => Inv /\ SumsMatchBatch  BY InitInv, InitSums
<1>2. Inv /\ SumsMatchBatch /\ [Next]_vars => (Inv /\ SumsMatchBatch)'
  <2> SUFFICES ASSUME Inv, SumsMatchBatch, [Next]_vars PROVE SumsMatchBatch'
    BY NextInv
  <2>1. CASE \E r \in Request, n \in 1..MaxTotal, s \in Source : Schedule(r, n, s)
    BY <2>1, ScheduleSums
  <2>2. CASE \E r \in Request : TakeBack(r)  BY <2>2, TakeBackSums
  <2>3. CASE UNCHANGED vars  BY <2>3 DEF vars, SumsMatchBatch, CommittedTokens
  <2> QED  BY <2>1, <2>2, <2>3 DEF Next
<1> QED  BY <1>1, <1>2

\* The sums that assert_invariants() compares are equal in every order of
\* calls: each source's counter is what the batch holds from it, and the two
\* counters are the tokens committed.
THEOREM AccountSums ==
    ASSUME IsFiniteSet(Request)
    PROVE  Spec => []SumsMatchBatch
<1> QED  BY SumsStay, PTL DEF Spec

-----------------------------------------------------------------------------
(* The instances: their constants are ones the engine could be started with. *)

LEMMA BudgetConstants ==
    /\ B!RequestAssumption /\ B!PoolAssumption /\ B!BudgetAssumption
    /\ B!PipelineAssumption /\ B!ConfigAssumption
<1>1. B!RequestAssumption  BY DEF B!RequestAssumption, LongFirst, Tokens
<1>2. B!PoolAssumption  BY DEF B!PoolAssumption, LongFirst, Tokens
<1>3. B!BudgetAssumption  BY DEF B!BudgetAssumption, B!PolicyModes
<1>4. B!PipelineAssumption  BY DEF B!PipelineAssumption
<1>5. B!ConfigAssumption  BY DEF B!ConfigAssumption
<1> QED  BY <1>1, <1>2, <1>3, <1>4, <1>5

LEMMA PredictiveConstants ==
    /\ P!RequestAssumption /\ P!PoolAssumption /\ P!BudgetAssumption
    /\ P!PipelineAssumption /\ P!ConfigAssumption
<1>1. P!RequestAssumption
  BY PromptsAssumption DEF P!RequestAssumption, MixedPrompts, Tokens
<1>2. P!PoolAssumption  BY DEF P!PoolAssumption, MixedPrompts, Tokens
<1>3. P!BudgetAssumption  BY DEF P!BudgetAssumption, P!PolicyModes
<1>4. P!PipelineAssumption  BY DEF P!PipelineAssumption
<1>5. P!ConfigAssumption  BY DEF P!ConfigAssumption
<1> QED  BY <1>1, <1>2, <1>3, <1>4, <1>5

\* The invariants of the batch-budget policy.
LEMMA BudgetStays ==
    /\ B!Init => B!TokenInv /\ B!Reserved
    /\ B!TokenInv /\ B!Reserved /\ [B!Next]_B!vars => (B!TokenInv /\ B!Reserved)'
    /\ B!TokenInv /\ B!Reserved =>
         /\ B!BudgetConserved /\ B!AccountMatchesBatch /\ B!AdmissionsGetTokens
         /\ B!DecodesAreScheduled /\ B!QueuesMatchStatus /\ B!BlocksPartition
<1>1. B!IsFiniteSet(Request)  BY PromptsAssumption DEF IsFiniteSet, B!IsFiniteSet
<1>2. B!Shallow  BY DEF B!Shallow
<1>3. /\ B!Init => B!TokenInv /\ B!Reserved
      /\ B!TokenInv /\ B!Reserved /\ [B!Next]_B!vars => (B!TokenInv /\ B!Reserved)'
      /\ B!TokenInv /\ B!Reserved => B!DecodesAreScheduled
  BY <1>1, BudgetConstants, B!ReservedStays
<1>4. ASSUME B!TokenInv
      PROVE  /\ B!BudgetConserved /\ B!AccountMatchesBatch /\ B!AdmissionsGetTokens
             /\ B!QueuesMatchStatus /\ B!BlocksPartition
  <2>1. B!BudgetConserved  BY <1>4 DEF B!TokenInv, B!TInv, B!Budget
  <2>2. B!AccountMatchesBatch  BY <1>4, BudgetConstants, B!AccountImplied
  <2>3. B!AdmissionsGetTokens
    BY <1>1, <1>2, <1>4, BudgetConstants, B!AdmissionsGet DEF B!TokenInv
  <2>4. B!QueuesMatchStatus  BY <1>4, BudgetConstants, B!QueuesImplied DEF B!TokenInv
  <2>5. B!BlocksPartition  BY <1>4, BudgetConstants, B!PoolInvImplies DEF B!TokenInv
  <2> QED  BY <2>1, <2>2, <2>3, <2>4, <2>5
<1> QED  BY <1>3, <1>4

\* Those of the predictive one.
LEMMA PredictiveStays ==
    /\ P!Init => P!TokenInv /\ P!LeadInv
    /\ P!TokenInv /\ P!LeadInv /\ [P!Next]_P!vars => (P!TokenInv /\ P!LeadInv)'
    /\ P!TokenInv /\ P!LeadInv =>
         P!AdmissionsGetTokens /\ P!PreemptedComeFirst /\ P!QueuesMatchStatus
<1>1. P!IsFiniteSet(Request)  BY PromptsAssumption DEF IsFiniteSet, P!IsFiniteSet
<1>2. P!Shallow /\ P!SmallDepth  BY DEF P!Shallow, P!SmallDepth
<1>3. /\ P!Init => P!TokenInv
      /\ P!TokenInv /\ [P!Next]_P!vars => P!TokenInv'
  BY <1>1, <1>2, PredictiveConstants, P!TokensStay
<1>4. /\ P!Init => P!LeadInv
      /\ P!LeadInv /\ [P!Next]_P!vars => P!LeadInv'
      /\ P!LeadInv => P!PreemptedComeFirst
  BY <1>2, PredictiveConstants, P!LeadStays
<1>5. ASSUME P!TokenInv PROVE P!AdmissionsGetTokens /\ P!QueuesMatchStatus
  <2>1. P!AdmissionsGetTokens
    BY <1>1, <1>2, <1>5, PredictiveConstants, P!AdmissionsGet DEF P!TokenInv
  <2>2. P!QueuesMatchStatus  BY <1>5, PredictiveConstants, P!QueuesImplied DEF P!TokenInv
  <2> QED  BY <2>1, <2>2
<1> QED  BY <1>3, <1>4, <1>5

\* Those of the concurrent-prefill schedulers.
LEMMA PatchesStay ==
    /\ /\ V24!Init => V24!CInv /\ V24!Limits /\ V24!Shares
       /\ V24!CInv /\ V24!Limits /\ V24!Shares /\ [V24!Next]_V24!concurrentVars
            => (V24!CInv /\ V24!Limits /\ V24!Shares)'
       /\ V24!CInv /\ V24!Limits /\ V24!Shares =>
            V24!QueuesAreExact /\ V24!PartialsWithinLimit /\ V24!PrefillsShareTheBudget
    /\ /\ V23!Init => V23!CInv /\ V23!Limits
       /\ V23!CInv /\ V23!Limits /\ [V23!Next]_V23!concurrentVars => (V23!CInv /\ V23!Limits)'
       /\ V23!CInv /\ V23!Limits => V23!QueuesAreExact /\ V23!PartialsWithinLimit
    /\ /\ Cap!Init => Cap!CInv
       /\ Cap!CInv /\ [Cap!Next]_Cap!concurrentVars => Cap!CInv'
       /\ Cap!CInv => Cap!QueuesAreExact
<1>1. /\ V24!Init => V24!CInv /\ V24!Limits /\ V24!Shares
      /\ V24!CInv /\ V24!Limits /\ V24!Shares /\ [V24!Next]_V24!concurrentVars
           => (V24!CInv /\ V24!Limits /\ V24!Shares)'
  BY PatchesAssumption, V24!SharesStay
<1>2. V24!CInv /\ V24!Limits /\ V24!Shares =>
        V24!QueuesAreExact /\ V24!PartialsWithinLimit /\ V24!PrefillsShareTheBudget
  BY PatchesAssumption, V24!QueuesImplied, V24!LimitsStay DEF V24!Shares
<1>3. /\ V23!Init => V23!CInv /\ V23!Limits
      /\ V23!CInv /\ V23!Limits /\ [V23!Next]_V23!concurrentVars => (V23!CInv /\ V23!Limits)'
      /\ V23!CInv /\ V23!Limits => V23!QueuesAreExact /\ V23!PartialsWithinLimit
  BY PatchesAssumption, V23!QueuesImplied, V23!LimitsStay
<1>4. /\ Cap!Init => Cap!CInv
      /\ Cap!CInv /\ [Cap!Next]_Cap!concurrentVars => Cap!CInv'
      /\ Cap!CInv => Cap!QueuesAreExact
  BY PatchesAssumption, Cap!InitC, Cap!CStep, Cap!QueuesImplied
<1> QED  BY <1>1, <1>2, <1>3, <1>4

-----------------------------------------------------------------------------
(* The policies together.                                                  *)

PoliciesInv ==
    /\ policy = "batch-budget" => B!TokenInv /\ B!Reserved
    /\ policy = "predictive" => P!TokenInv /\ P!LeadInv
    /\ policy = "accountant" => Inv /\ SumsMatchBatch
    /\ policy = "v024" => V24!CInv /\ V24!Limits /\ V24!Shares
    /\ policy = "v023" => V23!CInv /\ V23!Limits
    /\ policy = "cap" => Cap!CInv

LEMMA PoliciesStart == PoliciesInit => PoliciesInv
<1> SUFFICES ASSUME PoliciesInit PROVE PoliciesInv  OBVIOUS
<1>1. ASSUME policy = "batch-budget" PROVE B!TokenInv /\ B!Reserved
  <2>1. B!Init  BY <1>1 DEF PoliciesInit
  <2> QED  BY <2>1, BudgetStays
<1>2. ASSUME policy = "predictive" PROVE P!TokenInv /\ P!LeadInv
  <2>1. P!Init  BY <1>2 DEF PoliciesInit
  <2> QED  BY <2>1, PredictiveStays
<1>3. ASSUME policy = "accountant" PROVE Inv /\ SumsMatchBatch
  <2>1. Init  BY <1>3 DEF PoliciesInit
  <2> QED  BY <2>1, SumsStay, PromptsAssumption
<1>4. ASSUME policy = "v024" PROVE V24!CInv /\ V24!Limits /\ V24!Shares
  <2>1. V24!Init  BY <1>4 DEF PoliciesInit, ConcurrentInit
  <2> QED  BY <2>1, PatchesStay
<1>5. ASSUME policy = "v023" PROVE V23!CInv /\ V23!Limits
  <2>1. V24!Init  BY <1>5 DEF PoliciesInit, ConcurrentInit
  <2>2. V23!Init  BY <2>1 DEF V24!Init, V23!Init, V24!NoStep, V23!NoStep
  <2> QED  BY <2>2, PatchesStay
<1>6. ASSUME policy = "cap" PROVE Cap!CInv
  <2>1. V24!Init  BY <1>6 DEF PoliciesInit, ConcurrentInit
  <2>2. Cap!Init  BY <2>1 DEF V24!Init, Cap!Init, V24!NoStep, Cap!NoStep
  <2> QED  BY <2>2, PatchesStay
<1> QED  BY <1>1, <1>2, <1>3, <1>4, <1>5, <1>6 DEF PoliciesInv

\* A step is a step of the policy in force, or a stutter of it.
LEMMA PolicySteps ==
    ASSUME [PoliciesNext]_<<policy, vars, schedulerVars, age>>
    PROVE  /\ policy' = policy
           /\ policy = "batch-budget" => [B!Next]_B!vars
           /\ policy = "predictive" => [P!Next]_P!vars
           /\ policy = "accountant" => [Next]_vars
           /\ policy = "v024" => [V24!Next]_V24!concurrentVars
           /\ policy = "v023" => [V23!Next]_V23!concurrentVars
           /\ policy = "cap" => [Cap!Next]_Cap!concurrentVars
<1>1. policy' = policy  BY DEF PoliciesNext
<1>2. CASE PoliciesNext  BY <1>1, <1>2 DEF PoliciesNext
<1>3. CASE UNCHANGED <<policy, vars, schedulerVars, age>>
  <2>1. UNCHANGED B!vars
    BY <1>3 DEF schedulerVars, B!vars, B!queues, B!requests, B!swaps, B!pool, B!fences
  <2>2. UNCHANGED P!vars
    BY <1>3 DEF schedulerVars, P!vars, P!queues, P!requests, P!swaps, P!pool, P!fences
  <2>3. UNCHANGED V24!concurrentVars /\ UNCHANGED V23!concurrentVars
        /\ UNCHANGED Cap!concurrentVars
    BY <1>3 DEF schedulerVars, V24!concurrentVars, V23!concurrentVars, Cap!concurrentVars
  <2> QED  BY <1>1, <1>3, <2>1, <2>2, <2>3
<1> QED  BY <1>2, <1>3

LEMMA PoliciesStep ==
    PoliciesInv /\ [PoliciesNext]_<<policy, vars, schedulerVars, age>> => PoliciesInv'
<1> SUFFICES ASSUME PoliciesInv, [PoliciesNext]_<<policy, vars, schedulerVars, age>>
             PROVE  PoliciesInv'
  OBVIOUS
<1>1. policy' = policy  BY PolicySteps
<1>2. ASSUME policy = "batch-budget" PROVE (B!TokenInv /\ B!Reserved)'
  BY <1>2, PolicySteps, BudgetStays DEF PoliciesInv
<1>3. ASSUME policy = "predictive" PROVE (P!TokenInv /\ P!LeadInv)'
  BY <1>3, PolicySteps, PredictiveStays DEF PoliciesInv
<1>4. ASSUME policy = "accountant" PROVE (Inv /\ SumsMatchBatch)'
  BY <1>4, PolicySteps, SumsStay, PromptsAssumption DEF PoliciesInv
<1>5. ASSUME policy = "v024" PROVE (V24!CInv /\ V24!Limits /\ V24!Shares)'
  BY <1>5, PolicySteps, PatchesStay DEF PoliciesInv
<1>6. ASSUME policy = "v023" PROVE (V23!CInv /\ V23!Limits)'
  BY <1>6, PolicySteps, PatchesStay DEF PoliciesInv
<1>7. ASSUME policy = "cap" PROVE Cap!CInv'
  BY <1>7, PolicySteps, PatchesStay DEF PoliciesInv
<1> QED  BY <1>1, <1>2, <1>3, <1>4, <1>5, <1>6, <1>7 DEF PoliciesInv

\* Under the batch budget the tokens of a step add up to its budget through
\* every grant, restore, swap and preemption, and the account agrees with the
\* batch, in its sums too.
THEOREM PoliciesConserveTheBudget == PoliciesSpec => []BudgetConserved
<1>1. PoliciesInv => BudgetConserved
  BY BudgetStays DEF PoliciesInv, BudgetConserved, Inv
<1> QED  BY <1>1, PoliciesStart, PoliciesStep, PTL DEF PoliciesSpec

\* No admission is left with 0 tokens under the batch-budget and the
\* predictive policy; a decode gets its token under the batch budget, and
\* every prefill that runs gets some under v024.
THEOREM PoliciesShareTheTokens == PoliciesSpec => []TokensAreShared
<1>1. PoliciesInv => TokensAreShared
  BY BudgetStays, PredictiveStays, PatchesStay DEF PoliciesInv, TokensAreShared
<1> QED  BY <1>1, PoliciesStart, PoliciesStep, PTL DEF PoliciesSpec

\* The promotion of the predictive policy overtakes no preempted request.
THEOREM PoliciesLeadWithPreempted == PoliciesSpec => []PreemptedComeFirst
<1>1. PoliciesInv => PreemptedComeFirst
  BY PredictiveStays DEF PoliciesInv, PreemptedComeFirst
<1> QED  BY <1>1, PoliciesStart, PoliciesStep, PTL DEF PoliciesSpec

\* A request is in the one queue its status names, once, under every policy
\* and every patch, and no block is lost on the way.
THEOREM PoliciesKeepTheirQueues == PoliciesSpec => []QueuesMatchStatus
<1>1. PoliciesInv => QueuesMatchStatus
  BY BudgetStays, PredictiveStays, PatchesStay DEF PoliciesInv, QueuesMatchStatus
<1> QED  BY <1>1, PoliciesStart, PoliciesStep, PTL DEF PoliciesSpec

\* No more prefills, and no more long ones, are under way between two steps
\* than max_num_partial_prefills and max_long_partial_prefills.
THEOREM PoliciesLimitThePartials == PoliciesSpec => []PartialsWithinLimit
<1>1. PoliciesInv => PartialsWithinLimit
  BY PatchesStay DEF PoliciesInv, PartialsWithinLimit
<1> QED  BY <1>1, PoliciesStart, PoliciesStep, PTL DEF PoliciesSpec
=============================================================================
