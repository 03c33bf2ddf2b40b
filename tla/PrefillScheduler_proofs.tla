----------------------- MODULE PrefillScheduler_proofs -----------------------
(***************************************************************************)
(* The blocks and the queues of the scheduler, for every set of requests,  *)
(* every pool, policy and pipeline depth: KV blocks are conserved, a batch *)
(* in flight keeps the blocks it writes, a request is in the queue its     *)
(* status names, preempted ones are ahead, and each step is one of         *)
(* InferenceService or a stutter.                                          *)
(*                                                                         *)
(* BlocksPartition needs little to be inductive: the blocks' types, and    *)
(* that the batches in flight name requests.  Only three operators move    *)
(* blocks (Allocate, FreeRequestBlocks, and the draining of the deferred   *)
(* frees), so there is a lemma for each, and the actions cite them.        *)
(***************************************************************************)
EXTENDS PrefillScheduler, DataLemmas, FiniteSetTheorems

DeferredFree == [fence : Nat, blocks : SUBSET Block]

Batch == [requests : SUBSET Request, emits : SUBSET Request, touches : SUBSET Block, seq : Nat]

\* BlocksPartition of any assignment of blocks.
Partitioned(owned, free, late) ==
    /\ \A r, q \in Request : r # q => owned[r] \cap owned[q] = {}
    /\ \A r \in Request : owned[r] \cap free = {}
    /\ \A i \in DOMAIN late :
         /\ late[i].blocks \cap free = {}
         /\ \A r \in Request : late[i].blocks \cap owned[r] = {}
         /\ \A j \in DOMAIN late : i # j => late[i].blocks \cap late[j].blocks = {}
    /\ Block = free \cup (UNION {owned[r] : r \in Request})
                 \cup (UNION {late[i].blocks : i \in DOMAIN late})

PoolOf(owned, free, late) ==
    /\ owned \in [Request -> SUBSET Block]
    /\ free \in SUBSET Block
    /\ late \in Seq(DeferredFree)
    /\ Partitioned(owned, free, late)

PoolInv ==
    /\ PoolOf(blocks, freeBlocks, deferred)
    /\ schedSeq \in Nat
    /\ inflight \in Seq(Batch)

LEMMA PoolInvImplies == PoolInv => BlocksPartition
  BY DEF PoolInv, PoolOf, Partitioned, BlocksPartition, OwnedBlocks

LEMMA InitPool == Init => PoolInv
  <1> SUFFICES ASSUME Init PROVE PoolInv
    OBVIOUS
  <1>1. /\ blocks = [r \in Request |-> {}] /\ freeBlocks = Block /\ deferred = <<>>
        /\ schedSeq = 0 /\ inflight = <<>>
    BY DEF Init
  <1>2. DOMAIN deferred = {}
    BY <1>1
  <1>3. Partitioned(blocks, freeBlocks, deferred)
    BY <1>1, <1>2 DEF Partitioned
  <1> QED
    BY <1>1, <1>3 DEF PoolInv, PoolOf

-----------------------------------------------------------------------------
(* The operators that move blocks *)

\* allocate_slots gives a request blocks that nobody else has.
LEMMA AllocatePool ==
    ASSUME PoolOf(blocks, freeBlocks, deferred), NEW r \in Request, NEW tokens,
           Allocate(r, tokens)
    PROVE  PoolOf(blocks', freeBlocks', deferred')
  <1> DEFINE new == TakeBlocks(MoreBlocks(r, tokens))
  <1>1. new \subseteq freeBlocks
    BY DEF TakeBlocks
  <1>2. /\ blocks' = [blocks EXCEPT ![r] = @ \cup new]
        /\ freeBlocks' = freeBlocks \ new
        /\ deferred' = deferred
    BY DEF Allocate
  <1> HIDE DEF new
  <1>3. /\ blocks' \in [Request -> SUBSET Block] /\ freeBlocks' \in SUBSET Block
        /\ deferred' \in Seq(DeferredFree)
    BY <1>1, <1>2 DEF PoolOf
  <1>4. /\ blocks'[r] = blocks[r] \cup new
        /\ \A q \in Request : q # r => blocks'[q] = blocks[q]
    BY <1>2 DEF PoolOf
  <1>5. \A q, s \in Request : q # s => blocks'[q] \cap blocks'[s] = {}
    BY <1>1, <1>4 DEF PoolOf, Partitioned
  <1>6. \A q \in Request : blocks'[q] \cap freeBlocks' = {}
    BY <1>1, <1>2, <1>4 DEF PoolOf, Partitioned
  <1>7. \A i \in DOMAIN deferred' :
          /\ deferred'[i].blocks \cap freeBlocks' = {}
          /\ \A q \in Request : deferred'[i].blocks \cap blocks'[q] = {}
          /\ \A j \in DOMAIN deferred' : i # j => deferred'[i].blocks \cap deferred'[j].blocks = {}
    BY <1>1, <1>2, <1>4 DEF PoolOf, Partitioned
  <1>8. freeBlocks' \cup (UNION {blocks'[q] : q \in Request})
          = freeBlocks \cup (UNION {blocks[q] : q \in Request})
    BY <1>1, <1>2, <1>4
  <1> QED
    BY <1>2, <1>3, <1>5, <1>6, <1>7, <1>8 DEF PoolOf, Partitioned

\* _free_request_blocks puts every block of the requests either in the pool or
\* in one new deferred free.
LEMMA FreeRequestBlocksPool ==
    ASSUME NEW R \in SUBSET Request, NEW done, NEW pooled, NEW pending,
           PoolOf(blocks, pooled, pending), schedSeq \in Nat,
           FreeRequestBlocks(R, done, pooled, pending)
    PROVE  PoolOf(blocks', freeBlocks', deferred')
  <1> DEFINE late  == {r \in R : DeferBlockFree /\ lastSeq[r] > done /\ blocks[r] # {}}
             given == (UNION {blocks[r] : r \in R \ late})
             held  == (UNION {blocks[r] : r \in late})
             entry == [fence |-> schedSeq, blocks |-> held]
  <1>1. /\ blocks' = [r \in Request |-> IF r \in R THEN {} ELSE blocks[r]]
        /\ freeBlocks' = pooled \cup given
        /\ deferred' = IF late = {} THEN pending ELSE Append(pending, entry)
    BY DEF FreeRequestBlocks, OwnedBlocks
  <1>2. late \subseteq R
    OBVIOUS
  <1> HIDE DEF late
  <1>3. /\ \A r \in R : blocks[r] \subseteq given \cup held
        /\ \A b \in given : \E r \in R : b \in blocks[r]
        /\ \A b \in held : \E r \in R : b \in blocks[r]
        /\ given \subseteq Block /\ held \subseteq Block
    BY <1>2 DEF PoolOf
  <1>4. given \cap held = {}
    BY <1>2 DEF PoolOf, Partitioned
  <1>5. late = {} => held = {}
    OBVIOUS
  <1>6. /\ \A r \in Request \ R : blocks[r] \cap given = {} /\ blocks[r] \cap held = {}
        /\ pooled \cap given = {} /\ pooled \cap held = {}
        /\ \A i \in DOMAIN pending : pending[i].blocks \cap given = {} /\ pending[i].blocks \cap held = {}
    BY <1>3 DEF PoolOf, Partitioned
  <1> HIDE DEF given, held
  <1>7. entry \in DeferredFree
    BY <1>3 DEF DeferredFree
  <1>8. /\ blocks' \in [Request -> SUBSET Block] /\ freeBlocks' \in SUBSET Block
        /\ deferred' \in Seq(DeferredFree)
    BY <1>1, <1>3, <1>7, AppendProperties DEF PoolOf
  <1>9. \A r \in Request : blocks'[r] = IF r \in R THEN {} ELSE blocks[r]
    BY <1>1
  <1>10. CASE late = {}
    <2>1. deferred' = pending /\ held = {}
      BY <1>1, <1>5, <1>10
    <2>2. Block = freeBlocks' \cup (UNION {blocks'[r] : r \in Request})
                    \cup (UNION {deferred'[i].blocks : i \in DOMAIN deferred'})
      BY <2>1, <1>1, <1>3, <1>9 DEF PoolOf, Partitioned
    <2>3. Partitioned(blocks', freeBlocks', deferred')
      BY <2>1, <2>2, <1>1, <1>6, <1>9 DEF PoolOf, Partitioned
    <2> QED
      BY <2>3, <1>8 DEF PoolOf
  <1>11. CASE late # {}
    <2>1. /\ deferred' = Append(pending, entry)
          /\ Len(deferred') = Len(pending) + 1
          /\ Len(pending) \in Nat
          /\ DOMAIN deferred' = 1..(Len(pending) + 1)
          /\ DOMAIN pending = 1..Len(pending)
          /\ \A i \in DOMAIN pending : deferred'[i] = pending[i]
          /\ deferred'[Len(pending) + 1] = entry
      BY <1>1, <1>7, <1>11, AppendProperties, LenProperties DEF PoolOf
    <2>2. /\ DOMAIN deferred' = DOMAIN pending \cup {Len(pending) + 1}
          /\ Len(pending) + 1 \notin DOMAIN pending
          /\ deferred'[Len(pending) + 1].blocks = held
      BY <2>1
    <2>3. \A i \in DOMAIN deferred' :
            /\ deferred'[i].blocks \cap freeBlocks' = {}
            /\ \A r \in Request : deferred'[i].blocks \cap blocks'[r] = {}
            /\ \A j \in DOMAIN deferred' : i # j => deferred'[i].blocks \cap deferred'[j].blocks = {}
      BY <2>1, <2>2, <1>1, <1>4, <1>6, <1>9 DEF PoolOf, Partitioned
    <2>4. (UNION {deferred'[i].blocks : i \in DOMAIN deferred'})
            = held \cup (UNION {pending[i].blocks : i \in DOMAIN pending})
      BY <2>1, <2>2
    <2>5. Block = freeBlocks' \cup (UNION {blocks'[r] : r \in Request})
                    \cup (UNION {deferred'[i].blocks : i \in DOMAIN deferred'})
      BY <2>4, <1>1, <1>3, <1>9 DEF PoolOf, Partitioned
    <2>6. Partitioned(blocks', freeBlocks', deferred')
      BY <2>3, <2>5, <1>1, <1>6, <1>9 DEF PoolOf, Partitioned
    <2> QED
      BY <2>6, <1>8 DEF PoolOf
  <1> QED
    BY <1>10, <1>11

\* _drain_deferred_frees returns the blocks of the oldest k deferred frees.
LEMMA DrainPool ==
    ASSUME PoolOf(blocks, freeBlocks, deferred), NEW k \in 0..Len(deferred)
    PROVE  PoolOf(blocks, freeBlocks \cup (UNION {deferred[i].blocks : i \in 1..k}),
                  SubSeq(deferred, k + 1, Len(deferred)))
  <1> DEFINE drained == UNION {deferred[i].blocks : i \in 1..k}
             pending == SubSeq(deferred, k + 1, Len(deferred))
             n       == Len(deferred) - k
  <1>1. /\ Len(deferred) \in Nat /\ DOMAIN deferred = 1..Len(deferred)
        /\ \A i \in 1..Len(deferred) : deferred[i] \in DeferredFree
    BY LenProperties, ElementOfSeq DEF PoolOf
  <1>2. /\ pending \in Seq(DeferredFree)
        /\ Len(pending) = n
        /\ \A i \in 1..n : pending[i] = deferred[k + i]
    <2>1. \A i \in (k + 1)..Len(deferred) : deferred[i] \in DeferredFree
      BY <1>1
    <2>2. /\ pending \in Seq(DeferredFree)
          /\ Len(pending) = IF k + 1 <= Len(deferred) THEN Len(deferred) - (k + 1) + 1 ELSE 0
          /\ \A i \in 1..(Len(deferred) - (k + 1) + 1) : pending[i] = deferred[k + 1 + i - 1]
      BY <1>1, <2>1, SubSeqProperties
    <2> HIDE DEF pending
    <2>3. Len(pending) = n
      <3>1. ASSUME NEW len \in Nat, NEW m \in 0..len
            PROVE  (IF m + 1 <= len THEN len - (m + 1) + 1 ELSE 0) = len - m
        OBVIOUS
      <3>2. (IF k + 1 <= Len(deferred) THEN Len(deferred) - (k + 1) + 1 ELSE 0) = n
        BY <3>1, <1>1
      <3> QED
        BY <2>2, <3>2
    <2>4. \A i \in 1..n : i \in 1..(Len(deferred) - (k + 1) + 1) /\ k + 1 + i - 1 = k + i
      BY <1>1
    <2> QED
      BY <2>2, <2>3, <2>4
  <1>3. DOMAIN pending = 1..n /\ n \in Nat
    BY <1>1, <1>2, LenProperties
  <1> HIDE DEF pending, drained
  <1>4. \A b : b \in drained <=> \E i \in 1..k : b \in deferred[i].blocks
    BY DEF drained
  <1>5. \A b \in Block : (\E i \in DOMAIN deferred : b \in deferred[i].blocks)
                        => b \in drained \/ \E i \in DOMAIN pending : b \in pending[i].blocks
    <2> SUFFICES ASSUME NEW b \in Block, NEW i \in DOMAIN deferred, b \in deferred[i].blocks,
                        b \notin drained
                 PROVE  \E j \in DOMAIN pending : b \in pending[j].blocks
      OBVIOUS
    <2>1. i - k \in 1..n /\ k + (i - k) = i
      BY <1>1, <1>4
    <2> QED
      BY <2>1, <1>2, <1>3
  <1>6. freeBlocks \cup drained \in SUBSET Block
    <2>1. \A i \in 1..k : deferred[i].blocks \subseteq Block
      BY <1>1 DEF DeferredFree
    <2> QED
      BY <1>4, <2>1 DEF PoolOf
  <1>7. \A r \in Request : blocks[r] \cap (freeBlocks \cup drained) = {}
    BY <1>1, <1>4 DEF PoolOf, Partitioned
  <1>8. \A i \in DOMAIN pending :
          /\ k + i \in DOMAIN deferred /\ pending[i] = deferred[k + i]
          /\ \A j \in 1..k : j \in DOMAIN deferred /\ j # k + i
          /\ \A j \in DOMAIN pending : i # j => k + i # k + j
    BY <1>1, <1>2, <1>3
  <1>9. \A i \in DOMAIN pending :
          /\ pending[i].blocks \cap (freeBlocks \cup drained) = {}
          /\ \A r \in Request : pending[i].blocks \cap blocks[r] = {}
          /\ \A j \in DOMAIN pending : i # j => pending[i].blocks \cap pending[j].blocks = {}
    BY <1>4, <1>8 DEF PoolOf, Partitioned
  <1>10. Block = (freeBlocks \cup drained) \cup (UNION {blocks[r] : r \in Request})
                   \cup (UNION {pending[i].blocks : i \in DOMAIN pending})
    BY <1>4, <1>5, <1>6, <1>8 DEF PoolOf, Partitioned
  <1>11. Partitioned(blocks, freeBlocks \cup drained, pending)
    BY <1>7, <1>9, <1>10 DEF PoolOf, Partitioned
  <1>12. PoolOf(blocks, freeBlocks \cup drained, pending)
    BY <1>2, <1>6, <1>11 DEF PoolOf
  <1> QED
    BY <1>12 DEF drained, pending

-----------------------------------------------------------------------------
(* What the actions do to the blocks and to the fence *)

\* Most steps leave both alone; the others are of four kinds.
AllocationStep ==
    /\ \E r \in Request : \E tokens \in {computed[r] + RunningTokens(r),
                                         CachedPrefix(r) + WaitingTokens(r)} : Allocate(r, tokens)
    /\ UNCHANGED <<fences, inflight>>

ReleaseStep ==
    /\ \E R \in SUBSET Request : FreeRequestBlocks(R, procSeq, freeBlocks, deferred)
    /\ UNCHANGED <<fences, inflight>>

LEMMA BlockSteps ==
    ASSUME [Next]_vars
    PROVE  \/ UNCHANGED <<pool, fences, inflight>>
           \/ AllocationStep
           \/ ReleaseStep
           \/ FinishSchedule
           \/ UpdateFromOutput
  <1> USE DEF pool, fences
  <1>1. ASSUME NEW r \in Request, AddRequest(r)
        PROVE  UNCHANGED <<pool, fences, inflight>>
    BY <1>1 DEF AddRequest
  <1>2. ASSUME NEW r \in Request, Abort(r)
        PROVE  ReleaseStep
    BY <1>2 DEF Abort, Forget, ReleaseStep
  <1>3. ASSUME NEW r \in Request, GrammarReady(r) \/ BackoffExpires(r)
        PROVE  UNCHANGED <<pool, fences, inflight>>
    BY <1>3 DEF GrammarReady, BackoffExpires
  <1>4. ASSUME StartSchedule \/ RestoreHeld \/ SwapReject \/ WaitingDone
        PROVE  UNCHANGED <<pool, fences, inflight>>
    BY <1>4 DEF StartSchedule, RestoreHeld, SwapReject, WaitingDone
  <1>5. ASSUME NEW r \in Request, RunningSkip(r) \/ WaitingSkip(r) \/ WaitingNoKv(r)
        PROVE  UNCHANGED <<pool, fences, inflight>>
    BY <1>5 DEF RunningSkip, WaitingSkip, WaitingNoKv
  <1>6. ASSUME NEW r \in Request, RunningSchedule(r) \/ WaitingAdmit(r)
        PROVE  AllocationStep
    BY <1>6 DEF RunningSchedule, WaitingAdmit, AllocationStep
  <1>7. ASSUME NEW r \in Request, NEW v \in Request, RunningPreempt(r, v) \/ SwapCommit(r, v)
        PROVE  ReleaseStep
    BY <1>7 DEF RunningPreempt, SwapCommit, Preempt, ReleaseStep
  <1>8. ASSUME NEW c \in Request, NEW v \in Request, SwapPreflightFails(c, v)
        PROVE  UNCHANGED <<pool, fences, inflight>>
    BY <1>8 DEF SwapPreflightFails
  <1>9. CASE UNCHANGED vars
    BY <1>9 DEF vars
  <1> QED
    BY <1>1, <1>2, <1>3, <1>4, <1>5, <1>6, <1>7, <1>8, <1>9
       DEF Next, Engine, Environment, ScheduleStep

\* What is left of UpdateFromOutput for the blocks and the fence.
LEMMA UpdateStep ==
    ASSUME PoolInv, UpdateFromOutput
    PROVE  \E R \in SUBSET Request : \E k \in 0..Len(deferred) : \E done \in {procSeq, procSeq + 1} :
             /\ done = IF DeferBlockFree /\ Head(inflight).requests # {} THEN procSeq + 1 ELSE procSeq
             /\ IF done = procSeq THEN k = 0 ELSE IsDrained(k, done)
             /\ FreeRequestBlocks(R, done, freeBlocks \cup (UNION {deferred[i].blocks : i \in 1..k}),
                                  SubSeq(deferred, k + 1, Len(deferred)))
             /\ inflight # <<>> /\ inflight' = Tail(inflight)
             /\ procSeq' = done
             /\ UNCHANGED <<schedSeq, lastSeq>>
  <1> DEFINE live == Receiving(Head(inflight))
             finished == IF DeferBlockFree /\ Head(inflight).requests # {} THEN procSeq + 1 ELSE procSeq
             stopped(eos) == {r \in live : r \in eos \/ output'[r] >= MaxTokens[r]}
  <1>1. inflight # <<>> /\ inflight' = Tail(inflight) /\ procSeq' = finished
        /\ UNCHANGED <<schedSeq, lastSeq>>
    BY DEF UpdateFromOutput
  <1>2. live \subseteq Request
    <2>1. Head(inflight) \in Batch
      BY <1>1, HeadTailProperties DEF PoolInv
    <2> QED
      BY <2>1 DEF Receiving, Batch
  <1>3. PICK eos \in SUBSET (live \cap MayStopEarly), k \in 0..Len(deferred) :
          /\ IF finished = procSeq THEN k = 0 ELSE IsDrained(k, finished)
          /\ Forget(stopped(eos), finished,
                    freeBlocks \cup (UNION {deferred[i].blocks : i \in 1..k}),
                    SubSeq(deferred, k + 1, Len(deferred)))
    BY DEF UpdateFromOutput
  <1>4. stopped(eos) \in SUBSET Request
    BY <1>2
  <1> HIDE DEF live, stopped
  <1> QED
    BY <1>1, <1>3, <1>4 DEF Forget

-----------------------------------------------------------------------------
(* Conservation of the blocks *)

LEMMA FinishPool ==
    ASSUME PoolInv, FinishSchedule
    PROVE  PoolInv'
  <1> DEFINE batch == {r \in Request : step.scheduled[r] > 0}
             emits == {r \in batch : computed[r] + step.scheduled[r] >= NumTokens(r) + placeholders[r]}
             entry == [requests |-> batch, emits |-> emits, touches |-> OwnedBlocks(batch),
                       seq |-> schedSeq']
  <1>1. schedSeq' \in Nat
    BY DEF FinishSchedule, PoolInv
  <1>2. UNCHANGED <<blocks, freeBlocks, deferred>>
    BY DEF FinishSchedule, pool
  <1>3. inflight' = Append(inflight, entry)
    <2>1. emits = {r \in batch : [q \in Request |-> computed[q] + step.scheduled[q]][r]
                                   >= NumTokens(r) + placeholders[r]}
      OBVIOUS
    <2> QED
      BY <2>1 DEF FinishSchedule
  <1>4. OwnedBlocks(batch) \subseteq Block
    BY DEF OwnedBlocks, PoolInv, PoolOf
  <1>5. batch \subseteq Request /\ emits \subseteq Request
    OBVIOUS
  <1> HIDE DEF batch, emits
  <1>6. entry \in Batch
    BY <1>1, <1>4, <1>5 DEF Batch
  <1> HIDE DEF entry
  <1>7. inflight' \in Seq(Batch)
    BY <1>3, <1>6, AppendProperties DEF PoolInv
  <1> QED
    BY <1>1, <1>2, <1>7 DEF PoolInv, PoolOf, Partitioned

LEMMA UpdatePool ==
    ASSUME PoolInv, UpdateFromOutput
    PROVE  PoolInv'
  <1>1. PICK R \in SUBSET Request, k \in 0..Len(deferred), done \in {procSeq, procSeq + 1} :
          /\ FreeRequestBlocks(R, done, freeBlocks \cup (UNION {deferred[i].blocks : i \in 1..k}),
                               SubSeq(deferred, k + 1, Len(deferred)))
          /\ inflight # <<>> /\ inflight' = Tail(inflight)
          /\ UNCHANGED <<schedSeq, lastSeq>>
    BY UpdateStep
  <1>2. PoolOf(blocks, freeBlocks \cup (UNION {deferred[i].blocks : i \in 1..k}),
               SubSeq(deferred, k + 1, Len(deferred)))
    BY DrainPool DEF PoolInv
  <1>3. PoolOf(blocks', freeBlocks', deferred')
    BY <1>1, <1>2, FreeRequestBlocksPool DEF PoolInv
  <1>4. inflight' \in Seq(Batch)
    BY <1>1, HeadTailProperties DEF PoolInv
  <1> QED
    BY <1>1, <1>3, <1>4 DEF PoolInv

LEMMA NextPool == PoolInv /\ [Next]_vars => PoolInv'
  <1> SUFFICES ASSUME PoolInv, [Next]_vars PROVE PoolInv'
    OBVIOUS
  <1>1. CASE UNCHANGED <<pool, fences, inflight>>
    BY <1>1 DEF pool, fences, PoolInv, PoolOf, Partitioned
  <1>2. CASE AllocationStep
    BY <1>2, AllocatePool DEF AllocationStep, PoolInv, fences
  <1>3. CASE ReleaseStep
    BY <1>3, FreeRequestBlocksPool DEF ReleaseStep, PoolInv, fences
  <1> QED
    BY <1>1, <1>2, <1>3, FinishPool, UpdatePool, BlockSteps

\* No KV block is ever leaked, owned by two requests, or in the pool while a
\* request or a deferred free still holds it: admissions, preemptions, swaps,
\* stops, aborts and drained frees all conserve the pool.
THEOREM BlocksConserved == Spec => []BlocksPartition
  <1> QED
    BY InitPool, NextPool, PoolInvImplies, PTL DEF Spec

-----------------------------------------------------------------------------
(* The deferred-free fence of the pipelined engine, for every number of      *)
(* batches in flight: a KV block that a batch in flight may still write is   *)
(* not given to anybody else.  InflightBlocksHeld is not inductive: nothing  *)
(* in it says why the block of a preempted or aborted request waits long     *)
(* enough.  FenceInv says where every touched block is, and that the         *)
(* sequence number that guards it there (last_sched_seq of the owner, the    *)
(* fence of the deferred free) is not below the number of the batch.         *)

\* Block b of batch x is with a request of x that was scheduled no earlier, or
\* in a deferred free that waits for x.
Held(x, b, owned, last, late) ==
    \/ \E r \in Request : r \in x.requests /\ b \in owned[r] /\ x.seq <= last[r]
    \/ \E j \in DOMAIN late : b \in late[j].blocks /\ x.seq <= late[j].fence

FenceInv ==
    /\ procSeq \in Nat /\ lastSeq \in [Request -> Nat]
    /\ procSeq <= schedSeq
    /\ \A i \in DOMAIN inflight : inflight[i].seq <= schedSeq
    /\ DeferBlockFree =>
         /\ \A i \in DOMAIN inflight :
              /\ inflight[i].requests # {} => procSeq < inflight[i].seq
              /\ inflight[i].requests = {} => inflight[i].touches = {}
              /\ \A b \in inflight[i].touches : Held(inflight[i], b, blocks, lastSeq, deferred)
         /\ \A i, j \in DOMAIN inflight :
              i < j /\ inflight[i].requests # {} /\ inflight[j].requests # {}
                => inflight[i].seq < inflight[j].seq

LEMMA FenceImplies == PoolInv /\ FenceInv => InflightBlocksHeld
  <1> SUFFICES ASSUME PoolInv, FenceInv, DeferBlockFree, NEW i \in DOMAIN inflight,
                      NEW b \in inflight[i].touches
               PROVE  /\ b \notin freeBlocks
                      /\ \A q \in Request \ inflight[i].requests : b \notin blocks[q]
    BY DEF InflightBlocksHeld
  <1>1. Held(inflight[i], b, blocks, lastSeq, deferred)
    BY DEF FenceInv
  <1> QED
    BY <1>1 DEF Held, PoolInv, PoolOf, Partitioned

LEMMA InitFence == Init => FenceInv
  BY DEF Init, FenceInv

\* Numbers of the batches in flight.
LEMMA InflightType ==
    ASSUME PoolInv
    PROVE  /\ Len(inflight) \in Nat /\ DOMAIN inflight = 1..Len(inflight)
           /\ \A i \in DOMAIN inflight : /\ inflight[i] \in Batch
                                         /\ inflight[i].seq \in Nat
                                         /\ inflight[i].requests \subseteq Request
  <1>1. \A i \in 1..Len(inflight) : inflight[i] \in Batch
    BY ElementOfSeq DEF PoolInv
  <1> QED
    BY <1>1, LenProperties DEF PoolInv, Batch

\* Releasing blocks while batch x is not processed leaves the blocks of x held.
LEMMA ReleaseHeld ==
    ASSUME DeferBlockFree, NEW R \in SUBSET Request, NEW done \in Nat, NEW pooled,
           NEW pending \in Seq(DeferredFree),
           FreeRequestBlocks(R, done, pooled, pending), schedSeq \in Nat,
           blocks \in [Request -> SUBSET Block], lastSeq \in [Request -> Nat],
           NEW x \in Batch, done < x.seq, x.seq <= schedSeq, NEW b,
           Held(x, b, blocks, lastSeq, pending)
    PROVE  Held(x, b, blocks', lastSeq, deferred')
  <1> DEFINE late  == {r \in R : DeferBlockFree /\ lastSeq[r] > done /\ blocks[r] # {}}
             entry == [fence |-> schedSeq, blocks |-> OwnedBlocks(late)]
  <1>1. /\ blocks' = [r \in Request |-> IF r \in R THEN {} ELSE blocks[r]]
        /\ deferred' = IF late = {} THEN pending ELSE Append(pending, entry)
    BY DEF FreeRequestBlocks
  <1>2. x.seq \in Nat
    BY DEF Batch
  <1>3. OwnedBlocks(late) \subseteq Block
    BY DEF OwnedBlocks
  <1>4. late # {} => /\ DOMAIN pending \subseteq DOMAIN deferred'
                     /\ \A j \in DOMAIN pending : deferred'[j] = pending[j]
                     /\ Len(pending) + 1 \in DOMAIN deferred'
                     /\ deferred'[Len(pending) + 1] = entry
    <2> HIDE DEF late
    <2>1. entry \in DeferredFree
      BY <1>3 DEF DeferredFree
    <2> HIDE DEF entry
    <2> SUFFICES ASSUME late # {}
                 PROVE  /\ DOMAIN pending \subseteq DOMAIN deferred'
                        /\ \A j \in DOMAIN pending : deferred'[j] = pending[j]
                        /\ Len(pending) + 1 \in DOMAIN deferred'
                        /\ deferred'[Len(pending) + 1] = entry
      OBVIOUS
    <2>2. deferred' = Append(pending, entry)
      BY <1>1
    <2>3. /\ Len(pending) \in Nat /\ DOMAIN pending = 1..Len(pending)
          /\ deferred' \in Seq(DeferredFree) /\ Len(deferred') = Len(pending) + 1
          /\ \A j \in 1..Len(pending) : deferred'[j] = pending[j]
          /\ deferred'[Len(pending) + 1] = entry
      BY <2>1, <2>2, AppendProperties, LenProperties
    <2>4. DOMAIN deferred' = 1..(Len(pending) + 1)
      BY <2>3, LenProperties
    <2> QED
      BY <2>3, <2>4
  <1>5. CASE \E j \in DOMAIN pending : b \in pending[j].blocks /\ x.seq <= pending[j].fence
    BY <1>1, <1>4, <1>5 DEF Held
  <1>6. ASSUME NEW r \in Request, r \in x.requests, b \in blocks[r], x.seq <= lastSeq[r]
        PROVE  Held(x, b, blocks', lastSeq, deferred')
    <2>1. CASE r \notin R
      BY <2>1, <1>1, <1>6 DEF Held
    <2>2. CASE r \in R
      <3>1. r \in late
        BY <2>2, <1>2, <1>6
      <3>2. b \in entry.blocks /\ entry.fence = schedSeq
        BY <3>1, <1>6 DEF OwnedBlocks
      <3>3. /\ Len(pending) + 1 \in DOMAIN deferred'
            /\ deferred'[Len(pending) + 1] = entry
        BY <3>1, <1>4
      <3> HIDE DEF entry, late
      <3> QED
        BY <3>2, <3>3 DEF Held
    <2> QED
      BY <2>1, <2>2
  <1> QED
    BY <1>5, <1>6 DEF Held

\* So does draining what was fenced for the batches processed so far.
LEMMA DrainHeld ==
    ASSUME deferred \in Seq(DeferredFree), NEW done \in Nat, NEW k \in 0..Len(deferred),
           \A i \in 1..k : deferred[i].fence <= done,
           NEW x \in Batch, done < x.seq, NEW b, Held(x, b, blocks, lastSeq, deferred)
    PROVE  Held(x, b, blocks, lastSeq, SubSeq(deferred, k + 1, Len(deferred)))
  <1> DEFINE pending == SubSeq(deferred, k + 1, Len(deferred))
  <1>1. /\ Len(deferred) \in Nat /\ DOMAIN deferred = 1..Len(deferred)
        /\ \A i \in 1..Len(deferred) : deferred[i] \in DeferredFree
    BY LenProperties, ElementOfSeq
  <1>2. CASE \E r \in Request : r \in x.requests /\ b \in blocks[r] /\ x.seq <= lastSeq[r]
    BY <1>2 DEF Held
  <1>3. ASSUME NEW j \in DOMAIN deferred, b \in deferred[j].blocks, x.seq <= deferred[j].fence
        PROVE  Held(x, b, blocks, lastSeq, pending)
    <2>1. deferred[j].fence \in Nat /\ x.seq \in Nat
      BY <1>1 DEF DeferredFree, Batch
    <2>2. ~(deferred[j].fence <= done)
      BY <2>1, <1>3
    <2>3. k < j
      BY <2>2, <1>1
    <2>4. j \in Nat /\ k \in Nat /\ j <= Len(deferred)
      BY <1>1
    <2>5. /\ pending \in Seq(DeferredFree)
          /\ Len(pending) = Len(deferred) - (k + 1) + 1
          /\ \A i \in 1..(Len(deferred) - (k + 1) + 1) : pending[i] = deferred[k + 1 + i - 1]
      <3>1. \A i \in (k + 1)..Len(deferred) : deferred[i] \in DeferredFree
        BY <1>1
      <3>2. k + 1 <= Len(deferred)
        BY <1>1, <2>3, <2>4
      <3> QED
        BY <1>1, <3>1, <3>2, SubSeqProperties
    <2> HIDE DEF pending
    <2>6. j - k \in 1..(Len(deferred) - (k + 1) + 1) /\ k + 1 + (j - k) - 1 = j
      BY <1>1, <2>3, <2>4
    <2>7. j - k \in DOMAIN pending /\ pending[j - k] = deferred[j]
      BY <2>5, <2>6, LenProperties
    <2> QED
      BY <1>3, <2>7 DEF Held
  <1> QED
    BY <1>2, <1>3 DEF Held

-----------------------------------------------------------------------------
(* The steps *)

LEMMA AllocationFence ==
    ASSUME PoolInv, FenceInv, AllocationStep
    PROVE  FenceInv'
  <1>1. \E r \in Request : \E tokens : Allocate(r, tokens)
    BY DEF AllocationStep
  <1>2. \A q \in Request : blocks[q] \subseteq blocks'[q]
    BY <1>1 DEF Allocate, PoolInv, PoolOf
  <1>3. UNCHANGED <<deferred, schedSeq, procSeq, lastSeq, inflight>>
    BY <1>1 DEF Allocate, AllocationStep, fences
  <1>4. \A x, b : Held(x, b, blocks, lastSeq, deferred) => Held(x, b, blocks', lastSeq', deferred')
    BY <1>2, <1>3 DEF Held
  <1> QED
    BY <1>3, <1>4 DEF FenceInv

LEMMA ReleaseFence ==
    ASSUME PoolInv, FenceInv, ReleaseStep
    PROVE  FenceInv'
  <1>1. PICK R \in SUBSET Request : FreeRequestBlocks(R, procSeq, freeBlocks, deferred)
    BY DEF ReleaseStep
  <1>2. UNCHANGED <<schedSeq, procSeq, lastSeq, inflight>>
    BY DEF ReleaseStep, fences
  <1>3. ASSUME DeferBlockFree, NEW i \in DOMAIN inflight, NEW b \in inflight[i].touches
        PROVE  Held(inflight[i], b, blocks', lastSeq, deferred')
    <2>1. /\ inflight[i] \in Batch /\ procSeq < inflight[i].seq /\ inflight[i].seq <= schedSeq
          /\ Held(inflight[i], b, blocks, lastSeq, deferred)
      BY <1>3, InflightType DEF FenceInv
    <2>2. /\ procSeq \in Nat /\ schedSeq \in Nat /\ lastSeq \in [Request -> Nat]
          /\ blocks \in [Request -> SUBSET Block] /\ deferred \in Seq(DeferredFree)
      BY DEF PoolInv, PoolOf, FenceInv
    <2> QED
      BY <1>1, <1>3, <2>1, <2>2, ReleaseHeld
  <1> QED
    BY <1>2, <1>3 DEF FenceInv

LEMMA FinishFence ==
    ASSUME PoolInv, FenceInv, FinishSchedule
    PROVE  FenceInv'
  <1> DEFINE batch == {r \in Request : step.scheduled[r] > 0}
             n     == Len(inflight)
  <1>1. PICK emits \in SUBSET batch :
          inflight' = Append(inflight, [requests |-> batch, emits |-> emits,
                                        touches |-> OwnedBlocks(batch), seq |-> schedSeq'])
    <2> DEFINE emitting == {r \in batch : [q \in Request |-> computed[q] + step.scheduled[q]][r]
                                            >= NumTokens(r) + placeholders[r]}
    <2>1. emitting \in SUBSET batch
      OBVIOUS
    <2>2. inflight' = Append(inflight, [requests |-> batch, emits |-> emitting,
                                        touches |-> OwnedBlocks(batch), seq |-> schedSeq'])
      BY DEF FinishSchedule
    <2> HIDE DEF emitting, batch
    <2> QED
      BY <2>1, <2>2
  <1>2. /\ schedSeq' = IF DeferBlockFree /\ batch # {} THEN schedSeq + 1 ELSE schedSeq
        /\ lastSeq' = [r \in Request |-> IF DeferBlockFree /\ r \in batch THEN schedSeq' ELSE lastSeq[r]]
        /\ UNCHANGED <<blocks, deferred, procSeq>>
    BY DEF FinishSchedule, pool
  <1> DEFINE entry == [requests |-> batch, emits |-> emits,
                       touches |-> OwnedBlocks(batch), seq |-> schedSeq']
  <1>3. /\ schedSeq \in Nat /\ schedSeq' \in Nat /\ schedSeq <= schedSeq'
        /\ DeferBlockFree /\ batch # {} => schedSeq < schedSeq'
    BY <1>2 DEF PoolInv
  <1>4. batch \subseteq Request
    OBVIOUS
  <1> HIDE DEF batch
  <1>5. entry \in Batch
    BY <1>3, <1>4 DEF Batch, OwnedBlocks, PoolInv, PoolOf
  <1>6. /\ entry.requests = batch /\ entry.touches = OwnedBlocks(batch) /\ entry.seq = schedSeq'
    OBVIOUS
  <1>7. inflight' = Append(inflight, entry)
    BY <1>1
  <1> HIDE DEF entry
  <1>8. /\ n \in Nat /\ DOMAIN inflight = 1..n
        /\ DOMAIN inflight' = 1..(n + 1)
        /\ \A i \in 1..n : inflight'[i] = inflight[i]
        /\ inflight'[n + 1] = entry
    BY <1>5, <1>7, AppendProperties, LenProperties DEF PoolInv
  <1>9. \A r \in Request : lastSeq'[r] = IF DeferBlockFree /\ r \in batch THEN schedSeq' ELSE lastSeq[r]
    BY <1>2
  <1>10. lastSeq' \in [Request -> Nat] /\ procSeq' \in Nat /\ procSeq' <= schedSeq'
    BY <1>2, <1>3 DEF FenceInv
  <1>11. \A i \in DOMAIN inflight' : inflight'[i].seq <= schedSeq'
    BY <1>3, <1>6, <1>8, InflightType DEF FenceInv
  <1>12. ASSUME DeferBlockFree, NEW i \in DOMAIN inflight'
         PROVE  /\ inflight'[i].requests # {} => procSeq' < inflight'[i].seq
                /\ inflight'[i].requests = {} => inflight'[i].touches = {}
                /\ \A b \in inflight'[i].touches :
                      Held(inflight'[i], b, blocks', lastSeq', deferred')
    <2>1. CASE i \in 1..n
      <3>1. inflight'[i] = inflight[i] /\ i \in DOMAIN inflight
        BY <2>1, <1>8
      <3>2. inflight[i].seq \in Nat /\ inflight[i].seq <= schedSeq
        BY <3>1, InflightType DEF FenceInv
      <3>3. \A r \in Request : inflight[i].seq <= lastSeq[r] => inflight[i].seq <= lastSeq'[r]
        BY <3>2, <1>3, <1>9
      <3>4. \A b : Held(inflight[i], b, blocks, lastSeq, deferred)
                   => Held(inflight[i], b, blocks', lastSeq', deferred')
        BY <3>3, <1>2 DEF Held
      <3> QED
        BY <3>1, <3>4, <1>2, <1>12 DEF FenceInv
    <2>2. CASE i = n + 1
      <3>1. inflight'[i] = entry
        BY <2>2, <1>8
      <3>2. batch # {} => procSeq' < schedSeq'
        <4>1. procSeq \in Nat /\ procSeq <= schedSeq
          BY DEF FenceInv
        <4> QED
          BY <4>1, <1>2, <1>3, <1>12
      <3>3. batch = {} => entry.touches = {}
        BY <1>6 DEF OwnedBlocks
      <3>4. ASSUME NEW b \in entry.touches
            PROVE  Held(entry, b, blocks', lastSeq', deferred')
        <4>1. PICK r \in batch : b \in blocks[r]
          BY <1>6, <3>4 DEF OwnedBlocks
        <4>2. lastSeq'[r] = schedSeq' /\ schedSeq' <= schedSeq'
          BY <4>1, <1>3, <1>4, <1>9, <1>12
        <4> QED
          BY <4>1, <4>2, <1>2, <1>4, <1>6 DEF Held
      <3> QED
        BY <3>1, <3>2, <3>3, <3>4, <1>6
    <2> QED
      BY <2>1, <2>2, <1>8
  <1>13. ASSUME DeferBlockFree, NEW i \in DOMAIN inflight', NEW j \in DOMAIN inflight', i < j,
                inflight'[i].requests # {}, inflight'[j].requests # {}
         PROVE  inflight'[i].seq < inflight'[j].seq
    <2>1. i \in 1..n /\ inflight'[i] = inflight[i]
      BY <1>8, <1>13
    <2>2. CASE j \in 1..n
      BY <2>1, <2>2, <1>8, <1>13 DEF FenceInv
    <2>3. CASE j = n + 1
      <3>1. inflight[i].seq \in Nat /\ inflight[i].seq <= schedSeq
        BY <2>1, <1>8, InflightType DEF FenceInv
      <3>2. schedSeq < entry.seq
        BY <2>3, <1>3, <1>6, <1>8, <1>13
      <3> QED
        BY <3>1, <3>2, <2>1, <2>3, <1>3, <1>6, <1>8
    <2> QED
      BY <2>2, <2>3, <1>8
  <1> QED
    BY <1>10, <1>11, <1>12, <1>13 DEF FenceInv

LEMMA UpdateFence ==
    ASSUME PoolInv, FenceInv, UpdateFromOutput
    PROVE  FenceInv'
  <1> DEFINE head == Head(inflight)
             n    == Len(inflight)
  <1>1. PICK R \in SUBSET Request, k \in 0..Len(deferred), done \in {procSeq, procSeq + 1} :
          /\ done = IF DeferBlockFree /\ head.requests # {} THEN procSeq + 1 ELSE procSeq
          /\ IF done = procSeq THEN k = 0 ELSE IsDrained(k, done)
          /\ FreeRequestBlocks(R, done, freeBlocks \cup (UNION {deferred[i].blocks : i \in 1..k}),
                               SubSeq(deferred, k + 1, Len(deferred)))
          /\ inflight # <<>> /\ inflight' = Tail(inflight)
          /\ procSeq' = done
          /\ UNCHANGED <<schedSeq, lastSeq>>
    BY UpdateStep
  <1>2. /\ n \in Nat /\ n > 0 /\ DOMAIN inflight = 1..n
        /\ head = inflight[1]
        /\ DOMAIN inflight' = 1..(n - 1)
        /\ \A i \in 1..(n - 1) : inflight'[i] = inflight[i + 1]
    BY <1>1, HeadTailProperties, LenProperties, InflightType DEF PoolInv
  <1>3. /\ schedSeq \in Nat /\ procSeq \in Nat /\ done \in Nat
        /\ lastSeq \in [Request -> Nat] /\ blocks \in [Request -> SUBSET Block]
        /\ deferred \in Seq(DeferredFree)
    BY <1>1 DEF PoolInv, PoolOf, FenceInv
  <1> HIDE DEF head, n
  <1>4. 1 \in DOMAIN inflight /\ head.seq \in Nat /\ head.seq <= schedSeq
    <2>1. 1 \in DOMAIN inflight
      BY <1>2
    <2> QED
      BY <2>1, <1>2, InflightType DEF FenceInv
  <1>5. done <= schedSeq
    <2>1. CASE DeferBlockFree /\ head.requests # {}
      <3>1. procSeq < head.seq
        BY <2>1, <1>2, <1>4 DEF FenceInv
      <3> QED
        BY <3>1, <1>1, <1>3, <1>4
    <2>2. CASE ~(DeferBlockFree /\ head.requests # {})
      BY <2>2, <1>1 DEF FenceInv
    <2> QED
      BY <2>1, <2>2
  <1>6. \A i \in DOMAIN inflight' :
          /\ i + 1 \in DOMAIN inflight /\ inflight'[i] = inflight[i + 1] /\ 1 < i + 1
          /\ inflight[i + 1] \in Batch /\ inflight[i + 1].seq \in Nat
          /\ inflight[i + 1].seq <= schedSeq
    BY <1>2, InflightType DEF FenceInv
  \* A batch still in flight comes after the one that is processed.
  <1>7. ASSUME DeferBlockFree, NEW i \in DOMAIN inflight', inflight'[i].requests # {}
        PROVE  done < inflight'[i].seq
    <2>1. procSeq < inflight[i + 1].seq
      BY <1>6, <1>7 DEF FenceInv
    <2>2. CASE head.requests # {}
      <3>1. head.seq < inflight[i + 1].seq /\ procSeq < head.seq
        BY <2>2, <1>2, <1>4, <1>6, <1>7 DEF FenceInv
      <3> QED
        BY <3>1, <1>1, <1>3, <1>4, <1>6
    <2>3. CASE head.requests = {}
      BY <2>1, <2>3, <1>1, <1>6
    <2> QED
      BY <2>2, <2>3
  <1>8. ASSUME DeferBlockFree, NEW i \in DOMAIN inflight', NEW b \in inflight'[i].touches
        PROVE  Held(inflight'[i], b, blocks', lastSeq, deferred')
    <2> DEFINE x == inflight'[i]
               pending == SubSeq(deferred, k + 1, Len(deferred))
    <2>1. x = inflight[i + 1] /\ x \in Batch /\ x.seq <= schedSeq /\ x.requests # {}
          /\ Held(x, b, blocks, lastSeq, deferred)
      BY <1>6, <1>8 DEF FenceInv
    <2>2. done < x.seq
      BY <2>1, <1>7, <1>8
    <2>3. \A j \in 1..k : deferred[j].fence <= done
      BY <1>1 DEF IsDrained
    <2> HIDE DEF x
    <2>4. Held(x, b, blocks, lastSeq, pending)
      BY <2>1, <2>2, <2>3, <1>3, DrainHeld
    <2>5. pending \in Seq(DeferredFree)
      BY DrainPool DEF PoolInv, PoolOf
    <2> HIDE DEF pending
    <2>6. FreeRequestBlocks(R, done, freeBlocks \cup (UNION {deferred[j].blocks : j \in 1..k}), pending)
      BY <1>1 DEF pending
    <2>7. Held(x, b, blocks', lastSeq, deferred')
      BY <2>1, <2>2, <2>4, <2>5, <2>6, <1>3, <1>8, ReleaseHeld
    <2> QED
      BY <2>7 DEF x
  <1>9. \A i \in DOMAIN inflight' : inflight'[i].requests = {} /\ DeferBlockFree
                                    => inflight'[i].touches = {}
    BY <1>6 DEF FenceInv
  <1>10. ASSUME DeferBlockFree, NEW i \in DOMAIN inflight', NEW j \in DOMAIN inflight', i < j,
                inflight'[i].requests # {}, inflight'[j].requests # {}
         PROVE  inflight'[i].seq < inflight'[j].seq
    <2>1. i + 1 < j + 1
      BY <1>2, <1>10
    <2> QED
      BY <2>1, <1>6, <1>10 DEF FenceInv
  <1>11. \A i \in DOMAIN inflight' : inflight'[i].seq <= schedSeq'
    BY <1>1, <1>6
  <1>12. DeferBlockFree =>
           \A i \in DOMAIN inflight' :
              /\ inflight'[i].requests # {} => procSeq' < inflight'[i].seq
              /\ inflight'[i].requests = {} => inflight'[i].touches = {}
              /\ \A b \in inflight'[i].touches : Held(inflight'[i], b, blocks', lastSeq', deferred')
    BY <1>1, <1>7, <1>8, <1>9
  <1>13. /\ procSeq' \in Nat /\ lastSeq' \in [Request -> Nat] /\ procSeq' <= schedSeq'
    BY <1>1, <1>3, <1>5
  <1> QED
    BY <1>10, <1>11, <1>12, <1>13 DEF FenceInv

LEMMA NextFence == PoolInv /\ FenceInv /\ [Next]_vars => FenceInv'
  <1> SUFFICES ASSUME PoolInv, FenceInv, [Next]_vars PROVE FenceInv'
    OBVIOUS
  <1>1. CASE UNCHANGED <<pool, fences, inflight>>
    BY <1>1 DEF pool, fences, FenceInv, Held
  <1> QED
    BY <1>1, AllocationFence, ReleaseFence, FinishFence, UpdateFence, BlockSteps

\* While a batch is in flight, no block it writes is in the pool or belongs to
\* a request outside the batch, whatever is preempted, aborted, stopped or
\* drained meanwhile: the deferred frees wait long enough.
THEOREM FenceHolds == Spec => []InflightBlocksHeld
  <1> QED
    BY InitPool, NextPool, InitFence, NextFence, FenceImplies, PTL DEF Spec

-----------------------------------------------------------------------------
(***************************************************************************)
(* The queues of the scheduler, for every set of requests and every        *)
(* policy: a request is in one of them, once, exactly while it is          *)
(* unfinished, so what the clients see is the inference service.           *)
(*                                                                         *)
(* QueuesMatchStatus is not inductive.  A request that stops while it is   *)
(* preempted is looked for in self.waiting only, so the proof needs that   *)
(* a preempted request is elsewhere only when no batch in flight owes it a *)
(* token.  In batch-budget mode that depends on the pipeline: a preempted  *)
(* request without a cap is passed over, and with more than two batches    *)
(* the token it is owed may still be on the way (the finding DeepPipeline).*)
(* Depth says why two batches are few enough.                              *)
(***************************************************************************)

SmallDepth == BatchBudget => BatchQueueSize <= 2

Waits == {"WAITING", "WAITING_FOR_GRAMMAR", "PREEMPTED"}
Phases == {"idle", "running", "restore", "swap", "waiting", "finish"}

QTyped ==
    /\ waiting \in Seq(Request) /\ skipped \in Seq(Request) /\ running \in Seq(Request)
    /\ status \in [Request -> Statuses]
    /\ DOMAIN step = DOMAIN NoStep
    /\ step.phase \in Phases /\ step.index \in Nat \ {0} /\ step.preempted \in BOOLEAN
    /\ step.skipped \in Seq(Request) /\ step.candidates \in Seq(Request)
    /\ DOMAIN step.scheduled = Request /\ "caps" \in DOMAIN step.acct

\* What is passed over in this step or an earlier one.
PassedOver == ToSet(skipped) \cup ToSet(step.skipped)

\* No request is in two places.
Apart ==
    /\ IsInjective(waiting) /\ IsInjective(skipped)
    /\ IsInjective(step.skipped) /\ IsInjective(running)
    /\ ToSet(waiting) \cap ToSet(skipped) = {}
    /\ ToSet(waiting) \cap ToSet(step.skipped) = {}
    /\ ToSet(skipped) \cap ToSet(step.skipped) = {}

\* The status says in which queue a request is.
Where ==
    \A r \in Request :
        /\ r \in ToSet(waiting) \cup PassedOver <=> status[r] \in Waits
        /\ r \in ToSet(running) <=> status[r] = "RUNNING"

\* The selected candidates are still waiting when they are promoted.
Selected ==
    step.phase \in {"running", "restore"} =>
        /\ IsInjective(step.candidates)
        /\ \A c \in ToSet(step.candidates) : c \in ToSet(waiting) /\ status[c] = "WAITING"

\* Only running requests are in the batch.
InBatch ==
    /\ step.phase = "idle" => step = NoStep
    /\ \A r \in Request : step.scheduled[r] # 0 => status[r] = "RUNNING"
    /\ step.phase = "running" =>
        \A i \in DOMAIN running : i >= step.index => step.scheduled[running[i]] = 0
    /\ step.phase \in {"running", "restore", "swap"} => step.swappedFor = {}

\* No batch in flight owes r a token.
Gone(r) == \A i \in DOMAIN inflight : r \notin inflight[i].emits

\* A preempted request that is passed over has no token to come.
Safe == \A r \in PassedOver : status[r] = "PREEMPTED" => BatchBudget /\ Gone(r)

\* Why it has none: with at most one other batch in flight, a request preempted
\* in an earlier step has had its token; one preempted in this step is passed
\* over only if the loop of the waiting requests is entered, which is for the
\* candidate of a swap, and that one takes the only free slot.
Depth ==
    BatchBudget =>
        /\ Len(running) <= MaxNumRunningReqs
        /\ step.phase # "idle" =>
            /\ Len(inflight) <= 1
            /\ \A c \in ToSet(step.candidates) : HasCap(step.acct, c)
            /\ ~step.preempted => \A r \in Request : status[r] = "PREEMPTED" => Gone(r)
        /\ step.phase = "idle" /\ inflight # <<>> =>
            \A r \in Request : status[r] = "PREEMPTED" => r \notin inflight[Len(inflight)].emits
        /\ step.phase = "waiting" =>
            \/ ~step.preempted
            \/ Len(running) >= MaxNumRunningReqs
            \/ /\ Len(running) >= MaxNumRunningReqs - 1 /\ waiting # <<>>
               /\ HasCap(step.acct, Head(waiting)) /\ status[Head(waiting)] = "WAITING"

QInv == QTyped /\ Apart /\ Where /\ Selected /\ InBatch /\ Safe /\ Depth

LEMMA QueuesImplied == QInv => QueuesMatchStatus
<1> SUFFICES ASSUME QInv PROVE QueuesMatchStatus  OBVIOUS
<1> DEFINE a == waiting \o skipped
           b == a \o step.skipped
           c == b \o running
<1>1. /\ waiting \in Seq(Request) /\ skipped \in Seq(Request) /\ running \in Seq(Request)
      /\ step.skipped \in Seq(Request) /\ status \in [Request -> Statuses]
  BY DEF QInv, QTyped
<1>2. /\ a \in Seq(Request) /\ ToSet(a) = ToSet(waiting) \cup ToSet(skipped)
      /\ IsInjective(a) <=>
           IsInjective(waiting) /\ IsInjective(skipped) /\ ToSet(waiting) \cap ToSet(skipped) = {}
  BY <1>1, ConcatFacts
<1> HIDE DEF a
<1>3. /\ b \in Seq(Request) /\ ToSet(b) = ToSet(a) \cup ToSet(step.skipped)
      /\ IsInjective(b) <=>
           IsInjective(a) /\ IsInjective(step.skipped) /\ ToSet(a) \cap ToSet(step.skipped) = {}
  BY <1>1, <1>2, ConcatFacts
<1> HIDE DEF b
<1>4. /\ ToSet(c) = ToSet(b) \cup ToSet(running)
      /\ IsInjective(c) <=>
           IsInjective(b) /\ IsInjective(running) /\ ToSet(b) \cap ToSet(running) = {}
  BY <1>1, <1>3, ConcatFacts
<1> HIDE DEF c
<1>5. IsInjective(b)  BY <1>2, <1>3 DEF QInv, Apart
<1>6. ToSet(b) = ToSet(waiting) \cup PassedOver /\ ToSet(b) \subseteq Request
  BY <1>2, <1>3, <1>1, ElementFacts DEF PassedOver
<1>7. ToSet(b) \cap ToSet(running) = {}  BY <1>6 DEF QInv, Where, Waits
<1>8. IsInjective(c)  BY <1>4, <1>5, <1>7 DEF QInv, Apart
<1>9. ASSUME NEW r \in Request
      PROVE  /\ r \in ToSet(c) <=> status[r] \notin {"ABSENT", "FINISHED"}
             /\ r \in ToSet(running) <=> status[r] = "RUNNING"
  <2>1. status[r] \in Statuses  BY <1>1
  <2>2. r \in ToSet(c) <=> status[r] \in Waits \/ status[r] = "RUNNING"
    BY <1>4, <1>6 DEF QInv, Where
  <2>3. r \in ToSet(running) <=> status[r] = "RUNNING"  BY DEF QInv, Where
  <2> QED  BY <2>1, <2>2, <2>3 DEF Statuses, Waits
<1> QED  BY <1>8, <1>9 DEF QueuesMatchStatus, a, b, c

LEMMA InitQueues == Init => QInv
<1> SUFFICES ASSUME Init PROVE QInv  OBVIOUS
<1>1. /\ waiting = <<>> /\ skipped = <<>> /\ running = <<>> /\ inflight = <<>> /\ step = NoStep
      /\ status = [r \in Request |-> "ABSENT"]
  BY DEF Init
<1>2. /\ step.skipped = <<>> /\ step.candidates = <<>> /\ step.phase = "idle"
      /\ step.index = 1 /\ step.preempted = FALSE /\ step.scheduled = [r \in Request |-> 0]
      /\ step.acct = NewAccountant(0, <<>>)
  BY <1>1 DEF NoStep
<1>3. ToSet(<<>>) = {} /\ <<>> \in Seq(Request) /\ IsInjective(<<>>)  BY DEF ToSet, IsInjective
<1>4. QTyped
  <2>1. "caps" \in DOMAIN step.acct  BY <1>2 DEF NewAccountant
  <2>2. DOMAIN step.scheduled = Request  BY <1>2
  <2>3. status \in [Request -> Statuses]  BY <1>1 DEF Statuses
  <2>4. step.phase \in Phases  BY <1>2 DEF Phases
  <2>5. step.index \in Nat  BY <1>2
  <2>6. step.preempted \in BOOLEAN  BY <1>2
  <2> QED  BY <1>1, <1>2, <1>3, <2>1, <2>2, <2>3, <2>4, <2>5, <2>6 DEF QTyped
<1>5. Apart  BY <1>1, <1>2, <1>3 DEF Apart
<1>6. Where  BY <1>1, <1>2, <1>3 DEF Where, PassedOver, Waits
<1>7. Selected /\ InBatch  BY <1>1, <1>2 DEF Selected, InBatch
<1>8. Safe  BY <1>1, <1>2, <1>3 DEF Safe, PassedOver
<1>9. Depth  BY <1>1, <1>2, BudgetAssumption DEF Depth
<1> QED  BY <1>4, <1>5, <1>6, <1>7, <1>8, <1>9 DEF QInv

-----------------------------------------------------------------------------
(* Facts about queues that the actions need *)

\* A queue loses one request at most when one is removed from it.
LEMMA RemoveOne ==
    ASSUME NEW E, NEW q \in Seq(E), IsInjective(q), NEW e
    PROVE  Len(Without(q, {e})) >= Len(q) - 1
<1> DEFINE w == Without(q, {e})
<1>1. w \in Seq(E) /\ ToSet(w) = ToSet(q) \ {e} /\ IsInjective(w)  BY WithoutFacts
<1> HIDE DEF w
<1>2. Cardinality(ToSet(w)) = Len(w) /\ Len(w) \in Nat  BY <1>1, QueueIsFinite
<1>3. Cardinality(ToSet(q)) = Len(q) /\ IsFiniteSet(ToSet(q)) /\ Len(q) \in Nat
  BY QueueIsFinite
<1>4. Cardinality(ToSet(q) \ {e}) >= Cardinality(ToSet(q)) - 1
  <2>1. Cardinality(ToSet(q) \ {e}) =
            IF e \in ToSet(q) THEN Cardinality(ToSet(q)) - 1 ELSE Cardinality(ToSet(q))
    BY <1>3, FS_RemoveElement
  <2> QED  BY <1>3, <2>1
<1> QED  BY <1>1, <1>2, <1>3, <1>4 DEF w

\* The first elements of a queue.
LEMMA PrefixFacts ==
    ASSUME NEW E, NEW q \in Seq(E), IsInjective(q), NEW k \in 0..Len(q)
    PROVE  /\ SubSeq(q, 1, k) \in Seq(E) /\ ToSet(SubSeq(q, 1, k)) \subseteq ToSet(q)
           /\ IsInjective(SubSeq(q, 1, k))
<1> DEFINE a == SubSeq(q, 1, k)
           b == SubSeq(q, k + 1, Len(q))
<1>1. a \in Seq(E)  BY SplitFacts
<1>2. ToSet(q) = ToSet(a) \cup ToSet(b)  BY SplitFacts
<1>3. IsInjective(a)  BY SplitFacts
<1> HIDE DEF a, b
<1>4. ToSet(a) \subseteq ToSet(q)  BY <1>2
<1> QED  BY <1>1, <1>3, <1>4 DEF a

\* A set of positions without gaps from the first on is an interval.
LEMMA PrefixIsInterval ==
    ASSUME NEW n \in Nat, NEW T \in SUBSET (1..n), \A i \in T : \A j \in 1..i : j \in T
    PROVE  Cardinality(T) \in 0..n /\ T = 1..Cardinality(T)
<1> DEFINE U == {k \in Nat : k + 1 \notin T}
<1>1. n \in U /\ U \in SUBSET Nat  OBVIOUS
<1>2. PICK k \in U : \A y \in U : k <= y  BY <1>1, NatMinimum
<1>3. k \in 0..n  BY <1>1, <1>2
<1>4. T \subseteq 1..k
  <2> SUFFICES ASSUME NEW i \in T, i > k PROVE FALSE  BY <1>3
  <2>1. k + 1 \in 1..i  BY <1>3
  <2> QED  BY <1>2, <2>1
<1>5. 1..k \subseteq T
  <2> SUFFICES ASSUME NEW i \in 1..k, i \notin T PROVE FALSE  OBVIOUS
  <2>1. i - 1 \in Nat /\ (i - 1) + 1 = i  BY <1>3
  <2>2. i - 1 \in U  BY <2>1
  <2>3. k <= i - 1  BY <1>2, <2>2
  <2> QED  BY <1>3, <2>3
<1>6. Cardinality(1..k) = IF 1 > k THEN 0 ELSE k - 1 + 1  BY <1>3, FS_Interval
<1>7. T = 1..k  BY <1>4, <1>5
<1>8. Cardinality(T) = k  BY <1>3, <1>6, <1>7
<1> QED  BY <1>3, <1>7, <1>8

\* SetToSeqs orders the elements of a finite set.
LEMMA OrderFacts ==
    ASSUME NEW E, NEW S \in SUBSET E, IsFiniteSet(S), NEW q \in SetToSeqs(S)
    PROVE  q \in Seq(E) /\ IsInjective(q) /\ ToSet(q) \subseteq S
<1>1. Cardinality(S) \in Nat  BY FS_CardinalityType
<1>2. /\ q \in [1..Cardinality(S) -> S]
      /\ \A i, j \in 1..Cardinality(S) : i # j => q[i] # q[j]
  BY DEF SetToSeqs
<1>3. q \in Seq(E)  BY <1>1, <1>2
<1>4. IsInjective(q)  BY <1>2 DEF IsInjective
<1>5. ToSet(q) \subseteq S  BY <1>2 DEF ToSet
<1> QED  BY <1>3, <1>4, <1>5

LEMMA OrdersFacts ==
    ASSUME NEW E, NEW S \in SUBSET E, IsFiniteSet(S), NEW q \in SetToAllKPermutations(S)
    PROVE  q \in Seq(E) /\ IsInjective(q) /\ ToSet(q) \subseteq S
<1>1. PICK T \in SUBSET S : q \in SetToSeqs(T)  BY DEF SetToAllKPermutations
<1>2. IsFiniteSet(T)  BY FS_Subset
<1> QED  BY <1>1, <1>2, OrderFacts

-----------------------------------------------------------------------------
(* What the policies decide *)

\* The candidates of a decision wait in self.waiting, each named once, and in
\* batch-budget mode each has a cap.
Candidates(d) ==
    /\ d.candidates \in Seq(Request) /\ IsInjective(d.candidates)
    /\ ToSet(d.candidates) \subseteq ToSet(NormalWaiting)
    /\ "caps" \in DOMAIN d.acct
    /\ BatchBudget => \A c \in ToSet(d.candidates) : HasCap(d.acct, c)

LEMMA NormalWaitingFacts ==
    ASSUME QTyped, Apart
    PROVE  /\ NormalWaiting \in Seq(Request) /\ IsInjective(NormalWaiting)
           /\ IsFiniteSet(ToSet(NormalWaiting)) /\ ToSet(NormalWaiting) \subseteq Request
           /\ \A r \in ToSet(NormalWaiting) : r \in ToSet(waiting) /\ status[r] = "WAITING"
<1> DEFINE S == {r \in Request : status[r] = "WAITING" /\ ~chunk[r]}
<1>1. waiting \in Seq(Request) /\ IsInjective(waiting)  BY DEF QTyped, Apart
<1>2. /\ Keep(waiting, S) \in Seq(Request) /\ IsInjective(Keep(waiting, S))
      /\ ToSet(Keep(waiting, S)) = ToSet(waiting) \cap S
  BY <1>1, KeepFacts
<1>3. NormalWaiting = Keep(waiting, S)  BY DEF NormalWaiting
<1> HIDE DEF S
<1>4. IsFiniteSet(ToSet(NormalWaiting)) /\ ToSet(NormalWaiting) \subseteq Request
  BY <1>2, <1>3, QueueIsFinite, ElementFacts
<1> QED  BY <1>2, <1>3, <1>4 DEF S

LEMMA InactiveCandidates == Candidates(Inactive)
<1>1. Inactive.candidates = <<>> /\ "caps" \in DOMAIN Inactive.acct
  BY DEF Inactive, NewAccountant
<1>2. ToSet(<<>>) = {} /\ <<>> \in Seq(Request) /\ IsInjective(<<>>)  BY DEF ToSet, IsInjective
<1> QED  BY <1>1, <1>2 DEF Candidates

LEMMA LegacyCandidates ==
    ASSUME QTyped, Apart, ~BatchBudget, NEW d \in LegacyDecisions
    PROVE  Candidates(d)
<1>1. CASE d = Inactive  BY <1>1, InactiveCandidates
<1>2. CASE d # Inactive
  <2>1. PICK k \in 1..Len(NormalWaiting) : \E reserve :
            d = [Inactive EXCEPT !.reserve = reserve,
                    !.candidates = IF CacheAware THEN <<>> ELSE SubSeq(NormalWaiting, 1, k)]
    BY <1>2 DEF LegacyDecisions
  <2>2. /\ d.candidates = IF CacheAware THEN <<>> ELSE SubSeq(NormalWaiting, 1, k)
        /\ d.acct = Inactive.acct
    BY <2>1 DEF Inactive
  <2>3. NormalWaiting \in Seq(Request) /\ IsInjective(NormalWaiting)  BY NormalWaitingFacts
  <2>4. k \in 0..Len(NormalWaiting)  OBVIOUS
  <2>5. /\ SubSeq(NormalWaiting, 1, k) \in Seq(Request)
        /\ ToSet(SubSeq(NormalWaiting, 1, k)) \subseteq ToSet(NormalWaiting)
        /\ IsInjective(SubSeq(NormalWaiting, 1, k))
    BY <2>3, <2>4, PrefixFacts
  <2>6. ToSet(<<>>) = {} /\ <<>> \in Seq(Request) /\ IsInjective(<<>>)  BY DEF ToSet, IsInjective
  <2>7. "caps" \in DOMAIN d.acct  BY <2>2 DEF Inactive, NewAccountant
  <2> QED  BY <2>2, <2>5, <2>6, <2>7 DEF Candidates
<1> QED  BY <1>1, <1>2

LEMMA DeadlineCandidates ==
    ASSUME QTyped, Apart, ~BatchBudget, NEW d \in DeadlineDecisions
    PROVE  Candidates(d)
<1>1. CASE d = Inactive  BY <1>1, InactiveCandidates
<1>2. CASE d # Inactive
  <2>1. PICK r \in ToSet(NormalWaiting) : \E reserve :
            d = [Inactive EXCEPT !.reserve = reserve, !.candidates = <<r>>]
    BY <1>2 DEF DeadlineDecisions
  <2>2. d.candidates = <<r>> /\ d.acct = Inactive.acct  BY <2>1 DEF Inactive
  <2>3. r \in Request  BY NormalWaitingFacts
  <2>4. <<r>> \in Seq(Request) /\ ToSet(<<r>>) = {r} /\ IsInjective(<<r>>)
    BY <2>3 DEF ToSet, IsInjective
  <2>5. "caps" \in DOMAIN d.acct  BY <2>2 DEF Inactive, NewAccountant
  <2> QED  BY <2>2, <2>4, <2>5 DEF Candidates
<1> QED  BY <1>1, <1>2

LEMMA PredictiveCandidates ==
    ASSUME QTyped, Apart, ~BatchBudget, NEW d \in PredictiveDecisions
    PROVE  Candidates(d)
<1>1. CASE d = Inactive  BY <1>1, InactiveCandidates
<1>2. CASE d # Inactive
  <2> DEFINE need == [r \in ToSet(NormalWaiting) |-> WaitingRemaining(r)]
  <2>1. PICK urgent \in SetToAllKPermutations(DOMAIN need) : \E caps, total :
            /\ d.candidates = Keep(urgent, DOMAIN caps)
            /\ d.acct = NewAccountant(total, caps)
    <3> DEFINE
           made(urgent, budget, eligible) ==
               LET caps == GrantedCaps(urgent, need, budget)
                   total == SumFunction(caps)
               IN [reserve      |-> total,
                   candidates   |-> Keep(urgent, DOMAIN caps),
                   swapEligible |-> eligible,
                   acct         |-> NewAccountant(total, caps)]
           orders  == SetToAllKPermutations(DOMAIN need) \ {<<>>}
           reserve == Least(MaxPrefillTokens, MaxSafeReserve)
           budgets(urgent) == SelectedBudgets(Least(reserve,
                                  SumFunction([i \in DOMAIN urgent |-> need[urgent[i]]]))) \ {0}
    <3>0. d \in UNION {UNION {{made(urgent, budget, eligible) : eligible \in SwapEligibility} :
                                  budget \in budgets(urgent)} : urgent \in orders}
      BY <1>2 DEF PredictiveDecisions
    <3> HIDE DEF made, budgets, need
    <3>1. \E urgent \in SetToAllKPermutations(DOMAIN need) :
              \E budget, eligible : d = made(urgent, budget, eligible)
      BY <3>0
    <3>2. PICK urgent \in SetToAllKPermutations(DOMAIN need) :
              \E budget, eligible : d = made(urgent, budget, eligible)
      BY <3>1
    <3>3. PICK budget, eligible : d = made(urgent, budget, eligible)  BY <3>2
    <3> QED  BY <3>3 DEF made
  <2>2. PICK caps, total : /\ d.candidates = Keep(urgent, DOMAIN caps)
                           /\ d.acct = NewAccountant(total, caps)
    BY <2>1
  <2>3. DOMAIN need = ToSet(NormalWaiting)  OBVIOUS
  <2> HIDE DEF need
  <2>4. urgent \in Seq(Request) /\ IsInjective(urgent) /\ ToSet(urgent) \subseteq ToSet(NormalWaiting)
    BY <2>3, NormalWaitingFacts, OrdersFacts
  <2>5. /\ Keep(urgent, DOMAIN caps) \in Seq(Request) /\ IsInjective(Keep(urgent, DOMAIN caps))
        /\ ToSet(Keep(urgent, DOMAIN caps)) = ToSet(urgent) \cap DOMAIN caps
    BY <2>4, KeepFacts
  <2>6. "caps" \in DOMAIN d.acct  BY <2>2 DEF NewAccountant
  <2> QED  BY <2>2, <2>4, <2>5, <2>6 DEF Candidates
<1> QED  BY <1>1, <1>2

LEMMA BatchBudgetCandidates ==
    ASSUME QTyped, Apart, NEW d \in BatchBudgetDecisions
    PROVE  Candidates(d)
<1>1. CASE d = Inactive  BY <1>1, InactiveCandidates
<1>2. CASE d # Inactive
  <2> DEFINE chunks == {r \in ToSet(running) : chunk[r] /\ RunningRemaining(r) > 0}
             items == chunks \cup ToSet(NormalWaiting)
  <2>1. PICK order \in SetToSeqs(items) : \E caps, total :
            /\ d.candidates = Keep(order, DOMAIN caps \ chunks)
            /\ d.acct = NewAccountant(total, caps)
    BY <1>2 DEF BatchBudgetDecisions
  <2>2. PICK caps, total : /\ d.candidates = Keep(order, DOMAIN caps \ chunks)
                           /\ d.acct = NewAccountant(total, caps)
    BY <2>1
  <2>3. items \subseteq Request /\ IsFiniteSet(items)
    <3>1. running \in Seq(Request)  BY DEF QTyped
    <3>2. IsFiniteSet(ToSet(running)) /\ ToSet(running) \subseteq Request
      BY <3>1, QueueIsFinite, ElementFacts
    <3>3. IsFiniteSet(chunks)  BY <3>2, FS_Subset
    <3>4. IsFiniteSet(ToSet(NormalWaiting)) /\ ToSet(NormalWaiting) \subseteq Request
      BY NormalWaitingFacts
    <3> QED  BY <3>2, <3>3, <3>4, FS_Union
  <2> HIDE DEF items
  <2>4. order \in Seq(Request) /\ IsInjective(order) /\ ToSet(order) \subseteq items
    BY <2>3, OrderFacts
  <2>5. /\ Keep(order, DOMAIN caps \ chunks) \in Seq(Request)
        /\ IsInjective(Keep(order, DOMAIN caps \ chunks))
        /\ ToSet(Keep(order, DOMAIN caps \ chunks)) = ToSet(order) \cap (DOMAIN caps \ chunks)
    BY <2>4, KeepFacts
  <2>6. "caps" \in DOMAIN d.acct  BY <2>2 DEF NewAccountant
  <2>7. ToSet(d.candidates) \subseteq ToSet(NormalWaiting) /\ ToSet(d.candidates) \subseteq DOMAIN caps
    BY <2>2, <2>4, <2>5 DEF items
  <2>8. d.acct.caps = caps  BY <2>2 DEF NewAccountant
  <2> QED  BY <2>2, <2>5, <2>6, <2>7, <2>8 DEF Candidates, HasCap
<1> QED  BY <1>1, <1>2

LEMMA DecisionCandidates ==
    ASSUME QTyped, Apart, NEW d \in Decisions
    PROVE  Candidates(d)
<1>1. \/ ~BatchBudget /\ d \in LegacyDecisions
      \/ ~BatchBudget /\ d \in DeadlineDecisions
      \/ ~BatchBudget /\ d \in PredictiveDecisions
      \/ d \in BatchBudgetDecisions
      \/ d = Inactive
  <2>1. PICK D \in {IF PolicyMode = "legacy" THEN LegacyDecisions ELSE {},
                    IF PolicyMode = "deadline" THEN DeadlineDecisions ELSE {},
                    IF PolicyMode = "predictive" THEN PredictiveDecisions ELSE {},
                    IF BatchBudget THEN BatchBudgetDecisions ELSE {},
                    IF PolicyMode = "off" THEN {Inactive} ELSE {}} : d \in D
    BY DEF Decisions
  <2>2. PolicyMode \in {"legacy", "deadline", "predictive"} => ~BatchBudget  BY DEF BatchBudget
  <2> QED  BY <2>1, <2>2
<1> QED
  BY <1>1, LegacyCandidates, DeadlineCandidates, PredictiveCandidates, BatchBudgetCandidates,
     InactiveCandidates

\* Promotion changes the order of the queue, and nothing else.
LEMMA PromoteFacts ==
    ASSUME QTyped, IsInjective(waiting), NEW chosen \in Seq(Request), IsInjective(chosen),
           \A c \in ToSet(chosen) : c \in ToSet(waiting) /\ status[c] = "WAITING"
    PROVE  /\ PromoteWaiting(chosen) \in Seq(Request) /\ IsInjective(PromoteWaiting(chosen))
           /\ ToSet(PromoteWaiting(chosen)) = ToSet(waiting)
<1>0. waiting \in Seq(Request)  BY DEF QTyped
<1>1. CASE chosen = <<>>  BY <1>0, <1>1 DEF PromoteWaiting
<1>2. CASE chosen # <<>>
  <2> DEFINE T == {i \in DOMAIN waiting : \A j \in 1..i : status[waiting[j]] = "PREEMPTED"}
             k == Cardinality(T)
             a == SubSeq(waiting, 1, k)
             b == SubSeq(waiting, k + 1, Len(waiting))
             w == Without(b, ToSet(chosen))
  <2>1. k \in 0..Len(waiting) /\ T = 1..k
    <3>1. DOMAIN waiting = 1..Len(waiting) /\ Len(waiting) \in Nat  BY <1>0
    <3>2. T \in SUBSET (1..Len(waiting)) /\ \A i \in T : \A j \in 1..i : j \in T  BY <3>1
    <3> HIDE DEF T
    <3> QED  BY <3>1, <3>2, PrefixIsInterval
  <2>2. \A i \in 1..k : status[waiting[i]] = "PREEMPTED"  BY <2>1
  <2>3. PromoteWaiting(chosen) = (a \o chosen) \o w
    <3>1. PromoteWaiting(chosen) = a \o chosen \o w  BY <1>2 DEF PromoteWaiting
    <3> QED  BY <3>1
  <2> HIDE DEF T, k
  <2>4. a \in Seq(Request) /\ b \in Seq(Request)  BY <1>0, <2>1, SplitFacts
  <2>5. ToSet(waiting) = ToSet(a) \cup ToSet(b)  BY <1>0, <2>1, SplitFacts
  <2>6. IsInjective(a) /\ IsInjective(b) /\ ToSet(a) \cap ToSet(b) = {}
    BY <1>0, <2>1, SplitFacts
  <2>7. \A x \in ToSet(a) : status[x] = "PREEMPTED"
    <3>1. DOMAIN a = 1..k /\ \A i \in 1..k : a[i] = waiting[i]  BY <1>0, <2>1
    <3>2. \A i \in DOMAIN a : status[a[i]] = "PREEMPTED"  BY <2>2, <3>1
    <3> HIDE DEF a
    <3> QED  BY <3>2 DEF ToSet
  <2> HIDE DEF a, b
  <2>8. w \in Seq(Request) /\ ToSet(w) = ToSet(b) \ ToSet(chosen) /\ IsInjective(w)
    BY <2>4, <2>6, WithoutFacts
  <2> HIDE DEF w
  <2>9. /\ a \o chosen \in Seq(Request) /\ ToSet(a \o chosen) = ToSet(a) \cup ToSet(chosen)
        /\ IsInjective(a \o chosen) <=>
             IsInjective(a) /\ IsInjective(chosen) /\ ToSet(a) \cap ToSet(chosen) = {}
    BY <2>4, ConcatFacts
  <2>10. IsInjective(a \o chosen)  BY <2>6, <2>7, <2>9
  <2> DEFINE p == a \o chosen
  <2>11. p \in Seq(Request) /\ IsInjective(p) /\ ToSet(p) = ToSet(a) \cup ToSet(chosen)
    BY <2>9, <2>10
  <2> HIDE DEF p
  <2>12. /\ p \o w \in Seq(Request) /\ ToSet(p \o w) = ToSet(p) \cup ToSet(w)
         /\ IsInjective(p \o w) <=>
              IsInjective(p) /\ IsInjective(w) /\ ToSet(p) \cap ToSet(w) = {}
    BY <2>8, <2>11, ConcatFacts
  <2>13. ToSet(p) \cap ToSet(w) = {}  BY <2>6, <2>8, <2>11
  <2>14. ToSet(p \o w) = ToSet(waiting)  BY <2>5, <2>8, <2>11, <2>12, <2>7
  <2> QED  BY <2>3, <2>8, <2>11, <2>12, <2>13, <2>14 DEF p
<1> QED  BY <1>1, <1>2

-----------------------------------------------------------------------------
(* The calls from outside the step *)

LEMMA QueueElements ==
    ASSUME QTyped
    PROVE  ToSet(waiting) \subseteq Request /\ PassedOver \subseteq Request /\ ToSet(running) \subseteq Request
BY ElementFacts DEF QTyped, PassedOver

LEMMA UnchangedQueues ==
    ASSUME QInv, UNCHANGED <<waiting, skipped, running, status, inflight, step>>
    PROVE  QInv'
BY DEF QInv, QTyped, Apart, Where, PassedOver, Selected, InBatch, Safe, Gone, Depth

LEMMA AddQueues ==
    ASSUME QInv, NEW r \in Request, AddRequest(r)
    PROVE  QInv'
<1>1. /\ step.phase = "idle" /\ status[r] = "ABSENT"
      /\ running' = running /\ inflight' = inflight /\ step' = step
  BY DEF AddRequest, BetweenSteps
<1>2. PICK s \in {"WAITING", "WAITING_FOR_GRAMMAR"} : status' = [status EXCEPT ![r] = s]
  BY DEF AddRequest
<1>3. \/ waiting' = Append(waiting, r) /\ skipped' = skipped
      \/ waiting' = waiting /\ skipped' = Append(skipped, r)
  BY DEF AddRequest
<1>4. QTyped /\ Apart /\ Where /\ Selected /\ InBatch /\ Safe /\ Depth  BY DEF QInv
<1>5. r \notin ToSet(waiting) \cup PassedOver /\ r \notin ToSet(running)
  BY <1>1, <1>4 DEF Where, Waits
<1>6. /\ Append(waiting, r) \in Seq(Request) /\ ToSet(Append(waiting, r)) = ToSet(waiting) \cup {r}
      /\ IsInjective(Append(waiting, r))
  BY <1>4, <1>5, AppendFacts DEF QTyped, Apart
<1>7. /\ Append(skipped, r) \in Seq(Request) /\ ToSet(Append(skipped, r)) = ToSet(skipped) \cup {r}
      /\ IsInjective(Append(skipped, r))
  BY <1>4, <1>5, AppendFacts DEF QTyped, Apart, PassedOver
<1>8. /\ status' \in [Request -> Statuses] /\ status'[r] = s
      /\ \A q \in Request : q # r => status'[q] = status[q]
  BY <1>2, <1>4 DEF QTyped, Statuses
<1>9. /\ waiting' \in Seq(Request) /\ skipped' \in Seq(Request)
      /\ IsInjective(waiting') /\ IsInjective(skipped')
      /\ ToSet(waiting') \cap ToSet(skipped') = {}
      /\ ToSet(waiting') \cap ToSet(step.skipped) = {}
      /\ ToSet(skipped') \cap ToSet(step.skipped) = {}
      /\ ToSet(waiting') \cup PassedOver' = ToSet(waiting) \cup PassedOver \cup {r}
      /\ PassedOver' \subseteq PassedOver \cup {r}
  BY <1>1, <1>3, <1>4, <1>5, <1>6, <1>7 DEF QTyped, Apart, PassedOver
<1>10. QTyped'  BY <1>1, <1>4, <1>8, <1>9 DEF QTyped
<1>11. Apart'  BY <1>1, <1>4, <1>9 DEF Apart
<1>12. Where'
  <2> SUFFICES ASSUME NEW q \in Request
               PROVE  /\ q \in ToSet(waiting') \cup PassedOver' <=> status'[q] \in Waits
                      /\ q \in ToSet(running') <=> status'[q] = "RUNNING"
    BY DEF Where
  <2>1. CASE q = r  BY <1>1, <1>5, <1>8, <1>9, <2>1 DEF Waits
  <2>2. CASE q # r  BY <1>1, <1>4, <1>8, <1>9, <2>2 DEF Where
  <2> QED  BY <2>1, <2>2
<1>13. PassedOver \subseteq Request  BY <1>4, QueueElements
<1>14. \A q \in Request : status[q] \in {"PREEMPTED", "RUNNING"} => status'[q] = status[q]
  BY <1>1, <1>8
<1>15. Selected' /\ InBatch'  BY <1>1, <1>4, <1>14 DEF Selected, InBatch
<1>16. Safe'
  <2> SUFFICES ASSUME NEW q \in PassedOver', status'[q] = "PREEMPTED"
               PROVE  BatchBudget /\ Gone(q)'
    BY DEF Safe
  <2>1. q \in PassedOver /\ status[q] = "PREEMPTED"  BY <1>8, <1>9, <1>13
  <2> QED  BY <1>1, <1>4, <2>1 DEF Safe, Gone
<1>17. Depth'  BY <1>1, <1>4, <1>8 DEF Depth
<1> QED  BY <1>10, <1>11, <1>12, <1>15, <1>16, <1>17 DEF QInv

\* The batches in flight, when the oldest is taken.
LEMMA TakenBatches ==
    ASSUME PoolInv, inflight # <<>>
    PROVE  /\ Len(inflight) \in Nat \ {0} /\ DOMAIN inflight = 1..Len(inflight)
           /\ Head(inflight) = inflight[1] /\ Head(inflight) \in Batch
           /\ DOMAIN Tail(inflight) = 1..(Len(inflight) - 1)
           /\ Len(Tail(inflight)) = Len(inflight) - 1
           /\ \A i \in DOMAIN Tail(inflight) : /\ i + 1 \in DOMAIN inflight
                                               /\ Tail(inflight)[i] = inflight[i + 1]
<1>1. inflight \in Seq(Batch)  BY DEF PoolInv
<1>2. DOMAIN Tail(inflight) = 1..(Len(inflight) - 1) /\ DOMAIN inflight = 1..Len(inflight)
  BY <1>1
<1> QED  BY <1>1, <1>2, TailFacts

\* Requests end: they leave their queues, and perhaps the oldest batch is done.
LEMMA EndQueues ==
    ASSUME PoolInv, QInv, NEW R \in SUBSET Request,
           step.phase = "idle", step' = step,
           status' = [q \in Request |-> IF q \in R THEN "FINISHED" ELSE status[q]],
           waiting' \in Seq(Request), IsInjective(waiting'), ToSet(waiting') = ToSet(waiting) \ R,
           skipped' \in Seq(Request), IsInjective(skipped'), ToSet(skipped') = ToSet(skipped) \ R,
           running' \in Seq(Request), IsInjective(running'), ToSet(running') = ToSet(running) \ R,
           Len(running') <= Len(running),
           inflight' = inflight \/ (inflight # <<>> /\ inflight' = Tail(inflight))
    PROVE  QInv'
<1>1. QTyped /\ Apart /\ Where /\ Selected /\ InBatch /\ Safe /\ Depth  BY DEF QInv
<1>2. /\ step.skipped = <<>> /\ ToSet(step.skipped) = {}
      /\ \A q \in Request : step.scheduled[q] = 0
  BY <1>1 DEF InBatch, NoStep, ToSet
<1>3. PassedOver = ToSet(skipped) /\ PassedOver' = ToSet(skipped) \ R
  BY <1>2 DEF PassedOver
<1>4. QTyped'
  <2>1. status' \in [Request -> Statuses]  BY <1>1 DEF QTyped, Statuses
  <2> QED  BY <1>1, <2>1 DEF QTyped
<1>5. Apart'  BY <1>1, <1>2 DEF Apart
<1>6. Where'
  <2> SUFFICES ASSUME NEW q \in Request
               PROVE  /\ q \in ToSet(waiting') \cup PassedOver' <=> status'[q] \in Waits
                      /\ q \in ToSet(running') <=> status'[q] = "RUNNING"
    BY DEF Where
  <2>1. CASE q \in R  BY <1>3, <2>1 DEF Waits
  <2>2. CASE q \notin R  BY <1>1, <1>3, <2>2 DEF Where
  <2> QED  BY <2>1, <2>2
<1>7. Selected'  BY DEF Selected
<1>8. InBatch'
  <2>1. step' = NoStep  BY <1>1 DEF InBatch
  <2> QED  BY <1>2, <2>1 DEF InBatch
<1>9. \A q : Gone(q) => Gone(q)'
  <2>1. CASE inflight' = inflight  BY <2>1 DEF Gone
  <2>2. CASE inflight # <<>> /\ inflight' = Tail(inflight)  BY <2>2, TakenBatches DEF Gone
  <2> QED  BY <2>1, <2>2
<1>10. \A q \in Request : status'[q] = "PREEMPTED" => status[q] = "PREEMPTED"  OBVIOUS
<1>11. Safe'  BY <1>1, <1>3, <1>4, <1>9, <1>10, QueueElements DEF Safe
<1>12. Depth'
  <2> SUFFICES ASSUME BatchBudget PROVE Depth'  BY DEF Depth
  <2>1. Len(running') <= MaxNumRunningReqs
    <3>1. Len(running) \in Nat /\ Len(running') \in Nat  BY <1>1 DEF QTyped
    <3>2. Len(running) <= MaxNumRunningReqs  BY <1>1 DEF Depth
    <3> QED  BY <3>1, <3>2, BudgetAssumption
  <2>2. ASSUME inflight' # <<>>, NEW q \in Request, status'[q] = "PREEMPTED"
        PROVE  q \notin inflight'[Len(inflight')].emits
    <3>1. CASE inflight' = inflight  BY <1>1, <1>10, <2>2, <3>1 DEF Depth
    <3>2. CASE inflight # <<>> /\ inflight' = Tail(inflight)
      <4>1. inflight' \in Seq(Batch) /\ Len(inflight') \in Nat \ {0}
        <5>1. inflight' \in Seq(Batch)  BY <3>2, TailFacts DEF PoolInv
        <5> QED  BY <2>2, <5>1
      <4>2. PICK k \in Nat \ {0} : k = Len(inflight')  BY <4>1
      <4>3. k = Len(inflight) - 1 /\ k \in 1..(Len(inflight) - 1) /\ k + 1 = Len(inflight)
        <5>1. k = Len(inflight) - 1 /\ Len(inflight) \in Nat  BY <3>2, <4>2, TakenBatches
        <5> QED  BY <5>1
      <4>4. inflight'[k] = inflight[k + 1]
        <5>1. k \in DOMAIN Tail(inflight)  BY <3>2, <4>3, TakenBatches
        <5> QED  BY <3>2, <5>1, TakenBatches
      <4>5. q \notin inflight[Len(inflight)].emits  BY <1>1, <1>10, <2>2, <3>2 DEF Depth
      <4> QED  BY <4>2, <4>3, <4>4, <4>5
    <3> QED  BY <3>1, <3>2
  <2> QED  BY <2>1, <2>2 DEF Depth
<1> QED  BY <1>4, <1>5, <1>6, <1>7, <1>8, <1>11, <1>12 DEF QInv

\* A queue without the requests of R; nothing happens to one that has none.
LEMMA DropFacts ==
    ASSUME NEW q \in Seq(Request), IsInjective(q), NEW R, NEW p,
           p = Without(q, R) \/ (p = q /\ ToSet(q) \cap R = {})
    PROVE  /\ p \in Seq(Request) /\ IsInjective(p) /\ ToSet(p) = ToSet(q) \ R
           /\ Len(p) <= Len(q)
<1>1. CASE p = Without(q, R)  BY <1>1, WithoutFacts
<1>2. CASE p = q /\ ToSet(q) \cap R = {}
  <2>1. Len(q) \in Nat  OBVIOUS
  <2> QED  BY <1>2, <2>1
<1> QED  BY <1>1, <1>2

LEMMA AbortQueues ==
    ASSUME PoolInv, QInv, NEW r \in Request, Abort(r)
    PROVE  QInv'
<1>1. QTyped /\ Apart /\ Where /\ Selected /\ InBatch /\ Safe /\ Depth  BY DEF QInv
<1>2. /\ step.phase = "idle" /\ step' = step /\ inflight' = inflight
      /\ status[r] \in {"WAITING", "WAITING_FOR_GRAMMAR", "RUNNING", "PREEMPTED"}
      /\ status' = [q \in Request |-> IF q \in {r} THEN "FINISHED" ELSE status[q]]
  BY DEF Abort, Forget
<1>3. step.skipped = <<>> /\ ToSet(step.skipped) = {}  BY <1>1, <1>2 DEF InBatch, NoStep, ToSet
<1>4. /\ waiting' = Without(waiting, {r}) \/ (waiting' = waiting /\ ToSet(waiting) \cap {r} = {})
      /\ skipped' = Without(skipped, {r}) \/ (skipped' = skipped /\ ToSet(skipped) \cap {r} = {})
      /\ running' = Without(running, {r}) \/ (running' = running /\ ToSet(running) \cap {r} = {})
  <2>1. CASE status[r] = "RUNNING"
    <3>1. r \notin ToSet(waiting) /\ r \notin ToSet(skipped)
      BY <1>1, <2>1 DEF Where, Waits, PassedOver
    <3>2. running' = Without(running, {r}) /\ waiting' = waiting /\ skipped' = skipped
      BY <2>1 DEF Abort
    <3> QED  BY <3>1, <3>2
  <2>2. CASE status[r] # "RUNNING"
    <3>1. r \notin ToSet(running)  BY <1>1, <2>2 DEF Where
    <3>2. /\ waiting' = Without(waiting, {r}) /\ skipped' = Without(skipped, {r})
          /\ running' = running
      BY <2>2 DEF Abort
    <3> QED  BY <3>1, <3>2
  <2> QED  BY <2>1, <2>2
<1>5. waiting' \in Seq(Request) /\ IsInjective(waiting') /\ ToSet(waiting') = ToSet(waiting) \ {r}
  BY <1>1, <1>4, DropFacts DEF QTyped, Apart
<1>6. skipped' \in Seq(Request) /\ IsInjective(skipped') /\ ToSet(skipped') = ToSet(skipped) \ {r}
  BY <1>1, <1>4, DropFacts DEF QTyped, Apart
<1>7. /\ running' \in Seq(Request) /\ IsInjective(running') /\ ToSet(running') = ToSet(running) \ {r}
      /\ Len(running') <= Len(running)
  BY <1>1, <1>4, DropFacts DEF QTyped, Apart
<1>8. PICK R \in SUBSET Request : R = {r}  OBVIOUS
<1> QED  BY <1>2, <1>5, <1>6, <1>7, <1>8, EndQueues

\* A request that stops is in the queue it is removed from.
LEMMA UpdateQueues ==
    ASSUME PoolInv, QInv, UpdateFromOutput
    PROVE  QInv'
<1>1. QTyped /\ Apart /\ Where /\ Selected /\ InBatch /\ Safe /\ Depth  BY DEF QInv
<1>2. /\ step.phase = "idle" /\ step' = step /\ inflight # <<>> /\ inflight' = Tail(inflight)
      /\ skipped' = skipped
  BY DEF UpdateFromOutput
<1>3. step.skipped = <<>> /\ ToSet(step.skipped) = {}  BY <1>1, <1>2 DEF InBatch, NoStep, ToSet
<1>4. PICK R : /\ R \subseteq Receiving(Head(inflight)) /\ DropStopped(R)
               /\ status' = [q \in Request |-> IF q \in R THEN "FINISHED" ELSE status[q]]
  <2> DEFINE live == Receiving(Head(inflight))
             stopped(eos) == {r \in live : r \in eos \/ output'[r] >= MaxTokens[r]}
  <2>1. PICK eos \in SUBSET (live \cap MayStopEarly) :
            /\ DropStopped(stopped(eos))
            /\ status' = [q \in Request |-> IF q \in stopped(eos) THEN "FINISHED" ELSE status[q]]
    BY DEF UpdateFromOutput, Forget
  <2>2. stopped(eos) \subseteq live  OBVIOUS
  <2> HIDE DEF live, stopped
  <2> QED  BY <2>1, <2>2 DEF live
<1>5. \A q \in R : /\ q \in Request /\ q \in Head(inflight).emits
                   /\ status[q] \in {"RUNNING", "PREEMPTED"}
  BY <1>2, <1>4, TakenBatches DEF Receiving, Batch
<1>6. \A q \in R : ~Gone(q)
  BY <1>2, <1>5, TakenBatches DEF Gone
<1>7. ToSet(skipped) \cap R = {}
  <2> SUFFICES ASSUME NEW q \in R, q \in ToSet(skipped) PROVE FALSE  OBVIOUS
  <2>1. q \in PassedOver /\ status[q] \in Waits  BY <1>1, <1>5 DEF Where, PassedOver
  <2>2. status[q] = "PREEMPTED"  BY <1>5, <2>1 DEF Waits
  <2> QED  BY <1>1, <1>6, <2>1, <2>2 DEF Safe
<1> DEFINE ran    == {r \in R : status[r] = "RUNNING"}
           waited == {r \in R : status[r] = "PREEMPTED"}
<1>8. running' = Without(running, ran) /\ waiting' = Without(waiting, waited)
  BY <1>4 DEF DropStopped
<1>9. ToSet(running) \ ran = ToSet(running) \ R /\ ToSet(waiting) \ waited = ToSet(waiting) \ R
  BY <1>1, <1>5, QueueElements DEF Where, Waits
<1> HIDE DEF ran, waited
<1>10. waiting' \in Seq(Request) /\ IsInjective(waiting') /\ ToSet(waiting') = ToSet(waiting) \ R
  <2>1. waiting \in Seq(Request) /\ IsInjective(waiting)  BY <1>1 DEF QTyped, Apart
  <2> QED  BY <1>8, <1>9, <2>1, WithoutFacts
<1>11. skipped' \in Seq(Request) /\ IsInjective(skipped') /\ ToSet(skipped') = ToSet(skipped) \ R
  BY <1>1, <1>2, <1>7 DEF QTyped, Apart
<1>12. /\ running' \in Seq(Request) /\ IsInjective(running') /\ ToSet(running') = ToSet(running) \ R
       /\ Len(running') <= Len(running)
  <2>1. running \in Seq(Request) /\ IsInjective(running)  BY <1>1 DEF QTyped, Apart
  <2> QED  BY <1>8, <1>9, <2>1, WithoutFacts
<1>13. R \in SUBSET Request  BY <1>5
<1> QED  BY <1>2, <1>4, <1>10, <1>11, <1>12, <1>13, EndQueues

-----------------------------------------------------------------------------
(* The iterations of schedule() *)

\* A promotion disturbs nothing.
LEMMA PromoteQueues ==
    ASSUME QInv, NEW chosen \in Seq(Request), IsInjective(chosen),
           \A c \in ToSet(chosen) : c \in ToSet(waiting) /\ status[c] = "WAITING",
           waiting' = waiting \/ waiting' = PromoteWaiting(chosen)
    PROVE  waiting' \in Seq(Request) /\ IsInjective(waiting') /\ ToSet(waiting') = ToSet(waiting)
<1>1. QTyped /\ waiting \in Seq(Request) /\ IsInjective(waiting)  BY DEF QInv, QTyped, Apart
<1> QED  BY <1>1, PromoteFacts

LEMMA StartQueues ==
    ASSUME SmallDepth, PoolInv, QInv, StartSchedule
    PROVE  QInv'
<1>1. QTyped /\ Apart /\ Where /\ Selected /\ InBatch /\ Safe /\ Depth  BY DEF QInv
<1>2. /\ step.phase = "idle" /\ Len(inflight) < BatchQueueSize
      /\ skipped' = skipped /\ running' = running /\ status' = status /\ inflight' = inflight
  BY DEF StartSchedule, BetweenSteps, requests
<1>3. PICK d \in Decisions :
         /\ step' = [NoStep EXCEPT !.phase = "running",
                                   !.budget = MaxNumScheduledTokens - d.reserve,
                                   !.held = d.reserve,
                                   !.candidates = d.candidates,
                                   !.swapEligible = d.swapEligible,
                                   !.acct = d.acct]
         /\ waiting' = IF BatchBudget THEN PromoteWaiting(d.candidates) ELSE waiting
  BY DEF StartSchedule
<1>4. Candidates(d)  BY <1>1, DecisionCandidates
<1>5. /\ DOMAIN step' = DOMAIN NoStep /\ step'.phase = "running" /\ step'.index = 1
      /\ step'.skipped = <<>> /\ step'.candidates = d.candidates /\ step'.swappedFor = {}
      /\ step'.scheduled = [r \in Request |-> 0] /\ step'.acct = d.acct
  BY <1>3 DEF NoStep
<1>6. step'.preempted = FALSE  BY <1>3 DEF NoStep
<1>7. \A c \in ToSet(d.candidates) : c \in ToSet(waiting) /\ status[c] = "WAITING"
  BY <1>1, <1>4, NormalWaitingFacts DEF Candidates
<1>8. /\ waiting' \in Seq(Request) /\ IsInjective(waiting') /\ ToSet(waiting') = ToSet(waiting)
  BY <1>3, <1>4, <1>7, PromoteQueues DEF Candidates
<1>9. step.skipped = <<>>  BY <1>1, <1>2 DEF InBatch, NoStep
<1>10. QTyped'
  <2>1. step'.preempted \in BOOLEAN  BY <1>6
  <2>2. step'.phase \in Phases /\ step'.index \in Nat  BY <1>5 DEF Phases
  <2>3. DOMAIN step'.scheduled = Request /\ "caps" \in DOMAIN step'.acct
    BY <1>4, <1>5 DEF Candidates
  <2>4. step'.skipped \in Seq(Request) /\ step'.candidates \in Seq(Request)
    BY <1>4, <1>5 DEF Candidates
  <2> QED  BY <1>1, <1>2, <1>5, <1>8, <2>1, <2>2, <2>3, <2>4 DEF QTyped
<1>11. Apart'  BY <1>1, <1>2, <1>5, <1>8, <1>9 DEF Apart
<1>12. PassedOver' = PassedOver  BY <1>2, <1>5, <1>9 DEF PassedOver
<1>13. Where'  BY <1>1, <1>2, <1>8, <1>12 DEF Where
<1>14. Selected'  BY <1>2, <1>4, <1>5, <1>7, <1>8 DEF Selected, Candidates
<1>15. InBatch'
  <2>1. \A r \in Request : step'.scheduled[r] = 0  BY <1>5
  <2>2. \A i \in DOMAIN running' : running'[i] \in Request  BY <1>1, <1>2 DEF QTyped
  <2> QED  BY <1>5, <2>1, <2>2 DEF InBatch
<1>16. Safe'  BY <1>1, <1>2, <1>12 DEF Safe, Gone
<1>17. Depth'
  <2> SUFFICES ASSUME BatchBudget PROVE Depth'  BY DEF Depth
  <2>1. Len(inflight) \in Nat /\ DOMAIN inflight = 1..Len(inflight)  BY InflightType
  <2>2. Len(inflight) <= 1  BY <1>2, <2>1, PipelineAssumption DEF SmallDepth
  <2>3. ASSUME NEW r \in Request, status[r] = "PREEMPTED", NEW i \in DOMAIN inflight
        PROVE  r \notin inflight[i].emits
    <3>1. i = Len(inflight) /\ inflight # <<>>  BY <2>1, <2>2
    <3> QED  BY <1>1, <1>2, <2>3, <3>1 DEF Depth
  <2>4. \A r \in Request : status'[r] = "PREEMPTED" => Gone(r)'  BY <1>2, <2>3 DEF Gone
  <2>5. \A c \in ToSet(step'.candidates) : HasCap(step'.acct, c)  BY <1>4, <1>5 DEF Candidates
  <2>6. Len(running') <= MaxNumRunningReqs  BY <1>1, <1>2 DEF Depth
  <2> QED  BY <1>2, <1>5, <2>2, <2>4, <2>5, <2>6 DEF Depth
<1> QED  BY <1>10, <1>11, <1>13, <1>14, <1>15, <1>16, <1>17 DEF QInv

\* The accountant never changes the caps.
LEMMA CapsStay ==
    ASSUME NEW acct, "caps" \in DOMAIN acct, NEW r, NEW n, NEW source
    PROVE  /\ "caps" \in DOMAIN Commit(acct, r, n, source)
           /\ Commit(acct, r, n, source).caps = acct.caps
           /\ "caps" \in DOMAIN Restore(acct, r, n, source)
           /\ Restore(acct, r, n, source).caps = acct.caps
<1>1. "caps" \in DOMAIN Commit(acct, r, n, source) /\ Commit(acct, r, n, source).caps = acct.caps
  BY DEF Commit
<1>2. "caps" \in DOMAIN Restore(acct, r, n, source) /\ Restore(acct, r, n, source).caps = acct.caps
  BY DEF Restore
<1> QED  BY <1>1, <1>2

\* Steps that only move on: the next request of the loop, the next loop.
LEMMA MoveOnQueues ==
    ASSUME QInv, UNCHANGED <<queues, status, inflight>>,
           \/ step.phase = "running" /\ step' = [step EXCEPT !.index = @ + 1]
           \/ step.phase = "swap" /\ step' = [step EXCEPT !.phase = WaitingPhase(step)]
           \/ step.phase = "waiting" /\ step' = [step EXCEPT !.phase = "finish"]
    PROVE  QInv'
<1>1. QTyped /\ Apart /\ Where /\ Selected /\ InBatch /\ Safe /\ Depth  BY DEF QInv
<1>2. waiting' = waiting /\ skipped' = skipped /\ running' = running
      /\ status' = status /\ inflight' = inflight
  BY DEF queues
<1>3. DOMAIN step = DOMAIN NoStep /\ step.index \in Nat \ {0} /\ step.preempted \in BOOLEAN
      /\ step.phase \in Phases
  BY <1>1 DEF QTyped
<1>4. /\ DOMAIN step' = DOMAIN NoStep /\ step'.skipped = step.skipped
      /\ step'.candidates = step.candidates /\ step'.scheduled = step.scheduled
      /\ step'.acct = step.acct /\ step'.swappedFor = step.swappedFor
      /\ step'.preempted = step.preempted
  BY <1>3 DEF NoStep
<1>5. /\ step'.phase \in Phases /\ step'.index \in Nat \ {0}
      /\ step.phase # "idle" /\ step'.phase # "idle"
      /\ step'.phase \in {"running", "restore"} =>
           step.phase = "running" /\ step'.phase = "running" /\ step'.index = step.index + 1
      /\ step'.phase \in {"running", "restore", "swap"} => step.phase \in {"running", "restore", "swap"}
      /\ step'.phase = "waiting" => step.phase = "swap" /\ (~step.preempted \/ step.swappedFor # {})
  BY <1>3 DEF NoStep, WaitingPhase, Phases
<1>6. QTyped'  BY <1>1, <1>2, <1>4, <1>5 DEF QTyped
<1>7. Apart' /\ Where'  BY <1>1, <1>2, <1>4 DEF Apart, Where, PassedOver
<1>8. Selected'  BY <1>1, <1>2, <1>4, <1>5 DEF Selected
<1>9. InBatch'
  <2>1. ASSUME step'.phase = "running", NEW i \in DOMAIN running', i >= step'.index
        PROVE  step'.scheduled[running'[i]] = 0
    <3>1. i \in Nat  BY <1>1, <1>2 DEF QTyped
    <3>2. i >= step.index /\ i \in DOMAIN running  BY <1>2, <1>3, <1>5, <2>1, <3>1
    <3> QED  BY <1>1, <1>2, <1>4, <1>5, <2>1, <3>2 DEF InBatch
  <2> QED  BY <1>1, <1>2, <1>4, <1>5, <2>1 DEF InBatch
<1>10. Safe'  BY <1>1, <1>2, <1>4 DEF Safe, Gone, PassedOver
<1>11. Depth'
  <2>1. step'.phase = "waiting" => ~step'.preempted
    <3>1. step'.phase = "waiting" => step.swappedFor = {}  BY <1>1, <1>5 DEF InBatch
    <3> QED  BY <1>4, <1>5, <3>1
  <2> QED  BY <1>1, <1>2, <1>4, <1>5, <2>1 DEF Depth, Gone
<1> QED  BY <1>6, <1>7, <1>8, <1>9, <1>10, <1>11 DEF QInv

LEMMA MovingOn ==
    ASSUME QInv, \/ \E r \in Request : RunningSkip(r)
                 \/ SwapReject
                 \/ \E c, v \in Request : SwapPreflightFails(c, v)
                 \/ WaitingDone
    PROVE  QInv'
<1>1. UNCHANGED <<queues, status, inflight>>
  BY DEF RunningSkip, SwapReject, SwapPreflightFails, WaitingDone, requests
<1>2. \/ step.phase = "running" /\ step' = [step EXCEPT !.index = @ + 1]
      \/ step.phase = "swap" /\ step' = [step EXCEPT !.phase = WaitingPhase(step)]
      \/ step.phase = "waiting" /\ step' = [step EXCEPT !.phase = "finish"]
  BY DEF RunningSkip, SwapReject, SwapPreflightFails, WaitingDone, InRunningLoop
<1> QED  BY <1>1, <1>2, MoveOnQueues

LEMMA ScheduleQueues ==
    ASSUME QInv, NEW r \in Request, RunningSchedule(r)
    PROVE  QInv'
<1>1. QTyped /\ Apart /\ Where /\ Selected /\ InBatch /\ Safe /\ Depth  BY DEF QInv
<1>2. /\ waiting' = waiting /\ skipped' = skipped /\ running' = running
      /\ status' = status /\ inflight' = inflight
      /\ step.phase = "running" /\ step.index <= Len(running) /\ r = running[step.index]
  BY DEF RunningSchedule, InRunningLoop, queues, requests
<1>3. PICK n : step' = [step EXCEPT !.index = @ + 1,
                            !.budget = @ - n,
                            !.scheduled[r] = n,
                            !.acct = IF BatchBudget /\ chunk[r]
                                     THEN Commit(@, r, n, "running") ELSE @]
  BY DEF RunningSchedule
<1>4. DOMAIN step = DOMAIN NoStep /\ step.index \in Nat \ {0} /\ DOMAIN step.scheduled = Request
  BY <1>1 DEF QTyped
<1>5. /\ DOMAIN step' = DOMAIN NoStep /\ step'.skipped = step.skipped
      /\ step'.candidates = step.candidates /\ step'.swappedFor = step.swappedFor
      /\ step'.phase = "running" /\ step'.index = step.index + 1
  BY <1>2, <1>3, <1>4 DEF NoStep
<1>6. step'.preempted = step.preempted  BY <1>3, <1>4 DEF NoStep
<1>7. /\ DOMAIN step'.scheduled = Request
      /\ \A q \in Request : q # r => step'.scheduled[q] = step.scheduled[q]
  BY <1>3, <1>4 DEF NoStep
<1>8. "caps" \in DOMAIN step'.acct /\ step'.acct.caps = step.acct.caps
  <2>1. step'.acct = step.acct \/ step'.acct = Commit(step.acct, r, n, "running")
    BY <1>3, <1>4 DEF NoStep
  <2>2. "caps" \in DOMAIN step.acct  BY <1>1 DEF QTyped
  <2> QED  BY <2>1, <2>2, CapsStay
<1>9. running \in Seq(Request) /\ IsInjective(running)  BY <1>1 DEF QTyped, Apart
<1>10. QTyped'
  <2>1. step'.preempted \in BOOLEAN  BY <1>1, <1>6 DEF QTyped
  <2>2. step'.phase \in Phases /\ step'.index \in Nat  BY <1>4, <1>5 DEF Phases
  <2> QED  BY <1>1, <1>2, <1>5, <1>7, <1>8, <2>1, <2>2 DEF QTyped
<1>11. Apart' /\ Where'  BY <1>1, <1>2, <1>5 DEF Apart, Where, PassedOver
<1>12. Selected'  BY <1>1, <1>2, <1>5 DEF Selected
<1>13. InBatch'
  <2>1. DOMAIN running = 1..Len(running) /\ Len(running) \in Nat  BY <1>9
  <2>2. step.index \in DOMAIN running  BY <1>2, <1>4, <2>1
  <2>3. status[r] = "RUNNING"  BY <1>1, <1>2, <2>2 DEF Where, ToSet
  <2>4. \A q \in Request : step'.scheduled[q] # 0 => status'[q] = "RUNNING"
    BY <1>1, <1>2, <1>7, <2>3 DEF InBatch
  <2>5. ASSUME NEW i \in DOMAIN running, i >= step.index + 1
        PROVE  step'.scheduled[running[i]] = 0
    <3>1. i >= step.index /\ i # step.index  BY <1>4, <2>1, <2>5
    <3>2. running[i] # r /\ running[i] \in Request  BY <1>2, <1>9, <2>2, <3>1 DEF IsInjective
    <3>3. step.scheduled[running[i]] = 0  BY <1>1, <1>2, <3>1 DEF InBatch
    <3> QED  BY <1>7, <3>2, <3>3
  <2> QED  BY <1>1, <1>2, <1>5, <2>4, <2>5 DEF InBatch
<1>14. Safe'  BY <1>1, <1>2, <1>5 DEF Safe, Gone, PassedOver
<1>15. Depth'  BY <1>1, <1>2, <1>5, <1>6, <1>8 DEF Depth, Gone, HasCap
<1> QED  BY <1>10, <1>11, <1>12, <1>13, <1>14, <1>15 DEF QInv

\* The victim of a preemption leaves the queue of the running requests for the
\* head of the waiting ones, and the batch.
LEMMA PreemptQueues ==
    ASSUME QInv, NEW r \in Request, NEW v \in Request, RunningPreempt(r, v)
    PROVE  QInv'
<1>1. QTyped /\ Apart /\ Where /\ Selected /\ InBatch /\ Safe /\ Depth  BY DEF QInv
<1>2. /\ waiting' = <<v>> \o waiting /\ skipped' = skipped /\ running' = Front(running)
      /\ status' = [status EXCEPT ![v] = "PREEMPTED"] /\ inflight' = inflight
      /\ step.phase = "running" /\ step.index <= Len(running) /\ v = Last(running)
      /\ step' = [step EXCEPT !.preempted = TRUE, !.phase = IF v = r THEN "restore" ELSE @]
  BY DEF RunningPreempt, InRunningLoop, Preempt
<1>3. DOMAIN step = DOMAIN NoStep /\ step.index \in Nat \ {0} /\ DOMAIN step.scheduled = Request
  BY <1>1 DEF QTyped
<1>4. /\ DOMAIN step' = DOMAIN NoStep /\ step'.skipped = step.skipped /\ step'.index = step.index
      /\ step'.candidates = step.candidates /\ step'.swappedFor = step.swappedFor
      /\ step'.acct = step.acct /\ step'.scheduled = step.scheduled
      /\ step'.phase \in {"running", "restore"}
  BY <1>2, <1>3 DEF NoStep
<1>5. step'.preempted = TRUE  BY <1>2, <1>3 DEF NoStep
<1>6. waiting \in Seq(Request) /\ running \in Seq(Request) /\ IsInjective(running)
      /\ IsInjective(waiting) /\ status \in [Request -> Statuses]
  BY <1>1 DEF QTyped, Apart
<1>7. running # <<>> /\ DOMAIN running = 1..Len(running) /\ Len(running) \in Nat \ {0}
  BY <1>2, <1>3, <1>6
<1>8. /\ running' \in Seq(Request) /\ v = running[Len(running)] /\ Len(running') = Len(running) - 1
      /\ ToSet(running) = ToSet(running') \cup {v} /\ v \notin ToSet(running')
      /\ IsInjective(running')
      /\ \A i \in 1..(Len(running) - 1) : running'[i] = running[i]
  BY <1>2, <1>6, <1>7, LastFacts
<1>9. status[v] = "RUNNING" /\ v \notin ToSet(waiting) /\ v \notin PassedOver
  BY <1>1, <1>8 DEF Where, Waits
<1>10. /\ waiting' \in Seq(Request) /\ ToSet(waiting') = {v} \cup ToSet(waiting)
       /\ IsInjective(waiting')
  BY <1>2, <1>6, <1>9, PushFacts
<1>11. /\ status' \in [Request -> Statuses] /\ status'[v] = "PREEMPTED"
       /\ \A q \in Request : q # v => status'[q] = status[q]
  BY <1>2, <1>6 DEF Statuses
<1>12. QTyped'
  <2>1. step'.preempted \in BOOLEAN  BY <1>5
  <2>2. step'.phase \in Phases  BY <1>4 DEF Phases
  <2> QED  BY <1>1, <1>2, <1>3, <1>4, <1>8, <1>10, <1>11, <2>1, <2>2 DEF QTyped
<1>13. PassedOver' = PassedOver  BY <1>2, <1>4 DEF PassedOver
<1>14. Apart'  BY <1>1, <1>2, <1>4, <1>8, <1>9, <1>10 DEF Apart, PassedOver
<1>15. Where'
  <2> SUFFICES ASSUME NEW q \in Request
               PROVE  /\ q \in ToSet(waiting') \cup PassedOver' <=> status'[q] \in Waits
                      /\ q \in ToSet(running') <=> status'[q] = "RUNNING"
    BY DEF Where
  <2>1. CASE q = v  BY <1>8, <1>10, <1>11, <2>1 DEF Waits
  <2>2. CASE q # v  BY <1>1, <1>8, <1>10, <1>11, <1>13, <2>2 DEF Where
  <2> QED  BY <2>1, <2>2
<1>16. Selected'
  <2>1. \A c \in ToSet(step.candidates) : c \in ToSet(waiting) /\ status[c] = "WAITING" /\ c \in Request
    BY <1>1, <1>2, QueueElements DEF Selected
  <2> QED  BY <1>1, <1>2, <1>4, <1>9, <1>10, <1>11, <2>1 DEF Selected
<1>17. InBatch'
  <2>1. step.scheduled[v] = 0
    <3>1. Len(running) \in DOMAIN running /\ Len(running) >= step.index  BY <1>2, <1>3, <1>7
    <3> QED  BY <1>1, <1>2, <1>8, <3>1 DEF InBatch
  <2>2. \A q \in Request : step'.scheduled[q] # 0 => status'[q] = "RUNNING"
    BY <1>1, <1>4, <1>11, <2>1 DEF InBatch
  <2>3. ASSUME NEW i \in DOMAIN running', i >= step.index
        PROVE  step.scheduled[running'[i]] = 0
    <3>1. DOMAIN running' = 1..(Len(running) - 1)  BY <1>8
    <3>2. running'[i] = running[i] /\ i \in DOMAIN running  BY <1>7, <1>8, <3>1
    <3> QED  BY <1>1, <1>2, <2>3, <3>2 DEF InBatch
  <2> QED  BY <1>1, <1>2, <1>4, <2>2, <2>3 DEF InBatch
<1>18. Safe'
  <2>1. \A q \in PassedOver : q \in Request /\ q # v  BY <1>1, <1>9, QueueElements
  <2> QED  BY <1>1, <1>2, <1>11, <1>13, <2>1 DEF Safe, Gone
<1>19. Depth'
  <2>1. BatchBudget => Len(running') <= MaxNumRunningReqs
    <3>1. BatchBudget => Len(running) <= MaxNumRunningReqs  BY <1>1 DEF Depth
    <3> QED  BY <1>7, <1>8, <3>1, BudgetAssumption
  <2> QED  BY <1>1, <1>2, <1>4, <1>5, <2>1 DEF Depth, HasCap
<1> QED  BY <1>12, <1>14, <1>15, <1>16, <1>17, <1>18, <1>19 DEF QInv

\* The candidates after the RUNNING loop wait in self.waiting.
LEMMA RescoredFacts ==
    ASSUME QTyped, Apart, Selected, step.phase \in {"running", "restore"}, NEW s \in Rescored
    PROVE  /\ s.candidates \in Seq(Request) /\ IsInjective(s.candidates)
           /\ \A c \in ToSet(s.candidates) : c \in ToSet(waiting) /\ status[c] = "WAITING"
<1>1. CASE s = step  BY <1>1 DEF QTyped, Selected
<1>2. CASE s # step
  <2>1. PICK c \in SetToAllKPermutations(ToSet(NormalWaiting)) :
           s = [step EXCEPT !.candidates = c, !.swapEligible = FALSE,
                            !.acct = NewAccountant(0, <<>>)]
    BY <1>2 DEF Rescored
  <2>2. s.candidates = c  BY <2>1 DEF QTyped, NoStep
  <2>3. c \in Seq(Request) /\ IsInjective(c) /\ ToSet(c) \subseteq ToSet(NormalWaiting)
    BY NormalWaitingFacts, OrdersFacts
  <2> QED  BY <2>2, <2>3, NormalWaitingFacts
<1> QED  BY <1>1, <1>2

\* Between the two loops nothing changes but the order of the waiting queue.
LEMMA RestoreQueues ==
    ASSUME QInv, RestoreHeld
    PROVE  QInv'
<1>1. QTyped /\ Apart /\ Where /\ Selected /\ InBatch /\ Safe /\ Depth  BY DEF QInv
<1>2. /\ step.phase \in {"running", "restore"}
      /\ skipped' = skipped /\ running' = running /\ status' = status /\ inflight' = inflight
  BY DEF RestoreHeld, requests
<1>3. DOMAIN step = DOMAIN NoStep /\ "caps" \in DOMAIN step.acct  BY <1>1 DEF QTyped
<1>4. PICK s \in Rescored \cup {step} :
         /\ step' = [s EXCEPT !.phase = "swap"]
            \/ step' = [s EXCEPT !.phase = "swap", !.budget = @ + s.held, !.held = 0]
         /\ waiting' = waiting \/ (s \in Rescored /\ waiting' = PromoteWaiting(s.candidates))
  BY DEF RestoreHeld
<1>5. /\ DOMAIN s = DOMAIN NoStep /\ s.skipped = step.skipped /\ s.index = step.index
      /\ s.swappedFor = step.swappedFor /\ s.scheduled = step.scheduled
      /\ s.preempted = step.preempted
      /\ "caps" \in DOMAIN s.acct
  <2>1. CASE s = step  BY <1>3, <2>1
  <2>2. CASE s # step
    <3>1. PICK c : s = [step EXCEPT !.candidates = c, !.swapEligible = FALSE,
                                    !.acct = NewAccountant(0, <<>>)]
      BY <2>2, <1>4 DEF Rescored
    <3> QED  BY <1>3, <3>1 DEF NoStep, NewAccountant
  <2> QED  BY <2>1, <2>2
<1>6. /\ s.candidates \in Seq(Request) /\ IsInjective(s.candidates)
      /\ \A c \in ToSet(s.candidates) : c \in ToSet(waiting) /\ status[c] = "WAITING"
  <2>1. CASE s = step  BY <1>1, <1>2, <2>1 DEF QTyped, Selected
  <2>2. CASE s \in Rescored  BY <1>1, <1>2, <2>2, RescoredFacts
  <2> QED  BY <1>4, <2>1, <2>2
<1>7. /\ DOMAIN step' = DOMAIN NoStep /\ step'.skipped = step.skipped /\ step'.index = step.index
      /\ step'.swappedFor = step.swappedFor /\ step'.scheduled = step.scheduled
      /\ step'.preempted = step.preempted /\ step'.candidates = s.candidates
      /\ step'.acct = s.acct /\ step'.phase = "swap"
  BY <1>4, <1>5 DEF NoStep
<1>8. /\ waiting' \in Seq(Request) /\ IsInjective(waiting') /\ ToSet(waiting') = ToSet(waiting)
  BY <1>4, <1>6, PromoteQueues
<1>9. QTyped'
  <2>1. step'.phase \in Phases  BY <1>7 DEF Phases
  <2> QED  BY <1>1, <1>2, <1>5, <1>6, <1>7, <1>8, <2>1 DEF QTyped
<1>10. PassedOver' = PassedOver  BY <1>2, <1>7 DEF PassedOver
<1>11. Apart'  BY <1>1, <1>2, <1>7, <1>8 DEF Apart
<1>12. Where'  BY <1>1, <1>2, <1>8, <1>10 DEF Where
<1>13. Selected'  BY <1>7 DEF Selected
<1>14. InBatch'  BY <1>1, <1>2, <1>7 DEF InBatch
<1>15. Safe'  BY <1>1, <1>2, <1>10 DEF Safe, Gone
<1>16. Depth'
  <2>1. ASSUME BatchBudget PROVE s = step
    BY <1>4, <2>1, ConfigAssumption DEF Rescored, BatchBudget
  <2> QED  BY <1>1, <1>2, <1>7, <2>1 DEF Depth, Gone
<1> QED  BY <1>9, <1>11, <1>12, <1>13, <1>14, <1>15, <1>16 DEF QInv

\* The candidate of a swap goes to the head of the queue, its victim behind it.
LEMMA SwapQueues ==
    ASSUME QInv, NEW c \in Request, NEW v \in Request, SwapCommit(c, v)
    PROVE  QInv'
<1>1. QTyped /\ Apart /\ Where /\ Selected /\ InBatch /\ Safe /\ Depth  BY DEF QInv
<1>2. /\ waiting' = ForceFirst(<<v>> \o waiting, c) /\ skipped' = skipped
      /\ running' = Without(running, {v})
      /\ status' = [status EXCEPT ![v] = "PREEMPTED"] /\ inflight' = inflight
      /\ step.phase = "swap"
      /\ step' = [TakenBack(step, v) EXCEPT !.phase = "waiting", !.preempted = TRUE,
                                            !.swappedFor = {c}]
  BY DEF SwapCommit, Preempt
<1>3. /\ c \in ToSet(waiting) /\ c \in ToSet(step.candidates) /\ status[c] = "WAITING"
      /\ v \in ToSet(running) /\ Len(running) >= MaxNumRunningReqs
  <2>1. \E i \in DOMAIN waiting : waiting[i] = c /\ c \in ToSet(step.candidates)
    BY DEF SwapCommit, SwapWanted
  <2> QED  BY <2>1 DEF SwapCommit, SwapWanted, SwapVictim, ToSet
<1>4. DOMAIN step = DOMAIN NoStep /\ step.index \in Nat \ {0} /\ DOMAIN step.scheduled = Request
  BY <1>1 DEF QTyped
<1>5. /\ DOMAIN step' = DOMAIN NoStep /\ step'.skipped = step.skipped /\ step'.index = step.index
      /\ step'.candidates = step.candidates /\ step'.phase = "waiting"
  BY <1>2, <1>4 DEF NoStep, TakenBack
<1>6. step'.preempted = TRUE  BY <1>2, <1>4 DEF NoStep, TakenBack
<1>7. /\ DOMAIN step'.scheduled = Request /\ step'.scheduled[v] = 0
      /\ \A q \in Request : q # v => step'.scheduled[q] = step.scheduled[q]
  BY <1>2, <1>4 DEF NoStep, TakenBack
<1>8. "caps" \in DOMAIN step'.acct /\ step'.acct.caps = step.acct.caps
  <2>1. step'.acct = step.acct \/ step'.acct = Restore(step.acct, v, step.scheduled[v], "running")
    BY <1>2, <1>4 DEF NoStep, TakenBack
  <2>2. "caps" \in DOMAIN step.acct  BY <1>1 DEF QTyped
  <2> QED  BY <2>1, <2>2, CapsStay
<1>9. /\ waiting \in Seq(Request) /\ running \in Seq(Request) /\ IsInjective(running)
      /\ IsInjective(waiting) /\ status \in [Request -> Statuses]
  BY <1>1 DEF QTyped, Apart
<1>10. status[v] = "RUNNING" /\ v \notin ToSet(waiting) /\ v \notin PassedOver /\ v # c
  BY <1>1, <1>3 DEF Where, Waits
<1>11. /\ running' \in Seq(Request) /\ IsInjective(running') /\ ToSet(running') = ToSet(running) \ {v}
       /\ Len(running') <= Len(running) /\ Len(running') >= Len(running) - 1
  BY <1>2, <1>9, WithoutFacts, RemoveOne
<1>12. /\ waiting' \in Seq(Request) /\ IsInjective(waiting') /\ waiting' # <<>>
       /\ ToSet(waiting') = ToSet(waiting) \cup {v} /\ Head(waiting') = c
  <2> DEFINE q == <<v>> \o waiting
             w == Without(q, {c})
  <2>1. q \in Seq(Request) /\ ToSet(q) = {v} \cup ToSet(waiting) /\ IsInjective(q)
    BY <1>9, <1>10, PushFacts
  <2>2. waiting' = <<c>> \o w  BY <1>2 DEF ForceFirst
  <2> HIDE DEF q
  <2>3. w \in Seq(Request) /\ ToSet(w) = ToSet(q) \ {c} /\ IsInjective(w)
    BY <2>1, WithoutFacts
  <2> HIDE DEF w
  <2>4. /\ <<c>> \o w \in Seq(Request) /\ <<c>> \o w # <<>> /\ Head(<<c>> \o w) = c
        /\ ToSet(<<c>> \o w) = {c} \cup ToSet(w) /\ IsInjective(<<c>> \o w)
    BY <2>3, PushFacts
  <2> QED  BY <1>3, <2>1, <2>2, <2>3, <2>4
<1>13. /\ status' \in [Request -> Statuses] /\ status'[v] = "PREEMPTED"
       /\ \A q \in Request : q # v => status'[q] = status[q]
  BY <1>2, <1>9 DEF Statuses
<1>14. QTyped'
  <2>1. step'.preempted \in BOOLEAN  BY <1>6
  <2>2. step'.phase \in Phases  BY <1>5 DEF Phases
  <2> QED  BY <1>1, <1>2, <1>4, <1>5, <1>7, <1>8, <1>11, <1>12, <1>13, <2>1, <2>2 DEF QTyped
<1>15. PassedOver' = PassedOver  BY <1>2, <1>5 DEF PassedOver
<1>16. Apart'  BY <1>1, <1>2, <1>5, <1>10, <1>11, <1>12 DEF Apart, PassedOver
<1>17. Where'
  <2> SUFFICES ASSUME NEW q \in Request
               PROVE  /\ q \in ToSet(waiting') \cup PassedOver' <=> status'[q] \in Waits
                      /\ q \in ToSet(running') <=> status'[q] = "RUNNING"
    BY DEF Where
  <2>1. CASE q = v  BY <1>11, <1>12, <1>13, <2>1 DEF Waits
  <2>2. CASE q # v  BY <1>1, <1>11, <1>12, <1>13, <1>15, <2>2 DEF Where
  <2> QED  BY <2>1, <2>2
<1>18. Selected'  BY <1>5 DEF Selected
<1>19. InBatch'  BY <1>1, <1>5, <1>7, <1>13 DEF InBatch
<1>20. Safe'
  <2>1. \A q \in PassedOver : q \in Request /\ q # v  BY <1>1, <1>10, QueueElements
  <2> QED  BY <1>1, <1>2, <1>13, <1>15, <2>1 DEF Safe, Gone
<1>21. Depth'
  <2> SUFFICES ASSUME BatchBudget PROVE Depth'  BY DEF Depth
  <2>1. Len(running) \in Nat /\ Len(running') \in Nat  BY <1>9, <1>11
  <2>2. Len(running') <= MaxNumRunningReqs /\ Len(running') >= MaxNumRunningReqs - 1
    <3>1. Len(running) <= MaxNumRunningReqs  BY <1>1 DEF Depth
    <3> QED  BY <1>3, <1>11, <2>1, <3>1, BudgetAssumption
  <2>3. \A q \in ToSet(step'.candidates) : HasCap(step'.acct, q)
    BY <1>1, <1>2, <1>5, <1>8 DEF Depth, HasCap
  <2>4. HasCap(step'.acct, Head(waiting')) /\ status'[Head(waiting')] = "WAITING"
    BY <1>3, <1>5, <1>10, <1>12, <1>13, <2>3
  <2> QED  BY <1>1, <1>2, <1>5, <1>6, <1>12, <2>2, <2>3, <2>4 DEF Depth
<1> QED  BY <1>14, <1>16, <1>17, <1>18, <1>19, <1>20, <1>21 DEF QInv

\* The next waiting request leaves its queue.
LEMMA PopFacts ==
    ASSUME QTyped, Apart, NEW r, InWaitingLoop, r = NextWaiting, PopWaiting
    PROVE  /\ r \in Request /\ r \in ToSet(waiting) \cup ToSet(skipped)
           /\ waiting' \in Seq(Request) /\ IsInjective(waiting')
           /\ skipped' \in Seq(Request) /\ IsInjective(skipped')
           /\ ToSet(waiting') = ToSet(waiting) \ {r} /\ ToSet(skipped') = ToSet(skipped) \ {r}
           /\ \/ r \in ToSet(skipped) /\ waiting' = waiting
              \/ waiting # <<>> /\ r = Head(waiting)
<1>1. /\ waiting \in Seq(Request) /\ skipped \in Seq(Request)
      /\ IsInjective(waiting) /\ IsInjective(skipped) /\ ToSet(waiting) \cap ToSet(skipped) = {}
  BY DEF QTyped, Apart
<1>2. CASE skipped # <<>>
  <2>1. r = Head(skipped) /\ skipped' = Tail(skipped) /\ waiting' = waiting
    BY <1>2 DEF NextWaiting, PopWaiting
  <2>2. /\ r \in Request /\ skipped' \in Seq(Request) /\ ToSet(skipped) = {r} \cup ToSet(skipped')
    BY <1>1, <1>2, <2>1, TailFacts
  <2>3. IsInjective(skipped') /\ r \notin ToSet(skipped')  BY <1>1, <1>2, <2>1, HeadFacts
  <2> QED  BY <1>1, <2>1, <2>2, <2>3
<1>3. CASE skipped = <<>>
  <2>1. /\ waiting # <<>> /\ r = Head(waiting) /\ waiting' = Tail(waiting) /\ skipped' = skipped
        /\ ToSet(skipped) = {}
    BY <1>3 DEF NextWaiting, PopWaiting, InWaitingLoop, ToSet
  <2>2. /\ r \in Request /\ waiting' \in Seq(Request) /\ ToSet(waiting) = {r} \cup ToSet(waiting')
    BY <1>1, <2>1, TailFacts
  <2>3. IsInjective(waiting') /\ r \notin ToSet(waiting')  BY <1>1, <2>1, HeadFacts
  <2> QED  BY <1>1, <2>1, <2>2, <2>3
<1> QED  BY <1>2, <1>3

LEMMA NextIsQueued ==
    ASSUME QTyped, InWaitingLoop
    PROVE  NextWaiting \in ToSet(waiting) \cup ToSet(skipped)
<1>1. waiting \in Seq(Request) /\ skipped \in Seq(Request)  BY DEF QTyped
<1>2. \A q \in Seq(Request) : q # <<>> => Head(q) \in ToSet(q)  BY TailFacts
<1> QED  BY <1>1, <1>2 DEF NextWaiting, InWaitingLoop

\* A grammar that is ready changes the status, never the queue.
LEMMA PromotedFacts ==
    ASSUME NEW r, status[r] \in Waits
    PROVE  /\ Promoted(r) \in Waits
           /\ Promoted(r) = "PREEMPTED" <=> status[r] = "PREEMPTED"
           /\ Promoted(r) = "PREEMPTED" => ~StillBlocked(r)
BY DEF Promoted, Waits, StillBlocked

\* In batch-budget mode a preempted request is passed over only when it is owed
\* nothing.
LEMMA SkipQueues ==
    ASSUME QInv, NEW r \in Request, WaitingSkip(r)
    PROVE  QInv'
<1>1. QTyped /\ Apart /\ Where /\ Selected /\ InBatch /\ Safe /\ Depth  BY DEF QInv
<1>2. /\ InWaitingLoop /\ r = NextWaiting /\ PopWaiting /\ WaitingPassesOver(r)
      /\ step.phase = "waiting" /\ Len(running) < MaxNumRunningReqs
      /\ running' = running /\ inflight' = inflight
      /\ status' = [status EXCEPT ![r] = Promoted(r)]
      /\ step' = [step EXCEPT !.skipped = Append(@, r)]
  BY DEF WaitingSkip, InWaitingLoop
<1>3. DOMAIN step = DOMAIN NoStep /\ step.skipped \in Seq(Request)  BY <1>1 DEF QTyped
<1>4. /\ DOMAIN step' = DOMAIN NoStep /\ step'.skipped = Append(step.skipped, r)
      /\ step'.candidates = step.candidates /\ step'.scheduled = step.scheduled
      /\ step'.acct = step.acct /\ step'.phase = "waiting" /\ step'.index = step.index
      /\ step'.preempted = step.preempted
  BY <1>2, <1>3 DEF NoStep
<1>5. /\ r \in ToSet(waiting) \cup ToSet(skipped)
      /\ waiting' \in Seq(Request) /\ IsInjective(waiting')
      /\ skipped' \in Seq(Request) /\ IsInjective(skipped')
      /\ ToSet(waiting') = ToSet(waiting) \ {r} /\ ToSet(skipped') = ToSet(skipped) \ {r}
  BY <1>1, <1>2, PopFacts
<1>6. \/ r \in ToSet(skipped) /\ waiting' = waiting
      \/ waiting # <<>> /\ r = Head(waiting)
  BY <1>1, <1>2, PopFacts
<1>7. r \notin ToSet(step.skipped) /\ IsInjective(step.skipped) /\ status[r] \in Waits
  BY <1>1, <1>5 DEF Apart, Where, PassedOver
<1>8. /\ step'.skipped \in Seq(Request) /\ ToSet(step'.skipped) = ToSet(step.skipped) \cup {r}
      /\ IsInjective(step'.skipped)
  BY <1>3, <1>4, <1>7, AppendFacts
<1>9. /\ status' \in [Request -> Statuses] /\ status'[r] \in Waits
      /\ status'[r] = "PREEMPTED" => status[r] = "PREEMPTED" /\ ~StillBlocked(r)
      /\ \A q \in Request : q # r => status'[q] = status[q]
  BY <1>1, <1>2, <1>7, PromotedFacts DEF QTyped, Statuses, Waits
<1>10. QTyped'
  <2>1. step'.phase \in Phases  BY <1>4 DEF Phases
  <2> QED  BY <1>1, <1>2, <1>4, <1>5, <1>8, <1>9, <2>1 DEF QTyped
<1>11. Apart'  BY <1>1, <1>2, <1>5, <1>8 DEF Apart
<1>12. /\ ToSet(waiting') \cup PassedOver' = ToSet(waiting) \cup PassedOver
       /\ PassedOver' = PassedOver \cup {r}
  BY <1>5, <1>8 DEF PassedOver
<1>13. Where'
  <2> SUFFICES ASSUME NEW q \in Request
               PROVE  /\ q \in ToSet(waiting') \cup PassedOver' <=> status'[q] \in Waits
                      /\ q \in ToSet(running') <=> status'[q] = "RUNNING"
    BY DEF Where
  <2>1. CASE q = r
    <3>1. r \notin ToSet(running)  BY <1>1, <1>7 DEF Where, Waits
    <3> QED  BY <1>2, <1>9, <1>12, <2>1, <3>1 DEF Waits
  <2>2. CASE q # r  BY <1>1, <1>2, <1>9, <1>12, <2>2 DEF Where
  <2> QED  BY <2>1, <2>2
<1>14. Selected'  BY <1>4 DEF Selected
<1>15. InBatch'
  <2>1. \A q \in Request : step'.scheduled[q] # 0 => status'[q] = "RUNNING"
    <3>1. step.scheduled[r] = 0  BY <1>1, <1>7 DEF InBatch, Waits
    <3> QED  BY <1>1, <1>4, <1>9, <3>1 DEF InBatch
  <2> QED  BY <1>4, <2>1 DEF InBatch
<1>16. ASSUME status[r] = "PREEMPTED", ~StillBlocked(r)
       PROVE  BatchBudget /\ Gone(r)
  <2>1. BatchBudget /\ ~HasCap(step.acct, r)  BY <1>2, <1>16 DEF WaitingPassesOver
  <2>2. CASE r \in ToSet(skipped)  BY <1>1, <1>16, <2>1, <2>2 DEF Safe, PassedOver
  <2>3. CASE waiting # <<>> /\ r = Head(waiting)
    <3>1. Len(running) \in Nat  BY <1>1 DEF QTyped
    <3>2. ~step.preempted
      BY <1>1, <1>2, <1>16, <2>1, <2>3, <3>1, BudgetAssumption DEF Depth
    <3> QED  BY <1>1, <1>2, <1>16, <2>1, <3>2 DEF Depth
  <2> QED  BY <1>6, <2>1, <2>2, <2>3
<1>17. Safe'
  <2> SUFFICES ASSUME NEW q \in PassedOver', status'[q] = "PREEMPTED"
               PROVE  BatchBudget /\ Gone(q)
    BY <1>2 DEF Safe, Gone
  <2>1. CASE q = r  BY <1>9, <1>16, <2>1
  <2>2. CASE q # r
    <3>1. q \in PassedOver /\ q \in Request  BY <1>1, <1>12, <2>2, QueueElements
    <3> QED  BY <1>1, <1>9, <2>2, <3>1 DEF Safe
  <2> QED  BY <2>1, <2>2
<1>18. Depth'
  <2> SUFFICES ASSUME BatchBudget PROVE Depth'  BY DEF Depth
  <2>1. \A q \in Request : status'[q] = "PREEMPTED" => status[q] = "PREEMPTED"  BY <1>9
  <2>2. ~step.preempted => \A q \in Request : status'[q] = "PREEMPTED" => Gone(q)
    BY <1>1, <1>2, <2>1 DEF Depth
  <2>3. \/ ~step.preempted
        \/ Len(running) >= MaxNumRunningReqs - 1 /\ waiting # <<>>
           /\ HasCap(step.acct, Head(waiting)) /\ status[Head(waiting)] = "WAITING"
    <3>1. Len(running) \in Nat  BY <1>1 DEF QTyped
    <3> QED  BY <1>1, <1>2, <3>1, BudgetAssumption DEF Depth
  <2>4. ASSUME step.preempted
        PROVE  /\ Len(running) >= MaxNumRunningReqs - 1 /\ waiting' # <<>>
               /\ HasCap(step.acct, Head(waiting')) /\ status'[Head(waiting')] = "WAITING"
    <3>1. r # Head(waiting)
      <4>1. ASSUME r = Head(waiting) PROVE FALSE
        <5>1. HasCap(step.acct, r) /\ status[r] = "WAITING"  BY <2>3, <2>4, <4>1
        <5> QED  BY <1>2, <5>1 DEF WaitingPassesOver, StillBlocked, Promoted
      <4> QED  BY <4>1
    <3>2. waiting' = waiting /\ Head(waiting) \in Request
      <4>1. waiting \in Seq(Request) /\ waiting # <<>>  BY <1>1, <2>3, <2>4 DEF QTyped
      <4> QED  BY <1>6, <3>1, <4>1
    <3> QED  BY <1>9, <2>3, <2>4, <3>1, <3>2
  <2> QED  BY <1>1, <1>2, <1>4, <2>2, <2>4 DEF Depth, Gone
<1> QED  BY <1>10, <1>11, <1>13, <1>14, <1>15, <1>17, <1>18 DEF QInv

LEMMA AdmitQueues ==
    ASSUME QInv, NEW r \in Request, WaitingAdmit(r)
    PROVE  QInv'
<1>1. QTyped /\ Apart /\ Where /\ Selected /\ InBatch /\ Safe /\ Depth  BY DEF QInv
<1>2. /\ InWaitingLoop /\ r = NextWaiting /\ PopWaiting
      /\ step.phase = "waiting" /\ Len(running) < MaxNumRunningReqs
      /\ running' = Append(running, r) /\ inflight' = inflight
      /\ status' = [status EXCEPT ![r] = "RUNNING"]
  BY DEF WaitingAdmit, InWaitingLoop
<1>3. PICK n : step' = [step EXCEPT !.budget = @ - n, !.scheduled[r] = n,
                            !.acct = IF BatchBudget THEN Commit(@, r, n, "waiting") ELSE @]
  BY DEF WaitingAdmit
<1>4. DOMAIN step = DOMAIN NoStep /\ DOMAIN step.scheduled = Request  BY <1>1 DEF QTyped
<1>5. /\ DOMAIN step' = DOMAIN NoStep /\ step'.skipped = step.skipped
      /\ step'.candidates = step.candidates /\ step'.phase = "waiting" /\ step'.index = step.index
      /\ step'.preempted = step.preempted
  BY <1>2, <1>3, <1>4 DEF NoStep
<1>6. /\ DOMAIN step'.scheduled = Request
      /\ \A q \in Request : q # r => step'.scheduled[q] = step.scheduled[q]
  BY <1>3, <1>4 DEF NoStep
<1>7. "caps" \in DOMAIN step'.acct /\ step'.acct.caps = step.acct.caps
  <2>1. step'.acct = step.acct \/ step'.acct = Commit(step.acct, r, n, "waiting")
    BY <1>3, <1>4 DEF NoStep
  <2>2. "caps" \in DOMAIN step.acct  BY <1>1 DEF QTyped
  <2> QED  BY <2>1, <2>2, CapsStay
<1>8. /\ r \in ToSet(waiting) \cup ToSet(skipped)
      /\ waiting' \in Seq(Request) /\ IsInjective(waiting')
      /\ skipped' \in Seq(Request) /\ IsInjective(skipped')
      /\ ToSet(waiting') = ToSet(waiting) \ {r} /\ ToSet(skipped') = ToSet(skipped) \ {r}
  BY <1>1, <1>2, PopFacts
<1>9. \/ r \in ToSet(skipped) /\ waiting' = waiting
      \/ waiting # <<>> /\ r = Head(waiting)
  BY <1>1, <1>2, PopFacts
<1>10. r \notin ToSet(step.skipped) /\ status[r] \in Waits /\ r \notin ToSet(running)
  BY <1>1, <1>8 DEF Apart, Where, PassedOver, Waits
<1>11. /\ running \in Seq(Request) /\ Len(running) \in Nat
       /\ running' \in Seq(Request) /\ IsInjective(running') /\ Len(running') = Len(running) + 1
       /\ ToSet(running') = ToSet(running) \cup {r}
  BY <1>1, <1>2, <1>10, AppendFacts DEF QTyped, Apart
<1>12. /\ status' \in [Request -> Statuses] /\ status'[r] = "RUNNING"
       /\ \A q \in Request : q # r => status'[q] = status[q]
  BY <1>1, <1>2 DEF QTyped, Statuses
<1>13. QTyped'
  <2>1. step'.phase \in Phases  BY <1>5 DEF Phases
  <2> QED  BY <1>1, <1>2, <1>5, <1>6, <1>7, <1>8, <1>11, <1>12, <2>1 DEF QTyped
<1>14. Apart'  BY <1>1, <1>5, <1>8, <1>11 DEF Apart
<1>15. PassedOver' = PassedOver \ {r}  BY <1>5, <1>8, <1>10 DEF PassedOver
<1>16. Where'
  <2> SUFFICES ASSUME NEW q \in Request
               PROVE  /\ q \in ToSet(waiting') \cup PassedOver' <=> status'[q] \in Waits
                      /\ q \in ToSet(running') <=> status'[q] = "RUNNING"
    BY DEF Where
  <2>1. CASE q = r  BY <1>8, <1>11, <1>12, <1>15, <2>1 DEF Waits
  <2>2. CASE q # r  BY <1>1, <1>8, <1>11, <1>12, <1>15, <2>2 DEF Where
  <2> QED  BY <2>1, <2>2
<1>17. Selected'  BY <1>5 DEF Selected
<1>18. InBatch'  BY <1>1, <1>5, <1>6, <1>12 DEF InBatch
<1>19. Safe'
  <2>1. \A q \in PassedOver' : q \in PassedOver /\ q # r /\ q \in Request
    BY <1>1, <1>15, QueueElements
  <2> QED  BY <1>1, <1>2, <1>12, <2>1 DEF Safe, Gone
<1>20. Depth'
  <2> SUFFICES ASSUME BatchBudget PROVE Depth'  BY DEF Depth
  <2>1. Len(running') <= MaxNumRunningReqs  BY <1>2, <1>11, BudgetAssumption
  <2>2. \A q \in Request : status'[q] = "PREEMPTED" => status[q] = "PREEMPTED"  BY <1>12
  <2>3. ~step.preempted => \A q \in Request : status'[q] = "PREEMPTED" => Gone(q)
    BY <1>1, <1>2, <2>2 DEF Depth
  <2>4. ~step.preempted \/ Len(running') >= MaxNumRunningReqs
    BY <1>1, <1>2, <1>11, BudgetAssumption DEF Depth
  <2>5. Len(inflight) <= 1 /\ \A c \in ToSet(step.candidates) : HasCap(step'.acct, c)
    BY <1>1, <1>2, <1>7 DEF Depth, HasCap
  <2> QED  BY <1>2, <1>5, <2>1, <2>3, <2>4, <2>5 DEF Depth, Gone
<1> QED  BY <1>13, <1>14, <1>16, <1>17, <1>18, <1>19, <1>20 DEF QInv

LEMMA NoKvQueues ==
    ASSUME QInv, NEW r \in Request, WaitingNoKv(r)
    PROVE  QInv'
<1>1. QTyped /\ Apart /\ Where /\ Selected /\ InBatch /\ Safe /\ Depth  BY DEF QInv
<1>2. /\ InWaitingLoop /\ r = NextWaiting /\ step.phase = "waiting"
      /\ waiting' = waiting /\ skipped' = skipped /\ running' = running /\ inflight' = inflight
      /\ status' = [status EXCEPT ![r] = Promoted(r)]
      /\ step' = [step EXCEPT !.phase = "finish"]
  BY DEF WaitingNoKv, InWaitingLoop, queues
<1>3. DOMAIN step = DOMAIN NoStep  BY <1>1 DEF QTyped
<1>4. /\ DOMAIN step' = DOMAIN NoStep /\ step'.skipped = step.skipped
      /\ step'.candidates = step.candidates /\ step'.scheduled = step.scheduled
      /\ step'.acct = step.acct /\ step'.phase = "finish" /\ step'.index = step.index
      /\ step'.preempted = step.preempted
  BY <1>2, <1>3 DEF NoStep
<1>5. r \in ToSet(waiting) \cup ToSet(skipped)
  BY <1>1, <1>2, NextIsQueued
<1>6. status[r] \in Waits  BY <1>1, <1>5 DEF Where, PassedOver
<1>7. /\ status' \in [Request -> Statuses] /\ status'[r] \in Waits
      /\ status'[r] = "PREEMPTED" => status[r] = "PREEMPTED"
      /\ \A q \in Request : q # r => status'[q] = status[q]
  BY <1>1, <1>2, <1>6, PromotedFacts DEF QTyped, Statuses, Waits
<1>8. QTyped'
  <2>1. step'.phase \in Phases  BY <1>4 DEF Phases
  <2> QED  BY <1>1, <1>2, <1>4, <1>7, <2>1 DEF QTyped
<1>9. Apart'  BY <1>1, <1>2, <1>4 DEF Apart
<1>10. PassedOver' = PassedOver  BY <1>2, <1>4 DEF PassedOver
<1>11. Where'
  <2>1. \A q \in Request : /\ status'[q] \in Waits <=> status[q] \in Waits
                           /\ status'[q] = "RUNNING" <=> status[q] = "RUNNING"
    BY <1>6, <1>7 DEF Waits
  <2> QED  BY <1>1, <1>2, <1>10, <2>1 DEF Where
<1>12. Selected'  BY <1>4 DEF Selected
<1>13. InBatch'
  <2>1. step.scheduled[r] = 0  BY <1>1, <1>6 DEF InBatch, Waits
  <2> QED  BY <1>1, <1>4, <1>7, <2>1 DEF InBatch
<1>14. \A q \in Request : status'[q] = "PREEMPTED" => status[q] = "PREEMPTED"  BY <1>7
<1>15. Safe'  BY <1>1, <1>2, <1>10, <1>14, QueueElements DEF Safe, Gone
<1>16. Depth'  BY <1>1, <1>2, <1>4, <1>14 DEF Depth, Gone
<1> QED  BY <1>8, <1>9, <1>11, <1>12, <1>13, <1>15, <1>16 DEF QInv

\* The end of a step: what was passed over goes back to the queue, and the
\* batch it leaves in flight owes tokens to running requests only.
LEMMA FinishQueues ==
    ASSUME PoolInv, QInv, FinishSchedule
    PROVE  QInv'
<1>1. QTyped /\ Apart /\ Where /\ Selected /\ InBatch /\ Safe /\ Depth  BY DEF QInv
<1>2. /\ step.phase = "finish" /\ step' = NoStep
      /\ skipped' = step.skipped \o skipped
      /\ waiting' = waiting /\ running' = running /\ status' = status
  BY DEF FinishSchedule
<1>3. PICK x : /\ inflight' = Append(inflight, x)
               /\ \A q \in x.emits : q \in Request /\ step.scheduled[q] > 0
  <2> DEFINE batch == {q \in Request : step.scheduled[q] > 0}
             after == [q \in Request |-> computed[q] + step.scheduled[q]]
             emits == {q \in batch : after[q] >= NumTokens(q) + placeholders[q]}
             x == [requests |-> batch, emits |-> emits, touches |-> OwnedBlocks(batch),
                   seq |-> schedSeq']
  <2>1. inflight' = Append(inflight, x)  BY DEF FinishSchedule
  <2>2. x.emits = emits  OBVIOUS
  <2>3. \A q \in emits : q \in Request /\ step.scheduled[q] > 0  OBVIOUS
  <2> HIDE DEF x, emits
  <2> QED  BY <2>1, <2>2, <2>3
<1>4. /\ step'.skipped = <<>> /\ step'.candidates = <<>> /\ step'.phase = "idle"
      /\ step'.index = 1 /\ step'.scheduled = [q \in Request |-> 0]
      /\ step'.acct = NewAccountant(0, <<>>) /\ step'.swappedFor = {}
  BY <1>2 DEF NoStep
<1>5. step'.preempted = FALSE  BY <1>2 DEF NoStep
<1>6. ToSet(<<>>) = {} /\ <<>> \in Seq(Request) /\ IsInjective(<<>>)  BY DEF ToSet, IsInjective
<1>7. /\ skipped' \in Seq(Request) /\ ToSet(skipped') = ToSet(step.skipped) \cup ToSet(skipped)
      /\ IsInjective(skipped')
  <2>1. skipped \in Seq(Request) /\ step.skipped \in Seq(Request)  BY <1>1 DEF QTyped
  <2>2. IsInjective(skipped) /\ IsInjective(step.skipped) /\ ToSet(step.skipped) \cap ToSet(skipped) = {}
    BY <1>1 DEF Apart
  <2> QED  BY <1>2, <2>1, <2>2, ConcatFacts
<1>8. QTyped'
  <2>1. "caps" \in DOMAIN step'.acct  BY <1>4 DEF NewAccountant
  <2>2. DOMAIN step'.scheduled = Request  BY <1>4
  <2>3. step'.phase \in Phases  BY <1>4 DEF Phases
  <2>4. step'.index \in Nat \ {0}  BY <1>4
  <2>5. step'.preempted \in BOOLEAN  BY <1>5
  <2> QED  BY <1>1, <1>2, <1>4, <1>6, <1>7, <2>1, <2>2, <2>3, <2>4, <2>5 DEF QTyped
<1>9. Apart'  BY <1>1, <1>2, <1>4, <1>6, <1>7 DEF Apart
<1>10. PassedOver' = PassedOver  BY <1>4, <1>6, <1>7 DEF PassedOver
<1>11. Where'  BY <1>1, <1>2, <1>10 DEF Where
<1>12. Selected'  BY <1>4 DEF Selected
<1>13. InBatch'  BY <1>2, <1>4 DEF InBatch
<1>14. \A q \in x.emits : q \in Request /\ status[q] = "RUNNING"
  <2>1. \A q \in x.emits : q \in Request /\ step.scheduled[q] # 0  BY <1>3
  <2> QED  BY <1>1, <2>1 DEF InBatch
<1>15. /\ DOMAIN inflight' = 1..(Len(inflight) + 1) /\ Len(inflight') = Len(inflight) + 1
       /\ inflight'[Len(inflight) + 1] = x /\ Len(inflight) \in Nat
       /\ \A i \in 1..Len(inflight) : inflight'[i] = inflight[i]
  BY <1>3, AppendProperties DEF PoolInv
<1>16. ASSUME NEW q, status[q] = "PREEMPTED", Gone(q) PROVE Gone(q)'
  <2> SUFFICES ASSUME NEW i \in DOMAIN inflight' PROVE q \notin inflight'[i].emits  BY DEF Gone
  <2>1. CASE i = Len(inflight) + 1  BY <1>14, <1>15, <1>16, <2>1
  <2>2. CASE i # Len(inflight) + 1
    <3>1. i \in DOMAIN inflight /\ inflight'[i] = inflight[i]
      BY <1>15, <2>2, InflightType
    <3> QED  BY <1>16, <3>1 DEF Gone
  <2> QED  BY <2>1, <2>2
<1>17. Safe'  BY <1>1, <1>2, <1>10, <1>16 DEF Safe
<1>18. Depth'
  <2>1. \A q \in Request : status'[q] = "PREEMPTED" => q \notin inflight'[Len(inflight')].emits
    BY <1>2, <1>14, <1>15
  <2> QED  BY <1>1, <1>2, <1>4, <2>1 DEF Depth
<1> QED  BY <1>8, <1>9, <1>11, <1>12, <1>13, <1>17, <1>18 DEF QInv

-----------------------------------------------------------------------------
(* What the clients and the operators see *)

LEMMA NextQueues ==
    ASSUME SmallDepth
    PROVE  PoolInv /\ QInv /\ [Next]_vars => QInv'
<1> SUFFICES ASSUME PoolInv, QInv, [Next]_vars PROVE QInv'  OBVIOUS
<1>1. ASSUME NEW r \in Request, GrammarReady(r) \/ BackoffExpires(r) PROVE QInv'
  <2>1. UNCHANGED <<waiting, skipped, running, status, inflight, step>>
    BY <1>1 DEF GrammarReady, BackoffExpires, queues, requests
  <2> QED  BY <2>1, UnchangedQueues
<1>2. CASE UNCHANGED vars
  <2>1. UNCHANGED <<waiting, skipped, running, status, inflight, step>>
    BY <1>2 DEF vars, queues, requests
  <2> QED  BY <2>1, UnchangedQueues
<1>3. CASE ScheduleStep
  BY <1>3, MovingOn, ScheduleQueues, PreemptQueues, RestoreQueues, SwapQueues, SkipQueues,
     AdmitQueues, NoKvQueues, FinishQueues
     DEF ScheduleStep
<1>4. CASE Environment  BY <1>1, <1>4, AddQueues, AbortQueues DEF Environment
<1>5. CASE StartSchedule \/ UpdateFromOutput  BY <1>5, StartQueues, UpdateQueues
<1> QED  BY <1>2, <1>3, <1>4, <1>5 DEF Next, Engine

\* A request is in exactly one queue, once, while it is unfinished, and in
\* running when its status says so: no preemption, swap, requeue, abort or stop
\* loses it, queues it twice or leaves it behind when it is finished.
THEOREM QueuesAgree ==
    ASSUME SmallDepth
    PROVE  Spec => []QueuesMatchStatus
<1>1. Init => PoolInv /\ QInv  BY InitPool, InitQueues
<1>2. PoolInv /\ QInv /\ [Next]_vars => (PoolInv /\ QInv)'  BY NextPool, NextQueues
<1>3. PoolInv /\ QInv => QueuesMatchStatus  BY QueuesImplied
<1> QED  BY <1>1, <1>2, <1>3, PTL DEF Spec

Life == [r \in Request |-> IF status[r] = "ABSENT" THEN "absent"
                           ELSE IF status[r] = "FINISHED" THEN "closed" ELSE "open"]

\* A step that gives no token and neither accepts nor ends a request is
\* invisible to the clients.
LEMMA Invisible ==
    ASSUME output' = output,
           \A r \in Request : /\ status'[r] = "ABSENT" <=> status[r] = "ABSENT"
                              /\ status'[r] = "FINISHED" <=> status[r] = "FINISHED"
    PROVE  Life' = Life /\ output' = output
BY DEF Life

\* A request is preempted while it runs.
LEMMA VictimRuns ==
    ASSUME QTyped, Where, NEW r \in Request, NEW v \in Request,
           RunningPreempt(r, v) \/ SwapCommit(r, v)
    PROVE  status[v] = "RUNNING"
<1>1. v \in ToSet(running)
  <2>1. CASE SwapCommit(r, v)  BY <2>1 DEF SwapCommit, SwapVictim
  <2>2. CASE RunningPreempt(r, v)
    <3>1. step.index <= Len(running) /\ v = Last(running)
      BY <2>2 DEF RunningPreempt, InRunningLoop
    <3>2. running \in Seq(Request) /\ step.index \in Nat \ {0}  BY DEF QTyped
    <3>3. running # <<>>  BY <3>1, <3>2
    <3> QED  BY <3>1, <3>2, <3>3, LastFacts
  <2> QED  BY <2>1, <2>2
<1> QED  BY <1>1 DEF Where

LEMMA StepsServe ==
    ASSUME PoolInv, QInv, [Next]_vars
    PROVE  [Service!Next]_<<Life, output>>
<1>1. QTyped /\ Apart /\ Where  BY DEF QInv
<1>2. status \in [Request -> Statuses]  BY <1>1 DEF QTyped
<1>3. ASSUME status' = status, output' = output PROVE [Service!Next]_<<Life, output>>
  BY <1>3 DEF Life
<1>4. ASSUME NEW r \in Request, NEW s, status[r] \notin {"ABSENT", "FINISHED"},
             s \notin {"ABSENT", "FINISHED"}, status' = [status EXCEPT ![r] = s], output' = output
      PROVE  [Service!Next]_<<Life, output>>
  <2>1. \A q \in Request : /\ status'[q] = "ABSENT" <=> status[q] = "ABSENT"
                           /\ status'[q] = "FINISHED" <=> status[q] = "FINISHED"
    BY <1>2, <1>4
  <2> QED  BY <1>4, <2>1, Invisible
<1>5. ASSUME NEW r \in Request, AddRequest(r) PROVE [Service!Next]_<<Life, output>>
  <2>1. status[r] = "ABSENT" /\ output' = output  BY <1>5 DEF AddRequest
  <2>2. PICK s \in {"WAITING", "WAITING_FOR_GRAMMAR"} : status' = [status EXCEPT ![r] = s]
    BY <1>5 DEF AddRequest
  <2>3. Life[r] = "absent"  BY <2>1 DEF Life
  <2>4. Life' = [Life EXCEPT ![r] = "open"]
    BY <1>2, <2>2 DEF Life
  <2>5. Service!Accept(r)  BY <2>1, <2>3, <2>4 DEF Service!Accept, Life
  <2> QED  BY <2>5 DEF Service!Next

<1>6. ASSUME NEW r \in Request, Abort(r) PROVE [Service!Next]_<<Life, output>>
  <2>1. /\ r \in Abortable /\ output' = output /\ status[r] \notin {"ABSENT", "FINISHED"}
        /\ status' = [q \in Request |-> IF q \in {r} THEN "FINISHED" ELSE status[q]]
    BY <1>6 DEF Abort, Forget
  <2>2. Life[r] = "open"  BY <2>1 DEF Life
  <2>3. Life' = [Life EXCEPT ![r] = "closed"]  BY <1>2, <2>1 DEF Life
  <2>4. Service!Cancel(r)  BY <2>1, <2>2, <2>3 DEF Service!Cancel, Life
  <2> QED  BY <2>4 DEF Service!Next
<1>7. ASSUME UpdateFromOutput PROVE [Service!Next]_<<Life, output>>
  <2> DEFINE live == Receiving(Head(inflight))
             stopped(eos) == {r \in live : r \in eos \/ output'[r] >= MaxTokens[r]}
  <2>1. output' = [r \in Request |-> IF r \in live THEN output[r] + 1 ELSE output[r]]
    BY <1>7 DEF UpdateFromOutput
  <2>2. PICK eos \in SUBSET (live \cap MayStopEarly) :
            status' = [q \in Request |-> IF q \in stopped(eos) THEN "FINISHED" ELSE status[q]]
    BY <1>7 DEF UpdateFromOutput, Forget
  <2>3. /\ stopped(eos) \subseteq live
        /\ \A r \in live : output'[r] >= MaxTokens[r] => r \in stopped(eos)
        /\ \A r \in stopped(eos) : output'[r] >= MaxTokens[r] \/ r \in MayStopEarly
    OBVIOUS
  <2>4. \A r \in live : r \in Request /\ status[r] \notin {"ABSENT", "FINISHED"}
    <3>1. Head(inflight) \in Batch  BY <1>7, TakenBatches DEF UpdateFromOutput
    <3> QED  BY <3>1 DEF Receiving, Batch
  <2> HIDE DEF live
  <2>5. PICK ended : /\ status' = [q \in Request |-> IF q \in ended THEN "FINISHED" ELSE status[q]]
                     /\ ended \subseteq live
                     /\ \A r \in live : output'[r] >= MaxTokens[r] => r \in ended
                     /\ \A r \in ended : output'[r] >= MaxTokens[r] \/ r \in MayStopEarly
    BY <2>2, <2>3
  <2>6. Life' = [r \in Request |-> IF r \in ended THEN "closed" ELSE Life[r]]
    BY <2>5 DEF Life
  <2>7. \A r \in live : Life[r] = "open"  BY <2>4 DEF Life
  <2>8. Service!Deliver(live, ended)
    BY <2>1, <2>5, <2>6, <2>7 DEF Service!Deliver, Life
  <2>9. live \in SUBSET Request /\ ended \in SUBSET live  BY <2>4, <2>5
  <2> QED  BY <2>8, <2>9 DEF Service!Next
<1>8. ASSUME NEW r \in Request, NEW v \in Request, RunningPreempt(r, v) \/ SwapCommit(r, v)
      PROVE  [Service!Next]_<<Life, output>>
  <2>1. status' = [status EXCEPT ![v] = "PREEMPTED"] /\ output' = output
    BY <1>8 DEF RunningPreempt, SwapCommit, Preempt
  <2>2. status[v] = "RUNNING"  BY <1>1, <1>8, VictimRuns
  <2> QED  BY <1>4, <2>1, <2>2
<1>9. ASSUME NEW r \in Request, WaitingSkip(r) \/ WaitingNoKv(r) \/ WaitingAdmit(r)
      PROVE  [Service!Next]_<<Life, output>>
  <2>1. PICK s \in {"RUNNING", Promoted(r)} : status' = [status EXCEPT ![r] = s] /\ output' = output
    BY <1>9 DEF WaitingSkip, WaitingNoKv, WaitingAdmit
  <2>2. r \in ToSet(waiting) \cup ToSet(skipped)
    <3>1. r = NextWaiting /\ InWaitingLoop  BY <1>9 DEF WaitingSkip, WaitingNoKv, WaitingAdmit
    <3> QED  BY <1>1, <3>1, NextIsQueued
  <2>3. status[r] \in Waits  BY <1>1, <2>2 DEF Where, PassedOver
  <2>4. s \notin {"ABSENT", "FINISHED"}  BY <2>1, <2>3, PromotedFacts DEF Waits
  <2> QED  BY <1>4, <2>1, <2>3, <2>4 DEF Waits
<1>10. ASSUME NEW r \in Request, \/ GrammarReady(r) \/ BackoffExpires(r)
                                 \/ RunningSkip(r) \/ RunningSchedule(r)
       PROVE  [Service!Next]_<<Life, output>>
  BY <1>3, <1>10 DEF GrammarReady, BackoffExpires, RunningSkip, RunningSchedule, requests
<1>11. ASSUME NEW c \in Request, NEW v \in Request, SwapPreflightFails(c, v)
       PROVE  [Service!Next]_<<Life, output>>
  BY <1>3, <1>11 DEF SwapPreflightFails, requests
<1>12. ASSUME \/ StartSchedule \/ RestoreHeld \/ SwapReject \/ WaitingDone \/ FinishSchedule
       PROVE  [Service!Next]_<<Life, output>>
  BY <1>3, <1>12 DEF StartSchedule, RestoreHeld, SwapReject, WaitingDone, FinishSchedule, requests
<1>13. ASSUME UNCHANGED vars PROVE [Service!Next]_<<Life, output>>
  BY <1>3, <1>13 DEF vars, requests
<1>14. ASSUME ScheduleStep PROVE [Service!Next]_<<Life, output>>
  BY <1>8, <1>9, <1>10, <1>11, <1>12, <1>14 DEF ScheduleStep
<1> QED
  BY <1>5, <1>6, <1>7, <1>10, <1>12, <1>13, <1>14 DEF Next, Engine, Environment

\* Whatever the scheduler does inside, its clients see the inference service:
\* tokens come one by one, none after the end, and the token that reaches
\* max_tokens closes the request.
THEOREM SchedulerServes ==
    ASSUME SmallDepth
    PROVE  Spec => ImplementsService
<1>1. Init => PoolInv /\ QInv  BY InitPool, InitQueues
<1>2. PoolInv /\ QInv /\ [Next]_vars => (PoolInv /\ QInv)'  BY NextPool, NextQueues
<1>3. Init => Service!Init  BY DEF Init, Service!Init
<1>4. PoolInv /\ QInv /\ [Next]_vars => [Service!Next]_<<Life, output>>  BY StepsServe
<1> QED
  BY <1>1, <1>2, <1>3, <1>4, PTL DEF Spec, ImplementsService, Service!Spec, Life

-----------------------------------------------------------------------------
(* The order of the waiting queue *)

\* In queue q, the requests of S come first.
First(q, S) == \A i, j \in DOMAIN q : i < j /\ q[j] \in S => q[i] \in S

Preempted == {r \in Request : status[r] = "PREEMPTED"}

\* Only the requests of the queue matter.
LEMMA FirstSame ==
    ASSUME NEW q, NEW S, NEW T, First(q, S), ToSet(q) \cap S = ToSet(q) \cap T
    PROVE  First(q, T)
BY DEF First, ToSet

LEMMA FirstAppend ==
    ASSUME NEW q \in Seq(Request), NEW r \in Request, NEW S, First(q, S), r \notin S
    PROVE  First(Append(q, r), S)
<1>1. /\ Len(q) \in Nat /\ DOMAIN q = 1..Len(q) /\ DOMAIN Append(q, r) = 1..(Len(q) + 1)
      /\ Append(q, r)[Len(q) + 1] = r /\ \A i \in 1..Len(q) : Append(q, r)[i] = q[i]
  OBVIOUS
<1> DEFINE a == Append(q, r)
<1> HIDE DEF a
<1> SUFFICES ASSUME NEW i \in 1..(Len(q) + 1), NEW j \in 1..(Len(q) + 1), i < j, a[j] \in S
             PROVE  a[i] \in S
  BY <1>1 DEF First, a
<1>2. j # Len(q) + 1  BY <1>1 DEF a
<1>3. i \in 1..Len(q) /\ j \in 1..Len(q)  BY <1>1, <1>2
<1> QED  BY <1>1, <1>3 DEF First, a

LEMMA FirstPush ==
    ASSUME NEW q \in Seq(Request), NEW v \in Request, NEW S, First(q, S), v \in S
    PROVE  First(<<v>> \o q, S)
<1>1. /\ Len(q) \in Nat /\ DOMAIN q = 1..Len(q) /\ DOMAIN (<<v>> \o q) = 1..(Len(q) + 1)
      /\ (<<v>> \o q)[1] = v /\ \A i \in 2..(Len(q) + 1) : (<<v>> \o q)[i] = q[i - 1]
  OBVIOUS
<1> DEFINE a == <<v>> \o q
<1> HIDE DEF a
<1> SUFFICES ASSUME NEW i \in 1..(Len(q) + 1), NEW j \in 1..(Len(q) + 1), i < j, a[j] \in S
             PROVE  a[i] \in S
  BY <1>1 DEF First, a
<1>2. CASE i = 1  BY <1>1, <1>2 DEF a
<1>3. CASE i # 1
  <2>1. /\ i \in 2..(Len(q) + 1) /\ j \in 2..(Len(q) + 1)
        /\ i - 1 \in 1..Len(q) /\ j - 1 \in 1..Len(q) /\ i - 1 < j - 1
    BY <1>1, <1>3
  <2>2. q[j - 1] \in S /\ a[i] = q[i - 1]  BY <1>1, <2>1 DEF a
  <2> QED  BY <1>1, <2>1, <2>2 DEF First
<1> QED  BY <1>2, <1>3

LEMMA FirstTail ==
    ASSUME NEW q \in Seq(Request), q # <<>>, NEW S, First(q, S)
    PROVE  First(Tail(q), S)
<1> DEFINE t == Tail(q)
<1>1. \A i \in 1..Len(t) : t[i] = q[i + 1] /\ i + 1 \in 1..Len(q)  BY TailFacts
<1>2. DOMAIN q = 1..Len(q) /\ DOMAIN t = 1..Len(t) /\ Len(t) \in Nat  OBVIOUS
<1> HIDE DEF t
<1> SUFFICES ASSUME NEW i \in 1..Len(t), NEW j \in 1..Len(t), i < j, t[j] \in S
             PROVE  t[i] \in S
  BY <1>2 DEF First, t
<1>3. i + 1 < j + 1  BY <1>2
<1> QED  BY <1>1, <1>2, <1>3 DEF First

LEMMA FirstWithout ==
    ASSUME NEW q \in Seq(Request), NEW R, NEW S, First(q, S)
    PROVE  First(Without(q, R), S)
<1> DEFINE k == Keep(q, ToSet(q) \ R)
<1>1. /\ k \in Seq(Request) /\ DOMAIN k = 1..Len(k) /\ DOMAIN q = 1..Len(q)
      /\ \A i, j \in 1..Len(k) : i < j =>
            \E a, b \in 1..Len(q) : a < b /\ k[i] = q[a] /\ k[j] = q[b]
  <2>1. Filtered(q, ToSet(q) \ R, Request, Len(q), k)  BY KeepFilters
  <2> HIDE DEF k
  <2>2. k \in Seq(Request) /\ InOrder(q, Len(q), k)  BY <2>1 DEF Filtered
  <2>3. DOMAIN k = 1..Len(k) /\ DOMAIN q = 1..Len(q)  BY <2>2
  <2> QED  BY <2>2, <2>3 DEF InOrder
<1>2. Without(q, R) = k  BY DEF Without
<1> HIDE DEF k
<1> SUFFICES ASSUME NEW i \in 1..Len(k), NEW j \in 1..Len(k), i < j, k[j] \in S
             PROVE  k[i] \in S
  BY <1>1, <1>2 DEF First
<1>3. PICK a, b \in 1..Len(q) : a < b /\ k[i] = q[a] /\ k[j] = q[b]  BY <1>1
<1> QED  BY <1>1, <1>3 DEF First

LEMMA FirstConcat ==
    ASSUME NEW p \in Seq(Request), NEW q \in Seq(Request), NEW S, First(p, S),
           ToSet(q) \cap S = {}
    PROVE  First(p \o q, S)
<1> DEFINE c == p \o q
<1>1. /\ Len(p) \in Nat /\ Len(q) \in Nat /\ DOMAIN p = 1..Len(p) /\ DOMAIN q = 1..Len(q)
      /\ DOMAIN c = 1..(Len(p) + Len(q)) /\ \A i \in 1..Len(p) : c[i] = p[i]
      /\ \A i \in (Len(p) + 1)..(Len(p) + Len(q)) : c[i] = q[i - Len(p)]
  OBVIOUS
<1> HIDE DEF c
<1> SUFFICES ASSUME NEW i \in DOMAIN c, NEW j \in DOMAIN c, i < j, c[j] \in S PROVE c[i] \in S
  BY DEF First, c
<1>2. ASSUME j > Len(p) PROVE FALSE
  <2>1. j \in (Len(p) + 1)..(Len(p) + Len(q)) /\ j - Len(p) \in DOMAIN q  BY <1>1, <1>2
  <2>2. c[j] = q[j - Len(p)]  BY <1>1, <2>1
  <2> QED  BY <2>1, <2>2 DEF ToSet
<1>3. i \in 1..Len(p) /\ j \in 1..Len(p)  BY <1>1, <1>2
<1> QED  BY <1>1, <1>3 DEF First

\* Promotion keeps the preempted requests first: it inserts behind them.
LEMMA FirstPromote ==
    ASSUME QTyped, First(waiting, Preempted),
           NEW chosen \in Seq(Request), \A c \in ToSet(chosen) : status[c] = "WAITING"
    PROVE  First(PromoteWaiting(chosen), Preempted)
<1>0. waiting \in Seq(Request)  BY DEF QTyped
<1>1. CASE chosen = <<>>  BY <1>1 DEF PromoteWaiting
<1>2. CASE chosen # <<>>
  <2> DEFINE T == {i \in DOMAIN waiting : \A j \in 1..i : status[waiting[j]] = "PREEMPTED"}
             k == Cardinality(T)
             a == SubSeq(waiting, 1, k)
             b == SubSeq(waiting, k + 1, Len(waiting))
             w == Without(b, ToSet(chosen))
  <2>1. k \in 0..Len(waiting) /\ T = 1..k
    <3>1. DOMAIN waiting = 1..Len(waiting) /\ Len(waiting) \in Nat  BY <1>0
    <3>2. T \in SUBSET (1..Len(waiting)) /\ \A i \in T : \A j \in 1..i : j \in T  BY <3>1
    <3> HIDE DEF T
    <3> QED  BY <3>1, <3>2, PrefixIsInterval
  <2>2. \A i \in 1..k : waiting[i] \in Preempted
    <3>1. \A i \in 1..k : status[waiting[i]] = "PREEMPTED" /\ waiting[i] \in Request
      BY <1>0, <2>1
    <3> QED  BY <3>1 DEF Preempted
  <2>3. \A i \in DOMAIN waiting : i > k => waiting[i] \notin Preempted
    <3> SUFFICES ASSUME NEW i \in DOMAIN waiting, i > k, waiting[i] \in Preempted PROVE FALSE
      OBVIOUS
    <3>1. DOMAIN waiting = 1..Len(waiting) /\ Len(waiting) \in Nat  BY <1>0
    <3>2. \A j \in 1..i : waiting[j] \in Preempted
      <4> SUFFICES ASSUME NEW j \in 1..i PROVE waiting[j] \in Preempted  OBVIOUS
      <4>1. j \in DOMAIN waiting /\ (j = i \/ j < i)  BY <3>1
      <4> QED  BY <4>1 DEF First
    <3>3. \A j \in 1..i : status[waiting[j]] = "PREEMPTED"  BY <3>2 DEF Preempted
    <3>4. i \in T  BY <3>3
    <3>5. i \in 1..k  BY <2>1, <3>4
    <3> HIDE DEF T, k
    <3> QED  BY <2>1, <3>1, <3>5
  <2>4. PromoteWaiting(chosen) = (a \o chosen) \o w
    <3>1. PromoteWaiting(chosen) = a \o chosen \o w  BY <1>2 DEF PromoteWaiting
    <3> QED  BY <3>1
  <2> HIDE DEF T, k
  <2>5. a \in Seq(Request) /\ b \in Seq(Request) /\ Len(a) = k  BY <1>0, <2>1, SplitFacts
  <2>6. \A i \in 1..k : a[i] = waiting[i]  BY <1>0, <2>1
  <2>7. ToSet(b) \cap Preempted = {}
    <3>1. DOMAIN b = 1..(Len(waiting) - k) /\ \A i \in 1..(Len(waiting) - k) : b[i] = waiting[k + i]
      BY <1>0, <2>1
    <3>2. \A i \in 1..(Len(waiting) - k) : k + i \in DOMAIN waiting /\ k + i > k
      BY <1>0, <2>1
    <3> HIDE DEF b
    <3>3. \A i \in DOMAIN b : b[i] \notin Preempted  BY <2>3, <3>1, <3>2
    <3> QED  BY <3>3 DEF ToSet
  <2> HIDE DEF a, b
  <2>8. w \in Seq(Request) /\ ToSet(w) \cap Preempted = {}
    BY <2>5, <2>7, WithoutFacts
  <2> HIDE DEF w
  <2>9. First(a, Preempted)
    <3>1. DOMAIN a = 1..k  BY <2>1, <2>5
    <3> QED  BY <2>2, <2>6, <3>1 DEF First
  <2>10. ToSet(chosen) \cap Preempted = {}  BY DEF Preempted
  <2> DEFINE p == a \o chosen
  <2>11. p \in Seq(Request) /\ First(p, Preempted)  BY <2>5, <2>9, <2>10, FirstConcat, ConcatFacts
  <2> HIDE DEF p
  <2>12. First(p \o w, Preempted)  BY <2>8, <2>11, FirstConcat
  <2> QED  BY <2>4, <2>12 DEF p
<1> QED  BY <1>1, <1>2

LEMMA NextFirst ==
    ASSUME ~SlotSwapEnabled, PoolInv, QInv, First(waiting, Preempted), [Next]_vars
    PROVE  First(waiting, Preempted)'
<1>1. QTyped /\ Apart /\ Where /\ Selected /\ InBatch  BY DEF QInv
<1>2. waiting \in Seq(Request) /\ status \in [Request -> Statuses]  BY <1>1 DEF QTyped
<1>3. ASSUME waiting' = waiting, status' = status PROVE First(waiting, Preempted)'
  BY <1>3 DEF Preempted
<1>4. ASSUME NEW R, waiting' = Without(waiting, R),
             \A q \in Request : q \notin R => (status'[q] = "PREEMPTED" <=> status[q] = "PREEMPTED")
      PROVE  First(waiting, Preempted)'
  <2>1. First(waiting', Preempted)  BY <1>2, <1>4, FirstWithout
  <2>2. ToSet(waiting') \cap R = {}  BY <1>2, <1>4, WithoutFacts
  <2>3. ToSet(waiting') \cap Preempted = ToSet(waiting') \cap Preempted'
    BY <1>4, <2>2 DEF Preempted
  <2> QED  BY <2>1, <2>3, FirstSame
<1>5. ASSUME NEW r \in Request, AddRequest(r) PROVE First(waiting, Preempted)'
  <2>1. PICK s \in {"WAITING", "WAITING_FOR_GRAMMAR"} : status' = [status EXCEPT ![r] = s]
    BY <1>5 DEF AddRequest
  <2>2. status[r] = "ABSENT" /\ (waiting' = waiting \/ waiting' = Append(waiting, r))
    BY <1>5 DEF AddRequest
  <2>3. Preempted' = Preempted  BY <1>2, <2>1, <2>2 DEF Preempted
  <2>4. r \notin Preempted  BY <2>2 DEF Preempted
  <2> QED  BY <1>2, <2>2, <2>3, <2>4, FirstAppend
<1>6. ASSUME NEW r \in Request, Abort(r) PROVE First(waiting, Preempted)'
  <2>1. status' = [q \in Request |-> IF q \in {r} THEN "FINISHED" ELSE status[q]]
    BY <1>6 DEF Abort, Forget
  <2>2. CASE status[r] # "RUNNING"
    <3>1. waiting' = Without(waiting, {r})  BY <1>6, <2>2 DEF Abort
    <3> QED  BY <1>4, <2>1, <3>1
  <2>3. CASE status[r] = "RUNNING"
    <3>1. waiting' = waiting /\ Preempted' = Preempted
      BY <1>6, <2>1, <2>3 DEF Abort, Preempted
    <3> QED  BY <3>1
  <2> QED  BY <2>2, <2>3
<1>7. ASSUME UpdateFromOutput PROVE First(waiting, Preempted)'
  <2> DEFINE live == Receiving(Head(inflight))
             stopped(eos) == {r \in live : r \in eos \/ output'[r] >= MaxTokens[r]}
  <2>1. PICK eos \in SUBSET (live \cap MayStopEarly) :
            /\ DropStopped(stopped(eos))
            /\ status' = [q \in Request |-> IF q \in stopped(eos) THEN "FINISHED" ELSE status[q]]
    BY <1>7 DEF UpdateFromOutput, Forget
  <2> HIDE DEF stopped, live
  <2> DEFINE R == {r \in stopped(eos) : status[r] = "PREEMPTED"}
  <2>2. waiting' = Without(waiting, R)  BY <2>1 DEF DropStopped
  <2>3. \A q \in Request : q \notin R => (status'[q] = "PREEMPTED" <=> status[q] = "PREEMPTED")
    BY <2>1
  <2> HIDE DEF R
  <2> QED  BY <1>4, <2>2, <2>3
<1>8. ASSUME NEW chosen \in Seq(Request), \A c \in ToSet(chosen) : status[c] = "WAITING",
             waiting' = waiting \/ waiting' = PromoteWaiting(chosen), status' = status
      PROVE  First(waiting, Preempted)'
  <2>1. Preempted' = Preempted  BY <1>8 DEF Preempted
  <2> QED  BY <1>1, <1>8, <2>1, FirstPromote
<1>9. ASSUME StartSchedule PROVE First(waiting, Preempted)'
  <2>1. PICK d \in Decisions : waiting' = IF BatchBudget THEN PromoteWaiting(d.candidates) ELSE waiting
    BY <1>9 DEF StartSchedule
  <2>2. d.candidates \in Seq(Request) /\ \A c \in ToSet(d.candidates) : status[c] = "WAITING"
    BY <1>1, DecisionCandidates, NormalWaitingFacts DEF Candidates
  <2>3. status' = status  BY <1>9 DEF StartSchedule, requests
  <2> QED  BY <1>8, <2>1, <2>2, <2>3
<1>10. ASSUME RestoreHeld PROVE First(waiting, Preempted)'
  <2>1. status' = status  BY <1>10 DEF RestoreHeld, requests
  <2>2. waiting' = waiting \/ \E s \in Rescored : waiting' = PromoteWaiting(s.candidates)
    BY <1>10 DEF RestoreHeld
  <2>3. ASSUME NEW s \in Rescored
        PROVE  s.candidates \in Seq(Request) /\ \A c \in ToSet(s.candidates) : status[c] = "WAITING"
    <3>1. step.phase \in {"running", "restore"}  BY <1>10 DEF RestoreHeld
    <3> QED  BY <1>1, <2>3, <3>1, RescoredFacts
  <2> QED  BY <1>3, <1>8, <2>1, <2>2, <2>3
<1>11. ASSUME NEW r \in Request, NEW v \in Request, RunningPreempt(r, v)
       PROVE  First(waiting, Preempted)'
  <2>1. waiting' = <<v>> \o waiting /\ status' = [status EXCEPT ![v] = "PREEMPTED"]
    BY <1>11 DEF RunningPreempt, Preempt
  <2>2. status[v] = "RUNNING"  BY <1>1, <1>11, VictimRuns
  <2>3. v \notin ToSet(waiting)  BY <1>1, <2>2 DEF Where, Waits
  <2>4. Preempted' = Preempted \cup {v}  BY <1>2, <2>1 DEF Preempted
  <2>5. First(waiting, Preempted')
    <3>1. ToSet(waiting) \cap Preempted = ToSet(waiting) \cap Preempted'  BY <2>3, <2>4
    <3> QED  BY <3>1, FirstSame
  <2>6. v \in Preempted'  BY <2>4
  <2> HIDE DEF Preempted
  <2>7. \A S : First(waiting, S) /\ v \in S => First(<<v>> \o waiting, S)  BY <1>2, FirstPush
  <2> QED  BY <2>1, <2>5, <2>6, <2>7
<1>12. ASSUME NEW r \in Request, WaitingSkip(r) \/ WaitingAdmit(r)
       PROVE  First(waiting, Preempted)'
  <2>1. InWaitingLoop /\ r = NextWaiting /\ PopWaiting  BY <1>12 DEF WaitingSkip, WaitingAdmit
  <2>2. PICK s : status' = [status EXCEPT ![r] = s]  BY <1>12 DEF WaitingSkip, WaitingAdmit
  <2>3. ToSet(waiting') = ToSet(waiting) \ {r}  BY <1>1, <2>1, PopFacts
  <2>4. First(waiting', Preempted)
    <3>1. CASE skipped # <<>>  BY <2>1, <3>1 DEF PopWaiting
    <3>2. CASE skipped = <<>>
      <4>1. waiting # <<>> /\ waiting' = Tail(waiting)  BY <2>1, <3>2 DEF PopWaiting, InWaitingLoop
      <4> QED  BY <1>2, <4>1, FirstTail
    <3> QED  BY <3>1, <3>2
  <2>5. ToSet(waiting') \cap Preempted = ToSet(waiting') \cap Preempted'
    BY <1>2, <2>2, <2>3 DEF Preempted
  <2> QED  BY <2>4, <2>5, FirstSame
<1>13. ASSUME NEW r \in Request, WaitingNoKv(r) PROVE First(waiting, Preempted)'
  <2>1. /\ waiting' = waiting /\ status' = [status EXCEPT ![r] = Promoted(r)]
        /\ InWaitingLoop /\ r = NextWaiting
    BY <1>13 DEF WaitingNoKv, queues
  <2>2. status[r] \in Waits  BY <1>1, <2>1, NextIsQueued DEF Where, PassedOver
  <2>3. Preempted' = Preempted  BY <1>2, <2>1, <2>2, PromotedFacts DEF Preempted
  <2> QED  BY <2>1, <2>3
<1>14. ASSUME NEW r \in Request, \/ GrammarReady(r) \/ BackoffExpires(r)
                                 \/ RunningSkip(r) \/ RunningSchedule(r)
       PROVE  First(waiting, Preempted)'
  BY <1>3, <1>14 DEF GrammarReady, BackoffExpires, RunningSkip, RunningSchedule, queues, requests
<1>15. ASSUME NEW c \in Request, NEW v \in Request, SwapPreflightFails(c, v) \/ SwapCommit(c, v)
       PROVE  First(waiting, Preempted)'
  BY <1>3, <1>15 DEF SwapPreflightFails, SwapCommit, SwapWanted, queues, requests
<1>16. ASSUME SwapReject \/ WaitingDone \/ FinishSchedule \/ UNCHANGED vars
       PROVE  First(waiting, Preempted)'
  BY <1>3, <1>16 DEF SwapReject, WaitingDone, FinishSchedule, vars, queues, requests
<1>17. ASSUME ScheduleStep PROVE First(waiting, Preempted)'
  BY <1>10, <1>11, <1>12, <1>13, <1>14, <1>15, <1>16, <1>17 DEF ScheduleStep
<1> QED
  BY <1>5, <1>6, <1>7, <1>9, <1>14, <1>16, <1>17 DEF Next, Engine, Environment

LeadInv == PoolInv /\ QInv /\ (~SlotSwapEnabled => First(waiting, Preempted))

LEMMA LeadStays ==
    ASSUME SmallDepth
    PROVE  /\ Init => LeadInv
           /\ LeadInv /\ [Next]_vars => LeadInv'
           /\ LeadInv => PreemptedComeFirst
<1>1. Init => LeadInv
  <2>1. Init => First(waiting, Preempted)  BY DEF Init, First
  <2> QED  BY <2>1, InitPool, InitQueues DEF LeadInv
<1>2. LeadInv /\ [Next]_vars => LeadInv'
  BY NextPool, NextQueues, NextFirst DEF LeadInv
<1>3. LeadInv => PreemptedComeFirst
  <2> SUFFICES ASSUME QInv, First(waiting, Preempted), NEW i \in DOMAIN waiting,
                      NEW j \in DOMAIN waiting, i < j, status[waiting[j]] = "PREEMPTED"
               PROVE  status[waiting[i]] = "PREEMPTED"
    BY DEF LeadInv, PreemptedComeFirst
  <2>1. waiting[j] \in Request  BY DEF QInv, QTyped
  <2> QED  BY <2>1 DEF First, Preempted
<1> QED  BY <1>1, <1>2, <1>3

\* Without the slot swap nothing overtakes a preempted request: the promotion
\* of the selected requests, requeues and removals leave the preempted ones at
\* the head of the queue.
THEOREM PreemptedLead ==
    ASSUME SmallDepth
    PROVE  Spec => []PreemptedComeFirst
<1> QED  BY LeadStays, PTL DEF Spec

-----------------------------------------------------------------------------
(***************************************************************************)
(* schedule() ends.  Its loops have no counter: the first one drops the    *)
(* last running request each time a request does not fit, the second one   *)
(* pops requests, and a swap puts its victim back on the queue that loop   *)
(* is about to empty.  Left is how many iterations there can still be.     *)
(***************************************************************************)

Queued == Len(waiting) + Len(skipped)

Left ==
    CASE step.phase = "idle"    -> 0
      [] step.phase = "finish"  -> 1
      [] step.phase = "waiting" -> Queued + 2
      [] step.phase = "swap"    -> Queued + 4
      [] step.phase = "restore" -> Queued + 5
      [] step.phase = "running" -> 2 * Len(running) - step.index + Queued + 6

\* The index of the RUNNING loop stays within the queue, which gets shorter.
IndexInv == step.phase = "running" => step.index <= Len(running) + 1

LEMMA LengthFacts ==
    ASSUME QInv
    PROVE  /\ Len(waiting) \in Nat /\ Len(skipped) \in Nat /\ Len(running) \in Nat
           /\ step.index \in Nat \ {0} /\ step.phase \in Phases
           /\ DOMAIN step = DOMAIN NoStep
BY DEF QInv, QTyped

LEMMA LeftIsNat == QInv /\ IndexInv => Left \in Nat
BY LengthFacts DEF IndexInv, Left, Queued, Phases

LEMMA StartLeft ==
    ASSUME QInv, StartSchedule
    PROVE  Left' = 2 * Len(running) + Queued + 5 /\ IndexInv'
<1>1. QTyped /\ Apart  BY DEF QInv
<1>2. skipped' = skipped /\ running' = running  BY DEF StartSchedule
<1>3. PICK d \in Decisions :
         /\ step' = [NoStep EXCEPT !.phase = "running",
                                   !.budget = MaxNumScheduledTokens - d.reserve,
                                   !.held = d.reserve,
                                   !.candidates = d.candidates,
                                   !.swapEligible = d.swapEligible,
                                   !.acct = d.acct]
         /\ waiting' = IF BatchBudget THEN PromoteWaiting(d.candidates) ELSE waiting
  BY DEF StartSchedule
<1>4. step'.phase = "running" /\ step'.index = 1  BY <1>3 DEF NoStep
<1>5. Candidates(d)  BY <1>1, DecisionCandidates
<1>6. \A c \in ToSet(d.candidates) : c \in ToSet(waiting) /\ status[c] = "WAITING"
  BY <1>1, <1>5, NormalWaitingFacts DEF Candidates
<1>7. /\ waiting' \in Seq(Request) /\ IsInjective(waiting') /\ ToSet(waiting') = ToSet(waiting)
  BY <1>3, <1>5, <1>6, PromoteQueues DEF Candidates
<1>8. waiting \in Seq(Request) /\ IsInjective(waiting)  BY <1>1 DEF QTyped, Apart
<1>9. Len(waiting') = Len(waiting)  BY <1>7, <1>8, SameLength
<1>10. Len(waiting) \in Nat /\ Len(skipped) \in Nat /\ Len(running) \in Nat  BY LengthFacts
<1> QED  BY <1>2, <1>4, <1>9, <1>10 DEF Left, Queued, IndexInv

\* The RUNNING loop: the index moves on, or the queue gets shorter by two less
\* than the other one gets longer.
LEMMA RunningLeft ==
    ASSUME QInv, IndexInv, NEW r \in Request,
           RunningSkip(r) \/ RunningSchedule(r) \/ \E v \in Request : RunningPreempt(r, v)
    PROVE  Left' < Left /\ IndexInv'
<1>1. /\ Len(waiting) \in Nat /\ Len(skipped) \in Nat /\ Len(running) \in Nat
      /\ step.index \in Nat \ {0} /\ DOMAIN step = DOMAIN NoStep
  BY LengthFacts
<1>2. step.phase = "running" /\ step.index <= Len(running)
  BY DEF RunningSkip, RunningSchedule, RunningPreempt, InRunningLoop
<1>3. CASE RunningSkip(r) \/ RunningSchedule(r)
  <2>1. waiting' = waiting /\ skipped' = skipped /\ running' = running
    BY <1>3 DEF RunningSkip, RunningSchedule, queues
  <2>2. step'.phase = "running" /\ step'.index = step.index + 1
    BY <1>1, <1>2, <1>3 DEF RunningSkip, RunningSchedule, NoStep
  <2> QED  BY <1>1, <1>2, <2>1, <2>2 DEF Left, Queued, IndexInv
<1>4. CASE \E v \in Request : RunningPreempt(r, v)
  <2>1. PICK v \in Request : RunningPreempt(r, v)  BY <1>4
  <2>2. /\ waiting' = <<v>> \o waiting /\ skipped' = skipped /\ running' = Front(running)
        /\ step' = [step EXCEPT !.preempted = TRUE, !.phase = IF v = r THEN "restore" ELSE @]
    BY <2>1 DEF RunningPreempt
  <2>3. step'.phase \in {"running", "restore"} /\ step'.index = step.index
    BY <1>1, <1>2, <2>2 DEF NoStep
  <2>4. waiting \in Seq(Request) /\ running \in Seq(Request) /\ running # <<>>
    BY <1>1, <1>2 DEF QInv, QTyped
  <2>5. Len(running') = Len(running) - 1  BY <2>2, <2>4, LastFacts
  <2>6. Len(waiting') = Len(waiting) + 1  BY <2>2, <2>4
  <2> QED  BY <1>1, <1>2, <2>2, <2>3, <2>5, <2>6 DEF Left, Queued, IndexInv
<1> QED  BY <1>3, <1>4

LEMMA RestoreLeft ==
    ASSUME QInv, IndexInv, RestoreHeld
    PROVE  Left' < Left /\ IndexInv'
<1>1. QTyped /\ Apart /\ Selected  BY DEF QInv
<1>2. step.phase \in {"running", "restore"} /\ skipped' = skipped  BY DEF RestoreHeld
<1>3. PICK s \in Rescored \cup {step} :
         /\ step' = [s EXCEPT !.phase = "swap"]
            \/ step' = [s EXCEPT !.phase = "swap", !.budget = @ + s.held, !.held = 0]
         /\ waiting' = waiting \/ (s \in Rescored /\ waiting' = PromoteWaiting(s.candidates))
  BY DEF RestoreHeld
<1>4. DOMAIN s = DOMAIN NoStep
  <2>1. DOMAIN step = DOMAIN NoStep  BY <1>1 DEF QTyped
  <2>2. s = step \/ \E c : s = [step EXCEPT !.candidates = c, !.swapEligible = FALSE,
                                          !.acct = NewAccountant(0, <<>>)]
    BY <1>3 DEF Rescored
  <2> QED  BY <2>1, <2>2
<1>5. step'.phase = "swap"  BY <1>3, <1>4 DEF NoStep
<1>6. waiting \in Seq(Request) /\ IsInjective(waiting)  BY <1>1 DEF QTyped, Apart
<1>7. /\ waiting' \in Seq(Request) /\ IsInjective(waiting') /\ ToSet(waiting') = ToSet(waiting)
  <2>1. CASE waiting' = waiting  BY <1>6, <2>1
  <2>2. CASE s \in Rescored /\ waiting' = PromoteWaiting(s.candidates)
    <3>1. /\ s.candidates \in Seq(Request) /\ IsInjective(s.candidates)
          /\ \A c \in ToSet(s.candidates) : c \in ToSet(waiting) /\ status[c] = "WAITING"
      BY <1>1, <1>2, <2>2, RescoredFacts
    <3> QED  BY <2>2, <3>1, PromoteQueues
  <2> QED  BY <1>3, <2>1, <2>2
<1>8. Len(waiting') = Len(waiting)  BY <1>6, <1>7, SameLength
<1>9. Len(waiting) \in Nat /\ Len(skipped) \in Nat /\ Len(running) \in Nat /\ step.index \in Nat
  BY LengthFacts
<1> QED  BY <1>2, <1>5, <1>8, <1>9 DEF Left, Queued, IndexInv

\* A swap puts its victim on the queue, once: there is only one swap in a step.
LEMMA SwapLeft ==
    ASSUME QInv, SwapReject \/ \E c, v \in Request : SwapCommit(c, v) \/ SwapPreflightFails(c, v)
    PROVE  Left' < Left /\ IndexInv'
<1>1. /\ Len(waiting) \in Nat /\ Len(skipped) \in Nat /\ DOMAIN step = DOMAIN NoStep
  BY LengthFacts
<1>2. CASE SwapReject \/ \E c, v \in Request : SwapPreflightFails(c, v)
  <2>1. /\ step.phase = "swap" /\ step' = [step EXCEPT !.phase = WaitingPhase(step)]
        /\ waiting' = waiting /\ skipped' = skipped
    BY <1>2 DEF SwapReject, SwapPreflightFails, queues
  <2>2. step'.phase \in {"waiting", "finish"}  BY <1>1, <2>1 DEF WaitingPhase, NoStep
  <2> QED  BY <1>1, <2>1, <2>2 DEF Left, Queued, IndexInv
<1>3. CASE \E c, v \in Request : SwapCommit(c, v)
  <2>1. PICK c \in Request, v \in Request : SwapCommit(c, v)  BY <1>3
  <2>2. /\ waiting' = ForceFirst(<<v>> \o waiting, c) /\ skipped' = skipped
        /\ step.phase = "swap" /\ v \in ToSet(running) /\ status[c] = "WAITING"
        /\ step' = [TakenBack(step, v) EXCEPT !.phase = "waiting", !.preempted = TRUE,
                                              !.swappedFor = {c}]
    BY <2>1 DEF SwapCommit, SwapVictim, SwapWanted
  <2>3. c \in ToSet(waiting)
    <3>1. \E i \in DOMAIN waiting : waiting[i] = c  BY <2>1 DEF SwapCommit, SwapWanted
    <3> QED  BY <3>1 DEF ToSet
  <2>4. step'.phase = "waiting"  BY <1>1, <2>2 DEF TakenBack, NoStep
  <2>5. waiting \in Seq(Request) /\ IsInjective(waiting) /\ v \notin ToSet(waiting)
    BY <2>2 DEF QInv, QTyped, Apart, Where, Waits
  <2> DEFINE q == <<v>> \o waiting
             w == Without(q, {c})
             n == <<c>> \o w
  <2>6. /\ q \in Seq(Request) /\ ToSet(q) = {v} \cup ToSet(waiting) /\ IsInjective(q)
        /\ Len(q) = Len(waiting) + 1
    BY <2>5, PushFacts
  <2>7. waiting' = n  BY <2>2 DEF ForceFirst
  <2> HIDE DEF q
  <2>8. w \in Seq(Request) /\ ToSet(w) = ToSet(q) \ {c} /\ IsInjective(w)
    BY <2>6, WithoutFacts
  <2> HIDE DEF w
  <2>9. n \in Seq(Request) /\ ToSet(n) = {c} \cup ToSet(w) /\ IsInjective(n)
    BY <2>8, PushFacts
  <2>10. ToSet(n) = ToSet(q)  BY <2>3, <2>6, <2>8, <2>9
  <2> HIDE DEF n
  <2>11. Len(n) = Len(q)  BY <2>6, <2>9, <2>10, SameLength
  <2> QED  BY <1>1, <2>2, <2>4, <2>6, <2>7, <2>11 DEF Left, Queued, IndexInv
<1> QED  BY <1>2, <1>3

\* The WAITING loop: a request that is passed over is set aside, not queued
\* again, until the step ends.
LEMMA WaitingLeft ==
    ASSUME QInv,
           \/ \E r \in Request : WaitingSkip(r) \/ WaitingAdmit(r) \/ WaitingNoKv(r)
           \/ WaitingDone
    PROVE  Left' < Left /\ IndexInv'
<1>1. /\ Len(waiting) \in Nat /\ Len(skipped) \in Nat /\ DOMAIN step = DOMAIN NoStep
  BY LengthFacts
<1>2. CASE \E r \in Request : WaitingSkip(r) \/ WaitingAdmit(r)
  <2>1. PICK r \in Request : WaitingSkip(r) \/ WaitingAdmit(r)  BY <1>2
  <2>2. /\ waiting # <<>> \/ skipped # <<>>
        /\ PopWaiting /\ step.phase = "waiting"
    BY <2>1 DEF WaitingSkip, WaitingAdmit, InWaitingLoop
  <2>3. step'.phase = "waiting"
    BY <1>1, <2>1, <2>2 DEF WaitingSkip, WaitingAdmit, NoStep
  <2>4. waiting \in Seq(Request) /\ skipped \in Seq(Request)  BY DEF QInv, QTyped
  <2>5. CASE skipped # <<>>
    <3>1. waiting' = waiting /\ Len(skipped') = Len(skipped) - 1
      BY <2>2, <2>4, <2>5, TailFacts DEF PopWaiting
    <3> QED  BY <1>1, <2>2, <2>3, <3>1 DEF Left, Queued, IndexInv
  <2>6. CASE skipped = <<>>
    <3>1. skipped' = skipped /\ Len(waiting') = Len(waiting) - 1
      BY <2>2, <2>4, <2>6, TailFacts DEF PopWaiting
    <3> QED  BY <1>1, <2>2, <2>3, <3>1 DEF Left, Queued, IndexInv
  <2> QED  BY <2>5, <2>6
<1>3. CASE WaitingDone \/ \E r \in Request : WaitingNoKv(r)
  <2>1. step.phase = "waiting" /\ step' = [step EXCEPT !.phase = "finish"]
    BY <1>3 DEF WaitingDone, WaitingNoKv, InWaitingLoop
  <2>2. step'.phase = "finish"  BY <1>1, <2>1 DEF NoStep
  <2> QED  BY <1>1, <2>1, <2>2 DEF Left, Queued, IndexInv
<1> QED  BY <1>2, <1>3

LEMMA ScheduleLeft == QInv /\ IndexInv /\ ScheduleStep => Left' < Left /\ IndexInv'
<1> SUFFICES ASSUME QInv, IndexInv, ScheduleStep PROVE Left' < Left /\ IndexInv'  OBVIOUS
<1>1. CASE FinishSchedule
  <2>1. step.phase = "finish" /\ step'.phase = "idle"  BY <1>1 DEF FinishSchedule, NoStep
  <2> QED  BY <2>1 DEF Left, IndexInv
<1> QED  BY <1>1, RunningLeft, RestoreLeft, SwapLeft, WaitingLeft DEF ScheduleStep

\* Nothing else happens to the call: what comes from outside, or after it, finds
\* no call under way, or leaves its queues alone.
LEMMA ElseLeft ==
    ASSUME IndexInv, \/ UpdateFromOutput \/ Environment \/ UNCHANGED vars
    PROVE  Left' = Left /\ IndexInv'
<1>1. CASE step.phase = "idle" /\ step' = step  BY <1>1 DEF Left, IndexInv
<1>2. CASE UNCHANGED <<waiting, skipped, running, step>>
  BY <1>2 DEF Left, Queued, IndexInv
<1>3. UpdateFromOutput => step.phase = "idle" /\ step' = step  BY DEF UpdateFromOutput
<1>4. \A r \in Request : AddRequest(r) => step.phase = "idle" /\ step' = step
  BY DEF AddRequest, BetweenSteps
<1>5. \A r \in Request : Abort(r) => step.phase = "idle" /\ step' = step  BY DEF Abort
<1>6. \A r \in Request : BackoffExpires(r) => step.phase = "idle" /\ step' = step
  BY DEF BackoffExpires
<1>7. \A r \in Request : GrammarReady(r) => UNCHANGED <<waiting, skipped, running, step>>
  BY DEF GrammarReady, queues
<1>8. UNCHANGED vars => UNCHANGED <<waiting, skipped, running, step>>  BY DEF vars, queues
<1> QED  BY <1>1, <1>2, <1>3, <1>4, <1>5, <1>6, <1>7, <1>8 DEF Environment

\* A call of schedule() ends: it has at most twice as many iterations as there
\* are running requests, one for each request queued and five more, whatever is
\* preempted, swapped or promoted on the way; a compilation that ends meanwhile
\* adds none.
THEOREM ScheduleEnds ==
    ASSUME SmallDepth
    PROVE  Spec => /\ [](Left \in Nat)
                   /\ [][/\ StartSchedule => Left' = 2 * Len(running) + Queued + 5
                         /\ ScheduleStep => Left' < Left
                         /\ Left' # Left => StartSchedule \/ ScheduleStep]_vars
<1> DEFINE I == PoolInv /\ QInv /\ IndexInv
           A == /\ StartSchedule => Left' = 2 * Len(running) + Queued + 5
                /\ ScheduleStep => Left' < Left
                /\ Left' # Left => StartSchedule \/ ScheduleStep
<1>1. Init => I
  <2>1. Init => IndexInv  BY DEF Init, NoStep, IndexInv
  <2> QED  BY <2>1, InitPool, InitQueues
<1>2. I /\ [Next]_vars => I'
  <2>1. PoolInv /\ QInv /\ [Next]_vars => PoolInv' /\ QInv'  BY NextPool, NextQueues
  <2>2. I /\ [Next]_vars => IndexInv'
    BY StartLeft, ScheduleLeft, ElseLeft DEF Next, Engine
  <2> QED  BY <2>1, <2>2
<1>3. I => Left \in Nat  BY LeftIsNat
<1>4. I /\ [Next]_vars => A
  <2>1. I /\ StartSchedule => Left' = 2 * Len(running) + Queued + 5  BY StartLeft
  <2>2. I /\ ScheduleStep => Left' < Left  BY ScheduleLeft
  <2>3. I /\ [Next]_vars => StartSchedule \/ ScheduleStep \/ Left' = Left
    BY ElseLeft DEF Next, Engine
  <2> QED  BY <2>1, <2>2, <2>3
<1>5. I /\ [Next]_vars => [A]_vars  BY <1>4
<1> HIDE DEF I, A
<1>6. Spec => [](Left \in Nat) /\ [][A]_vars  BY <1>1, <1>2, <1>3, <1>5, PTL DEF Spec
<1> QED  BY <1>6 DEF A
=============================================================================
