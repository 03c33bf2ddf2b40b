--------------------------- MODULE DPWaves_proofs ---------------------------
(***************************************************************************)
(* The collectives of the data-parallel ranks match, and a pause holds on  *)
(* every rank.  The inductive invariant says that the wave and the step    *)
(* counter are the same on all ranks at all times, that whatever is on the *)
(* way carries no later wave, and where a rank may be while the client     *)
(* serves, pauses and resumes.                                             *)
(***************************************************************************)
EXTENDS DPWaves, DataLemmas

InMsg ==
    [kind : {"add"}, wave : Nat] \cup [kind : {"abort", "resume"}]
    \cup [kind : {"start"}, wave : Nat, exclude : Rank \cup {"client", Nobody}]
    \cup [kind : {"pause"}, mode : Modes]

CoordMsg ==
    [kind : {"first_req"}, wave : Nat, rank : Rank]
    \cup [kind : {"start_wave", "wave_complete"}, wave : Nat]

Phase == {"serving", "pausing", "paused", "resuming"}

WTyped ==
    /\ WavesTypeOK
    /\ inq \in [Rank -> Seq(InMsg)]
    /\ toCoord \in [Rank \cup {"client"} -> Seq(CoordMsg)]
    /\ client \in [wave : Nat, running : BOOLEAN, phase : Phase]

Has(queue, kind) == \E m \in ToSet(queue) : m.kind = kind

\* No order, that is a pause or a resume, waits with another one.
OneOrder(queue) ==
    \A i, j \in DOMAIN queue :
        queue[i].kind \in {"pause", "resume"} /\ queue[j].kind \in {"pause", "resume"} => i = j

\* No message carries a later wave than the ranks'.
InUpTo(queue, w) == \A m \in ToSet(queue) : m.kind \in {"add", "start"} => m.wave <= w

CoordUpTo(queue, w) ==
    \A m \in ToSet(queue) : m.wave <= w /\ (m.kind = "wave_complete" => m.wave < w)

WavesAgree ==
    /\ \A r \in Rank : wave[r] = wave[First] /\ counter[r] = counter[First]
    /\ coord.wave <= wave[First] /\ client.wave <= wave[First]
    /\ \A r \in Rank : InUpTo(inq[r], wave[First])
    /\ \A s \in Rank \cup {"client"} : CoordUpTo(toCoord[s], wave[First])

----------------------------------------------------------------------------
(* Where a rank is between two pauses, and from a pause to the resume.     *)

NoOrder(r) == ~Has(inq[r], "pause") /\ ~Has(inq[r], "resume")

Free(r) ==
    /\ ~pending[r] /\ ~ignore[r] /\ pauseState[r] = "unpaused" /\ future[r] = "none"
    /\ NoOrder(r) /\ at[r] # "resume"

\* The pause is in its input queue.
Told(r) ==
    /\ ~pending[r] /\ ~ignore[r] /\ pauseState[r] = "unpaused" /\ future[r] = "none"
    /\ ~Has(inq[r], "resume") /\ at[r] # "resume"

\* It waits for the others to pause too.
Pending(r) ==
    /\ pending[r] /\ running[r] /\ ~ignore[r] /\ pauseState[r] # "unpaused"
    /\ future[r] = "pending" /\ NoOrder(r) /\ at[r] # "resume"

\* All have agreed: it works off what it has and answers.
Stopping(r) ==
    /\ ~pending[r] /\ ignore[r] /\ pauseState[r] # "unpaused" /\ future[r] # "none"
    /\ NoOrder(r) /\ at[r] # "resume"
    /\ ~running[r] => Unfinished(r) = 0 /\ at[r] = "top"
    /\ future[r] = "done" => ~running[r]

\* The resume is in its input queue.
Stopped(r) ==
    /\ ~pending[r] /\ ~running[r] /\ ignore[r] /\ pauseState[r] # "unpaused"
    /\ future[r] = "none" /\ Unfinished(r) = 0 /\ at[r] = "top" /\ ~Has(inq[r], "pause")

\* It waits for the others to resume too.
Resuming(r) ==
    /\ ~pending[r] /\ ~running[r] /\ ~ignore[r] /\ pauseState[r] = "unpaused"
    /\ future[r] = "none" /\ NoOrder(r) /\ at[r] = "resume"

AllStopping ==
    /\ \A r \in Rank : Stopping(r)
    /\ \A r, s \in Rank : running[r] = running[s]

Phases ==
    /\ client.phase = "serving" => \A r \in Rank : Free(r)
    /\ client.phase = "pausing" =>
        (\A r \in Rank : Told(r) \/ Pending(r)) \/ AllStopping
    /\ client.phase = "paused" => AllStopping /\ \A r \in Rank : future[r] = "done"
    /\ client.phase = "resuming" =>
        (\A r \in Rank : Stopped(r) \/ Resuming(r)) \/ (\A r \in Rank : Free(r))

\* A rank that agrees on the end of a wave is not alone.
Together == \A r, s \in Rank : at[r] = "sync" => at[s] = "sync"

OrdersAlone == \A r \in Rank : OneOrder(inq[r])

WInv == WTyped /\ WavesAgree /\ Phases /\ Together /\ OrdersAlone

----------------------------------------------------------------------------
(* Queues of messages.                                                     *)

LEMMA AppendIn ==
    ASSUME NEW q \in Seq(InMsg), NEW m \in InMsg
    PROVE  /\ Append(q, m) \in Seq(InMsg)
           /\ \A k : Has(Append(q, m), k) <=> Has(q, k) \/ m.kind = k
           /\ \A w : InUpTo(q, w) /\ (m.kind \in {"add", "start"} => m.wave <= w)
                        => InUpTo(Append(q, m), w)
           /\ OneOrder(q) /\ (m.kind \in {"pause", "resume"} => ~Has(q, "pause") /\ ~Has(q, "resume"))
                => OneOrder(Append(q, m))
<1>1. Append(q, m) \in Seq(InMsg) /\ ToSet(Append(q, m)) = ToSet(q) \cup {m}
  BY AppendFacts
<1>2. \A i \in 1..Len(q) : q[i] \in ToSet(q)  BY ElementFacts
<1>3. /\ DOMAIN Append(q, m) = 1..(Len(q) + 1) /\ Append(q, m)[Len(q) + 1] = m /\ Len(q) \in Nat
      /\ DOMAIN q = 1..Len(q) /\ \A i \in 1..Len(q) : Append(q, m)[i] = q[i]
  OBVIOUS
<1> DEFINE p == Append(q, m)
<1>4. p \in Seq(InMsg) /\ ToSet(p) = ToSet(q) \cup {m}  BY <1>1
<1>5. /\ DOMAIN p = 1..(Len(q) + 1) /\ p[Len(q) + 1] = m
      /\ \A i \in 1..Len(q) : p[i] = q[i]
  BY <1>3
<1> HIDE DEF p
<1>6. \A k : Has(p, k) <=> Has(q, k) \/ m.kind = k  BY <1>4 DEF Has
<1>7. \A w : InUpTo(q, w) /\ (m.kind \in {"add", "start"} => m.wave <= w) => InUpTo(p, w)
  BY <1>4 DEF InUpTo
<1>8. ASSUME OneOrder(q), m.kind \in {"pause", "resume"} => ~Has(q, "pause") /\ ~Has(q, "resume")
      PROVE  OneOrder(p)
  <2> SUFFICES ASSUME NEW i \in DOMAIN p, NEW j \in DOMAIN p,
                      p[i].kind \in {"pause", "resume"}, p[j].kind \in {"pause", "resume"}
               PROVE  i = j
    BY DEF OneOrder
  <2>1. \A k \in 1..Len(q) : p[k].kind \in {"pause", "resume"} => Has(q, "pause") \/ Has(q, "resume")
    BY <1>2, <1>5 DEF Has
  <2>2. \A k \in DOMAIN p : k \in 1..Len(q) \/ k = Len(q) + 1  BY <1>3, <1>5
  <2>3. CASE i \in 1..Len(q) /\ j \in 1..Len(q)
    BY <1>3, <1>5, <1>8, <2>3 DEF OneOrder
  <2>4. CASE i = Len(q) + 1 /\ j \in 1..Len(q)  BY <1>5, <1>8, <2>1, <2>4
  <2>5. CASE j = Len(q) + 1 /\ i \in 1..Len(q)  BY <1>5, <1>8, <2>1, <2>5
  <2> QED  BY <2>2, <2>3, <2>4, <2>5
<1> QED  BY <1>4, <1>6, <1>7, <1>8 DEF p

LEMMA TailIn ==
    ASSUME NEW q \in Seq(InMsg), q # <<>>
    PROVE  /\ Head(q) \in InMsg /\ Tail(q) \in Seq(InMsg)
           /\ \A k : Has(q, k) <=> Has(Tail(q), k) \/ Head(q).kind = k
           /\ \A w : InUpTo(q, w) => /\ InUpTo(Tail(q), w)
                                     /\ Head(q).kind \in {"add", "start"} => Head(q).wave <= w
           /\ OneOrder(q) =>
                /\ OneOrder(Tail(q))
                /\ Head(q).kind \in {"pause", "resume"} =>
                    ~Has(Tail(q), "pause") /\ ~Has(Tail(q), "resume")
<1> DEFINE h == Head(q)
           t == Tail(q)
<1>1. /\ h \in InMsg /\ t \in Seq(InMsg) /\ Len(q) \in Nat \ {0} /\ q[1] = h
      /\ ToSet(q) = {h} \cup ToSet(t)
      /\ \A i \in 1..Len(t) : t[i] = q[i + 1] /\ i + 1 \in 1..Len(q)
  BY TailFacts
<1>2. DOMAIN q = 1..Len(q) /\ DOMAIN t = 1..Len(t)  OBVIOUS
<1>3. \A m \in ToSet(t) : \E i \in 1..Len(t) : t[i] = m  BY <1>2 DEF ToSet
<1> HIDE DEF h, t
<1>4. \A k : Has(q, k) <=> Has(t, k) \/ h.kind = k  BY <1>1 DEF Has
<1>5. \A w : InUpTo(q, w) => InUpTo(t, w) /\ (h.kind \in {"add", "start"} => h.wave <= w)
  BY <1>1 DEF InUpTo
<1>6. ASSUME OneOrder(q) PROVE OneOrder(t)
  <2> SUFFICES ASSUME NEW i \in 1..Len(t), NEW j \in 1..Len(t),
                      t[i].kind \in {"pause", "resume"}, t[j].kind \in {"pause", "resume"}
               PROVE  i = j
    BY <1>2 DEF OneOrder
  <2>1. i + 1 = j + 1  BY <1>1, <1>2, <1>6 DEF OneOrder
  <2> QED  BY <2>1
<1>7. ASSUME OneOrder(q), h.kind \in {"pause", "resume"}, NEW k \in {"pause", "resume"}, Has(t, k)
      PROVE  FALSE
  <2>1. PICK i \in 1..Len(t) : t[i].kind = k  BY <1>3, <1>7 DEF Has
  <2>2. q[i + 1].kind = k /\ i + 1 \in DOMAIN q /\ 1 \in DOMAIN q  BY <1>1, <1>2, <2>1
  <2>3. i + 1 = 1  BY <1>1, <1>7, <2>2 DEF OneOrder
  <2> QED  BY <2>3
<1> QED  BY <1>1, <1>4, <1>5, <1>6, <1>7 DEF h, t

LEMMA CoordQueue ==
    ASSUME NEW q \in Seq(CoordMsg)
    PROVE  /\ \A m \in CoordMsg : Append(q, m) \in Seq(CoordMsg)
           /\ \A m \in CoordMsg : \A w :
                CoordUpTo(q, w) /\ m.wave <= w /\ (m.kind = "wave_complete" => m.wave < w)
                    => CoordUpTo(Append(q, m), w)
           /\ q # <<>> =>
                /\ Head(q) \in CoordMsg /\ Tail(q) \in Seq(CoordMsg)
                /\ \A w : CoordUpTo(q, w) =>
                    /\ CoordUpTo(Tail(q), w) /\ Head(q).wave <= w
                    /\ Head(q).kind = "wave_complete" => Head(q).wave < w
<1>1. \A m \in CoordMsg : Append(q, m) \in Seq(CoordMsg) /\ ToSet(Append(q, m)) = ToSet(q) \cup {m}
  BY AppendFacts
<1>2. q # <<>> => /\ Head(q) \in CoordMsg /\ Tail(q) \in Seq(CoordMsg)
                  /\ ToSet(q) = {Head(q)} \cup ToSet(Tail(q))
  BY TailFacts
<1>3. ASSUME NEW m \in CoordMsg, NEW w, CoordUpTo(q, w), m.wave <= w,
             m.kind = "wave_complete" => m.wave < w
      PROVE  CoordUpTo(Append(q, m), w)
  BY <1>1, <1>3 DEF CoordUpTo
<1>4. ASSUME q # <<>>, NEW w, CoordUpTo(q, w)
      PROVE  /\ CoordUpTo(Tail(q), w) /\ Head(q).wave <= w
             /\ Head(q).kind = "wave_complete" => Head(q).wave < w
  BY <1>2, <1>4 DEF CoordUpTo
<1> QED  BY <1>1, <1>2, <1>3, <1>4

----------------------------------------------------------------------------
(* A rank that goes from one place of a phase to the next.                 *)

Onward(r) ==
    /\ Free(r) => Free(r)'
    /\ Told(r) => Told(r)' \/ Pending(r)'
    /\ Pending(r) => Pending(r)'
    /\ Stopping(r) => /\ Stopping(r)' /\ running'[r] = running[r]
                      /\ future[r] = "done" => future'[r] = "done"
    /\ Stopped(r) => Stopped(r)' \/ Resuming(r)'
    /\ Resuming(r) => Resuming(r)'

LEMMA OnwardKeeps ==
    ASSUME WTyped, Phases, client'.phase = client.phase, \A r \in Rank : Onward(r)
    PROVE  Phases'
<1>1. ASSUME AllStopping PROVE AllStopping'
  BY <1>1 DEF AllStopping, Onward
<1>2. ASSUME \A r \in Rank : Told(r) \/ Pending(r) PROVE \A r \in Rank : (Told(r) \/ Pending(r))'
  BY <1>2 DEF Onward
<1>3. ASSUME \A r \in Rank : Stopped(r) \/ Resuming(r) PROVE \A r \in Rank : (Stopped(r) \/ Resuming(r))'
  BY <1>3 DEF Onward
<1>4. ASSUME \A r \in Rank : Free(r) PROVE \A r \in Rank : Free(r)'
  BY <1>4 DEF Onward
<1>5. ASSUME AllStopping, \A r \in Rank : future[r] = "done"
      PROVE  \A r \in Rank : future'[r] = "done"
  BY <1>5 DEF AllStopping, Onward
<1> QED  BY <1>1, <1>2, <1>3, <1>4, <1>5 DEF Phases

\* A rank that nothing happens to, but for messages that are no orders.
LEMMA StayOnward ==
    ASSUME NEW r \in Rank, at'[r] = at[r], running'[r] = running[r], pending'[r] = pending[r],
           ignore'[r] = ignore[r], pauseState'[r] = pauseState[r], future'[r] = future[r],
           active'[r] = active[r], waiting'[r] = waiting[r],
           \A k \in {"pause", "resume"} : Has(inq'[r], k) <=> Has(inq[r], k)
    PROVE  Onward(r)
<1>1. Unfinished(r)' = Unfinished(r)  BY DEF Unfinished
<1>2. NoOrder(r)' <=> NoOrder(r)  BY DEF NoOrder
<1>3. Has(inq[r], "resume")' <=> Has(inq[r], "resume")  OBVIOUS
<1>4. Has(inq[r], "pause")' <=> Has(inq[r], "pause")  OBVIOUS
<1> QED
  BY <1>1, <1>2, <1>3, <1>4 DEF Onward, Free, Told, Pending, Stopping, Stopped, Resuming

----------------------------------------------------------------------------
(* The outside: messages on the way.                                       *)

\* The ranks do nothing, and messages that are no orders may come to them.
LEMMA OutsideKeeps ==
    ASSUME WInv, UNCHANGED <<loop, pause, reqs>>,
           client' \in [wave : Nat, running : BOOLEAN, phase : Phase], client'.phase = client.phase,
           coord' \in [wave : Nat, running : BOOLEAN],
           coord'.wave <= wave[First], client'.wave <= wave[First],
           toCoord' \in [Rank \cup {"client"} -> Seq(CoordMsg)],
           \A s \in Rank \cup {"client"} : CoordUpTo(toCoord'[s], wave[First]),
           inq' = [r \in Rank |-> inq'[r]],
           \A r \in Rank : 
             \/ inq'[r] = inq[r]
             \/ \E m \in InMsg : /\ inq'[r] = Append(inq[r], m) /\ m.kind \in {"add", "abort", "start"}
                                 /\ m.kind \in {"add", "start"} => m.wave <= wave[First]
    PROVE  WInv'
<1> USE DEF loop, pause, reqs
<1>1. \A r \in Rank : inq[r] \in Seq(InMsg) /\ OneOrder(inq[r]) /\ InUpTo(inq[r], wave[First])
  BY DEF WInv, WTyped, OrdersAlone, WavesAgree
<1>2. \A r \in Rank : /\ inq'[r] \in Seq(InMsg) /\ OneOrder(inq'[r]) /\ InUpTo(inq'[r], wave[First])
                      /\ \A k \in {"pause", "resume"} : Has(inq'[r], k) <=> Has(inq[r], k)
  <2> TAKE r \in Rank
  <2>1. CASE inq'[r] = inq[r]  BY <1>1, <2>1
  <2>2. CASE inq'[r] # inq[r]
    <3>1. PICK m \in InMsg : /\ inq'[r] = Append(inq[r], m) /\ m.kind \in {"add", "abort", "start"}
                             /\ m.kind \in {"add", "start"} => m.wave <= wave[First]
      BY <2>2
    <3>2. m.kind \notin {"pause", "resume"}  BY <3>1
    <3>3. inq[r] \in Seq(InMsg)  BY <1>1
    <3>4. /\ Append(inq[r], m) \in Seq(InMsg)
          /\ \A k : Has(Append(inq[r], m), k) <=> Has(inq[r], k) \/ m.kind = k
      BY <3>3, AppendIn
    <3>5. InUpTo(Append(inq[r], m), wave[First])  BY <1>1, <3>1, AppendIn
    <3>6. OneOrder(Append(inq[r], m))  BY <1>1, <3>2, AppendIn
    <3> QED  BY <3>1, <3>2, <3>4, <3>5, <3>6
  <2> QED  BY <2>1, <2>2
<1>3. WTyped'
  <2>1. WavesTypeOK'  BY DEF WInv, WTyped, WavesTypeOK, Phase, PauseStates, Cycle
  <2>2. inq' \in [Rank -> Seq(InMsg)]  BY <1>2
  <2> QED  BY <2>1, <2>2 DEF WTyped
<1>4. WavesAgree'  BY <1>2 DEF WInv, WavesAgree
<1>5. \A r \in Rank : Onward(r)  BY <1>2, StayOnward
<1>6. Phases'  BY <1>5, OnwardKeeps DEF WInv
<1>7. Together' /\ OrdersAlone'  BY <1>2 DEF WInv, Together, OrdersAlone
<1> QED  BY <1>3, <1>4, <1>6, <1>7 DEF WInv

LEMMA InvTypes ==
    ASSUME WInv
    PROVE  /\ inq \in [Rank -> Seq(InMsg)] /\ toCoord \in [Rank \cup {"client"} -> Seq(CoordMsg)]
           /\ client \in [wave : Nat, running : BOOLEAN, phase : Phase]
           /\ coord \in [wave : Nat, running : BOOLEAN]
           /\ wave \in [Rank -> Nat] /\ First \in Rank /\ wave[First] \in Nat
           /\ coord.wave <= wave[First] /\ client.wave <= wave[First]
           /\ \A s \in Rank \cup {"client"} : toCoord[s] \in Seq(CoordMsg) /\ CoordUpTo(toCoord[s], wave[First])
BY WavesAssumption DEF WavesAssumption, WInv, WTyped, WavesTypeOK, WavesAgree

LEMMA PublishKeeps == WInv /\ Publish => WInv'
<1> SUFFICES ASSUME WInv, Publish PROVE WInv'  OBVIOUS
<1>1. UNCHANGED <<loop, pause, reqs, inq, toCoord, coord>>  BY DEF Publish
<1>2. /\ client' \in [wave : Nat, running : BOOLEAN, phase : Phase]
      /\ client'.phase = client.phase /\ client'.wave = coord.wave
  BY InvTypes DEF Publish
<1>3. inq' = [r \in Rank |-> inq'[r]]  BY <1>1, InvTypes
<1> QED  BY <1>1, <1>2, <1>3, InvTypes, OutsideKeeps

LEMMA SendRequestKeeps ==
    ASSUME WInv, NEW r \in Rank, SendRequest(r)
    PROVE  WInv'
<1> DEFINE m == [kind |-> "add", wave |-> client.wave]
           n == [kind |-> "first_req", wave |-> client.wave, rank |-> r]
<1>1. UNCHANGED <<loop, pause, reqs, coord>>  BY DEF SendRequest
<1>2. /\ client' \in [wave : Nat, running : BOOLEAN, phase : Phase]
      /\ client'.phase = client.phase /\ client'.wave = client.wave
  BY InvTypes DEF SendRequest
<1>3. m \in InMsg /\ n \in CoordMsg  BY InvTypes DEF InMsg, CoordMsg
<1>4. /\ inq' = [t \in Rank |-> inq'[t]]
      /\ \A t \in Rank : inq'[t] = inq[t] \/ inq'[t] = Append(inq[t], m)
  BY InvTypes DEF SendRequest
<1>5. CASE client.running
  <2>1. toCoord' = toCoord  BY <1>5 DEF SendRequest
  <2> QED  BY <1>1, <1>2, <1>3, <1>4, <2>1, InvTypes, OutsideKeeps
<1>6. CASE ~client.running
  <2>1. toCoord' = [toCoord EXCEPT !["client"] = Append(@, n)]  BY <1>6 DEF SendRequest, Tell
  <2>2. toCoord["client"] \in Seq(CoordMsg) /\ CoordUpTo(toCoord["client"], wave[First])
    BY InvTypes
  <2>3. n.wave <= wave[First] /\ n.kind # "wave_complete"  BY InvTypes
  <2> HIDE DEF n
  <2>4. Append(toCoord["client"], n) \in Seq(CoordMsg) /\ CoordUpTo(Append(toCoord["client"], n), wave[First])
    BY <1>3, <2>2, <2>3, CoordQueue
  <2>5. toCoord' \in [Rank \cup {"client"} -> Seq(CoordMsg)]  BY <2>1, <2>4, InvTypes
  <2>6. \A s \in Rank \cup {"client"} : CoordUpTo(toCoord'[s], wave[First])
    BY <2>1, <2>4, InvTypes
  <2> QED  BY <1>1, <1>2, <1>3, <1>4, <2>5, <2>6, InvTypes, OutsideKeeps
<1> QED  BY <1>5, <1>6

LEMMA SendAbortKeeps ==
    ASSUME WInv, NEW r \in Rank, SendAbort(r)
    PROVE  WInv'
<1> DEFINE m == [kind |-> "abort"]
<1>1. UNCHANGED <<loop, pause, reqs, toCoord, coord, client>>  BY DEF SendAbort
<1>2. m \in InMsg  BY DEF InMsg
<1>3. /\ inq' = [t \in Rank |-> inq'[t]]
      /\ \A t \in Rank : inq'[t] = inq[t] \/ inq'[t] = Append(inq[t], m)
  BY InvTypes DEF SendAbort
<1> QED  BY <1>1, <1>2, <1>3, InvTypes, OutsideKeeps

LEMMA BroadcastSends ==
    ASSUME WInv, NEW w \in Nat, w <= wave[First], NEW exclude \in Rank \cup {"client", Nobody},
           Broadcast(w, exclude)
    PROVE  /\ inq' = [r \in Rank |-> inq'[r]]
           /\ \A r \in Rank : \E m \in InMsg :
                /\ inq'[r] = Append(inq[r], m) /\ m.kind \in {"add", "abort", "start"}
                /\ m.kind \in {"add", "start"} => m.wave <= wave[First]
<1> DEFINE m == [kind |-> "start", wave |-> w, exclude |-> exclude]
<1>1. m \in InMsg /\ m.kind = "start" /\ m.wave <= wave[First]  BY DEF InMsg
<1>2. inq' = [r \in Rank |-> Append(inq[r], m)]  BY DEF Broadcast
<1> QED  BY <1>1, <1>2

LEMMA CoordinateKeeps ==
    ASSUME WInv, NEW s \in Rank \cup {"client"}, Coordinate(s)
    PROVE  WInv'
<1> DEFINE m == Head(toCoord[s])
           W == [wave : Nat, running : BOOLEAN]
           Said == \A r \in Rank :
             \/ inq'[r] = inq[r]
             \/ \E n \in InMsg : /\ inq'[r] = Append(inq[r], n) /\ n.kind \in {"add", "abort", "start"}
                                 /\ n.kind \in {"add", "start"} => n.wave <= wave[First]
<1>1. UNCHANGED <<loop, pause, reqs, client>> /\ toCoord[s] # <<>>
      /\ toCoord' = [toCoord EXCEPT ![s] = Tail(@)]
  BY DEF Coordinate
<1>2. toCoord[s] \in Seq(CoordMsg) /\ CoordUpTo(toCoord[s], wave[First])
  BY InvTypes
<1>3. /\ m \in CoordMsg /\ Tail(toCoord[s]) \in Seq(CoordMsg)
      /\ CoordUpTo(Tail(toCoord[s]), wave[First]) /\ m.wave <= wave[First]
      /\ m.kind = "wave_complete" => m.wave < wave[First]
  BY <1>1, <1>2, CoordQueue
<1>4. /\ toCoord' \in [Rank \cup {"client"} -> Seq(CoordMsg)]
      /\ \A t \in Rank \cup {"client"} : CoordUpTo(toCoord'[t], wave[First])
  BY <1>1, <1>3, InvTypes
<1>5. m.wave \in Nat /\ (m.kind = "first_req" => m.rank \in Rank)  BY <1>3 DEF CoordMsg
<1>6. coord' \in W /\ coord'.wave <= wave[First] /\ inq' = [r \in Rank |-> inq'[r]] /\ Said
  <2>1. CASE /\ m.kind = "first_req" /\ coord' = [coord EXCEPT !.running = TRUE]
             /\ Broadcast(coord.wave, IF m.wave < coord.wave THEN Nobody ELSE m.rank)
    <3>1. coord' \in W /\ coord'.wave <= wave[First]  BY <2>1, InvTypes
    <3>2. coord.wave \in Nat /\ coord.wave <= wave[First]  BY InvTypes
    <3>3. (IF m.wave < coord.wave THEN Nobody ELSE m.rank) \in Rank \cup {"client", Nobody}
      BY <1>5, <2>1
    <3>4. inq' = [r \in Rank |-> inq'[r]] /\ Said  BY <2>1, <3>2, <3>3, BroadcastSends
    <3> QED  BY <3>1, <3>4
  <2>2. CASE coord' = [wave |-> m.wave, running |-> TRUE] /\ Broadcast(m.wave, s)
    <3>1. coord' \in W /\ coord'.wave <= wave[First]  BY <1>3, <1>5, <2>2
    <3>2. inq' = [r \in Rank |-> inq'[r]] /\ Said  BY <1>3, <1>5, <2>2, BroadcastSends
    <3> QED  BY <3>1, <3>2
  <2>3. CASE /\ m.kind = "wave_complete" /\ UNCHANGED inq
             /\ coord' = [wave |-> m.wave + 1, running |-> FALSE]
    <3>1. coord' \in W /\ coord'.wave <= wave[First]  BY <1>3, <1>5, <2>3, InvTypes
    <3>2. inq' = [r \in Rank |-> inq'[r]] /\ Said  BY <2>3, InvTypes
    <3> QED  BY <3>1, <3>2
  <2>4. CASE UNCHANGED <<coord, inq>>  BY <2>4, InvTypes
  <2> QED  BY <2>1, <2>2, <2>3, <2>4 DEF Coordinate
<1>7. /\ client' \in [wave : Nat, running : BOOLEAN, phase : Phase]
      /\ client'.phase = client.phase /\ client'.wave <= wave[First]
  BY <1>1, InvTypes
<1> QED  BY <1>1, <1>4, <1>6, <1>7, OutsideKeeps

----------------------------------------------------------------------------
(* A rank handles a message, goes idle or starts a step.                   *)

\* What the messages of one rank may change.
LEMMA RankKeeps ==
    ASSUME WInv, NEW r \in Rank, wave' = wave, counter' = counter,
           UNCHANGED <<coord, client>>, WavesTypeOK',
           inq' \in [Rank -> Seq(InMsg)], toCoord' \in [Rank \cup {"client"} -> Seq(CoordMsg)],
           \A s \in Rank \cup {"client"} : CoordUpTo(toCoord'[s], wave[First]),
           InUpTo(inq'[r], wave[First]), OneOrder(inq'[r]), Onward(r),
           at[r] = "top", at'[r] # "sync",
           \A t \in Rank \ {r} :
              /\ at'[t] = at[t] /\ running'[t] = running[t] /\ pending'[t] = pending[t]
              /\ ignore'[t] = ignore[t] /\ pauseState'[t] = pauseState[t] /\ future'[t] = future[t]
              /\ active'[t] = active[t] /\ waiting'[t] = waiting[t] /\ inq'[t] = inq[t]
    PROVE  WInv'
<1>1. WTyped'  BY DEF WInv, WTyped
<1>2. WavesAgree'  BY DEF WInv, WavesAgree
<1>3. \A t \in Rank : Onward(t)
  <2> TAKE t \in Rank
  <2>1. CASE t = r  BY <2>1
  <2>2. CASE t # r
    <3>1. \A k \in {"pause", "resume"} : Has(inq'[t], k) <=> Has(inq[t], k)  BY <2>2
    <3> QED  BY <2>2, <3>1, StayOnward
  <2> QED  BY <2>1, <2>2
<1>4. Phases'  BY <1>3, OnwardKeeps DEF WInv
<1>5. Together'
  <2>1. \A t \in Rank : at[t] # "sync"  BY DEF WInv, Together
  <2>2. \A t \in Rank : at'[t] # "sync"  BY <2>1
  <2> QED  BY <2>2 DEF Together
<1>6. OrdersAlone'  BY DEF WInv, OrdersAlone
<1> QED  BY <1>1, <1>2, <1>4, <1>5, <1>6 DEF WInv

LEMMA TakeMessage ==
    ASSUME WInv, NEW r \in Rank, at[r] = "top", inq[r] # <<>>, inq' = [inq EXCEPT ![r] = Tail(@)]
    PROVE  /\ inq' \in [Rank -> Seq(InMsg)] /\ InUpTo(inq'[r], wave[First]) /\ OneOrder(inq'[r])
           /\ Head(inq[r]) \in InMsg
           /\ Head(inq[r]).kind \in {"add", "start"} =>
                Head(inq[r]).wave \in Nat /\ Head(inq[r]).wave <= wave[r]
           /\ Head(inq[r]).kind = "pause" => Head(inq[r]).mode \in Modes
           /\ \A k : Has(inq[r], k) <=> Has(inq'[r], k) \/ Head(inq[r]).kind = k
           /\ Head(inq[r]).kind \in {"pause", "resume"} =>
                ~Has(inq'[r], "pause") /\ ~Has(inq'[r], "resume")
<1>1. /\ inq[r] \in Seq(InMsg) /\ OneOrder(inq[r]) /\ InUpTo(inq[r], wave[First])
      /\ wave[r] = wave[First] /\ inq \in [Rank -> Seq(InMsg)]
  BY DEF WInv, WTyped, OrdersAlone, WavesAgree
<1> DEFINE h == Head(inq[r])
           t == Tail(inq[r])
<1>2. /\ h \in InMsg /\ t \in Seq(InMsg)
      /\ \A k : Has(inq[r], k) <=> Has(t, k) \/ h.kind = k
      /\ InUpTo(t, wave[First]) /\ (h.kind \in {"add", "start"} => h.wave <= wave[First])
      /\ OneOrder(t)
      /\ h.kind \in {"pause", "resume"} => ~Has(t, "pause") /\ ~Has(t, "resume")
  BY <1>1, TailIn
<1>3. inq' \in [Rank -> Seq(InMsg)] /\ inq'[r] = t  BY <1>1, <1>2
<1>4. /\ h.kind \in {"add", "start"} => h.wave \in Nat
      /\ h.kind = "pause" => h.mode \in Modes
  BY <1>2 DEF InMsg
<1> QED  BY <1>1, <1>2, <1>3, <1>4

\* The types of what a rank reads.
LEMMA RankTypes ==
    ASSUME WInv, NEW r \in Rank
    PROVE  /\ waiting[r] \in Nat /\ active[r] \in Nat /\ wave[r] \in Nat /\ wave[r] = wave[First]
           /\ running[r] \in BOOLEAN /\ pending[r] \in BOOLEAN /\ ignore[r] \in BOOLEAN
           /\ pauseState[r] \in PauseStates /\ future[r] \in {"none", "pending", "done"}
           /\ at[r] \in {"top", "forward", "sync", "resume"} /\ finished[r] \in BOOLEAN
BY DEF WInv, WTyped, WavesTypeOK, WavesAgree

LEMMA HandleAddKeeps ==
    ASSUME WInv, NEW r \in Rank, at[r] = "top", inq[r] # <<>>, inq' = [inq EXCEPT ![r] = Tail(@)],
           Head(inq[r]).kind = "add", AddRequest(r, Head(inq[r]).wave)
    PROVE  WInv'
<1> DEFINE w == Head(inq[r]).wave
           m == [kind |-> "start_wave", wave |-> wave[r]]
<1>1. w \in Nat /\ w <= wave[r]  BY TakeMessage
<1> HIDE DEF w
<1>2. /\ waiting' = [waiting EXCEPT ![r] = @ + 1]
      /\ UNCHANGED <<at, counter, pause, active, finished, coord, client>>
  BY DEF AddRequest
<1>3. wave' = wave
  <2>1. wave' = [wave EXCEPT ![r] = IF w > @ THEN w ELSE @]  BY DEF AddRequest, w
  <2>2. wave \in [Rank -> Nat] /\ ~(w > wave[r])  BY <1>1, InvTypes
  <2> QED  BY <2>1, <2>2
<1>4. /\ running' \in [Rank -> BOOLEAN] /\ \A t \in Rank \ {r} : running'[t] = running[t]
      /\ running[r] => running'[r]
      /\ pauseState[r] # "unpaused" => running'[r] = running[r]
  BY DEF AddRequest, WInv, WTyped, WavesTypeOK
<1>5. /\ toCoord' \in [Rank \cup {"client"} -> Seq(CoordMsg)]
      /\ \A s \in Rank \cup {"client"} : CoordUpTo(toCoord'[s], wave[First])
  <2>1. CASE toCoord' = toCoord  BY <2>1, InvTypes
  <2>2. CASE toCoord' = [toCoord EXCEPT ![r] = Append(@, m)]
    <3>1. m \in CoordMsg /\ m.kind # "wave_complete" /\ m.wave = wave[First]
      BY RankTypes DEF CoordMsg
    <3>2. toCoord[r] \in Seq(CoordMsg) /\ CoordUpTo(toCoord[r], wave[First]) /\ wave[First] \in Nat
      BY InvTypes
    <3> HIDE DEF m
    <3>3. m.wave <= wave[First]  BY <3>1, <3>2
    <3>4. Append(toCoord[r], m) \in Seq(CoordMsg) /\ CoordUpTo(Append(toCoord[r], m), wave[First])
      BY <3>1, <3>2, <3>3, CoordQueue
    <3> QED  BY <2>2, <3>4, InvTypes
  <2> QED  BY <2>1, <2>2 DEF AddRequest, Tell
<1>6. WavesTypeOK'
  <2>1. WavesTypeOK  BY DEF WInv, WTyped
  <2>2. waiting' \in [Rank -> Nat]  BY <1>2, <2>1 DEF WavesTypeOK
  <2> QED  BY <1>2, <1>3, <1>4, <2>1, <2>2 DEF WavesTypeOK, pause
<1>7. \A k \in {"pause", "resume"} : Has(inq'[r], k) <=> Has(inq[r], k)  BY TakeMessage
<1>8. Onward(r)
  <2>1. /\ at'[r] = at[r] /\ pending'[r] = pending[r] /\ ignore'[r] = ignore[r]
        /\ pauseState'[r] = pauseState[r] /\ future'[r] = future[r] /\ active'[r] = active[r]
    BY <1>2 DEF pause
  <2>2. pauseState[r] # "unpaused" => Unfinished(r)' = Unfinished(r)
    BY <2>1, RankTypes DEF Unfinished, PauseStates
  <2>3. NoOrder(r)' <=> NoOrder(r)  BY <1>7 DEF NoOrder
  <2>4. Has(inq[r], "resume")' <=> Has(inq[r], "resume")  BY <1>7
  <2>5. Has(inq[r], "pause")' <=> Has(inq[r], "pause")  BY <1>7
  <2> QED  BY <1>4, <2>1, <2>2, <2>3, <2>4, <2>5
           DEF Onward, Free, Told, Pending, Stopping, Stopped, Resuming
<1>9. \A t \in Rank \ {r} :
        /\ at'[t] = at[t] /\ running'[t] = running[t] /\ pending'[t] = pending[t]
        /\ ignore'[t] = ignore[t] /\ pauseState'[t] = pauseState[t] /\ future'[t] = future[t]
        /\ active'[t] = active[t] /\ waiting'[t] = waiting[t] /\ inq'[t] = inq[t]
  BY <1>2, <1>4, InvTypes DEF pause, WInv, WTyped, WavesTypeOK
<1>10. at'[r] # "sync"  BY <1>2
<1> QED  BY <1>2, <1>3, <1>5, <1>6, <1>8, <1>9, <1>10, TakeMessage, RankKeeps

LEMMA HandleAbortKeeps ==
    ASSUME WInv, NEW r \in Rank, at[r] = "top", inq[r] # <<>>, inq' = [inq EXCEPT ![r] = Tail(@)],
           Head(inq[r]).kind = "abort", AbortRequest(r)
    PROVE  WInv'
<1>1. UNCHANGED <<loop, pause, outside>> /\ WavesTypeOK
  BY DEF AbortRequest, WInv, WTyped
<1>2. /\ waiting' \in [Rank -> Nat] /\ active' \in [Rank -> Nat]
      /\ active'[r] <= active[r]
      /\ \A t \in Rank \ {r} : waiting'[t] = waiting[t] /\ active'[t] = active[t]
  <2>1. waiting \in [Rank -> Nat] /\ active \in [Rank -> Nat]  BY <1>1 DEF WavesTypeOK
  <2>2. waiting[r] \in Nat /\ active[r] \in Nat  BY <2>1
  <2>3. CASE waiting[r] > 0 /\ waiting' = [waiting EXCEPT ![r] = @ - 1] /\ UNCHANGED active
    <3>1. waiting[r] - 1 \in Nat  BY <2>2, <2>3
    <3> QED  BY <2>1, <2>2, <2>3, <3>1
  <2>4. CASE active[r] > 0 /\ active' = [active EXCEPT ![r] = @ - 1] /\ UNCHANGED waiting
    <3>1. active[r] - 1 \in Nat  BY <2>2, <2>4
    <3> QED  BY <2>1, <2>2, <2>4, <3>1
  <2>5. CASE UNCHANGED <<waiting, active>>  BY <2>1, <2>2, <2>5
  <2> QED  BY <2>3, <2>4, <2>5 DEF AbortRequest
<1>3. finished' \in [Rank -> BOOLEAN]  BY <1>1 DEF AbortRequest, WavesTypeOK
<1>4. WavesTypeOK'  BY <1>1, <1>2, <1>3 DEF WavesTypeOK, loop, pause, outside
<1>5. \A k \in {"pause", "resume"} : Has(inq'[r], k) <=> Has(inq[r], k)  BY TakeMessage
<1>6. Onward(r)
  <2>1. /\ at'[r] = at[r] /\ pending'[r] = pending[r] /\ ignore'[r] = ignore[r] /\ running'[r] = running[r]
        /\ pauseState'[r] = pauseState[r] /\ future'[r] = future[r]
    BY <1>1 DEF loop, pause
  <2>2. pauseState[r] # "unpaused" /\ Unfinished(r) = 0 => Unfinished(r)' = 0
    <3>1. active'[r] \in Nat /\ active[r] \in Nat /\ active'[r] <= active[r]  BY <1>2, RankTypes
    <3>2. pauseState[r] \in PauseStates /\ pauseState'[r] = pauseState[r]  BY <2>1, RankTypes
    <3> QED  BY <3>1, <3>2 DEF Unfinished, PauseStates
  <2>3. NoOrder(r)' <=> NoOrder(r)  BY <1>5 DEF NoOrder
  <2>4. Has(inq[r], "resume")' <=> Has(inq[r], "resume")  BY <1>5
  <2>5. Has(inq[r], "pause")' <=> Has(inq[r], "pause")  BY <1>5
  <2> QED  BY <2>1, <2>2, <2>3, <2>4, <2>5
           DEF Onward, Free, Told, Pending, Stopping, Stopped, Resuming
<1>7. \A t \in Rank \ {r} :
        /\ at'[t] = at[t] /\ running'[t] = running[t] /\ pending'[t] = pending[t]
        /\ ignore'[t] = ignore[t] /\ pauseState'[t] = pauseState[t] /\ future'[t] = future[t]
        /\ active'[t] = active[t] /\ waiting'[t] = waiting[t] /\ inq'[t] = inq[t]
  BY <1>1, <1>2, InvTypes DEF loop, pause
<1>8. /\ wave' = wave /\ counter' = counter /\ toCoord' = toCoord /\ UNCHANGED <<coord, client>>
      /\ at'[r] # "sync"
  BY <1>1 DEF loop, outside
<1> QED  BY <1>4, <1>6, <1>7, <1>8, InvTypes, TakeMessage, RankKeeps

LEMMA HandleStartKeeps ==
    ASSUME WInv, NEW r \in Rank, at[r] = "top", inq[r] # <<>>, inq' = [inq EXCEPT ![r] = Tail(@)],
           Head(inq[r]).kind = "start", StartWave(r, Head(inq[r]).wave, Head(inq[r]).exclude)
    PROVE  WInv'
<1> DEFINE w == Head(inq[r]).wave
<1>1. UNCHANGED <<at, counter, pause, reqs, outside>> /\ WavesTypeOK /\ w \in Nat /\ w <= wave[r]
  BY TakeMessage DEF StartWave, WInv, WTyped
<1>2. wave' = wave
  <2>1. w >= wave[r] => w = wave[r]  BY <1>1, RankTypes
  <2>2. wave \in [Rank -> Nat]  BY InvTypes
  <2> QED  BY <2>1, <2>2 DEF StartWave
<1>3. /\ running' \in [Rank -> BOOLEAN] /\ \A t \in Rank \ {r} : running'[t] = running[t]
      /\ running[r] => running'[r]
      /\ ignore[r] => running'[r] = running[r]
  BY <1>1 DEF StartWave, WavesTypeOK
<1>4. WavesTypeOK'  BY <1>1, <1>2, <1>3 DEF WavesTypeOK, pause, reqs, outside
<1>5. \A k \in {"pause", "resume"} : Has(inq'[r], k) <=> Has(inq[r], k)  BY TakeMessage
<1>6. Onward(r)
  <2>1. /\ at'[r] = at[r] /\ pending'[r] = pending[r] /\ ignore'[r] = ignore[r]
        /\ pauseState'[r] = pauseState[r] /\ future'[r] = future[r]
    BY <1>1 DEF pause
  <2>2. Unfinished(r)' = Unfinished(r)  BY <1>1 DEF Unfinished, pause, reqs
  <2>3. NoOrder(r)' <=> NoOrder(r)  BY <1>5 DEF NoOrder
  <2>4. Has(inq[r], "resume")' <=> Has(inq[r], "resume")  BY <1>5
  <2>5. Has(inq[r], "pause")' <=> Has(inq[r], "pause")  BY <1>5
  <2> QED  BY <1>3, <2>1, <2>2, <2>3, <2>4, <2>5
           DEF Onward, Free, Told, Pending, Stopping, Stopped, Resuming
<1>7. \A t \in Rank \ {r} :
        /\ at'[t] = at[t] /\ running'[t] = running[t] /\ pending'[t] = pending[t]
        /\ ignore'[t] = ignore[t] /\ pauseState'[t] = pauseState[t] /\ future'[t] = future[t]
        /\ active'[t] = active[t] /\ waiting'[t] = waiting[t] /\ inq'[t] = inq[t]
  BY <1>1, <1>3, InvTypes DEF reqs, pause
<1>8. counter' = counter /\ toCoord' = toCoord /\ UNCHANGED <<coord, client>> /\ at'[r] # "sync"
  BY <1>1 DEF outside
<1> QED  BY <1>2, <1>4, <1>6, <1>7, <1>8, InvTypes, TakeMessage, RankKeeps

LEMMA HandlePauseKeeps ==
    ASSUME WInv, NEW r \in Rank, at[r] = "top", inq[r] # <<>>, inq' = [inq EXCEPT ![r] = Tail(@)],
           Head(inq[r]).kind = "pause", PauseScheduler(r, Head(inq[r]).mode)
    PROVE  WInv'
<1>1. UNCHANGED <<at, wave, counter, ignore, outside>> /\ WavesTypeOK
  BY DEF PauseScheduler, WInv, WTyped
<1>2. /\ waiting' \in [Rank -> Nat] /\ active' \in [Rank -> Nat] /\ finished' \in [Rank -> BOOLEAN]
      /\ \A t \in Rank \ {r} : waiting'[t] = waiting[t] /\ active'[t] = active[t]
  <2>1. CASE UNCHANGED reqs  BY <1>1, <2>1 DEF WavesTypeOK, reqs
  <2>2. CASE /\ waiting' = [waiting EXCEPT ![r] = 0] /\ active' = [active EXCEPT ![r] = 0]
             /\ finished' = [finished EXCEPT ![r] = @ \/ waiting[r] + active[r] > 0]
    <3>1. waiting \in [Rank -> Nat] /\ active \in [Rank -> Nat] /\ finished \in [Rank -> BOOLEAN]
      BY <1>1 DEF WavesTypeOK
    <3>2. (finished[r] \/ waiting[r] + active[r] > 0) \in BOOLEAN  BY <3>1
    <3>3. finished' \in [Rank -> BOOLEAN]  BY <2>2, <3>1, <3>2
    <3> QED  BY <2>2, <3>1, <3>3
  <2> QED  BY <2>1, <2>2 DEF PauseScheduler
<1>3. /\ pauseState' \in [Rank -> PauseStates] /\ pending' \in [Rank -> BOOLEAN]
      /\ running' \in [Rank -> BOOLEAN] /\ future' \in [Rank -> {"none", "pending", "done"}]
      /\ pauseState'[r] # "unpaused" /\ pending'[r] /\ running'[r] /\ future'[r] = "pending"
  BY <1>1 DEF PauseScheduler, WavesTypeOK, PauseStates
<1>4. WavesTypeOK'  BY <1>1, <1>2, <1>3 DEF WavesTypeOK, outside
<1>5. Has(inq[r], "pause") /\ ~Has(inq'[r], "pause") /\ ~Has(inq'[r], "resume")  BY TakeMessage
<1>6. Onward(r)
  <2>1. NoOrder(r)'  BY <1>5 DEF NoOrder
  <2>2. ~Free(r) /\ ~Pending(r) /\ ~Stopping(r) /\ ~Stopped(r) /\ ~Resuming(r)
    BY <1>5 DEF Free, Pending, Stopping, Stopped, Resuming, NoOrder
  <2>3. Told(r) => Pending(r)'  BY <1>1, <1>3, <2>1 DEF Told, Pending
  <2> QED  BY <2>2, <2>3 DEF Onward
<1>7. \A t \in Rank \ {r} :
        /\ at'[t] = at[t] /\ running'[t] = running[t] /\ pending'[t] = pending[t]
        /\ ignore'[t] = ignore[t] /\ pauseState'[t] = pauseState[t] /\ future'[t] = future[t]
        /\ active'[t] = active[t] /\ waiting'[t] = waiting[t] /\ inq'[t] = inq[t]
  <2>1. \A t \in Rank \ {r} :
        /\ at'[t] = at[t] /\ running'[t] = running[t] /\ pending'[t] = pending[t]
        /\ pauseState'[t] = pauseState[t] /\ future'[t] = future[t]
    BY <1>1 DEF PauseScheduler, WavesTypeOK
  <2> QED  BY <1>1, <1>2, <2>1, InvTypes
<1>8. toCoord' = toCoord /\ UNCHANGED <<coord, client>> /\ at'[r] # "sync"
  BY <1>1 DEF outside
<1> QED  BY <1>1, <1>4, <1>6, <1>7, <1>8, InvTypes, TakeMessage, RankKeeps

LEMMA HandleResumeKeeps ==
    ASSUME WInv, NEW r \in Rank, at[r] = "top", inq[r] # <<>>, inq' = [inq EXCEPT ![r] = Tail(@)],
           Head(inq[r]).kind = "resume", ResumeScheduler(r)
    PROVE  WInv'
<1>1. UNCHANGED <<running, wave, counter, pending, future, reqs, outside>> /\ WavesTypeOK
  BY DEF ResumeScheduler, WInv, WTyped
<1>2. /\ pauseState' \in [Rank -> PauseStates] /\ ignore' \in [Rank -> BOOLEAN]
      /\ at' \in [Rank -> {"top", "forward", "sync", "resume"}]
      /\ at'[r] # "sync"
      /\ ~pending[r] /\ ~running[r] =>
            pauseState'[r] = "unpaused" /\ ~ignore'[r] /\ at'[r] = "resume"
  BY <1>1 DEF ResumeScheduler, WavesTypeOK, PauseStates
<1>3. WavesTypeOK'  BY <1>1, <1>2 DEF WavesTypeOK, reqs, outside
<1>4. Has(inq[r], "resume") /\ ~Has(inq'[r], "pause") /\ ~Has(inq'[r], "resume")  BY TakeMessage
<1>5. Onward(r)
  <2>1. NoOrder(r)'  BY <1>4 DEF NoOrder
  <2>2. ~Free(r) /\ ~Told(r) /\ ~Pending(r) /\ ~Stopping(r) /\ ~Resuming(r)
    BY <1>4 DEF Free, Told, Pending, Stopping, Resuming, NoOrder
  <2>3. Stopped(r) => Resuming(r)'  BY <1>1, <1>2, <2>1 DEF Stopped, Resuming
  <2> QED  BY <2>2, <2>3 DEF Onward
<1>6. \A t \in Rank \ {r} :
        /\ at'[t] = at[t] /\ running'[t] = running[t] /\ pending'[t] = pending[t]
        /\ ignore'[t] = ignore[t] /\ pauseState'[t] = pauseState[t] /\ future'[t] = future[t]
        /\ active'[t] = active[t] /\ waiting'[t] = waiting[t] /\ inq'[t] = inq[t]
  <2>1. \A t \in Rank \ {r} :
          at'[t] = at[t] /\ ignore'[t] = ignore[t] /\ pauseState'[t] = pauseState[t]
    BY <1>1 DEF ResumeScheduler, WavesTypeOK
  <2> QED  BY <1>1, <2>1, InvTypes DEF reqs
<1>7. toCoord' = toCoord /\ UNCHANGED <<coord, client>>  BY <1>1 DEF outside
<1> QED  BY <1>1, <1>2, <1>3, <1>5, <1>6, <1>7, InvTypes, TakeMessage, RankKeeps

LEMMA HandleKeeps ==
    ASSUME WInv, NEW r \in Rank, Handle(r)
    PROVE  WInv'
BY HandleAddKeeps, HandleAbortKeeps, HandleStartKeeps, HandlePauseKeeps, HandleResumeKeeps DEF Handle

LEMMA NotifyIdleKeeps ==
    ASSUME WInv, NEW r \in Rank, NotifyIdle(r)
    PROVE  WInv'
<1>1. /\ UNCHANGED <<loop, pending, ignore, pauseState, reqs, inq, outside>> /\ WavesTypeOK
      /\ at[r] = "top" /\ ~running[r] /\ future[r] = "pending"
      /\ future' = [future EXCEPT ![r] = "done"]
  BY DEF NotifyIdle, HasWork, WInv, WTyped
<1>2. WavesTypeOK'  BY <1>1 DEF WavesTypeOK, loop, reqs, outside
<1>3. InUpTo(inq'[r], wave[First]) /\ OneOrder(inq'[r])
  BY <1>1 DEF WInv, WavesAgree, OrdersAlone
<1>4. Onward(r)
  <2>1. ~Free(r) /\ ~Told(r) /\ ~Pending(r) /\ ~Stopped(r) /\ ~Resuming(r)
    BY <1>1 DEF Free, Told, Pending, Stopped, Resuming
  <2>2. Unfinished(r)' = Unfinished(r) /\ (NoOrder(r)' <=> NoOrder(r))
    BY <1>1 DEF Unfinished, reqs, NoOrder
  <2>3. future'[r] = "done"  BY <1>1 DEF WavesTypeOK
  <2>4. Stopping(r) => Stopping(r)'  BY <1>1, <2>2, <2>3 DEF Stopping, loop
  <2> QED  BY <1>1, <2>1, <2>3, <2>4 DEF Onward, loop
<1>5. \A t \in Rank \ {r} :
        /\ at'[t] = at[t] /\ running'[t] = running[t] /\ pending'[t] = pending[t]
        /\ ignore'[t] = ignore[t] /\ pauseState'[t] = pauseState[t] /\ future'[t] = future[t]
        /\ active'[t] = active[t] /\ waiting'[t] = waiting[t] /\ inq'[t] = inq[t]
  BY <1>1 DEF WavesTypeOK, loop, reqs
<1>6. /\ wave' = wave /\ counter' = counter /\ toCoord' = toCoord /\ UNCHANGED <<coord, client>>
      /\ at'[r] # "sync" /\ inq' = inq
  BY <1>1 DEF loop, outside
<1> QED  BY <1>1, <1>2, <1>3, <1>4, <1>5, <1>6, InvTypes, RankKeeps

LEMMA StepKeeps ==
    ASSUME WInv, NEW r \in Rank, Step(r)
    PROVE  WInv'
<1>1. /\ UNCHANGED <<running, wave, counter, pause, waiting, active, inq, outside>> /\ WavesTypeOK
      /\ at[r] = "top"
  BY DEF Step, WInv, WTyped
<1>2. /\ at' \in [Rank -> {"top", "forward", "sync", "resume"}] /\ finished' \in [Rank -> BOOLEAN]
      /\ at'[r] \in {"top", "forward"}
      /\ at'[r] = "top" \/ running[r] \/ Unfinished(r) > 0
      /\ \A t \in Rank \ {r} : at'[t] = at[t]
  BY <1>1 DEF Step, WavesTypeOK
<1>3. WavesTypeOK'  BY <1>1, <1>2 DEF WavesTypeOK, pause, outside
<1>4. InUpTo(inq'[r], wave[First]) /\ OneOrder(inq'[r])
  BY <1>1 DEF WInv, WavesAgree, OrdersAlone
<1>5. Onward(r)
  <2>1. Unfinished(r)' = Unfinished(r) /\ (NoOrder(r)' <=> NoOrder(r))
    BY <1>1 DEF Unfinished, NoOrder, pause
  <2>2. /\ Has(inq[r], "resume")' <=> Has(inq[r], "resume")
        /\ Has(inq[r], "pause")' <=> Has(inq[r], "pause")
    BY <1>1
  <2>3. Unfinished(r) = 0 /\ ~running[r] => at'[r] = "top"  BY <1>2
  <2> QED  BY <1>1, <1>2, <2>1, <2>2, <2>3
           DEF Onward, Free, Told, Pending, Stopping, Stopped, Resuming, pause
<1>6. \A t \in Rank \ {r} :
        /\ at'[t] = at[t] /\ running'[t] = running[t] /\ pending'[t] = pending[t]
        /\ ignore'[t] = ignore[t] /\ pauseState'[t] = pauseState[t] /\ future'[t] = future[t]
        /\ active'[t] = active[t] /\ waiting'[t] = waiting[t] /\ inq'[t] = inq[t]
  BY <1>1, <1>2 DEF pause
<1>7. /\ wave' = wave /\ counter' = counter /\ toCoord' = toCoord /\ UNCHANGED <<coord, client>>
      /\ at'[r] # "sync" /\ inq' = inq
  BY <1>1, <1>2 DEF outside
<1> QED  BY <1>1, <1>3, <1>4, <1>5, <1>6, <1>7, InvTypes, RankKeeps

----------------------------------------------------------------------------
(* The collectives.                                                        *)

LEMMA CounterRange ==
    ASSUME NEW c \in Nat
    PROVE  (c + 1) % Cycle \in 0..(Cycle - 1) /\ 0 \in 0..(Cycle - 1) /\ Cycle \in Nat \ {0}
<1>1. Cycle \in Nat \ {0}
  <2>1. SyncEvery >= 1 /\ Interval >= 1 /\ SyncEvery \in Nat /\ Interval \in Nat
    BY WavesAssumption DEF WavesAssumption
  <2>2. SyncEvery * Interval >= 1 /\ SyncEvery * Interval \in Nat  BY <2>1
  <2> QED  BY <2>2 DEF Cycle
<1> QED  BY <1>1

LEMMA ForwardKeeps ==
    ASSUME WInv, NEW ends \in SUBSET Rank, Forward(ends)
    PROVE  WInv'
<1> USE DEF All
<1>1. /\ UNCHANGED <<wave, pause, inq, outside>> /\ WavesTypeOK
      /\ \A r \in Rank : at[r] = "forward"
  BY DEF Forward, WInv, WTyped
<1>2. First \in Rank  BY InvTypes
<1>3. \A r \in Rank : NextCounter(r) = NextCounter(First)
  BY <1>2 DEF NextCounter, WInv, WavesAgree
<1>4. \A r \in Rank : NextCounter(r) \in 0..(Cycle - 1)
  <2> TAKE r \in Rank
  <2>1. counter[r] \in Nat  BY <1>1, CounterRange DEF WavesTypeOK
  <2> QED  BY <2>1, CounterRange DEF NextCounter
<1>5. /\ counter' = [r \in Rank |-> NextCounter(r)]
      /\ running' = [r \in Rank |-> running[r] \/ NextCounter(r) % SyncEvery # 0]
      /\ at' = [r \in Rank |-> IF NextCounter(r) % SyncEvery = 0 THEN "sync" ELSE "top"]
  BY DEF Forward
<1>6. /\ waiting' \in [Rank -> Nat] /\ active' \in [Rank -> Nat] /\ finished' \in [Rank -> BOOLEAN]
  BY <1>1 DEF Forward, WavesTypeOK
<1>7. /\ counter' \in [Rank -> 0..(Cycle - 1)] /\ running' \in [Rank -> BOOLEAN]
      /\ at' \in [Rank -> {"top", "forward", "sync", "resume"}]
  BY <1>4, <1>5
<1>8. WTyped'
  <2>1. WavesTypeOK'  BY <1>1, <1>6, <1>7 DEF WavesTypeOK, pause, outside
  <2> QED  BY <1>1, <2>1 DEF WInv, WTyped, outside
<1>9. WavesAgree'
  <2>1. \A r \in Rank : counter'[r] = counter'[First]  BY <1>2, <1>3, <1>5
  <2> QED  BY <1>1, <2>1 DEF WInv, WavesAgree, outside
<1>10. \A r \in Rank : Onward(r)
  <2> TAKE r \in Rank
  <2>1. at'[r] \in {"top", "sync"} /\ (running[r] => running'[r])  BY <1>5
  <2>2. NoOrder(r)' <=> NoOrder(r)  BY <1>1 DEF NoOrder
  <2>3. Has(inq[r], "resume")' <=> Has(inq[r], "resume")  BY <1>1
  <2>4. ~Stopped(r) /\ ~Resuming(r)  BY <1>1 DEF Stopped, Resuming
  <2>5. Stopping(r) => running[r] /\ future[r] # "done"  BY <1>1 DEF Stopping
  <2>6. running[r] \in BOOLEAN /\ running'[r] \in BOOLEAN  BY <1>7, RankTypes
  <2> QED  BY <1>1, <2>1, <2>2, <2>3, <2>4, <2>5, <2>6
           DEF Onward, Free, Told, Pending, Stopping, pause
<1>11. client' = client  BY <1>1 DEF outside
<1>12. Phases'  BY <1>10, <1>11, OnwardKeeps DEF WInv
<1>13. Together'  BY <1>2, <1>3, <1>5 DEF Together
<1>14. OrdersAlone'  BY <1>1 DEF WInv, OrdersAlone
<1> QED  BY <1>8, <1>9, <1>12, <1>13, <1>14 DEF WInv

\* Where a rank is in a phase when all are at the end of a wave.
LEMMA SyncPhases ==
    ASSUME WInv, Sync
    PROVE  Phases'
<1> USE DEF All
<1>1. /\ UNCHANGED <<pauseState, future, reqs, inq, coord, client>>
      /\ First \in Rank /\ \A r \in Rank : at[r] = "sync"
      /\ ignore' = [r \in Rank |-> ignore[r] \/ Consensus]
      /\ pending' = [r \in Rank |-> pending[r] /\ ~Consensus]
      /\ running' = [r \in Rank |-> GoOn] /\ at' = [r \in Rank |-> "top"]
  BY InvTypes DEF Sync, Each
<1>2. \A r \in Rank : /\ NoOrder(r)' <=> NoOrder(r)
                      /\ Has(inq[r], "resume")' <=> Has(inq[r], "resume")
                      /\ Unfinished(r)' = Unfinished(r) /\ Unfinished(r) \in Nat
  BY <1>1, RankTypes DEF NoOrder, Unfinished, reqs, PauseStates
<1>3. \A r \in Rank : ~Stopped(r) /\ ~Resuming(r)  BY <1>1 DEF Stopped, Resuming
<1>4. \A r \in Rank : at'[r] = "top" /\ running'[r] = GoOn /\ (GoOn \/ Unfinished(r) = 0)
  BY <1>1, <1>2 DEF GoOn
<1>5. ASSUME Consensus PROVE client.phase = "pausing" /\ AllStopping'
  <2>1. \A r \in Rank : pending[r]  BY <1>5 DEF Consensus
  <2>2. \A r \in Rank : ~Free(r) /\ ~Told(r) /\ ~Stopping(r)  BY <2>1 DEF Free, Told, Stopping
  <2>3. client.phase = "pausing" /\ \A r \in Rank : Pending(r)
    BY <1>1, <1>3, <2>2, InvTypes DEF WInv, Phases, Phase, AllStopping
  <2>4. \A r \in Rank : Stopping(r)'
    <3> TAKE r \in Rank
    <3>1. ~pending'[r] /\ ignore'[r]  BY <1>1, <1>5
    <3>2. Pending(r)  BY <2>3
    <3>3. ~running'[r] => Unfinished(r)' = 0 /\ at'[r] = "top"  BY <1>2, <1>4
    <3> QED  BY <1>1, <1>2, <1>4, <3>1, <3>2, <3>3 DEF Pending, Stopping
  <2> QED  BY <1>4, <2>3, <2>4 DEF AllStopping
<1>6. CASE Consensus  BY <1>1, <1>5, <1>6 DEF Phases
<1>7. CASE ~Consensus
  <2>1. \A r \in Rank : ignore'[r] = ignore[r] /\ pending'[r] = pending[r]
    BY <1>1, <1>7, RankTypes
  <2>2. \A r \in Rank : Free(r) => Free(r)'  BY <1>1, <1>2, <1>4, <2>1 DEF Free
  <2>3. \A r \in Rank : Told(r) => Told(r)'  BY <1>1, <1>2, <1>4, <2>1 DEF Told
  <2>4. \A r \in Rank : Pending(r) => Pending(r)'
    <3> SUFFICES ASSUME NEW r \in Rank, Pending(r) PROVE Pending(r)'  OBVIOUS
    <3>1. GoOn  BY <1>7 DEF GoOn, Pending
    <3>2. running'[r]  BY <1>4, <3>1
    <3> QED  BY <1>1, <1>2, <1>4, <2>1, <3>2 DEF Pending
  <2>5. \A r \in Rank : Stopping(r) => Stopping(r)' /\ future[r] # "done"
    <3> SUFFICES ASSUME NEW r \in Rank, Stopping(r) PROVE Stopping(r)' /\ future[r] # "done"  OBVIOUS
    <3>1. running[r] /\ future[r] # "done"  BY <1>1 DEF Stopping
    <3>2. ~running'[r] => Unfinished(r)' = 0 /\ at'[r] = "top"  BY <1>2, <1>4
    <3> QED  BY <1>1, <1>2, <1>4, <2>1, <3>1, <3>2 DEF Stopping
  <2>6. AllStopping => AllStopping' /\ \A r \in Rank : future[r] # "done"
    BY <1>4, <2>5 DEF AllStopping
  <2> QED  BY <1>1, <1>3, <2>2, <2>3, <2>4, <2>6 DEF WInv, Phases
<1> QED  BY <1>6, <1>7

LEMMA SyncKeeps ==
    ASSUME WInv, Sync
    PROVE  WInv'
<1> DEFINE m == [kind |-> "wave_complete", wave |-> wave[First]]
           w == wave[First]
           v == wave'[First]
<1>1. /\ UNCHANGED <<pauseState, future, reqs, inq, coord, client>> /\ WavesTypeOK /\ First \in Rank
      /\ ignore' = [r \in Rank |-> ignore[r] \/ Consensus]
      /\ pending' = [r \in Rank |-> pending[r] /\ ~Consensus]
      /\ running' = [r \in Rank |-> GoOn] /\ at' = [r \in Rank |-> "top"]
      /\ wave' = [r \in Rank |-> IF GoOn THEN wave[r] ELSE wave[r] + 1]
      /\ counter' = [r \in Rank |-> IF GoOn THEN counter[r] ELSE 0]
  BY InvTypes DEF Sync, WInv, WTyped, Each, CounterAfter
<1>2. GoOn \in BOOLEAN /\ Consensus \in BOOLEAN  BY DEF GoOn, Consensus
<1>3. /\ wave' \in [Rank -> Nat] /\ \A r \in Rank : wave'[r] = v
      /\ w \in Nat /\ v \in Nat /\ w <= v /\ (~GoOn => w < v)
  <2>1. \A r \in Rank : wave[r] \in Nat /\ wave[r] = w  BY RankTypes
  <2> QED  BY <1>1, <2>1
<1>4. counter' \in [Rank -> 0..(Cycle - 1)] /\ \A r \in Rank : counter'[r] = counter'[First]
  <2>1. 0 \in 0..(Cycle - 1)  BY CounterRange
  <2>2. \A r \in Rank : counter[r] \in 0..(Cycle - 1) /\ counter[r] = counter[First]
    BY <1>1 DEF WavesTypeOK, WInv, WavesAgree
  <2> QED  BY <1>1, <2>1, <2>2
<1>5. WavesTypeOK'
  <2>1. ignore' \in [Rank -> BOOLEAN] /\ pending' \in [Rank -> BOOLEAN]
    BY <1>1, <1>2 DEF WavesTypeOK
  <2>2. running' \in [Rank -> BOOLEAN] /\ at' \in [Rank -> {"top", "forward", "sync", "resume"}]
    BY <1>1, <1>2
  <2> QED  BY <1>1, <1>3, <1>4, <2>1, <2>2 DEF WavesTypeOK, reqs
<1>6. \A r \in Rank : InUpTo(inq'[r], v)
  <2>1. \A r \in Rank : InUpTo(inq[r], w) /\ inq[r] \in Seq(InMsg)
    BY DEF WInv, WavesAgree, WTyped
  <2> SUFFICES ASSUME NEW r \in Rank, NEW n \in ToSet(inq[r]), n.kind \in {"add", "start"}
               PROVE  n.wave <= v
    BY <1>1 DEF InUpTo
  <2>2. n \in InMsg /\ n.wave <= w  BY <2>1, ElementFacts DEF InUpTo
  <2>3. n.wave \in Nat  BY <2>2 DEF InMsg
  <2> QED  BY <1>3, <2>2, <2>3
<1>7. /\ toCoord' \in [Rank \cup {"client"} -> Seq(CoordMsg)]
      /\ \A s \in Rank \cup {"client"} : CoordUpTo(toCoord'[s], v)
  <2>1. \A s \in Rank \cup {"client"} : toCoord[s] \in Seq(CoordMsg) /\ CoordUpTo(toCoord[s], v)
    <3> TAKE s \in Rank \cup {"client"}
    <3>1. toCoord[s] \in Seq(CoordMsg) /\ CoordUpTo(toCoord[s], w)  BY InvTypes
    <3> SUFFICES ASSUME NEW n \in ToSet(toCoord[s])
                 PROVE  n.wave <= v /\ (n.kind = "wave_complete" => n.wave < v)
      BY <3>1 DEF CoordUpTo
    <3>2. n \in CoordMsg /\ n.wave <= w /\ (n.kind = "wave_complete" => n.wave < w)
      BY <3>1, ElementFacts DEF CoordUpTo
    <3>3. n.wave \in Nat  BY <3>2 DEF CoordMsg
    <3> QED  BY <1>3, <3>2, <3>3
  <2>2. CASE GoOn
    <3>1. toCoord' = toCoord  BY <2>2 DEF Sync
    <3> QED  BY <2>1, <3>1, InvTypes
  <2>3. CASE ~GoOn
    <3>1. toCoord' = [toCoord EXCEPT ![First] = Append(@, m)]  BY <2>3 DEF Sync, Tell
    <3>2. m \in CoordMsg /\ m.wave <= v /\ m.wave < v  BY <1>3, <2>3 DEF CoordMsg
    <3> HIDE DEF m, v
    <3>3. toCoord[First] \in Seq(CoordMsg) /\ CoordUpTo(toCoord[First], v)  BY <1>1, <2>1
    <3>4. Append(toCoord[First], m) \in Seq(CoordMsg) /\ CoordUpTo(Append(toCoord[First], m), v)
      BY <3>2, <3>3, CoordQueue
    <3>5. toCoord \in [Rank \cup {"client"} -> Seq(CoordMsg)]  BY InvTypes
    <3> QED  BY <1>1, <2>1, <3>1, <3>4, <3>5
  <2> QED  BY <2>2, <2>3
<1>8. WTyped'  BY <1>1, <1>5, <1>7 DEF WInv, WTyped
<1>9. WavesAgree'
  <2>1. coord'.wave <= v /\ client'.wave <= v  BY <1>1, <1>3, InvTypes
  <2> QED  BY <1>3, <1>4, <1>6, <1>7, <2>1 DEF WavesAgree
<1>10. Together' /\ OrdersAlone'  BY <1>1 DEF Together, WInv, OrdersAlone
<1> QED  BY <1>8, <1>9, <1>10, SyncPhases DEF WInv

LEMMA ResumeTogetherKeeps ==
    ASSUME WInv, ResumeTogether
    PROVE  WInv'
<1> USE DEF All
<1>1. /\ UNCHANGED <<wave, counter, pause, reqs, inq, outside>> /\ WavesTypeOK /\ First \in Rank
      /\ \A r \in Rank : at[r] = "resume"
      /\ running' = [r \in Rank |-> \E s \in Rank : Unfinished(s) > 0]
      /\ at' = [r \in Rank |-> "top"]
  BY InvTypes DEF ResumeTogether, WInv, WTyped, Each
<1>2. running' \in [Rank -> BOOLEAN] /\ at' \in [Rank -> {"top", "forward", "sync", "resume"}]
  BY <1>1
<1>3. WavesTypeOK'  BY <1>1, <1>2 DEF WavesTypeOK, pause, reqs, outside
<1>4. WTyped'  BY <1>1, <1>3 DEF WInv, WTyped, outside
<1>5. WavesAgree'  BY <1>1 DEF WInv, WavesAgree, outside
<1>6. Phases'
  <2>1. \A r \in Rank : ~Free(r) /\ ~Told(r) /\ ~Pending(r) /\ ~Stopping(r) /\ ~Stopped(r)
    BY <1>1 DEF Free, Told, Pending, Stopping, Stopped
  <2>2. client.phase = "resuming" /\ \A r \in Rank : Resuming(r)
    BY <1>1, <2>1, InvTypes DEF WInv, Phases, Phase, AllStopping
  <2>3. \A r \in Rank : NoOrder(r)' <=> NoOrder(r)  BY <1>1 DEF NoOrder
  <2>4. \A r \in Rank : Free(r)'  BY <1>1, <2>2, <2>3 DEF Free, Resuming, pause
  <2> QED  BY <1>1, <2>2, <2>4 DEF Phases, outside
<1>7. Together' /\ OrdersAlone'  BY <1>1 DEF Together, WInv, OrdersAlone
<1> QED  BY <1>4, <1>5, <1>6, <1>7 DEF WInv

----------------------------------------------------------------------------
(* The client pauses and resumes.                                          *)

LEMMA SendPauseKeeps ==
    ASSUME WInv, SendPause
    PROVE  WInv'
<1>1. /\ UNCHANGED <<loop, pause, reqs, toCoord, coord>> /\ WavesTypeOK
      /\ client.phase = "serving" /\ client' = [client EXCEPT !.phase = "pausing"]
  BY DEF SendPause, WInv, WTyped
<1>2. PICK mode \in Modes : inq' = [r \in Rank |-> Append(inq[r], [kind |-> "pause", mode |-> mode])]
  BY DEF SendPause
<1> DEFINE m == [kind |-> "pause", mode |-> mode]
<1>3. m \in InMsg /\ m.kind = "pause"  BY DEF InMsg
<1>4. \A r \in Rank : inq'[r] = Append(inq[r], m)  BY <1>2
<1> HIDE DEF m
<1>5. \A r \in Rank : Free(r)  BY <1>1 DEF WInv, Phases
<1>6. \A r \in Rank : /\ inq[r] \in Seq(InMsg) /\ OneOrder(inq[r]) /\ InUpTo(inq[r], wave[First])
                      /\ ~Has(inq[r], "pause") /\ ~Has(inq[r], "resume")
  BY <1>5 DEF WInv, WTyped, OrdersAlone, WavesAgree, Free, NoOrder
<1>7. \A r \in Rank : /\ inq'[r] \in Seq(InMsg) /\ OneOrder(inq'[r])
                      /\ InUpTo(inq'[r], wave[First]) /\ ~Has(inq'[r], "resume")
  <2> TAKE r \in Rank
  <2>1. /\ inq[r] \in Seq(InMsg) /\ inq'[r] = Append(inq[r], m)
        /\ ~Has(inq[r], "pause") /\ ~Has(inq[r], "resume")
        /\ OneOrder(inq[r]) /\ InUpTo(inq[r], wave[First])
    BY <1>4, <1>6
  <2>2. m.kind \notin {"add", "start"}  BY <1>3
  <2>3. Append(inq[r], m) \in Seq(InMsg) /\ OneOrder(Append(inq[r], m))  BY <1>3, <2>1, AppendIn
  <2>4. InUpTo(Append(inq[r], m), wave[First])  BY <1>3, <2>1, <2>2, AppendIn
  <2>5. ~Has(Append(inq[r], m), "resume")  BY <1>3, <2>1, AppendIn
  <2> QED  BY <2>1, <2>3, <2>4, <2>5
<1>8. client' \in [wave : Nat, running : BOOLEAN, phase : Phase] /\ client'.wave = client.wave
      /\ client'.phase = "pausing"
  BY <1>1, InvTypes DEF Phase
<1>9. inq' \in [Rank -> Seq(InMsg)]  BY <1>2, <1>7
<1>10. WTyped'
  <2>1. WavesTypeOK'  BY <1>1, <1>8 DEF WavesTypeOK, loop, pause, reqs
  <2> QED  BY <1>1, <1>8, <1>9, <2>1 DEF WInv, WTyped
<1>11. WavesAgree'  BY <1>1, <1>7, <1>8 DEF WInv, WavesAgree, loop
<1>12. \A r \in Rank : Told(r)'  BY <1>1, <1>5, <1>7 DEF Free, Told, loop, pause
<1>13. Phases'  BY <1>8, <1>12 DEF Phases
<1>14. Together' /\ OrdersAlone'  BY <1>1, <1>7 DEF WInv, Together, OrdersAlone, loop
<1> QED  BY <1>10, <1>11, <1>13, <1>14 DEF WInv

LEMMA SendResumeKeeps ==
    ASSUME WInv, SendResume
    PROVE  WInv'
<1> DEFINE m == [kind |-> "resume"]
<1>1. /\ UNCHANGED <<loop, pending, ignore, pauseState, reqs, toCoord, coord>> /\ WavesTypeOK
      /\ client.phase = "paused" /\ client' = [client EXCEPT !.phase = "resuming"]
      /\ inq' = [r \in Rank |-> Append(inq[r], m)] /\ future' = [r \in Rank |-> "none"]
  BY DEF SendResume, WInv, WTyped, Each
<1>2. m \in InMsg /\ m.kind = "resume"  BY DEF InMsg
<1>3. \A r \in Rank : inq'[r] = Append(inq[r], m)  BY <1>1
<1> HIDE DEF m
<1>4. \A r \in Rank : Stopping(r) /\ future[r] = "done"  BY <1>1 DEF WInv, Phases, AllStopping
<1>5. \A r \in Rank : /\ inq'[r] \in Seq(InMsg) /\ OneOrder(inq'[r])
                      /\ InUpTo(inq'[r], wave[First]) /\ ~Has(inq'[r], "pause")
  <2> TAKE r \in Rank
  <2>1. /\ inq[r] \in Seq(InMsg) /\ inq'[r] = Append(inq[r], m)
        /\ ~Has(inq[r], "pause") /\ ~Has(inq[r], "resume")
        /\ OneOrder(inq[r]) /\ InUpTo(inq[r], wave[First])
    BY <1>3, <1>4 DEF WInv, WTyped, OrdersAlone, WavesAgree, Stopping, NoOrder
  <2>2. m.kind \notin {"add", "start"}  BY <1>2
  <2>3. Append(inq[r], m) \in Seq(InMsg) /\ OneOrder(Append(inq[r], m))  BY <1>2, <2>1, AppendIn
  <2>4. InUpTo(Append(inq[r], m), wave[First])  BY <1>2, <2>1, <2>2, AppendIn
  <2>5. ~Has(Append(inq[r], m), "pause")  BY <1>2, <2>1, AppendIn
  <2> QED  BY <2>1, <2>3, <2>4, <2>5
<1>6. client' \in [wave : Nat, running : BOOLEAN, phase : Phase] /\ client'.wave = client.wave
      /\ client'.phase = "resuming"
  BY <1>1, InvTypes DEF Phase
<1>7. inq' \in [Rank -> Seq(InMsg)]  BY <1>1, <1>5
<1>8. WTyped'
  <2>1. WavesTypeOK'  BY <1>1, <1>6 DEF WavesTypeOK, loop, reqs
  <2> QED  BY <1>1, <1>6, <1>7, <2>1 DEF WInv, WTyped
<1>9. WavesAgree'  BY <1>1, <1>5, <1>6 DEF WInv, WavesAgree, loop
<1>10. \A r \in Rank : Stopped(r)'
  <2> TAKE r \in Rank
  <2>1. ~running[r] /\ Unfinished(r) = 0 /\ at[r] = "top"  BY <1>4 DEF Stopping
  <2>2. Unfinished(r)' = Unfinished(r)  BY <1>1 DEF Unfinished, reqs
  <2> QED  BY <1>1, <1>4, <1>5, <2>1, <2>2 DEF Stopping, Stopped, loop
<1>11. Phases'  BY <1>6, <1>10 DEF Phases
<1>12. Together' /\ OrdersAlone'  BY <1>1, <1>5 DEF WInv, Together, OrdersAlone, loop
<1> QED  BY <1>8, <1>9, <1>11, <1>12 DEF WInv

\* The client takes note: only its phase changes.
LEMMA PhaseKeeps ==
    ASSUME WInv, NEW p \in Phase, client' = [client EXCEPT !.phase = p],
           UNCHANGED <<loop, pause, reqs, inq, toCoord, coord>>
    PROVE  /\ WTyped' /\ WavesAgree' /\ Together' /\ OrdersAlone' /\ client'.phase = p
           /\ \A r \in Rank : /\ Free(r)' <=> Free(r)
                              /\ Stopping(r)' <=> Stopping(r)
           /\ AllStopping' <=> AllStopping
<1> USE DEF loop, pause, reqs
<1>1. client' \in [wave : Nat, running : BOOLEAN, phase : Phase] /\ client'.wave = client.wave
      /\ client'.phase = p
  BY InvTypes
<1>2. WTyped'  BY <1>1 DEF WInv, WTyped, WavesTypeOK, Phase
<1>3. WavesAgree'  BY <1>1 DEF WInv, WavesAgree
<1>4. Together' /\ OrdersAlone'  BY DEF WInv, Together, OrdersAlone
<1>5. \A r \in Rank : Unfinished(r)' = Unfinished(r) /\ (NoOrder(r)' <=> NoOrder(r))
  BY DEF Unfinished, NoOrder
<1>6. \A r \in Rank : (Free(r)' <=> Free(r)) /\ (Stopping(r)' <=> Stopping(r))
  BY <1>5 DEF Free, Stopping
<1>7. AllStopping' <=> AllStopping  BY <1>6 DEF AllStopping
<1> QED  BY <1>1, <1>2, <1>3, <1>4, <1>6, <1>7

LEMMA PausedKeeps ==
    ASSUME WInv, Paused
    PROVE  WInv'
<1>1. /\ client.phase = "pausing" /\ client' = [client EXCEPT !.phase = "paused"]
      /\ UNCHANGED <<loop, pause, reqs, inq, toCoord, coord>>
      /\ \A r \in Rank : future[r] = "done"
  BY DEF Paused
<1>2. "paused" \in Phase  BY DEF Phase
<1>3. /\ WTyped' /\ WavesAgree' /\ Together' /\ OrdersAlone' /\ client'.phase = "paused"
      /\ AllStopping' <=> AllStopping
  BY <1>1, <1>2, PhaseKeeps
<1>4. ~(Told(First) \/ Pending(First))  BY <1>1, InvTypes DEF Told, Pending
<1>5. AllStopping  BY <1>1, <1>4, InvTypes DEF WInv, Phases
<1>6. \A r \in Rank : future'[r] = "done"  BY <1>1 DEF pause
<1>7. Phases'  BY <1>3, <1>5, <1>6 DEF Phases
<1> QED  BY <1>3, <1>7 DEF WInv

LEMMA ResumedKeeps ==
    ASSUME WInv, Resumed
    PROVE  WInv'
<1>1. /\ client.phase = "resuming" /\ client' = [client EXCEPT !.phase = "serving"]
      /\ UNCHANGED <<loop, pause, reqs, inq, toCoord, coord>>
      /\ \A r \in Rank : pauseState[r] = "unpaused" /\ at[r] # "resume"
  BY DEF Resumed
<1>2. "serving" \in Phase  BY DEF Phase
<1>3. /\ WTyped' /\ WavesAgree' /\ Together' /\ OrdersAlone' /\ client'.phase = "serving"
      /\ \A r \in Rank : Free(r)' <=> Free(r)
  BY <1>1, <1>2, PhaseKeeps
<1>4. ~(Stopped(First) \/ Resuming(First))  BY <1>1, InvTypes DEF Stopped, Resuming
<1>5. \A r \in Rank : Free(r)  BY <1>1, <1>4, InvTypes DEF WInv, Phases
<1>6. Phases'  BY <1>3, <1>5 DEF Phases
<1> QED  BY <1>3, <1>6 DEF WInv

----------------------------------------------------------------------------
LEMMA InitWInv == WavesInit => WInv
<1> SUFFICES ASSUME WavesInit PROVE WInv  OBVIOUS
<1> USE DEF WavesInit, Each
<1>1. First \in Rank /\ 0 \in 0..(Cycle - 1)  BY WavesAssumption, CounterRange DEF WavesAssumption
<1>2. <<>> \in Seq(InMsg) /\ <<>> \in Seq(CoordMsg) /\ ToSet(<<>>) = {}
  <2>1. <<>> \in Seq(InMsg) /\ <<>> \in Seq(CoordMsg)  OBVIOUS
  <2> QED  BY <2>1, ElementFacts
<1>3. WTyped
  <2>1. WavesTypeOK  BY <1>1 DEF WavesTypeOK, PauseStates
  <2> QED  BY <1>2, <2>1 DEF WTyped, Phase
<1>4. WavesAgree
  <2>1. \A r \in Rank : InUpTo(inq[r], wave[First])  BY <1>2 DEF InUpTo
  <2>2. \A s \in Rank \cup {"client"} : CoordUpTo(toCoord[s], wave[First])  BY <1>2 DEF CoordUpTo
  <2> QED  BY <1>1, <2>1, <2>2 DEF WavesAgree
<1>5. \A r \in Rank : Free(r)  BY <1>2 DEF Free, NoOrder, Has
<1>6. Phases  BY <1>5 DEF Phases
<1>7. Together /\ OrdersAlone  BY DEF Together, OrdersAlone, OneOrder
<1> QED  BY <1>3, <1>4, <1>6, <1>7 DEF WInv

LEMMA StutterKeeps == WInv /\ UNCHANGED wavesVars => WInv'
<1> SUFFICES ASSUME WInv, UNCHANGED wavesVars PROVE WInv'  OBVIOUS
<1>1. UNCHANGED <<loop, pause, reqs, inq, toCoord, coord, client>>  BY DEF wavesVars, outside
<1>2. inq' = [r \in Rank |-> inq'[r]]  BY <1>1, InvTypes
<1> QED  BY <1>1, <1>2, InvTypes, OutsideKeeps

LEMMA NextWInv == WInv /\ [WavesNext]_wavesVars => WInv'
<1> SUFFICES ASSUME WInv, WavesNext PROVE WInv'  BY StutterKeeps
<1>1. CASE \E r \in Rank : RankStep(r)
  BY <1>1, HandleKeeps, NotifyIdleKeeps, StepKeeps DEF RankStep
<1>2. CASE \E r \in Rank : SendRequest(r) \/ SendAbort(r)
  BY <1>2, SendRequestKeeps, SendAbortKeeps
<1>3. CASE \E ends \in SUBSET Rank : Forward(ends)  BY <1>3, ForwardKeeps
<1>4. CASE Sync  BY <1>4, SyncKeeps
<1>5. CASE ResumeTogether  BY <1>5, ResumeTogetherKeeps
<1>6. CASE \E s \in Rank \cup {"client"} : Coordinate(s)  BY <1>6, CoordinateKeeps
<1>7. CASE Publish  BY <1>7, PublishKeeps
<1>8. CASE SendPause  BY <1>8, SendPauseKeeps
<1>9. CASE Paused  BY <1>9, PausedKeeps
<1>10. CASE SendResume  BY <1>10, SendResumeKeeps
<1>11. CASE Resumed  BY <1>11, ResumedKeeps
<1> QED
  BY <1>1, <1>2, <1>3, <1>4, <1>5, <1>6, <1>7, <1>8, <1>9, <1>10, <1>11 DEF WavesNext

\* For any number of ranks, requests and pauses.
THEOREM WavesInvariance == WavesSpec => []WInv
BY InitWInv, NextWInv, PTL DEF WavesSpec

\* Two ranks that wait in a collective wait in the same one, after as many
\* steps of the same wave: sync_dp_state, the forward pass and the all-reduce
\* of resume_scheduler never block each other.
THEOREM CollectivesAreMatched == WavesSpec => []CollectivesMatch
<1>1. ASSUME WInv PROVE CollectivesMatch
  <2>1. WavesTypeOK /\ First \in Rank  BY <1>1, WavesAssumption DEF WInv, WTyped, WavesAssumption
  <2> SUFFICES ASSUME NEW r \in Rank, NEW s \in Rank, at[r] # "top", at[s] # "top"
               PROVE  at[r] = at[s] /\ counter[r] = counter[s] /\ wave[r] = wave[s]
    BY <2>1 DEF CollectivesMatch
  <2>2. counter[r] = counter[s] /\ wave[r] = wave[s]  BY <1>1 DEF WInv, WavesAgree
  <2>3. at[r] = "resume" => at[s] = "resume"
    <3> SUFFICES ASSUME at[r] = "resume" PROVE at[s] = "resume"  OBVIOUS
    <3>1. ~Free(r) /\ ~Told(r) /\ ~Pending(r) /\ ~Stopping(r)  BY DEF Free, Told, Pending, Stopping
    <3>2. Stopped(s) \/ Resuming(s)
      BY <1>1, <3>1, InvTypes DEF WInv, Phases, AllStopping, Phase
    <3> QED  BY <3>2 DEF Stopped, Resuming
  <2>4. at[s] = "resume" => at[r] = "resume"
    <3> SUFFICES ASSUME at[s] = "resume" PROVE at[r] = "resume"  OBVIOUS
    <3>1. ~Free(s) /\ ~Told(s) /\ ~Pending(s) /\ ~Stopping(s)  BY DEF Free, Told, Pending, Stopping
    <3>2. Stopped(r) \/ Resuming(r)
      BY <1>1, <3>1, InvTypes DEF WInv, Phases, AllStopping, Phase
    <3> QED  BY <3>2 DEF Stopped, Resuming
  <2>5. at[r] = "sync" <=> at[s] = "sync"  BY <1>1 DEF WInv, Together
  <2> QED  BY <2>1, <2>2, <2>3, <2>4, <2>5 DEF WavesTypeOK
<1> QED  BY <1>1, WavesInvariance, PTL

\* While the client believes that the engines are paused, no rank runs, waits
\* in a collective or still waits for the others to pause.
THEOREM PausesHold == WavesSpec => []PauseHolds
<1>1. ASSUME WInv PROVE PauseHolds
  BY <1>1 DEF WInv, Phases, AllStopping, Stopping, PauseHolds
<1> QED  BY <1>1, WavesInvariance, PTL
=============================================================================
