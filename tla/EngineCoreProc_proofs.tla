------------------------ MODULE EngineCoreProc_proofs ------------------------
(***************************************************************************)
(* The safety properties of the engine process, from one inductive         *)
(* invariant: where each request is, in which order the input queue holds  *)
(* its messages, which calls wait for an idle engine, and what a pause or  *)
(* a shutdown has already emptied.                                         *)
(***************************************************************************)
EXTENDS EngineCoreProc, DataLemmas

Batches == [reqs : SUBSET Requests, epoch : Nat]
Aborts == [type : {"ABORT"}, arg : Requests]
ResumeMsgs == {Msg("UTILITY", "resume"), Msg("UTILITY", "wake_up")}

\* What the types leave out: the shape of a batch and of the message in
\* hand, and the room for the batch that the next step schedules.
Typed ==
    /\ TypeOK
    /\ inThread \in Seq(Aborts)
    /\ left \in [Requests -> Nat]
    /\ batchQueue \in Seq(Batches)
    /\ pc # "result" => Len(batchQueue) < BatchQueueSize

\* A queue holds the ADD of a request, and a call, at most once.
Once(queue) ==
    \A i, j \in DOMAIN queue :
        queue[i] = queue[j] /\ queue[i].type \in {"ADD", "UTILITY"} => i = j

\* An abort comes behind the request it aborts.
Behind(queue) ==
    \A i, j \in DOMAIN queue :
        queue[i].type = "ADD" /\ queue[j].type = "ABORT" /\ queue[i].arg = queue[j].arg => i < j

\* No call is ahead of a resume or wake_up.
Alone(queue) ==
    \A i, j \in DOMAIN queue : queue[i] \in ResumeMsgs /\ j < i => queue[j].type # "UTILITY"

\* What the queues carry was sent, and a call waits in one place only.
Sent ==
    /\ \A r \in Requests : Carries(inputQueue, "ADD", r) => r \in sent
    /\ \A r \in Requests : OnTheWay("ABORT", r) => r \in aborted
    /\ ToSet(abortsQueue) \subseteq aborted
    /\ \A c \in Calls : Carries(inputQueue, "UTILITY", c) =>
                            call[c] = "sent" /\ c \notin ToSet(idleCallbacks)
    /\ \A c \in ToSet(idleCallbacks) : call[c] = "sent"

\* Where a request is.
OnePlace ==
    \A r \in Requests :
        /\ answers[r] <= 1
        /\ r \notin sent => answers[r] = 0
        /\ r \in Scheduled => r \in sent /\ answers[r] = 0 /\ ~Carries(inputQueue, "ADD", r)
        /\ answers[r] = 1 => ~Carries(inputQueue, "ADD", r)
        /\ r \in sent => \/ Carries(inputQueue, "ADD", r) \/ r \in Scheduled
                         \/ answers[r] = 1 \/ r \in aborted
        /\ left[r] = 0 => answers[r] = 1

\* An aborted request is nowhere, or its abort is still on the way.
AbortsFollow ==
    \A r \in aborted : r \in Scheduled \/ Carries(inputQueue, "ADD", r) => OnTheWay("ABORT", r)

\* A request of a batch in flight was running, and does not wait again until
\* the batch has come back: a reset finds no batch in flight.
BatchesRan ==
    \A i \in DOMAIN batchQueue : \A r \in batchQueue[i].reqs :
        r \in sent /\ ~Carries(inputQueue, "ADD", r) /\ r \notin ToSet(waiting)

\* When a resume or wake_up is on the way no pause is pending, and what
\* sleeps or waits for an idle engine is paused.
ResumesAlone ==
    /\ \A c \in {"resume", "wake_up"} : Carries(inputQueue, "UTILITY", c) =>
            idleCallbacks = <<>> /\ (c = "resume" => ~sleeping)
    /\ sleeping \/ idleCallbacks # <<>> => pauseState # "UNPAUSED"

\* After a pause was answered nothing runs.
PausedRunsNothing ==
    sleeping \/ (pauseState # "UNPAUSED" /\ idleCallbacks = <<>>) =>
        running = <<>> /\ \A i \in DOMAIN batchQueue : batchQueue[i].reqs = {}

\* An aborting shutdown has emptied the scheduler, and nothing comes to it.
Stopping ==
    /\ ShutdownTimeout = 0 /\ shutdownState = "SHUTTING_DOWN" => Scheduled = {}
    /\ ExitLeavesNothing

QueueInv == Once(inputQueue) /\ Behind(inputQueue) /\ Alone(inputQueue)

IInv == Typed /\ QueueInv /\ Sent /\ OnePlace /\ AbortsFollow /\ BatchesRan
        /\ ResetsAreSafe /\ ResumesAlone /\ PausedRunsNothing /\ Stopping

----------------------------------------------------------------------------
(* Queues of messages.                                                     *)

\* A message is its type and its argument.
LEMMA MessageIs ==
    ASSUME NEW m \in Messages, NEW t, NEW a
    PROVE  m = Msg(t, a) <=> m.type = t /\ m.arg = a
BY DEF Messages, RequestMsgs, Msg

LEMMA AppendCarries ==
    ASSUME NEW q \in Seq(Messages), NEW m \in Messages
    PROVE  /\ Append(q, m) \in Seq(Messages)
           /\ \A t, a : Carries(Append(q, m), t, a) <=> Carries(q, t, a) \/ m = Msg(t, a)
<1> DEFINE p == Append(q, m)
<1>1. /\ p \in Seq(Messages) /\ DOMAIN q = 1..Len(q) /\ DOMAIN p = 1..(Len(q) + 1)
      /\ Len(q) \in Nat /\ p[Len(q) + 1] = m
      /\ \A i \in 1..Len(q) : p[i] = q[i]
  OBVIOUS
<1>2. \A i \in DOMAIN p : i \in DOMAIN q \/ i = Len(q) + 1  BY <1>1
<1>3. DOMAIN q \subseteq DOMAIN p /\ Len(q) + 1 \in DOMAIN p  BY <1>1
<1> HIDE DEF p
<1>4. \A t, a : Carries(p, t, a) => Carries(q, t, a) \/ m = Msg(t, a)
  BY <1>1, <1>2 DEF Carries
<1>5. \A t, a : Carries(q, t, a) \/ m = Msg(t, a) => Carries(p, t, a)
  BY <1>1, <1>3 DEF Carries
<1> QED  BY <1>1, <1>4, <1>5 DEF p

LEMMA TailCarries ==
    ASSUME NEW q \in Seq(Messages), q # <<>>
    PROVE  /\ Head(q) \in Messages /\ Tail(q) \in Seq(Messages)
           /\ \A t, a : Carries(q, t, a) <=> Carries(Tail(q), t, a) \/ Head(q) = Msg(t, a)
<1>1. /\ Head(q) \in Messages /\ Tail(q) \in Seq(Messages)
      /\ DOMAIN q = 1..Len(q) /\ Len(q) \in Nat \ {0} /\ q[1] = Head(q)
      /\ DOMAIN Tail(q) = 1..(Len(q) - 1)
      /\ \A i \in 1..(Len(q) - 1) : Tail(q)[i] = q[i + 1] /\ i + 1 \in 1..Len(q)
  BY TailFacts
<1>2. \A t, a : Carries(Tail(q), t, a) \/ Head(q) = Msg(t, a) => Carries(q, t, a)
  BY <1>1 DEF Carries
<1>3. ASSUME NEW t, NEW a, Carries(q, t, a)
      PROVE  Carries(Tail(q), t, a) \/ Head(q) = Msg(t, a)
  <2>1. PICK i \in 1..Len(q) : q[i] = Msg(t, a)  BY <1>1, <1>3 DEF Carries
  <2>2. CASE i # 1
    <3>1. i - 1 \in 1..(Len(q) - 1) /\ (i - 1) + 1 = i  BY <1>1, <2>1, <2>2
    <3>2. Tail(q)[i - 1] = Msg(t, a)  BY <1>1, <2>1, <3>1
    <3> QED  BY <1>1, <3>1, <3>2 DEF Carries
  <2> QED  BY <1>1, <2>1, <2>2
<1> QED  BY <1>1, <1>2, <1>3

\* Appending keeps the order when what comes was not there before.
LEMMA AppendOrder ==
    ASSUME NEW q \in Seq(Messages), NEW m \in Messages,
           Once(q), Behind(q), Alone(q),
           m.type \in {"ADD", "UTILITY"} => ~Carries(q, m.type, m.arg),
           m.type = "ADD" => ~Carries(q, "ABORT", m.arg),
           m \in ResumeMsgs => \A i \in DOMAIN q : q[i].type # "UTILITY"
    PROVE  LET p == Append(q, m) IN Once(p) /\ Behind(p) /\ Alone(p)
<1> DEFINE p == Append(q, m)
<1>1. /\ p \in Seq(Messages) /\ DOMAIN q = 1..Len(q) /\ DOMAIN p = 1..(Len(q) + 1)
      /\ Len(q) \in Nat /\ p[Len(q) + 1] = m
      /\ \A i \in 1..Len(q) : p[i] = q[i] /\ q[i] \in Messages
  OBVIOUS
<1>2. \A i \in DOMAIN p : i \in DOMAIN q \/ i = Len(q) + 1  BY <1>1
<1> HIDE DEF p
<1>3. m.type \in {"ADD", "UTILITY"} => \A i \in DOMAIN q : q[i] # m
  BY <1>1, MessageIs DEF Carries
<1>4. m.type = "ADD" => \A i \in DOMAIN q : ~(q[i].type = "ABORT" /\ q[i].arg = m.arg)
  BY <1>1, MessageIs DEF Carries
<1>5. Once(p)  BY <1>1, <1>2, <1>3 DEF Once
<1>6. Behind(p)
  <2> SUFFICES ASSUME NEW i \in DOMAIN p, NEW j \in DOMAIN p, p[i].type = "ADD",
                      p[j].type = "ABORT", p[i].arg = p[j].arg
               PROVE  i < j
    BY DEF Behind
  <2>1. CASE i \in DOMAIN q /\ j \in DOMAIN q  BY <1>1, <2>1 DEF Behind
  <2>2. CASE i \in DOMAIN q /\ j = Len(q) + 1  BY <1>1, <2>2
  <2>3. CASE i = Len(q) + 1  BY <1>1, <1>2, <1>4, <2>3
  <2> QED  BY <1>2, <2>1, <2>2, <2>3
<1>7. Alone(p)
  <2> SUFFICES ASSUME NEW i \in DOMAIN p, NEW j \in DOMAIN p, p[i] \in ResumeMsgs, j < i
               PROVE  p[j].type # "UTILITY"
    BY DEF Alone
  <2>1. CASE i \in DOMAIN q  BY <1>1, <2>1 DEF Alone
  <2>2. CASE i = Len(q) + 1  BY <1>1, <2>2
  <2> QED  BY <1>2, <2>1, <2>2
<1> QED  BY <1>5, <1>6, <1>7 DEF p

\* Taking the head keeps the order; it was the only one of its kind, and the
\* aborts behind it stay behind.
LEMMA TailOrder ==
    ASSUME NEW q \in Seq(Messages), q # <<>>, Once(q), Behind(q), Alone(q)
    PROVE  /\ Once(Tail(q)) /\ Behind(Tail(q)) /\ Alone(Tail(q))
           /\ Head(q).type \in {"ADD", "UTILITY"} =>
                ~Carries(Tail(q), Head(q).type, Head(q).arg)
           /\ Head(q).type = "ABORT" => ~Carries(Tail(q), "ADD", Head(q).arg)
           /\ Head(q).type = "UTILITY" => \A c : ~(Msg("UTILITY", c) \in ResumeMsgs /\
                                                   Carries(Tail(q), "UTILITY", c))
<1> DEFINE p == Tail(q)
<1>1. /\ p \in Seq(Messages) /\ DOMAIN q = 1..Len(q) /\ DOMAIN p = 1..(Len(q) - 1)
      /\ Len(q) \in Nat \ {0} /\ q[1] = Head(q) /\ Head(q) \in Messages
      /\ \A i \in 1..(Len(q) - 1) : p[i] = q[i + 1] /\ i + 1 \in 1..Len(q)
  BY TailFacts
<1>2. \A i \in 1..Len(q) : q[i] \in Messages  OBVIOUS
<1>3. 1 \in DOMAIN q /\ \A i \in DOMAIN p : i + 1 \in DOMAIN q /\ p[i] = q[i + 1] /\ i \in Nat
  BY <1>1
<1> HIDE DEF p
<1>4. Once(p)
  <2> SUFFICES ASSUME NEW i \in DOMAIN p, NEW j \in DOMAIN p, p[i] = p[j],
                      p[i].type \in {"ADD", "UTILITY"}
               PROVE  i = j
    BY DEF Once
  <2>1. i + 1 = j + 1  BY <1>3 DEF Once
  <2> QED  BY <1>3, <2>1
<1>5. Behind(p)
  <2> SUFFICES ASSUME NEW i \in DOMAIN p, NEW j \in DOMAIN p, p[i].type = "ADD",
                      p[j].type = "ABORT", p[i].arg = p[j].arg
               PROVE  i < j
    BY DEF Behind
  <2>1. i + 1 < j + 1  BY <1>3 DEF Behind
  <2> QED  BY <1>3, <2>1
<1>6. Alone(p)
  <2> SUFFICES ASSUME NEW i \in DOMAIN p, NEW j \in DOMAIN p, p[i] \in ResumeMsgs, j < i
               PROVE  p[j].type # "UTILITY"
    BY DEF Alone
  <2>1. j + 1 < i + 1  BY <1>3
  <2> QED  BY <1>3, <2>1 DEF Alone
<1>7. ASSUME NEW i \in DOMAIN p, p[i] = Head(q), Head(q).type \in {"ADD", "UTILITY"}
      PROVE  FALSE
  <2>1. i + 1 = 1  BY <1>1, <1>3, <1>7 DEF Once
  <2> QED  BY <1>3, <2>1
<1>8. ASSUME NEW i \in DOMAIN p, p[i].type = "ADD", p[i].arg = Head(q).arg,
             Head(q).type = "ABORT"
      PROVE  FALSE
  <2>1. i + 1 < 1  BY <1>1, <1>3, <1>8 DEF Behind
  <2> QED  BY <1>3, <2>1
<1>9. ASSUME NEW i \in DOMAIN p, p[i] \in ResumeMsgs, Head(q).type = "UTILITY"
      PROVE  FALSE
  <2>1. 1 < i + 1 /\ q[i + 1] \in ResumeMsgs  BY <1>1, <1>3, <1>9
  <2> QED  BY <1>1, <1>3, <1>9, <2>1 DEF Alone
<1>10. Head(q).type \in {"ADD", "UTILITY"} => ~Carries(p, Head(q).type, Head(q).arg)
  BY <1>1, <1>7, MessageIs DEF Carries
<1>11. Head(q).type = "ABORT" => ~Carries(p, "ADD", Head(q).arg)
  <2>1. Msg("ADD", Head(q).arg).type = "ADD" /\ Msg("ADD", Head(q).arg).arg = Head(q).arg
    BY DEF Msg
  <2> QED  BY <1>8, <2>1 DEF Carries
<1>12. Head(q).type = "UTILITY" =>
          \A c : ~(Msg("UTILITY", c) \in ResumeMsgs /\ Carries(p, "UTILITY", c))
  BY <1>9 DEF Carries
<1> QED  BY <1>4, <1>5, <1>6, <1>10, <1>11, <1>12 DEF p

----------------------------------------------------------------------------
(* The input thread and the signal handler.                                *)

LEMMA ReceiveAddKeeps ==
    ASSUME IInv, NEW r \in Requests, ReceiveAdd(r)
    PROVE  IInv'
<1> DEFINE m == Msg("ADD", r)
<1>1. /\ m \in Messages /\ m.type = "ADD" /\ m.arg = r /\ m \notin ResumeMsgs
      /\ \A t, a : m = Msg(t, a) <=> t = "ADD" /\ a = r
  BY DEF Messages, RequestMsgs, Msg, ResumeMsgs
<1> HIDE DEF m
<1>2. /\ r \notin sent /\ sent' = sent \cup {r} /\ inThread = <<>>
      /\ \/ inputQueue' = Append(inputQueue, m) /\ answers' = answers
         \/ inputQueue' = inputQueue /\ answers' = [answers EXCEPT ![r] = @ + 1]
      /\ UNCHANGED <<aborted, call, inThread, abortsQueue, waiting, running, finishedIds,
                     left, pauseState, idleCallbacks, sleeping, cacheEpoch, shutdownState,
                     wakeup, signals, pc, batchQueue>>
  BY DEF ReceiveAdd, m, pauseVars, stopVars
<1>3. Typed /\ QueueInv /\ Sent /\ OnePlace /\ AbortsFollow /\ BatchesRan /\ ResetsAreSafe
      /\ ResumesAlone /\ PausedRunsNothing /\ Stopping
  BY DEF IInv
<1>4. inputQueue \in Seq(Messages) /\ answers \in [Requests -> Nat] /\ aborted \subseteq sent
      /\ sent \subseteq Requests
  BY <1>3 DEF Typed, TypeOK
<1>5. Scheduled' = Scheduled  BY <1>2 DEF Scheduled
<1>6. ~Carries(inputQueue, "ADD", r) /\ ~Carries(inputQueue, "ABORT", r)
      /\ r \notin Scheduled /\ answers[r] = 0
  BY <1>2, <1>3, <1>4 DEF Sent, OnePlace, OnTheWay
<1>7. /\ inputQueue' \in Seq(Messages)
      /\ \A t, a : t # "ADD" \/ a # r => (Carries(inputQueue', t, a) <=> Carries(inputQueue, t, a))
  <2>1. CASE inputQueue' = inputQueue  BY <1>4, <2>1
  <2>2. CASE inputQueue' = Append(inputQueue, m)  BY <1>1, <1>4, <2>2, AppendCarries
  <2> QED  BY <1>2, <2>1, <2>2
<1>8. Typed'
  <2>1. answers' \in [Requests -> Nat] /\ sent' \subseteq Requests /\ aborted' \subseteq sent'
    BY <1>2, <1>4
  <2> QED  BY <1>2, <1>3, <1>7, <2>1 DEF Typed, TypeOK
<1>9. QueueInv'
  <2>1. CASE inputQueue' = inputQueue  BY <1>3, <2>1 DEF QueueInv
  <2>2. CASE inputQueue' = Append(inputQueue, m)
    BY <1>1, <1>3, <1>4, <1>6, <2>2, AppendOrder DEF QueueInv
  <2> QED  BY <1>2, <2>1, <2>2
<1>10. \A t, a : OnTheWay(t, a)' <=> Carries(inputQueue', t, a) \/ Carries(inThread, t, a)
  BY <1>2 DEF OnTheWay
<1>11. Sent'  BY <1>2, <1>3, <1>7, <1>10 DEF Sent, OnTheWay
<1>12. OnePlace'
  <2>1. CASE inputQueue' = inputQueue /\ answers' = [answers EXCEPT ![r] = @ + 1]
    BY <1>2, <1>3, <1>4, <1>5, <1>6, <2>1 DEF OnePlace
  <2>2. CASE inputQueue' = Append(inputQueue, m) /\ answers' = answers
    <3>1. Carries(inputQueue', "ADD", r)  BY <1>1, <1>4, <2>2, AppendCarries
    <3> QED  BY <1>2, <1>3, <1>4, <1>5, <1>6, <1>7, <2>2, <3>1 DEF OnePlace
  <2> QED  BY <1>2, <2>1, <2>2
<1>13. AbortsFollow'
  BY <1>2, <1>3, <1>4, <1>5, <1>7, <1>10 DEF AbortsFollow, OnTheWay
<1>14. ResetsAreSafe' /\ PausedRunsNothing' /\ Stopping' /\ ResumesAlone'
  BY <1>2, <1>3, <1>5, <1>7
  DEF ResetsAreSafe, PausedRunsNothing, Stopping, ExitLeavesNothing, ResumesAlone
<1>15. BatchesRan'  BY <1>2, <1>3, <1>7 DEF BatchesRan
<1> QED  BY <1>8, <1>9, <1>11, <1>12, <1>13, <1>14, <1>15 DEF IInv

\* The parts of the invariant, and the types that the steps below use.
LEMMA InvParts ==
    ASSUME IInv
    PROVE  /\ Typed /\ QueueInv /\ Sent /\ OnePlace /\ AbortsFollow /\ BatchesRan
           /\ ResetsAreSafe /\ ResumesAlone /\ PausedRunsNothing /\ Stopping
           /\ inputQueue \in Seq(Messages) /\ abortsQueue \in Seq(Requests)
           /\ answers \in [Requests -> Nat] /\ left \in [Requests -> Nat]
           /\ call \in [Calls -> CallState] /\ idleCallbacks \in Seq(Calls)
           /\ sent \subseteq Requests /\ aborted \subseteq sent
BY DEF IInv, Typed, TypeOK

LEMMA ReceiveAbortKeeps ==
    ASSUME IInv, NEW r \in Requests, ReceiveAbort(r)
    PROVE  IInv'
<1> DEFINE m == Msg("ABORT", r)
<1>1. /\ m \in Messages /\ m \in Aborts
      /\ \A t, a : m = Msg(t, a) <=> t = "ABORT" /\ a = r
  BY DEF Messages, RequestMsgs, Msg, Aborts
<1> HIDE DEF m
<1>2. /\ r \in sent /\ aborted' = aborted \cup {r} /\ inThread = <<>> /\ inThread' = <<m>>
      /\ abortsQueue' = Append(abortsQueue, r)
      /\ UNCHANGED <<sent, call, inputQueue, answers, waiting, running, finishedIds,
                     left, pauseState, idleCallbacks, sleeping, cacheEpoch, shutdownState,
                     wakeup, signals, pc, batchQueue>>
  BY DEF ReceiveAbort, m, pauseVars, stopVars, schedVars
<1>3. IInv /\ Typed /\ QueueInv /\ Sent /\ OnePlace /\ AbortsFollow
  BY InvParts
<1>4. Scheduled' = Scheduled  BY <1>2 DEF Scheduled
<1>5. /\ inThread' \in Seq(Messages) /\ inThread' \in Seq(Aborts) /\ Len(inThread') = 1
      /\ abortsQueue' \in Seq(Requests) /\ ToSet(abortsQueue') = ToSet(abortsQueue) \cup {r}
  BY <1>1, <1>2, InvParts, AppendFacts
<1>6. /\ \A t, a : ~Carries(inThread, t, a)
      /\ \A t, a : Carries(inThread', t, a) <=> t = "ABORT" /\ a = r
  BY <1>1, <1>2 DEF Carries
<1>7. \A t, a : OnTheWay(t, a)' <=> OnTheWay(t, a) \/ (t = "ABORT" /\ a = r)
  BY <1>2, <1>6 DEF OnTheWay
<1>8. Typed'  BY <1>2, <1>3, <1>5 DEF Typed, TypeOK
<1>9. Sent'  BY <1>2, <1>3, <1>5, <1>7 DEF Sent
<1>10. AbortsFollow'  BY <1>2, <1>3, <1>4, <1>7 DEF AbortsFollow
<1>11. OnePlace' /\ BatchesRan'  BY <1>2, <1>4, InvParts DEF OnePlace, BatchesRan
<1>12. QueueInv' /\ ResetsAreSafe' /\ PausedRunsNothing' /\ Stopping' /\ ResumesAlone'
  BY <1>2, <1>4, InvParts
  DEF QueueInv, ResetsAreSafe, PausedRunsNothing, Stopping, ExitLeavesNothing, ResumesAlone
<1> QED  BY <1>8, <1>9, <1>10, <1>11, <1>12 DEF IInv

LEMMA EnqueueAbortKeeps ==
    ASSUME IInv, EnqueueAbort
    PROVE  IInv'
<1> DEFINE m == inThread[1]
<1>1. /\ inThread # <<>> /\ inThread' = <<>> /\ inputQueue' = inputQueue \o inThread
      /\ UNCHANGED <<sent, aborted, call, abortsQueue, answers, waiting, running, finishedIds,
                     left, pauseState, idleCallbacks, sleeping, cacheEpoch, shutdownState,
                     wakeup, signals, pc, batchQueue>>
  BY DEF EnqueueAbort, clientVars, pauseVars, stopVars, schedVars
<1>2. inThread \in Seq(Aborts) /\ Len(inThread) = 1 /\ inThread = <<m>> /\ m \in Aborts
  <2>1. inThread \in Seq(Aborts)  BY InvParts DEF Typed
  <2>2. Len(inThread) <= 1  BY InvParts DEF Typed, TypeOK
  <2>3. Len(inThread) \in Nat \ {0}  BY <1>1, <2>1, EmptySeq
  <2>4. \A n : n \in Nat \ {0} /\ n <= 1 => n = 1  OBVIOUS
  <2>5. Len(inThread) = 1  BY <2>2, <2>3, <2>4, Zenon
  <2> QED  BY <2>1, <2>5, SingletonFacts
<1>3. inputQueue' = Append(inputQueue, m)
  <2> HIDE DEF m
  <2>1. inputQueue' = inputQueue \o <<m>>  BY <1>1, <1>2
  <2>2. m \in Messages  BY <1>2 DEF Messages, RequestMsgs, Aborts
  <2> QED  BY <2>1, <2>2, InvParts
<1>4. m \in Messages /\ m.type = "ABORT" /\ m \notin ResumeMsgs
  BY <1>2 DEF Messages, RequestMsgs, Aborts, ResumeMsgs, Msg
<1>5. /\ \A t, a : Carries(inThread, t, a) <=> m = Msg(t, a)
      /\ \A t, a : ~Carries(inThread', t, a)
  BY <1>1, <1>2 DEF Carries
<1> HIDE DEF m
<1>6. inputQueue' \in Seq(Messages)
      /\ \A t, a : Carries(inputQueue', t, a) <=> Carries(inputQueue, t, a) \/ m = Msg(t, a)
  BY <1>3, <1>4, InvParts, AppendCarries
<1>7. \A t, a : OnTheWay(t, a)' <=> OnTheWay(t, a)
  BY <1>5, <1>6 DEF OnTheWay
<1>8. \A t, a : t # "ABORT" => (Carries(inputQueue', t, a) <=> Carries(inputQueue, t, a))
  BY <1>4, <1>6, MessageIs
<1>9. Scheduled' = Scheduled  BY <1>1 DEF Scheduled
<1>10. Typed'
  <2>1. inThread' \in Seq(Messages) /\ inThread' \in Seq(Aborts) /\ Len(inThread') <= 1
    BY <1>1
  <2> QED  BY <1>1, <1>6, <2>1, InvParts DEF Typed, TypeOK
<1>11. QueueInv'  BY <1>3, <1>4, InvParts, AppendOrder DEF QueueInv
<1>12. Sent'  BY <1>1, <1>7, <1>8, InvParts DEF Sent
<1>13. AbortsFollow'  BY <1>1, <1>7, <1>8, <1>9, InvParts DEF AbortsFollow
<1>14. OnePlace' /\ BatchesRan'  BY <1>1, <1>8, <1>9, InvParts DEF OnePlace, BatchesRan
<1>15. ResetsAreSafe' /\ PausedRunsNothing' /\ Stopping' /\ ResumesAlone'
  BY <1>1, <1>8, <1>9, InvParts
  DEF ResetsAreSafe, PausedRunsNothing, Stopping, ExitLeavesNothing, ResumesAlone
<1> QED  BY <1>10, <1>11, <1>12, <1>13, <1>14, <1>15 DEF IInv

LEMMA ReceiveCallKeeps ==
    ASSUME IInv, NEW c \in Calls, ReceiveCall(c)
    PROVE  IInv'
<1> DEFINE m == Msg("UTILITY", c)
<1>1. /\ m \in Messages /\ m.type = "UTILITY" /\ m.arg = c
      /\ m \in ResumeMsgs <=> c \in {"resume", "wake_up"}
      /\ \A t, a : m = Msg(t, a) <=> t = "UTILITY" /\ a = c
  BY DEF Messages, Msg, ResumeMsgs
<1> HIDE DEF m
<1>2. /\ call[c] = "unsent" /\ call' = [call EXCEPT ![c] = "sent"]
      /\ c \in {"resume", "wake_up"} => \A d \in Calls : call[d] # "sent"
      /\ c = "resume" => ~sleeping
      /\ inputQueue' = Append(inputQueue, m)
      /\ UNCHANGED <<sent, aborted, inThread, abortsQueue, answers, waiting, running,
                     finishedIds, left, pauseState, idleCallbacks, sleeping, cacheEpoch,
                     shutdownState, wakeup, signals, pc, batchQueue>>
  BY DEF ReceiveCall, Outstanding, m, pauseVars, stopVars, schedVars
<1>3. inputQueue' \in Seq(Messages)
      /\ \A t, a : Carries(inputQueue', t, a) <=> Carries(inputQueue, t, a) \/ m = Msg(t, a)
  BY <1>1, <1>2, InvParts, AppendCarries
<1>4. \A t, a : t # "UTILITY" => (Carries(inputQueue', t, a) <=> Carries(inputQueue, t, a))
  BY <1>1, <1>3
<1>5. \A t, a : t # "UTILITY" => (OnTheWay(t, a)' <=> OnTheWay(t, a))
  BY <1>2, <1>4 DEF OnTheWay
<1>6. Scheduled' = Scheduled  BY <1>2 DEF Scheduled
<1>7. call' \in [Calls -> CallState] /\ call'[c] = "sent"
      /\ \A d \in Calls : d # c => call'[d] = call[d]
  BY <1>2, InvParts DEF CallState
<1>8. c \notin ToSet(idleCallbacks) /\ ~Carries(inputQueue, "UTILITY", c)
      /\ ToSet(idleCallbacks) \subseteq Calls
  BY <1>2, InvParts, ElementFacts DEF Sent
<1>9. Typed'  BY <1>2, <1>3, <1>7, InvParts DEF Typed, TypeOK
<1>10. ASSUME c \in {"resume", "wake_up"}
       PROVE  idleCallbacks = <<>> /\ \A i \in DOMAIN inputQueue : inputQueue[i].type # "UTILITY"
  <2>1. ToSet(idleCallbacks) = {}  BY <1>2, <1>8, <1>10, InvParts DEF Sent
  <2>2. idleCallbacks = <<>>  BY <2>1, InvParts, ElementFacts
  <2>3. ASSUME NEW i \in DOMAIN inputQueue, inputQueue[i].type = "UTILITY"  PROVE FALSE
    <3>1. inputQueue[i] \in Messages  BY InvParts
    <3>2. inputQueue[i].arg \in Calls  BY <2>3, <3>1 DEF Messages, RequestMsgs, Msg
    <3>3. Carries(inputQueue, "UTILITY", inputQueue[i].arg)
      BY <2>3, <3>1, MessageIs DEF Carries
    <3> QED  BY <1>2, <1>10, <3>2, <3>3, InvParts DEF Sent
  <2> QED  BY <2>2, <2>3
<1>11. QueueInv'
  BY <1>1, <1>2, <1>8, <1>10, InvParts, AppendOrder DEF QueueInv
<1>12. Sent'  BY <1>1, <1>2, <1>3, <1>4, <1>5, <1>7, <1>8, InvParts DEF Sent
<1>13. AbortsFollow'  BY <1>2, <1>4, <1>5, <1>6, InvParts DEF AbortsFollow
<1>14. OnePlace' /\ BatchesRan'  BY <1>2, <1>4, <1>6, InvParts DEF OnePlace, BatchesRan
<1>15. ResumesAlone'  BY <1>1, <1>2, <1>3, <1>10, InvParts DEF ResumesAlone
<1>16. ResetsAreSafe' /\ PausedRunsNothing' /\ Stopping'
  BY <1>2, <1>6, InvParts DEF ResetsAreSafe, PausedRunsNothing, Stopping, ExitLeavesNothing
<1> QED  BY <1>9, <1>11, <1>12, <1>13, <1>14, <1>15, <1>16 DEF IInv

LEMMA SignalKeeps ==
    ASSUME EngineAssumption, IInv, Signal
    PROVE  IInv'
<1>1. /\ signals < MaxSignals /\ shutdownState' = "REQUESTED" /\ wakeup' = TRUE
      /\ signals' = signals + 1 /\ Alive
      /\ UNCHANGED <<sent, aborted, call, inThread, inputQueue, abortsQueue, answers, waiting,
                     running, finishedIds, left, pauseState, idleCallbacks, sleeping,
                     cacheEpoch, pc, batchQueue>>
  BY DEF Signal, clientVars, threadVars, pauseVars, schedVars
<1>2. Scheduled' = Scheduled  BY <1>1 DEF Scheduled
<1>3. \A t, a : OnTheWay(t, a)' <=> OnTheWay(t, a)  BY <1>1 DEF OnTheWay
<1>4. Typed'
  <2>1. signals' \in 0..MaxSignals  BY <1>1, InvParts DEF Typed, TypeOK, EngineAssumption
  <2> QED  BY <1>1, <2>1, InvParts DEF Typed, TypeOK
<1>5. QueueInv' /\ Sent' /\ OnePlace' /\ AbortsFollow' /\ BatchesRan'
  BY <1>1, <1>2, <1>3, InvParts DEF QueueInv, Sent, OnePlace, AbortsFollow, BatchesRan
<1>6. ResetsAreSafe' /\ PausedRunsNothing' /\ ResumesAlone'
  BY <1>1, InvParts DEF ResetsAreSafe, PausedRunsNothing, ResumesAlone
<1>7. Stopping'  BY <1>1, <1>2 DEF Stopping, ExitLeavesNothing, Alive
<1> QED  BY <1>4, <1>5, <1>6, <1>7 DEF IInv

LEMMA WakeupEngineKeeps ==
    ASSUME IInv, WakeupEngine
    PROVE  IInv'
<1> DEFINE m == Msg("WAKEUP", "none")
<1>1. /\ m \in Messages /\ m.type = "WAKEUP" /\ m \notin ResumeMsgs
      /\ \A t, a : t # "WAKEUP" => m # Msg(t, a)
  BY DEF Messages, Msg, ResumeMsgs
<1> HIDE DEF m
<1>2. /\ wakeup' = FALSE /\ inputQueue' = Append(inputQueue, m)
      /\ UNCHANGED <<sent, aborted, call, inThread, abortsQueue, answers, waiting, running,
                     finishedIds, left, pauseState, idleCallbacks, sleeping, cacheEpoch,
                     shutdownState, signals, pc, batchQueue>>
  BY DEF WakeupEngine, m, clientVars, pauseVars, schedVars
<1>3. inputQueue' \in Seq(Messages)
      /\ \A t, a : t # "WAKEUP" => (Carries(inputQueue', t, a) <=> Carries(inputQueue, t, a))
  BY <1>1, <1>2, InvParts, AppendCarries
<1>4. \A t, a : t # "WAKEUP" => (OnTheWay(t, a)' <=> OnTheWay(t, a))
  BY <1>2, <1>3 DEF OnTheWay
<1>5. Scheduled' = Scheduled  BY <1>2 DEF Scheduled
<1>6. Typed'  BY <1>2, <1>3, InvParts DEF Typed, TypeOK
<1>7. QueueInv'  BY <1>1, <1>2, InvParts, AppendOrder DEF QueueInv
<1>8. Sent' /\ OnePlace' /\ AbortsFollow' /\ BatchesRan'
  BY <1>2, <1>3, <1>4, <1>5, InvParts DEF Sent, OnePlace, AbortsFollow, BatchesRan
<1>9. ResetsAreSafe' /\ PausedRunsNothing' /\ Stopping' /\ ResumesAlone'
  BY <1>2, <1>3, <1>5, InvParts
  DEF ResetsAreSafe, PausedRunsNothing, Stopping, ExitLeavesNothing, ResumesAlone
<1> QED  BY <1>6, <1>7, <1>8, <1>9 DEF IInv

\* Steps of the loop that only move on.
LEMMA PcKeeps ==
    ASSUME IInv, UNCHANGED <<clientVars, threadVars, schedVars, pauseVars, wakeup, signals,
                             shutdownState, batchQueue>>,
           pc' \in {"shutdown", "input", "get", "drain", "step", "result", "dead"},
           pc' # "result" => Len(batchQueue) < BatchQueueSize
    PROVE  IInv'
<1>1. /\ UNCHANGED <<sent, aborted, call, inThread, inputQueue, abortsQueue, answers, waiting,
                     running, finishedIds, left, pauseState, idleCallbacks, sleeping,
                     cacheEpoch, wakeup, signals, shutdownState, batchQueue>>
      /\ pc' \in {"shutdown", "input", "get", "drain", "step", "result", "dead"}
  BY DEF clientVars, threadVars, pauseVars, schedVars
<1>2. Scheduled' = Scheduled  BY <1>1 DEF Scheduled
<1>3. \A t, a : OnTheWay(t, a)' <=> OnTheWay(t, a)  BY <1>1 DEF OnTheWay
<1>4. Typed'  BY <1>1, InvParts DEF Typed, TypeOK
<1>5. QueueInv' /\ Sent' /\ OnePlace' /\ AbortsFollow' /\ BatchesRan'
  BY <1>1, <1>2, <1>3, InvParts DEF QueueInv, Sent, OnePlace, AbortsFollow, BatchesRan
<1>6. ResetsAreSafe' /\ PausedRunsNothing' /\ ResumesAlone'
  BY <1>1, InvParts DEF ResetsAreSafe, PausedRunsNothing, ResumesAlone
<1>7. Stopping'  BY <1>1, <1>2, InvParts DEF Stopping, ExitLeavesNothing
<1> QED  BY <1>4, <1>5, <1>6, <1>7 DEF IInv

LEMMA ExecutorFailedKeeps ==
    ASSUME IInv, ExecutorFailed
    PROVE  IInv'
<1>1. Len(batchQueue) < BatchQueueSize
  BY InvParts DEF Typed, ExecutorFailed
<1> QED  BY <1>1, PcKeeps DEF ExecutorFailed, stopVars

LEMMA StopPollingKeeps ==
    ASSUME IInv, StopPolling
    PROVE  IInv'
<1>1. Len(batchQueue) < BatchQueueSize
  BY InvParts DEF Typed, StopPolling
<1> QED  BY <1>1, PcKeeps DEF StopPolling, stopVars

LEMMA EndDrainKeeps ==
    ASSUME IInv, EndDrain
    PROVE  IInv'
<1>1. Len(batchQueue) < BatchQueueSize
  BY InvParts DEF Typed, EndDrain
<1> QED  BY <1>1, PcKeeps DEF EndDrain, stopVars

LEMMA NothingToScheduleKeeps ==
    ASSUME IInv, NothingToSchedule
    PROVE  IInv'
<1>1. Len(batchQueue) < BatchQueueSize
  BY InvParts DEF Typed, NothingToSchedule
<1> QED  BY <1>1, PcKeeps DEF NothingToSchedule, stopVars

----------------------------------------------------------------------------
(* The queues of the scheduler.                                            *)

\* The queues hold different requests, each once.
Queues(w, run) ==
    /\ w \in Seq(Requests) /\ run \in Seq(Requests)
    /\ IsInjective(w \o run) /\ Len(run) <= MaxNumRunningReqs

LEMMA QueuesApart ==
    ASSUME NEW w \in Seq(Requests), NEW run \in Seq(Requests)
    PROVE  IsInjective(w \o run) <=>
             IsInjective(w) /\ IsInjective(run) /\ ToSet(w) \cap ToSet(run) = {}
BY ConcatFacts

\* Removing requests from both queues.
LEMMA RemoveFromQueues ==
    ASSUME NEW w, NEW run, Queues(w, run), NEW ids, NEW more
    PROVE  /\ Queues(Without(w, ids), Without(run, more))
           /\ ToSet(Without(w, ids)) = ToSet(w) \ ids
           /\ ToSet(Without(run, more)) = ToSet(run) \ more
           /\ run = <<>> => Without(run, more) = <<>>
<1>1. /\ w \in Seq(Requests) /\ run \in Seq(Requests) /\ Len(run) <= MaxNumRunningReqs
      /\ IsInjective(w) /\ IsInjective(run) /\ ToSet(w) \cap ToSet(run) = {}
  BY QueuesApart DEF Queues
<1> DEFINE u == Without(w, ids)
           v == Without(run, more)
<1>2. /\ u \in Seq(Requests) /\ ToSet(u) = ToSet(w) \ ids /\ IsInjective(u)
      /\ v \in Seq(Requests) /\ ToSet(v) = ToSet(run) \ more /\ IsInjective(v)
      /\ Len(v) <= Len(run)
  BY <1>1, WithoutFacts
<1>3. Len(v) <= MaxNumRunningReqs  BY <1>1, <1>2, EngineAssumption DEF EngineAssumption
<1>4. run = <<>> => v = <<>>  BY <1>1, <1>2, ElementFacts
<1> HIDE DEF u, v
<1>5. ToSet(u) \cap ToSet(v) = {}  BY <1>1, <1>2
<1>6. Queues(u, v)  BY <1>2, <1>3, <1>5, QueuesApart DEF Queues
<1> QED  BY <1>2, <1>4, <1>6 DEF u, v

\* A reset puts the running requests at the head of the waiting queue.
LEMMA ResetQueues ==
    ASSUME NEW w, NEW run, Queues(w, run)
    PROVE  Queues(run \o w, <<>>) /\ ToSet(run \o w) = ToSet(w) \cup ToSet(run)
<1>1. /\ w \in Seq(Requests) /\ run \in Seq(Requests)
      /\ IsInjective(w) /\ IsInjective(run) /\ ToSet(w) \cap ToSet(run) = {}
  BY QueuesApart DEF Queues
<1>2. /\ run \o w \in Seq(Requests) /\ ToSet(run \o w) = ToSet(run) \cup ToSet(w)
      /\ IsInjective(run \o w)
  BY <1>1, ConcatFacts
<1>3. <<>> \in Seq(Requests) /\ (run \o w) \o <<>> = run \o w /\ Len(<<>>) = 0  BY <1>2
<1> QED  BY <1>2, <1>3, EngineAssumption DEF Queues, EngineAssumption

\* A new request at the end of the waiting queue.
LEMMA AddToQueue ==
    ASSUME NEW w, NEW run, Queues(w, run), NEW r \in Requests,
           r \notin ToSet(w) \cup ToSet(run)
    PROVE  Queues(Append(w, r), run) /\ ToSet(Append(w, r)) = ToSet(w) \cup {r}
<1>1. /\ w \in Seq(Requests) /\ run \in Seq(Requests) /\ Len(run) <= MaxNumRunningReqs
      /\ IsInjective(w) /\ IsInjective(run) /\ ToSet(w) \cap ToSet(run) = {}
  BY QueuesApart DEF Queues
<1>2. /\ Append(w, r) \in Seq(Requests) /\ ToSet(Append(w, r)) = ToSet(w) \cup {r}
      /\ IsInjective(Append(w, r))
  BY <1>1, AppendFacts
<1>3. ToSet(Append(w, r)) \cap ToSet(run) = {}  BY <1>1, <1>2
<1> QED  BY <1>1, <1>2, <1>3, QueuesApart DEF Queues

\* The first k waiting requests start to run.
LEMMA AdmitToRunning ==
    ASSUME NEW w, NEW run, Queues(w, run), NEW k \in 0..Len(w),
           Len(run) + k <= MaxNumRunningReqs
    PROVE  LET later == SubSeq(w, k + 1, Len(w))
               now == run \o SubSeq(w, 1, k)
           IN /\ Queues(later, now) /\ ToSet(later) \subseteq ToSet(w)
              /\ ToSet(later) \cup ToSet(now) = ToSet(w) \cup ToSet(run)
<1> DEFINE a == SubSeq(w, 1, k)
           b == SubSeq(w, k + 1, Len(w))
           now == run \o a
<1>1. /\ w \in Seq(Requests) /\ run \in Seq(Requests)
      /\ IsInjective(w) /\ IsInjective(run) /\ ToSet(w) \cap ToSet(run) = {}
  BY QueuesApart DEF Queues
<1>2. /\ a \in Seq(Requests) /\ b \in Seq(Requests) /\ Len(a) = k
      /\ ToSet(w) = ToSet(a) \cup ToSet(b) /\ IsInjective(a) /\ IsInjective(b)
      /\ ToSet(a) \cap ToSet(b) = {}
  <2>1. /\ a \in Seq(Requests) /\ b \in Seq(Requests) /\ Len(a) = k
        /\ ToSet(w) = ToSet(a) \cup ToSet(b)
    <3>1. a \in Seq(Requests)  BY <1>1, SplitFacts
    <3>2. b \in Seq(Requests)  BY <1>1, SplitFacts
    <3>3. Len(a) = k  BY <1>1, SplitFacts
    <3>4. ToSet(w) = ToSet(a) \cup ToSet(b)  BY <1>1, SplitFacts
    <3> QED  BY <3>1, <3>2, <3>3, <3>4
  <2>2. IsInjective(a) /\ IsInjective(b) /\ ToSet(a) \cap ToSet(b) = {}
    BY <1>1, SplitFacts
  <2> QED  BY <2>1, <2>2
<1> HIDE DEF a, b
<1>3. ToSet(run) \cap ToSet(a) = {}  BY <1>1, <1>2
<1>4. /\ now \in Seq(Requests) /\ Len(now) = Len(run) + Len(a) /\ IsInjective(now)
      /\ ToSet(now) = ToSet(run) \cup ToSet(a)
  <2>1. /\ now \in Seq(Requests) /\ Len(now) = Len(run) + Len(a)
        /\ ToSet(now) = ToSet(run) \cup ToSet(a)
    BY <1>1, <1>2, ConcatFacts
  <2>2. IsInjective(now)  BY <1>1, <1>2, <1>3, ConcatFacts
  <2> QED  BY <2>1, <2>2
<1> HIDE DEF now
<1>5. ToSet(b) \cap ToSet(now) = {}  BY <1>1, <1>2, <1>4
<1>6. Len(now) <= MaxNumRunningReqs  BY <1>2, <1>4
<1>7. Queues(b, now)  BY <1>2, <1>4, <1>5, <1>6, QueuesApart DEF Queues
<1>8. ToSet(b) \subseteq ToSet(w) /\ ToSet(b) \cup ToSet(now) = ToSet(w) \cup ToSet(run)
  BY <1>2, <1>4
<1> QED  BY <1>7, <1>8 DEF a, b, now

\* The queues of a state that satisfies the invariant.
LEMMA InvQueues ==
    ASSUME IInv
    PROVE  /\ Queues(waiting, running) /\ Scheduled = ToSet(waiting) \cup ToSet(running)
           /\ Scheduled \subseteq Requests /\ finishedIds \subseteq Requests
<1>1. Queues(waiting, running) /\ finishedIds \subseteq Requests
  BY DEF IInv, Typed, TypeOK, Queues
<1>2. ToSet(waiting) \subseteq Requests /\ ToSet(running) \subseteq Requests
  BY <1>1, ElementFacts DEF Queues
<1> QED  BY <1>1, <1>2 DEF Scheduled

\* finish_requests removes the requests and remembers their ids.
LEMMA FinishFacts ==
    ASSUME IInv, NEW ids, FinishRequests(ids)
    PROVE  /\ Queues(waiting', running') /\ Scheduled' = Scheduled \ ids
           /\ finishedIds' \subseteq Requests /\ ToSet(waiting') \subseteq ToSet(waiting)
           /\ running = <<>> => running' = <<>>
<1>1. /\ waiting' = Without(waiting, ids) /\ running' = Without(running, ids)
      /\ finishedIds' = finishedIds \cup (ids \cap Scheduled)
  BY DEF FinishRequests
<1>2. /\ Queues(waiting', running')
      /\ ToSet(waiting') = ToSet(waiting) \ ids /\ ToSet(running') = ToSet(running) \ ids
      /\ running = <<>> => running' = <<>>
  BY <1>1, InvQueues, RemoveFromQueues
<1>3. Scheduled' = Scheduled \ ids  BY <1>2 DEF Scheduled
<1> QED  BY <1>1, <1>2, <1>3, InvQueues

\* Aborting everything answers every request of the scheduler.
LEMMA AbortAllFacts ==
    ASSUME IInv, AbortAll
    PROVE  /\ Queues(waiting', running') /\ Scheduled' = {}
           /\ finishedIds' \subseteq Requests /\ left' = left
           /\ ToSet(waiting') \subseteq ToSet(waiting)
           /\ running = <<>> => running' = <<>>
           /\ answers' \in [Requests -> Nat]
           /\ \A r \in Requests : answers'[r] = IF r \in Scheduled THEN 1 ELSE answers[r]
<1>1. FinishRequests(Scheduled) /\ left' = left
      /\ answers' = [r \in Requests |-> IF r \in Scheduled THEN answers[r] + 1 ELSE answers[r]]
  BY DEF AbortAll
<1>2. /\ Queues(waiting', running') /\ Scheduled' = {} /\ finishedIds' \subseteq Requests
      /\ ToSet(waiting') \subseteq ToSet(waiting)
      /\ running = <<>> => running' = <<>>
  BY <1>1, FinishFacts
<1>3. \A r \in Scheduled : answers[r] = 0  BY InvParts, InvQueues DEF OnePlace
<1>4. answers' \in [Requests -> Nat]
      /\ \A r \in Requests : answers'[r] = IF r \in Scheduled THEN 1 ELSE answers[r]
  BY <1>1, <1>3, InvParts
<1> QED  BY <1>1, <1>2, <1>4

----------------------------------------------------------------------------
(* One message of the input queue.                                         *)

LEMMA TakeHead ==
    ASSUME IInv, NEW next, HandleClientRequest(next)
    PROVE  LET h == Head(inputQueue) IN
           /\ h \in Messages /\ inputQueue' \in Seq(Messages) /\ QueueInv'
           /\ \A t, a : Carries(inputQueue, t, a) <=>
                          Carries(inputQueue', t, a) \/ (h.type = t /\ h.arg = a)
           /\ h.type \in {"ADD", "UTILITY"} => ~Carries(inputQueue', h.type, h.arg)
           /\ h.type = "ABORT" => ~Carries(inputQueue', "ADD", h.arg)
           /\ h.type = "UTILITY" => /\ ~Carries(inputQueue', "UTILITY", "resume")
                                    /\ ~Carries(inputQueue', "UTILITY", "wake_up")
           /\ \A t, a : OnTheWay(t, a) <=> OnTheWay(t, a)' \/ (h.type = t /\ h.arg = a)
           /\ pc' = next
           /\ UNCHANGED <<sent, aborted, inThread, abortsQueue, shutdownState, wakeup, signals,
                          batchQueue>>
<1> DEFINE h == Head(inputQueue)
<1>1. /\ inputQueue # <<>> /\ inputQueue' = Tail(inputQueue) /\ pc' = next
      /\ UNCHANGED <<sent, aborted, inThread, abortsQueue, shutdownState, wakeup, signals,
                     batchQueue>>
  BY DEF HandleClientRequest, stopVars
<1>2. /\ h \in Messages /\ inputQueue' \in Seq(Messages)
      /\ \A t, a : Carries(inputQueue, t, a) <=> Carries(inputQueue', t, a) \/ h = Msg(t, a)
  BY <1>1, InvParts, TailCarries
<1>3. /\ QueueInv'
      /\ h.type \in {"ADD", "UTILITY"} => ~Carries(inputQueue', h.type, h.arg)
      /\ h.type = "ABORT" => ~Carries(inputQueue', "ADD", h.arg)
      /\ h.type = "UTILITY" =>
           \A c : ~(Msg("UTILITY", c) \in ResumeMsgs /\ Carries(inputQueue', "UTILITY", c))
  BY <1>1, InvParts, TailOrder DEF QueueInv
<1> HIDE DEF h
<1>4. \A t, a : h = Msg(t, a) <=> h.type = t /\ h.arg = a  BY <1>2, MessageIs
<1>5. \A t, a : OnTheWay(t, a) <=> OnTheWay(t, a)' \/ (h.type = t /\ h.arg = a)
  BY <1>1, <1>2, <1>4 DEF OnTheWay
<1>6. h.type = "UTILITY" => /\ ~Carries(inputQueue', "UTILITY", "resume")
                            /\ ~Carries(inputQueue', "UTILITY", "wake_up")
  BY <1>3 DEF ResumeMsgs
<1>7. \A t, a : Carries(inputQueue, t, a) <=>
                  Carries(inputQueue', t, a) \/ (h.type = t /\ h.arg = a)
  BY <1>2, <1>4
<1> QED  BY <1>1, <1>2, <1>3, <1>5, <1>6, <1>7 DEF h

LEMMA HandleAddKeeps ==
    ASSUME IInv, NEW next \in {"input", "drain"}, HandleClientRequest(next), pc # "result",
           Head(inputQueue).type = "ADD", HandleAdd(Head(inputQueue).arg)
    PROVE  IInv'
<1> DEFINE r == Head(inputQueue).arg
<1>1. r \in Requests
  BY TakeHead DEF Messages, RequestMsgs, Msg
<1>2. /\ inputQueue' \in Seq(Messages) /\ QueueInv'
      /\ \A t, a : Carries(inputQueue, t, a) <=>
                     Carries(inputQueue', t, a) \/ (t = "ADD" /\ a = r)
      /\ ~Carries(inputQueue', "ADD", r)
      /\ \A t, a : OnTheWay(t, a) <=> OnTheWay(t, a)' \/ (t = "ADD" /\ a = r)
      /\ pc' = next
      /\ UNCHANGED <<sent, aborted, inThread, abortsQueue, shutdownState, wakeup, signals,
                     batchQueue>>
  BY TakeHead
<1>3. /\ IF is_running
         THEN waiting' = Append(waiting, r) /\ answers' = answers
         ELSE answers' = [answers EXCEPT ![r] = @ + 1] /\ waiting' = waiting
      /\ UNCHANGED <<running, finishedIds, left, pauseState, idleCallbacks, sleeping,
                     cacheEpoch, call>>
  BY DEF HandleAdd, pauseVars
<1> HIDE DEF r
<1>4. r \in sent /\ answers[r] = 0 /\ r \notin Scheduled
  BY <1>1, <1>2, InvParts DEF Sent, OnePlace
<1>5. /\ Queues(waiting', running')
      /\ Scheduled' = IF is_running THEN Scheduled \cup {r} ELSE Scheduled
      /\ ToSet(waiting') \subseteq ToSet(waiting) \cup {r}
  <2>1. CASE is_running
    <3>1. Queues(waiting, running) /\ r \notin ToSet(waiting) \cup ToSet(running)
      BY <1>4, InvQueues
    <3>2. waiting' = Append(waiting, r) /\ running' = running  BY <1>3, <2>1
    <3>3. Queues(waiting', running') /\ ToSet(waiting') = ToSet(waiting) \cup {r}
      BY <1>1, <3>1, <3>2, AddToQueue
    <3> QED  BY <2>1, <3>2, <3>3 DEF Scheduled
  <2>2. CASE ~is_running  BY <1>3, <2>2, InvQueues DEF Scheduled
  <2> QED  BY <2>1, <2>2
<1>6. answers' \in [Requests -> Nat]
      /\ \A x \in Requests : answers'[x] = IF x = r /\ ~is_running THEN 1 ELSE answers[x]
  BY <1>1, <1>3, <1>4, InvParts
<1>7. Typed'  BY <1>2, <1>3, <1>5, <1>6, InvParts DEF Typed, TypeOK, Queues
<1>8. Sent'  BY <1>2, <1>3, InvParts DEF Sent
<1>9. OnePlace'
  BY <1>1, <1>2, <1>3, <1>4, <1>5, <1>6, InvParts DEF OnePlace
<1>10. AbortsFollow'  BY <1>1, <1>2, <1>5, InvParts DEF AbortsFollow
<1>11. ResetsAreSafe' /\ PausedRunsNothing' /\ ResumesAlone'
  BY <1>2, <1>3, InvParts DEF ResetsAreSafe, PausedRunsNothing, ResumesAlone
<1>12. Stopping'
  BY <1>2, <1>5, InvParts DEF Stopping, ExitLeavesNothing, is_running
<1>13. BatchesRan'  BY <1>2, <1>5, InvParts DEF BatchesRan
<1> QED  BY <1>2, <1>7, <1>8, <1>9, <1>10, <1>11, <1>12, <1>13 DEF IInv

LEMMA HandleAbortKeeps ==
    ASSUME IInv, NEW next \in {"input", "drain"}, HandleClientRequest(next), pc # "result",
           Head(inputQueue).type = "ABORT", HandleAbort(Head(inputQueue).arg)
    PROVE  IInv'
<1> DEFINE r == Head(inputQueue).arg
<1>1. r \in Requests
  BY TakeHead DEF Messages, RequestMsgs, Msg
<1>2. /\ inputQueue' \in Seq(Messages) /\ QueueInv'
      /\ \A t, a : Carries(inputQueue, t, a) <=>
                     Carries(inputQueue', t, a) \/ (t = "ABORT" /\ a = r)
      /\ ~Carries(inputQueue', "ADD", r)
      /\ \A t, a : OnTheWay(t, a) <=> OnTheWay(t, a)' \/ (t = "ABORT" /\ a = r)
      /\ pc' = next
      /\ UNCHANGED <<sent, aborted, inThread, abortsQueue, shutdownState, wakeup, signals,
                     batchQueue>>
  BY TakeHead
<1>3. /\ FinishRequests({r})
      /\ UNCHANGED <<left, answers, pauseState, idleCallbacks, sleeping, cacheEpoch, call>>
  BY DEF HandleAbort, pauseVars
<1> HIDE DEF r
<1>4. r \in aborted  BY <1>1, <1>2, InvParts DEF Sent
<1>5. /\ Queues(waiting', running') /\ Scheduled' = Scheduled \ {r}
      /\ finishedIds' \subseteq Requests /\ (running = <<>> => running' = <<>>)
      /\ ToSet(waiting') \subseteq ToSet(waiting)
  BY <1>3, FinishFacts
<1>6. Typed'  BY <1>2, <1>3, <1>5, InvParts DEF Typed, TypeOK, Queues
<1>7. Sent'  BY <1>2, <1>3, InvParts DEF Sent
<1>8. OnePlace'  BY <1>2, <1>3, <1>4, <1>5, InvParts DEF OnePlace
<1>9. AbortsFollow'  BY <1>2, <1>5, InvParts DEF AbortsFollow
<1>10. ResetsAreSafe' /\ PausedRunsNothing' /\ ResumesAlone'
  BY <1>2, <1>3, <1>5, InvParts DEF ResetsAreSafe, PausedRunsNothing, ResumesAlone
<1>11. Stopping'  BY <1>2, <1>5, InvParts DEF Stopping, ExitLeavesNothing
<1>12. BatchesRan'  BY <1>2, <1>5, InvParts DEF BatchesRan
<1> QED  BY <1>2, <1>6, <1>7, <1>8, <1>9, <1>10, <1>11, <1>12 DEF IInv

LEMMA WakeupKeeps ==
    ASSUME IInv, NEW next \in {"input", "drain"}, HandleClientRequest(next), pc # "result",
           Head(inputQueue).type = "WAKEUP", UNCHANGED <<schedVars, pauseVars, call>>
    PROVE  IInv'
<1>1. /\ inputQueue' \in Seq(Messages) /\ QueueInv'
      /\ \A t, a : t # "WAKEUP" => (Carries(inputQueue, t, a) <=> Carries(inputQueue', t, a))
      /\ \A t, a : t # "WAKEUP" => (OnTheWay(t, a) <=> OnTheWay(t, a)')
      /\ pc' = next
      /\ UNCHANGED <<sent, aborted, inThread, abortsQueue, shutdownState, wakeup, signals,
                     batchQueue>>
  BY TakeHead
<1>2. UNCHANGED <<waiting, running, finishedIds, left, answers, pauseState, idleCallbacks,
                  sleeping, cacheEpoch, call>>
  BY DEF schedVars, pauseVars
<1>3. Scheduled' = Scheduled  BY <1>2 DEF Scheduled
<1>4. Typed'  BY <1>1, <1>2, InvParts DEF Typed, TypeOK
<1>5. Sent' /\ OnePlace' /\ AbortsFollow' /\ BatchesRan'
  BY <1>1, <1>2, <1>3, InvParts DEF Sent, OnePlace, AbortsFollow, BatchesRan
<1>6. ResetsAreSafe' /\ PausedRunsNothing' /\ ResumesAlone'
  BY <1>1, <1>2, InvParts DEF ResetsAreSafe, PausedRunsNothing, ResumesAlone
<1>7. Stopping'  BY <1>1, <1>2, <1>3, InvParts DEF Stopping, ExitLeavesNothing
<1> QED  BY <1>1, <1>4, <1>5, <1>6, <1>7 DEF IInv

----------------------------------------------------------------------------
(* Utility calls.                                                          *)

\* What taking a call from the input queue does to its bookkeeping: the call
\* was sent, waits nowhere else, and no resume or wake_up is behind it.
LEMMA TakeCall ==
    ASSUME IInv, NEW next \in {"input", "drain"}, HandleClientRequest(next),
           Head(inputQueue).type = "UTILITY"
    PROVE  LET c == Head(inputQueue).arg IN
           /\ c \in Calls /\ call[c] = "sent" /\ c \notin ToSet(idleCallbacks)
           /\ c \in {"resume", "wake_up"} => idleCallbacks = <<>>
           /\ c = "resume" => ~sleeping
           /\ inputQueue' \in Seq(Messages) /\ QueueInv'
           /\ \A t, a : t # "UTILITY" =>
                (Carries(inputQueue, t, a) <=> Carries(inputQueue', t, a))
           /\ \A t, a : t # "UTILITY" => (OnTheWay(t, a) <=> OnTheWay(t, a)')
           /\ \A a : Carries(inputQueue', "UTILITY", a) =>
                       Carries(inputQueue, "UTILITY", a) /\ a # c
           /\ ~Carries(inputQueue', "UTILITY", "resume")
           /\ ~Carries(inputQueue', "UTILITY", "wake_up")
           /\ pc' = next
           /\ UNCHANGED <<sent, aborted, inThread, abortsQueue, shutdownState, wakeup, signals,
                          batchQueue>>
<1> DEFINE c == Head(inputQueue).arg
<1>1. c \in Calls
  BY TakeHead DEF Messages, RequestMsgs, Msg
<1>2. Carries(inputQueue, "UTILITY", c)
  BY TakeHead
<1>3. call[c] = "sent" /\ c \notin ToSet(idleCallbacks)  BY <1>1, <1>2, InvParts DEF Sent
<1>4. /\ c \in {"resume", "wake_up"} => idleCallbacks = <<>>
      /\ c = "resume" => ~sleeping
  BY <1>2, InvParts DEF ResumesAlone
<1>5. /\ inputQueue' \in Seq(Messages) /\ QueueInv'
      /\ \A t, a : t # "UTILITY" =>
           (Carries(inputQueue, t, a) <=> Carries(inputQueue', t, a))
      /\ \A t, a : t # "UTILITY" => (OnTheWay(t, a) <=> OnTheWay(t, a)')
      /\ ~Carries(inputQueue', "UTILITY", "resume")
      /\ ~Carries(inputQueue', "UTILITY", "wake_up")
      /\ pc' = next
      /\ UNCHANGED <<sent, aborted, inThread, abortsQueue, shutdownState, wakeup, signals,
                     batchQueue>>
  BY TakeHead
<1>6. \A a : Carries(inputQueue', "UTILITY", a) =>
               Carries(inputQueue, "UTILITY", a) /\ a # c
  BY TakeHead
<1> QED  BY <1>1, <1>3, <1>4, <1>5, <1>6

\* The parts that a call decides by which requests and calls it leaves where.
LEMMA CallKeeps ==
    ASSUME IInv, NEW next \in {"input", "drain"}, HandleClientRequest(next), pc # "result",
           Head(inputQueue).type = "UTILITY",
           Queues(waiting', running'), finishedIds' \subseteq Requests,
           answers' \in [Requests -> Nat], left' = left,
           \/ Scheduled' = Scheduled /\ answers' = answers
           \/ Scheduled' = {} /\ \A r \in Requests :
                answers'[r] = IF r \in Scheduled THEN 1 ELSE answers[r],
           \/ /\ call' = call
              /\ idleCallbacks' = Append(idleCallbacks, Head(inputQueue).arg)
           \/ /\ \E s \in {"done", "rejected"} :
                   call' = [call EXCEPT ![Head(inputQueue).arg] = s]
              /\ idleCallbacks' = idleCallbacks,
           pauseState' \in {"UNPAUSED", "PAUSED_NEW", "PAUSED_ALL"}, sleeping' \in BOOLEAN,
           cacheEpoch' \in Nat,
           batchQueue = <<>> \/ ToSet(waiting') \subseteq ToSet(waiting)
    PROVE  Typed' /\ QueueInv' /\ Sent' /\ OnePlace' /\ AbortsFollow' /\ BatchesRan' /\ Stopping'
<1> DEFINE c == Head(inputQueue).arg
<1>1. /\ c \in Calls /\ call[c] = "sent" /\ c \notin ToSet(idleCallbacks)
      /\ inputQueue' \in Seq(Messages) /\ QueueInv'
      /\ \A t, a : t # "UTILITY" =>
           (Carries(inputQueue, t, a) <=> Carries(inputQueue', t, a))
      /\ \A t, a : t # "UTILITY" => (OnTheWay(t, a) <=> OnTheWay(t, a)')
      /\ \A a : Carries(inputQueue', "UTILITY", a) =>
                  Carries(inputQueue, "UTILITY", a) /\ a # c
      /\ pc' = next
      /\ UNCHANGED <<sent, aborted, inThread, abortsQueue, shutdownState, wakeup, signals,
                     batchQueue>>
  BY TakeCall
<1>2. /\ \/ call' = call /\ idleCallbacks' = Append(idleCallbacks, c)
         \/ /\ \E s \in {"done", "rejected"} : call' = [call EXCEPT ![c] = s]
            /\ idleCallbacks' = idleCallbacks
  OBVIOUS
<1> HIDE DEF c
<1>3. /\ call' \in [Calls -> CallState] /\ idleCallbacks' \in Seq(Calls)
      /\ \A d \in Calls : d # c => call'[d] = call[d]
      /\ \A d \in ToSet(idleCallbacks') : d # c => d \in ToSet(idleCallbacks)
      /\ c \in ToSet(idleCallbacks') => call' = call
  <2>1. CASE call' = call /\ idleCallbacks' = Append(idleCallbacks, c)
    <3>1. idleCallbacks' \in Seq(Calls) /\ ToSet(idleCallbacks') = ToSet(idleCallbacks) \cup {c}
      BY <1>1, <2>1, InvParts, AppendFacts
    <3> QED  BY <2>1, <3>1, InvParts
  <2>2. ASSUME NEW s \in {"done", "rejected"}, call' = [call EXCEPT ![c] = s],
               idleCallbacks' = idleCallbacks
        PROVE  <1>3!1 /\ <1>3!2 /\ <1>3!3 /\ <1>3!4
    BY <1>1, <2>2, InvParts DEF CallState
  <2> QED  BY <1>2, <2>1, <2>2
<1>4. ToSet(idleCallbacks) \subseteq Calls  BY InvParts, ElementFacts
<1>5. Typed'  BY <1>1, <1>3, InvParts DEF Typed, TypeOK, Queues
<1>6. Sent'  BY <1>1, <1>3, <1>4, InvParts DEF Sent
<1>7. OnePlace'  BY <1>1, InvParts DEF OnePlace
<1>8. AbortsFollow'  BY <1>1, InvParts DEF AbortsFollow
<1>9. Stopping'  BY <1>1, InvParts DEF Stopping, ExitLeavesNothing
<1>10. BatchesRan'  BY <1>1, InvParts DEF BatchesRan
<1> QED  BY <1>1, <1>5, <1>6, <1>7, <1>8, <1>9, <1>10

LEMMA HandlePauseKeeps ==
    ASSUME IInv, NEW next \in {"input", "drain"}, HandleClientRequest(next), pc # "result",
           Head(inputQueue).type = "UTILITY",
           NEW mode \in PauseModes, HandlePause(Head(inputQueue).arg, mode)
    PROVE  IInv'
<1> DEFINE c == Head(inputQueue).arg
           paused == IF mode = "keep" THEN "PAUSED_ALL" ELSE "PAUSED_NEW"
           aborts == mode = "abort" /\ Scheduled # {}
           idle == /\ ~aborts /\ finishedIds = {} /\ batchQueue = <<>>
                   /\ (mode = "keep" \/ running = <<>>)
<1>1. /\ c \in Calls /\ c \notin ToSet(idleCallbacks)
      /\ ~Carries(inputQueue', "UTILITY", "resume")
      /\ ~Carries(inputQueue', "UTILITY", "wake_up")
      /\ pc' = next
      /\ UNCHANGED <<shutdownState, batchQueue>>
  BY TakeCall
<1>2. /\ pauseState' = paused
      /\ IF idle
         THEN /\ ResetCaches(waiting, running)
              /\ call' = [call EXCEPT ![c] = "done"]
              /\ sleeping' = (sleeping \/ c = "sleep")
              /\ UNCHANGED <<idleCallbacks, finishedIds, left, answers>>
         ELSE /\ IF mode = "abort" THEN AbortAll ELSE UNCHANGED schedVars
              /\ idleCallbacks' = Append(idleCallbacks, c)
              /\ UNCHANGED <<call, sleeping, cacheEpoch>>
  BY DEF HandlePause
<1>3. /\ Queues(waiting, running) /\ finishedIds \subseteq Requests
      /\ answers \in [Requests -> Nat] /\ idleCallbacks \in Seq(Calls)
      /\ cacheEpoch \in Nat /\ sleeping \in BOOLEAN
  BY InvParts, InvQueues DEF Typed, TypeOK
<1>4. paused \in {"PAUSED_NEW", "PAUSED_ALL"}  OBVIOUS
<1> HIDE DEF c, paused
<1>5. CASE idle
  <2>1. /\ waiting' = running \o waiting /\ running' = <<>> /\ cacheEpoch' = cacheEpoch + 1
        /\ call' = [call EXCEPT ![c] = "done"] /\ sleeping' = (sleeping \/ c = "sleep")
        /\ batchQueue = <<>> /\ batchQueue' = <<>>
        /\ UNCHANGED <<idleCallbacks, finishedIds, left, answers>>
    BY <1>1, <1>2, <1>5 DEF ResetCaches
  <2>2. Queues(waiting', running') /\ ToSet(waiting') = ToSet(waiting) \cup ToSet(running)
    BY <1>3, <2>1, ResetQueues
  <2>3. Scheduled' = Scheduled
    <3>1. ToSet(running') = {}  BY <2>1, <1>3, ElementFacts DEF Queues
    <3> QED  BY <2>2, <3>1 DEF Scheduled
  <2>4. /\ finishedIds' \subseteq Requests /\ answers' \in [Requests -> Nat]
        /\ pauseState' \in {"UNPAUSED", "PAUSED_NEW", "PAUSED_ALL"} /\ sleeping' \in BOOLEAN
        /\ cacheEpoch' \in Nat
    BY <1>2, <1>3, <1>4, <2>1
  <2>5. Typed' /\ QueueInv' /\ Sent' /\ OnePlace' /\ AbortsFollow' /\ BatchesRan' /\ Stopping'
    BY <2>1, <2>2, <2>3, <2>4, CallKeeps DEF c
  <2>6. ResetsAreSafe' /\ PausedRunsNothing' /\ ResumesAlone'
    BY <1>1, <1>2, <1>4, <2>1 DEF ResetsAreSafe, PausedRunsNothing, ResumesAlone
  <2> QED  BY <2>5, <2>6 DEF IInv
<1>6. CASE ~idle
  <2>1. /\ IF mode = "abort" THEN AbortAll ELSE UNCHANGED schedVars
        /\ idleCallbacks' = Append(idleCallbacks, c)
        /\ UNCHANGED <<call, sleeping, cacheEpoch>>
    BY <1>2, <1>6
  <2>2. /\ Queues(waiting', running') /\ finishedIds' \subseteq Requests
        /\ answers' \in [Requests -> Nat] /\ left' = left
        /\ running = <<>> => running' = <<>>
        /\ ToSet(waiting') \subseteq ToSet(waiting)
        /\ \/ Scheduled' = Scheduled /\ answers' = answers
           \/ Scheduled' = {} /\ \A r \in Requests :
                answers'[r] = IF r \in Scheduled THEN 1 ELSE answers[r]
    <3>1. CASE AbortAll  BY <3>1, AbortAllFacts
    <3>2. CASE UNCHANGED schedVars  BY <1>3, <3>2 DEF schedVars, Scheduled
    <3> QED  BY <2>1, <3>1, <3>2
  <2>3. /\ pauseState' \in {"UNPAUSED", "PAUSED_NEW", "PAUSED_ALL"} /\ sleeping' \in BOOLEAN
        /\ cacheEpoch' \in Nat
    BY <1>2, <1>3, <1>4, <2>1
  <2>4. Typed' /\ QueueInv' /\ Sent' /\ OnePlace' /\ AbortsFollow' /\ BatchesRan' /\ Stopping'
    BY <2>1, <2>2, <2>3, CallKeeps DEF c
  <2>5. idleCallbacks' # <<>>  BY <1>1, <1>3, <2>1
  <2>6. ResetsAreSafe' /\ PausedRunsNothing' /\ ResumesAlone'
    BY <1>1, <1>2, <1>4, <2>1, <2>2, <2>5, InvParts
    DEF ResetsAreSafe, PausedRunsNothing, ResumesAlone
  <2> QED  BY <2>4, <2>6 DEF IInv
<1> QED  BY <1>5, <1>6

LEMMA HandleResumeKeeps ==
    ASSUME IInv, NEW next \in {"input", "drain"}, HandleClientRequest(next), pc # "result",
           Head(inputQueue).type = "UTILITY",
           Head(inputQueue).arg \in {"resume", "wake_up"},
           HandleResume(Head(inputQueue).arg)
    PROVE  IInv'
<1> DEFINE c == Head(inputQueue).arg
<1>1. /\ c \in Calls /\ idleCallbacks = <<>> /\ (c = "resume" => ~sleeping)
      /\ ~Carries(inputQueue', "UTILITY", "resume")
      /\ ~Carries(inputQueue', "UTILITY", "wake_up")
      /\ pc' = next /\ UNCHANGED batchQueue
  BY TakeCall
<1>2. /\ pauseState' = "UNPAUSED" /\ sleeping' = (sleeping /\ c # "wake_up")
      /\ call' = [call EXCEPT ![c] = "done"]
      /\ UNCHANGED <<waiting, running, finishedIds, left, answers, idleCallbacks, cacheEpoch>>
  BY DEF HandleResume, schedVars
<1>3. sleeping' = FALSE
  BY <1>1, <1>2
<1>4. /\ Queues(waiting', running') /\ finishedIds' \subseteq Requests
      /\ answers' \in [Requests -> Nat] /\ cacheEpoch' \in Nat
      /\ Scheduled' = Scheduled /\ ToSet(waiting') = ToSet(waiting)
  BY <1>2, InvParts, InvQueues DEF Typed, TypeOK, Scheduled
<1>5. Typed' /\ QueueInv' /\ Sent' /\ OnePlace' /\ AbortsFollow' /\ BatchesRan' /\ Stopping'
  BY <1>2, <1>3, <1>4, CallKeeps
<1> HIDE DEF c
<1>6. ResetsAreSafe' /\ PausedRunsNothing' /\ ResumesAlone'
  BY <1>1, <1>2, <1>3, InvParts DEF ResetsAreSafe, PausedRunsNothing, ResumesAlone
<1> QED  BY <1>5, <1>6 DEF IInv

LEMMA HandleUtilityKeeps ==
    ASSUME IInv, NEW next \in {"input", "drain"}, HandleClientRequest(next), pc # "result",
           Head(inputQueue).type = "UTILITY", HandleUtility(Head(inputQueue).arg)
    PROVE  IInv'
<1> DEFINE c == Head(inputQueue).arg
<1>1. CASE ~is_running
  <2>1. /\ ~Carries(inputQueue', "UTILITY", "resume")
        /\ ~Carries(inputQueue', "UTILITY", "wake_up")
        /\ pc' = next /\ UNCHANGED batchQueue
    BY TakeCall
  <2>2. /\ call' = [call EXCEPT ![c] = "rejected"]
        /\ UNCHANGED <<waiting, running, finishedIds, left, answers, pauseState, idleCallbacks,
                       sleeping, cacheEpoch>>
    BY <1>1 DEF HandleUtility, schedVars, pauseVars
  <2>3. /\ Queues(waiting', running') /\ finishedIds' \subseteq Requests
        /\ answers' \in [Requests -> Nat] /\ cacheEpoch' \in Nat /\ sleeping' \in BOOLEAN
        /\ pauseState' \in {"UNPAUSED", "PAUSED_NEW", "PAUSED_ALL"}
        /\ Scheduled' = Scheduled /\ ToSet(waiting') = ToSet(waiting)
    BY <2>2, InvParts, InvQueues DEF Typed, TypeOK, Scheduled
  <2>4. Typed' /\ QueueInv' /\ Sent' /\ OnePlace' /\ AbortsFollow' /\ BatchesRan' /\ Stopping'
    BY <2>2, <2>3, CallKeeps
  <2>5. ResetsAreSafe' /\ PausedRunsNothing' /\ ResumesAlone'
    BY <2>1, <2>2, InvParts DEF ResetsAreSafe, PausedRunsNothing, ResumesAlone
  <2> QED  BY <2>4, <2>5 DEF IInv
<1>2. CASE is_running /\ c \in {"resume", "wake_up"}
  BY <1>2, HandleResumeKeeps DEF HandleUtility
<1>3. CASE is_running /\ c \notin {"resume", "wake_up"}
  <2>1. PICK mode \in (IF c = "sleep" THEN PauseModes ELSE {c}) : HandlePause(c, mode)
    BY <1>3 DEF HandleUtility
  <2>2. c \in Calls  BY TakeCall
  <2>3. mode \in PauseModes  BY <1>3, <2>1, <2>2, EngineAssumption DEF EngineAssumption
  <2> QED  BY <2>1, <2>3, HandlePauseKeeps
<1> QED  BY <1>1, <1>2, <1>3

\* Whatever the message, handling it keeps the invariant.
LEMMA HandleClientRequestKeeps ==
    ASSUME IInv, NEW next \in {"input", "drain"}, pc # "result", HandleClientRequest(next)
    PROVE  IInv'
<1> DEFINE m == Head(inputQueue)
<1>1. \/ m.type = "ADD" /\ HandleAdd(m.arg)
      \/ m.type = "ABORT" /\ HandleAbort(m.arg)
      \/ m.type = "UTILITY" /\ HandleUtility(m.arg)
      \/ m.type = "WAKEUP" /\ UNCHANGED <<schedVars, pauseVars, call>>
  BY DEF HandleClientRequest
<1> QED
  BY <1>1, HandleAddKeeps, HandleAbortKeeps, HandleUtilityKeeps, WakeupKeeps

----------------------------------------------------------------------------
(* The busy loop.                                                          *)

\* No request counts as unfinished only when the unpaused scheduler is empty.
LEMMA NothingUnfinished ==
    ASSUME IInv, NumUnfinished = 0, pauseState = "UNPAUSED"
    PROVE  Scheduled = {}
<1>1. waiting \in Seq(Requests) /\ running \in Seq(Requests)
  BY InvQueues DEF Queues
<1>2. Len(waiting) + Len(running) = 0  BY DEF NumUnfinished
<1>3. waiting = <<>> /\ running = <<>>  BY <1>1, <1>2
<1> QED  BY <1>1, <1>3, InvQueues, ElementFacts

LEMMA HandleShutdownKeeps ==
    ASSUME IInv, HandleShutdown
    PROVE  IInv'
<1> DEFINE work == \/ finishedIds # {} \/ batchQueue # <<>>
                   \/ IF AbortsNow THEN Scheduled # {} ELSE NumUnfinished > 0
<1>1. /\ pc = "shutdown"
      /\ IF AbortsNow THEN AbortAll ELSE UNCHANGED schedVars
      /\ shutdownState' = IF is_running THEN "RUNNING" ELSE "SHUTTING_DOWN"
      /\ pc' = IF is_running \/ work THEN "input" ELSE "exited"
      /\ UNCHANGED <<sent, aborted, call, inThread, inputQueue, abortsQueue, pauseState,
                     idleCallbacks, sleeping, cacheEpoch, wakeup, signals, batchQueue>>
  BY DEF HandleShutdown, clientVars, threadVars, pauseVars
<1>2. /\ Queues(waiting', running') /\ finishedIds' \subseteq Requests
      /\ answers' \in [Requests -> Nat] /\ left' = left
      /\ running = <<>> => running' = <<>>
      /\ ToSet(waiting') \subseteq ToSet(waiting)
      /\ \/ Scheduled' = Scheduled /\ answers' = answers
         \/ Scheduled' = {} /\ \A r \in Requests :
              answers'[r] = IF r \in Scheduled THEN 1 ELSE answers[r]
      /\ AbortsNow => Scheduled' = {}
  <2>1. CASE AbortsNow  BY <1>1, <2>1, AbortAllFacts
  <2>2. CASE ~AbortsNow
    BY <1>1, <2>2, InvParts, InvQueues DEF schedVars, Scheduled
  <2> QED  BY <2>1, <2>2
<1>3. \A t, a : OnTheWay(t, a)' <=> OnTheWay(t, a)  BY <1>1 DEF OnTheWay
<1>4. Typed'
  BY <1>1, <1>2, InvParts DEF Typed, TypeOK, Queues
<1>5. QueueInv' /\ Sent' /\ OnePlace' /\ AbortsFollow' /\ BatchesRan'
  BY <1>1, <1>2, <1>3, InvParts DEF QueueInv, Sent, OnePlace, AbortsFollow, BatchesRan
<1>6. ResetsAreSafe' /\ PausedRunsNothing' /\ ResumesAlone'
  BY <1>1, <1>2, InvParts DEF ResetsAreSafe, PausedRunsNothing, ResumesAlone
<1>7. ASSUME ShutdownTimeout = 0, shutdownState' = "SHUTTING_DOWN"
      PROVE  Scheduled' = {}
  <2>1. CASE shutdownState = "REQUESTED"  BY <1>2, <1>7, <2>1 DEF AbortsNow
  <2>2. CASE shutdownState = "SHUTTING_DOWN"
    <3>1. Scheduled = {}  BY <1>7, <2>2, InvParts DEF Stopping
    <3> QED  BY <1>2, <3>1
  <2>3. shutdownState # "RUNNING"  BY <1>1, <1>7 DEF is_running
  <2> QED  BY <2>1, <2>2, <2>3, InvParts DEF Typed, TypeOK
<1>8. ASSUME pc' = "exited", ShutdownTimeout = 0 \/ pauseState' = "UNPAUSED"
      PROVE  Scheduled' = {} /\ batchQueue' = <<>>
  <2>1. ~is_running /\ ~work  BY <1>1, <1>8
  <2>2. shutdownState' = "SHUTTING_DOWN" /\ batchQueue' = <<>>  BY <1>1, <2>1
  <2>3. CASE AbortsNow  BY <1>2, <2>2, <2>3
  <2>4. CASE ~AbortsNow /\ ShutdownTimeout # 0
    <3>1. NumUnfinished = 0 /\ pauseState = "UNPAUSED"
      <4>1. ~(NumUnfinished > 0)  BY <2>1, <2>4
      <4>2. NumUnfinished \in Nat
        BY InvQueues DEF NumUnfinished, Queues
      <4> QED  BY <1>1, <1>8, <2>4, <4>1, <4>2
    <3>2. Scheduled = {}  BY <3>1, NothingUnfinished
    <3> QED  BY <1>2, <2>2, <3>2
  <2> QED  BY <1>7, <2>2, <2>3, <2>4
<1>9. Stopping'  BY <1>7, <1>8 DEF Stopping, ExitLeavesNothing
<1> QED  BY <1>4, <1>5, <1>6, <1>9 DEF IInv

LEMMA BecomeIdleKeeps ==
    ASSUME IInv, BecomeIdle
    PROVE  IInv'
<1>1. /\ pc' = "get" /\ batchQueue = <<>> /\ pc = "input" /\ is_running
      /\ abortsQueue' = IF inputQueue = <<>> THEN <<>> ELSE abortsQueue
      /\ UNCHANGED <<sent, aborted, inThread, inputQueue, finishedIds, left, answers,
                     pauseState, shutdownState, wakeup, signals, batchQueue>>
  BY DEF BecomeIdle, has_work, stopVars
<1>2. \/ /\ idleCallbacks = <<>>
         /\ UNCHANGED <<call, idleCallbacks, sleeping, cacheEpoch, waiting, running>>
      \/ /\ idleCallbacks # <<>> /\ idleCallbacks' = <<>>
         /\ waiting' = running \o waiting /\ running' = <<>> /\ cacheEpoch' = cacheEpoch + 1
         /\ call' = [c \in Calls |-> IF c \in ToSet(idleCallbacks) THEN "done" ELSE call[c]]
         /\ sleeping' = (sleeping \/ "sleep" \in ToSet(idleCallbacks))
  BY DEF BecomeIdle, ResetCaches
<1>3. /\ Queues(waiting, running) /\ idleCallbacks \in Seq(Calls)
      /\ cacheEpoch \in Nat /\ sleeping \in BOOLEAN /\ call \in [Calls -> CallState]
  BY InvParts, InvQueues DEF Typed, TypeOK
<1>4. /\ Queues(waiting', running') /\ Scheduled' = Scheduled
      /\ cacheEpoch' \in Nat /\ sleeping' \in BOOLEAN
  <2>1. CASE UNCHANGED <<sleeping, cacheEpoch, waiting, running>>
    BY <1>3, <2>1 DEF Scheduled
  <2>2. CASE /\ waiting' = running \o waiting /\ running' = <<>>
             /\ cacheEpoch' = cacheEpoch + 1
             /\ sleeping' = (sleeping \/ "sleep" \in ToSet(idleCallbacks))
    <3>1. Queues(waiting', running') /\ ToSet(waiting') = ToSet(waiting) \cup ToSet(running)
      BY <1>3, <2>2, ResetQueues
    <3>2. ToSet(running') = {}  BY <2>2, <1>3, ElementFacts DEF Queues
    <3> QED  BY <1>3, <2>2, <3>1, <3>2 DEF Scheduled
  <2> QED  BY <1>2, <2>1, <2>2
<1>5. /\ call' \in [Calls -> CallState] /\ idleCallbacks' \in Seq(Calls)
      /\ \A c \in Calls : c \notin ToSet(idleCallbacks) => call'[c] = call[c]
      /\ ToSet(idleCallbacks') \subseteq ToSet(idleCallbacks)
      /\ \A c \in ToSet(idleCallbacks') : call'[c] = call[c]
  <2>1. ToSet(<<>>) = {} /\ <<>> \in Seq(Calls)  BY <1>3, ElementFacts
  <2> QED  BY <1>2, <1>3, <2>1 DEF CallState
<1>6. abortsQueue' \in Seq(Requests) /\ ToSet(abortsQueue') \subseteq aborted
  <2>1. ToSet(<<>>) = {} /\ <<>> \in Seq(Requests)  BY InvParts, ElementFacts
  <2> QED  BY <1>1, <2>1, InvParts DEF Sent
<1>7. \A t, a : OnTheWay(t, a)' <=> OnTheWay(t, a)  BY <1>1 DEF OnTheWay
<1>8. Typed'  BY <1>1, <1>4, <1>5, <1>6, InvParts DEF Typed, TypeOK, Queues
<1>9. Sent'  BY <1>1, <1>5, <1>6, <1>7, InvParts DEF Sent
<1>10. QueueInv' /\ OnePlace' /\ AbortsFollow' /\ BatchesRan'
  BY <1>1, <1>4, <1>7, InvParts DEF QueueInv, OnePlace, AbortsFollow, BatchesRan
<1>11. ResetsAreSafe'  BY <1>1 DEF ResetsAreSafe
<1>12. PausedRunsNothing' /\ ResumesAlone'
  BY <1>1, <1>2, InvParts DEF PausedRunsNothing, ResumesAlone
<1>13. Stopping'  BY <1>1, <1>4 DEF Stopping, ExitLeavesNothing, is_running
<1> QED  BY <1>8, <1>9, <1>10, <1>11, <1>12, <1>13 DEF IInv

LEMMA ScheduleBatchKeeps ==
    ASSUME IInv, ScheduleBatch
    PROVE  IInv'
<1> DEFINE run == running \o SubSeq(waiting, 1, Admitted)
           reqs == IF pauseState = "PAUSED_ALL" THEN {}
                   ELSE {r \in ToSet(run) : InFlight(r) < left[r]}
           b == [reqs |-> reqs, epoch |-> cacheEpoch]
<1>1. /\ pc = "step" /\ running' = run /\ finishedIds' = {}
      /\ waiting' = SubSeq(waiting, Admitted + 1, Len(waiting))
      /\ batchQueue' = Append(batchQueue, b)
      /\ pc' \in {"shutdown", "result"}
      /\ pc' # "result" => Len(batchQueue) + 1 < BatchQueueSize
      /\ UNCHANGED <<sent, aborted, call, inThread, inputQueue, abortsQueue, left, answers,
                     pauseState, idleCallbacks, sleeping, cacheEpoch, shutdownState, wakeup,
                     signals>>
  BY DEF ScheduleBatch, clientVars, threadVars, pauseVars, stopVars
<1>2. /\ Queues(waiting, running) /\ waiting \in Seq(Requests) /\ running \in Seq(Requests)
      /\ Len(running) <= MaxNumRunningReqs /\ MaxNumRunningReqs \in Nat
      /\ Len(waiting) \in Nat /\ Len(running) \in Nat /\ BatchQueueSize \in Nat
  BY InvQueues, EngineAssumption DEF Queues, EngineAssumption
<1>3. /\ Admitted \in 0..Len(waiting) /\ Len(running) + Admitted <= MaxNumRunningReqs
      /\ pauseState # "UNPAUSED" => Admitted = 0
  <2>1. \A x, y \in Nat : Min({x, y}) \in Nat /\ Min({x, y}) <= x /\ Min({x, y}) <= y
    <3> TAKE x \in Nat, y \in Nat
    <3>1. CASE x <= y
      <4>1. \A z \in {x, y} : x <= z  BY <3>1
      <4>2. Min({x, y}) = x  BY <4>1 DEF Min
      <4> QED  BY <3>1, <4>2
    <3>2. CASE ~(x <= y)
      <4>1. \A z \in {x, y} : y <= z  BY <3>2
      <4>2. Min({x, y}) = y  BY <3>2, <4>1 DEF Min
      <4> QED  BY <3>2, <4>2
    <3> QED  BY <3>1, <3>2
  <2>2. MaxNumRunningReqs - Len(running) \in Nat  BY <1>2
  <2> QED  BY <1>2, <2>1, <2>2 DEF Admitted
<1>4. /\ Queues(waiting', running') /\ Scheduled' = Scheduled
      /\ run \in Seq(Requests) /\ ToSet(waiting') \subseteq ToSet(waiting)
      /\ ToSet(run) \subseteq Scheduled /\ ToSet(run) \cap ToSet(waiting') = {}
  <2> HIDE DEF reqs, b
  <2>1. /\ Queues(waiting', running') /\ ToSet(waiting') \subseteq ToSet(waiting)
        /\ ToSet(waiting') \cup ToSet(running') = ToSet(waiting) \cup ToSet(running)
    BY <1>1, <1>2, <1>3, AdmitToRunning
  <2> HIDE DEF run
  <2>3. ToSet(run) \cap ToSet(waiting') = {}
    BY <1>1, <2>1, QueuesApart DEF Queues
  <2> QED  BY <1>1, <2>1, <2>3 DEF Scheduled, Queues
<1>5. ToSet(run) \subseteq Requests
  <2> HIDE DEF run
  <2> QED  BY <1>4, ElementFacts
<1>6. b \in Batches
  <2>1. reqs \in SUBSET Requests
    <3> HIDE DEF run
    <3> QED  BY <1>5
  <2>2. cacheEpoch \in Nat  BY InvParts DEF Typed, TypeOK
  <2> HIDE DEF reqs
  <2> QED  BY <2>1, <2>2 DEF Batches
<1>7. /\ batchQueue \in Seq(Batches) /\ batchQueue' \in Seq(Batches)
      /\ Len(batchQueue') = Len(batchQueue) + 1 /\ Len(batchQueue) < BatchQueueSize
      /\ Len(batchQueue) \in Nat
      /\ \A i \in DOMAIN batchQueue' :
           \/ i \in DOMAIN batchQueue /\ batchQueue'[i] = batchQueue[i]
           \/ batchQueue'[i] = b
  <2> HIDE DEF b
  <2>1. batchQueue \in Seq(Batches) /\ Len(batchQueue) < BatchQueueSize
    BY <1>1, InvParts DEF Typed
  <2> QED  BY <1>1, <1>6, <2>1
<1>8. b.epoch = cacheEpoch /\ b.reqs = reqs /\ reqs \subseteq ToSet(run)
  <2> HIDE DEF run
  <2> QED  OBVIOUS
<1>9. ASSUME running = <<>>, pauseState # "UNPAUSED"
      PROVE  running' = <<>> /\ reqs = {}
  <2>1. run = <<>>  BY <1>2, <1>3, <1>9
  <2> HIDE DEF run
  <2> QED  BY <1>1, <2>1, ElementFacts, <1>2
<1> HIDE DEF run, reqs, b
<1>10. \A t, a : OnTheWay(t, a)' <=> OnTheWay(t, a)  BY <1>1 DEF OnTheWay
<1>11. Typed'
  <2>1. Len(batchQueue') <= BatchQueueSize
        /\ (pc' # "result" => Len(batchQueue') < BatchQueueSize)
    BY <1>1, <1>2, <1>7
  <2> QED  BY <1>1, <1>4, <1>7, <2>1, InvParts DEF Typed, TypeOK, Queues
<1>12. QueueInv' /\ Sent' /\ OnePlace' /\ AbortsFollow'
  BY <1>1, <1>4, <1>10, InvParts DEF QueueInv, Sent, OnePlace, AbortsFollow
<1>13. ResetsAreSafe'  BY <1>1, <1>7, <1>8, InvParts DEF ResetsAreSafe
<1>14. ResumesAlone'  BY <1>1, InvParts DEF ResumesAlone
<1>15. PausedRunsNothing'
  <2> SUFFICES ASSUME sleeping \/ (pauseState # "UNPAUSED" /\ idleCallbacks = <<>>)
               PROVE  running' = <<>> /\ \A i \in DOMAIN batchQueue' : batchQueue'[i].reqs = {}
    BY <1>1 DEF PausedRunsNothing
  <2>1. /\ running = <<>> /\ pauseState # "UNPAUSED"
        /\ \A i \in DOMAIN batchQueue : batchQueue[i].reqs = {}
    BY InvParts DEF PausedRunsNothing, ResumesAlone
  <2> QED  BY <1>7, <1>8, <1>9, <2>1
<1>16. Stopping'  BY <1>1, <1>4, InvParts DEF Stopping, ExitLeavesNothing
<1>17. BatchesRan'
  <2>1. \A r \in reqs : r \in sent /\ ~Carries(inputQueue, "ADD", r) /\ r \notin ToSet(waiting')
    BY <1>4, <1>5, <1>8, InvParts DEF OnePlace
  <2>2. \A i \in DOMAIN batchQueue : \A r \in batchQueue[i].reqs :
            r \in sent /\ ~Carries(inputQueue, "ADD", r) /\ r \notin ToSet(waiting')
    BY <1>4, InvParts DEF BatchesRan
  <2> QED  BY <1>1, <1>7, <1>8, <2>1, <2>2 DEF BatchesRan
<1> QED  BY <1>11, <1>12, <1>13, <1>14, <1>15, <1>16, <1>17 DEF IInv

LEMMA ProcessResultKeeps ==
    ASSUME IInv, ProcessResult
    PROVE  IInv'
<1> DEFINE gone == ToSet(abortsQueue)
           live == (Head(batchQueue).reqs \cap Scheduled) \ gone
           done == {r \in live : left[r] = 1}
<1>1. /\ batchQueue # <<>> /\ pc' = "shutdown"
      /\ waiting' = Without(waiting, gone)
      /\ running' = Without(running, gone \cup done)
      /\ finishedIds' = finishedIds \cup (gone \cap Scheduled) \cup done
      /\ left' = [r \in Requests |-> IF r \in live THEN left[r] - 1 ELSE left[r]]
      /\ answers' = [r \in Requests |-> IF r \in done THEN answers[r] + 1 ELSE answers[r]]
      /\ batchQueue' = Tail(batchQueue) /\ abortsQueue' = <<>>
      /\ UNCHANGED <<sent, aborted, call, inThread, inputQueue, pauseState, idleCallbacks,
                     sleeping, cacheEpoch, shutdownState, wakeup, signals>>
  BY DEF ProcessResult, clientVars, pauseVars, stopVars
<1>2. gone \subseteq aborted /\ live \subseteq Scheduled /\ done \subseteq live
      /\ live \subseteq Head(batchQueue).reqs /\ done \cap gone = {}
  BY InvParts DEF Sent
<1>3. Queues(waiting, running) /\ Scheduled = ToSet(waiting) \cup ToSet(running)
      /\ Scheduled \subseteq Requests /\ finishedIds \subseteq Requests
  BY InvQueues
<1>4. /\ batchQueue \in Seq(Batches) /\ batchQueue' \in Seq(Batches)
      /\ Len(batchQueue') = Len(batchQueue) - 1 /\ Len(batchQueue) \in Nat
      /\ Len(batchQueue) <= BatchQueueSize
      /\ 1 \in DOMAIN batchQueue /\ batchQueue[1] = Head(batchQueue)
      /\ \A i \in DOMAIN batchQueue' :
           i + 1 \in DOMAIN batchQueue /\ batchQueue'[i] = batchQueue[i + 1]
  <2>1. batchQueue \in Seq(Batches) /\ Len(batchQueue) <= BatchQueueSize
    BY InvParts DEF Typed, TypeOK
  <2> QED  BY <1>1, <2>1, TailFacts
<1>5. live \cap ToSet(waiting) = {}
  BY <1>2, <1>4, InvParts DEF BatchesRan
<1>6. /\ left \in [Requests -> Nat] /\ answers \in [Requests -> Nat]
      /\ \A r \in Requests : left[r] \in 0..Work[r]
      /\ \A r \in live : left[r] # 0 /\ answers[r] = 0
  BY <1>2, <1>3, InvParts DEF Typed, TypeOK, OnePlace
<1>7. \A r \in done : left[r] = 1 /\ r \in live  OBVIOUS
<1>8. \A r \in live : left[r] # 1 => r \notin done  OBVIOUS
<1>9. \A r \in live : left[r] = 1 => r \in done  OBVIOUS
<1> HIDE DEF gone, live, done
<1>10. /\ Queues(waiting', running')
       /\ ToSet(waiting') = ToSet(waiting) \ gone
       /\ ToSet(running') = ToSet(running) \ (gone \cup done)
       /\ running = <<>> => running' = <<>>
  BY <1>1, <1>3, RemoveFromQueues
<1>11. Scheduled' = Scheduled \ (gone \cup done)
  BY <1>2, <1>3, <1>5, <1>10 DEF Scheduled
<1>12. /\ left' \in [Requests -> Nat] /\ answers' \in [Requests -> Nat]
       /\ \A r \in Requests : left'[r] \in 0..Work[r]
       /\ \A r \in Requests : left'[r] = 0 => left[r] = 0 \/ r \in done
       /\ \A r \in Requests : answers'[r] = IF r \in done THEN 1 ELSE answers[r]
  <2>1. \A r \in Requests : Work[r] \in Nat  BY EngineAssumption DEF EngineAssumption
  <2>2. \A r \in Requests : left'[r] = IF r \in live THEN left[r] - 1 ELSE left[r]
    BY <1>1
  <2>3. \A r \in Requests : left'[r] \in Nat /\ left'[r] \in 0..Work[r]
    BY <1>6, <2>1, <2>2
  <2>4. \A r \in Requests : left'[r] = 0 => left[r] = 0 \/ r \in done
    BY <1>6, <1>9, <2>2
  <2>5. \A r \in Requests : answers'[r] = IF r \in done THEN 1 ELSE answers[r]
    BY <1>1, <1>2, <1>6
  <2>6. left' \in [Requests -> Nat] /\ answers' \in [Requests -> Nat]
    BY <1>1, <1>6, <2>2, <2>3
  <2> QED  BY <2>3, <2>4, <2>5, <2>6
<1>13. \A t, a : OnTheWay(t, a)' <=> OnTheWay(t, a)  BY <1>1 DEF OnTheWay
<1>14. abortsQueue' \in Seq(Requests) /\ ToSet(abortsQueue') = {}
  BY <1>1, InvParts, ElementFacts
<1>15. Typed'
  <2>1. finishedIds' \subseteq Requests  BY <1>1, <1>2, <1>3
  <2>2. Len(batchQueue') <= BatchQueueSize /\ Len(batchQueue') < BatchQueueSize
    BY <1>4, EngineAssumption DEF EngineAssumption
  <2> QED  BY <1>1, <1>4, <1>10, <1>12, <1>14, <2>1, <2>2, InvParts DEF Typed, TypeOK, Queues
<1>16. QueueInv' /\ Sent' /\ AbortsFollow'
  BY <1>1, <1>11, <1>13, <1>14, InvParts DEF QueueInv, Sent, AbortsFollow
<1>17. OnePlace'
  BY <1>1, <1>2, <1>3, <1>6, <1>11, <1>12, InvParts DEF OnePlace
<1>18. BatchesRan'  BY <1>1, <1>4, <1>10, InvParts DEF BatchesRan
<1>19. ResetsAreSafe' /\ PausedRunsNothing' /\ ResumesAlone'
  BY <1>1, <1>4, <1>10, InvParts DEF ResetsAreSafe, PausedRunsNothing, ResumesAlone
<1>20. Stopping'  BY <1>1, <1>11, InvParts DEF Stopping, ExitLeavesNothing
<1> QED  BY <1>15, <1>16, <1>17, <1>18, <1>19, <1>20 DEF IInv

----------------------------------------------------------------------------
(* The invariant and what it implies.                                      *)

LEMMA InitEstablishes == Init => IInv
<1> SUFFICES ASSUME Init PROVE IInv  OBVIOUS
<1>1. /\ sent = {} /\ aborted = {} /\ call = [c \in Calls |-> "unsent"]
      /\ inThread = <<>> /\ inputQueue = <<>> /\ abortsQueue = <<>>
      /\ pc = "shutdown" /\ shutdownState = "RUNNING" /\ wakeup = FALSE /\ signals = 0
      /\ waiting = <<>> /\ running = <<>> /\ finishedIds = {} /\ left = Work
      /\ pauseState = "UNPAUSED" /\ idleCallbacks = <<>> /\ sleeping = FALSE
      /\ batchQueue = <<>> /\ cacheEpoch = 0
      /\ answers = [r \in Requests |-> 0]
  BY DEF Init
<1>2. \A t, a : ~Carries(<<>>, t, a)  BY DEF Carries
<1>3. ToSet(<<>>) = {}  BY DEF ToSet
<1>4. IsInjective(waiting \o running)  BY <1>1 DEF IsInjective
<1>5. /\ \A r \in Requests : Work[r] \in Nat \ {0} /\ left[r] \in 0..Work[r] /\ left[r] # 0
      /\ left \in [Requests -> Nat] /\ BatchQueueSize \in Nat \ {0}
      /\ MaxNumRunningReqs \in Nat \ {0} /\ MaxSignals \in Nat
  BY <1>1, EngineAssumption DEF EngineAssumption
<1>6. TypeOK
  <2>1. /\ inputQueue \in Seq(Messages) /\ inThread \in Seq(Messages)
        /\ Len(inThread) <= 1 /\ Len(running) = 0 /\ Len(batchQueue) = 0
        /\ abortsQueue \in Seq(Requests) /\ idleCallbacks \in Seq(Calls)
        /\ waiting \in Seq(Requests) /\ running \in Seq(Requests)
    BY <1>1
  <2>2. call \in [Calls -> CallState] /\ answers \in [Requests -> Nat]
    BY <1>1 DEF CallState
  <2>3. Len(running) <= MaxNumRunningReqs /\ Len(batchQueue) <= BatchQueueSize
        /\ signals \in 0..MaxSignals
    BY <1>1, <1>5, <2>1
  <2> QED  BY <1>1, <1>4, <1>5, <2>1, <2>2, <2>3 DEF TypeOK
<1>7. Typed  BY <1>1, <1>5, <1>6 DEF Typed
<1>8. QueueInv  BY <1>1 DEF QueueInv, Once, Behind, Alone
<1>9. Sent  BY <1>1, <1>2, <1>3 DEF Sent, OnTheWay
<1>10. OnePlace
  BY <1>1, <1>2, <1>3, <1>5 DEF OnePlace, Scheduled
<1>11. AbortsFollow /\ BatchesRan /\ ResetsAreSafe /\ ResumesAlone /\ PausedRunsNothing /\ Stopping
  BY <1>1, <1>2 DEF AbortsFollow, BatchesRan, ResetsAreSafe, ResumesAlone, PausedRunsNothing,
                    Stopping, ExitLeavesNothing
<1> QED  BY <1>7, <1>8, <1>9, <1>10, <1>11 DEF IInv

LEMMA NextKeeps == IInv /\ [Next]_vars => IInv'
<1> SUFFICES ASSUME IInv, [Next]_vars PROVE IInv'  OBVIOUS
<1>1. ASSUME NEW r \in Requests, ReceiveAdd(r)  PROVE IInv'  BY <1>1, ReceiveAddKeeps
<1>2. ASSUME NEW r \in Requests, ReceiveAbort(r)  PROVE IInv'  BY <1>2, ReceiveAbortKeeps
<1>3. ASSUME NEW c \in Calls, ReceiveCall(c)  PROVE IInv'  BY <1>3, ReceiveCallKeeps
<1>4. CASE EnqueueAbort  BY <1>4, EnqueueAbortKeeps
<1>5. CASE Signal  BY <1>5, SignalKeeps, EngineAssumption
<1>6. CASE WakeupEngine  BY <1>6, WakeupEngineKeeps
<1>7. CASE ExecutorFailed  BY <1>7, ExecutorFailedKeeps
<1>8. CASE HandleShutdown  BY <1>8, HandleShutdownKeeps
<1>9. CASE BecomeIdle  BY <1>9, BecomeIdleKeeps
<1>10. CASE StopPolling  BY <1>10, StopPollingKeeps
<1>11. CASE BlockingGet  BY <1>11, HandleClientRequestKeeps DEF BlockingGet
<1>12. CASE DrainInput  BY <1>12, HandleClientRequestKeeps DEF DrainInput
<1>13. CASE EndDrain  BY <1>13, EndDrainKeeps
<1>14. CASE ScheduleBatch  BY <1>14, ScheduleBatchKeeps
<1>15. CASE NothingToSchedule  BY <1>15, NothingToScheduleKeeps
<1>16. CASE ProcessResult  BY <1>16, ProcessResultKeeps
<1>17. CASE UNCHANGED vars
  <2>1. UNCHANGED <<clientVars, threadVars, schedVars, pauseVars, stopVars, pc, batchQueue>>
    BY <1>17 DEF vars
  <2>2. UNCHANGED <<clientVars, threadVars, schedVars, pauseVars, wakeup, signals,
                    shutdownState, pc, batchQueue>>
    BY <2>1 DEF stopVars
  <2>3. UNCHANGED <<sent, aborted, call, inThread, inputQueue, abortsQueue, answers, waiting,
                     running, finishedIds, left, pauseState, idleCallbacks, sleeping,
                     cacheEpoch, wakeup, signals, shutdownState, batchQueue, pc>>
    BY <2>2 DEF clientVars, threadVars, pauseVars, schedVars
  <2>4. Scheduled' = Scheduled  BY <2>3 DEF Scheduled
  <2>5. \A t, a : OnTheWay(t, a)' <=> OnTheWay(t, a)  BY <2>3 DEF OnTheWay
  <2>6. Typed' /\ QueueInv' /\ Sent' /\ OnePlace'
    BY <2>3, <2>4, <2>5, InvParts DEF Typed, TypeOK, QueueInv, Sent, OnePlace
  <2>7. AbortsFollow' /\ BatchesRan' /\ ResetsAreSafe' /\ PausedRunsNothing' /\ ResumesAlone'
        /\ Stopping'
    BY <2>3, <2>4, <2>5, InvParts
    DEF AbortsFollow, BatchesRan, ResetsAreSafe, PausedRunsNothing, ResumesAlone, Stopping,
        ExitLeavesNothing
  <2> QED  BY <2>6, <2>7 DEF IInv
<1> QED
  BY <1>1, <1>2, <1>3, <1>4, <1>5, <1>6, <1>7, <1>8, <1>9, <1>10, <1>11, <1>12, <1>13,
     <1>14, <1>15, <1>16, <1>17
  DEF Next, BusyLoop

\* The inductive invariant holds in every reachable state.
THEOREM EngineInvariance == Spec => []IInv
BY InitEstablishes, NextKeeps, PTL DEF Spec

\* The input thread never has a new request in hand.
LEMMA ThreadCarriesAborts == ASSUME IInv, NEW r PROVE ~Carries(inThread, "ADD", r)
<1>1. inThread \in Seq(Aborts)  BY InvParts DEF Typed
<1>2. \A i \in 1..Len(inThread) : inThread[i] \in Aborts  BY <1>1, ElementOfSeq
<1>3. DOMAIN inThread = 1..Len(inThread)  BY <1>1
<1>4. \A m \in Aborts : m # Msg("ADD", r)  BY DEF Aborts, Msg
<1> QED  BY <1>2, <1>3, <1>4 DEF Carries

\* Every request that was sent and not aborted is in one place, or has been
\* answered once: whatever pauses, sleeps, stops or dies in between.
THEOREM RequestsAreKept == Spec => []NoRequestVanishes
<1>1. IInv => NoRequestVanishes
  <2> SUFFICES ASSUME IInv, NEW r \in sent
               PROVE  /\ TypeOK /\ answers[r] <= 1
                      /\ ~(OnTheWay("ADD", r) /\ r \in Scheduled)
                      /\ answers[r] = 1 => ~OnTheWay("ADD", r) /\ r \notin Scheduled
                      /\ TRUE \in {OnTheWay("ADD", r), r \in Scheduled, answers[r] = 1}
                         \/ r \in aborted
    <3>1. IInv => TypeOK  BY DEF IInv, Typed
    <3> QED  BY <3>1 DEF NoRequestVanishes
  <2>1. r \in Requests /\ TypeOK  BY InvParts DEF Typed
  <2>2. OnTheWay("ADD", r) <=> Carries(inputQueue, "ADD", r)
    BY ThreadCarriesAborts DEF OnTheWay
  <2>3. /\ answers[r] <= 1
        /\ ~(OnTheWay("ADD", r) /\ r \in Scheduled)
        /\ answers[r] = 1 => ~OnTheWay("ADD", r) /\ r \notin Scheduled
        /\ OnTheWay("ADD", r) \/ r \in Scheduled \/ answers[r] = 1 \/ r \in aborted
    BY <2>1, <2>2, InvParts DEF OnePlace
  <2> QED  BY <2>1, <2>3
<1> QED  BY <1>1, EngineInvariance, PTL

\* A request whose abort has been handled is not in the scheduler and does
\* not come to it any more.
THEOREM AbortsAreHandled == Spec => []AbortsDoNotLeak
<1>1. IInv => AbortsDoNotLeak
  <2> SUFFICES ASSUME IInv, NEW r \in aborted, ~OnTheWay("ABORT", r)
               PROVE  r \notin Scheduled /\ ~OnTheWay("ADD", r)
    BY DEF AbortsDoNotLeak
  <2>1. r \notin Scheduled /\ ~Carries(inputQueue, "ADD", r)
    BY InvParts DEF AbortsFollow
  <2> QED  BY <2>1, ThreadCarriesAborts DEF OnTheWay
<1> QED  BY <1>1, EngineInvariance, PTL

\* No batch in flight is older than the last reset of the caches: nothing
\* writes blocks that were given back by it.
THEOREM ResetsFindNoBatch == Spec => []ResetsAreSafe
<1>1. IInv => ResetsAreSafe  BY DEF IInv
<1> QED  BY <1>1, EngineInvariance, PTL

\* An engine that sleeps, or has answered its pauses, has no work in a batch.
THEOREM PausesAreKept == Spec => []PausedIsIdle
<1>1. IInv => PausedIsIdle  BY DEF IInv, PausedRunsNothing, PausedIsIdle
<1> QED  BY <1>1, EngineInvariance, PTL

\* A process that has exited left nothing behind, unless it drained paused.
THEOREM ExitIsClean == Spec => []ExitLeavesNothing
<1>1. IInv => ExitLeavesNothing  BY DEF IInv, Stopping
<1> QED  BY <1>1, EngineInvariance, PTL
=============================================================================
