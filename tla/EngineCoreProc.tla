--------------------------- MODULE EngineCoreProc ---------------------------
(***************************************************************************)
(* The engine process of vllm_patched/v1/engine/core.py: its input thread  *)
(* (process_input_sockets), its busy loop (run_busy_loop), the two queues  *)
(* between them, and the utility calls that pause, sleep, wake and resume  *)
(* the scheduler.  A signal handler asks for the shutdown at any moment.   *)
(*                                                                         *)
(* The busy loop runs at the grain at which the input thread and the       *)
(* signal handler can interleave with it: `pc' is the next statement.      *)
(* The scheduler is reduced to its queues (PrefillScheduler has the rest): *)
(* requests are admitted in arrival order and need Work[r] tokens each.    *)
(* An answer is counted when it is put on the output queue.                *)
(***************************************************************************)
EXTENDS Integers, Sequences, FiniteSets, SequencesExt, Subsequences

CONSTANTS
    Requests,         \* every request clients ever send; ids are not reused
    Work,             \* [Requests -> Nat], tokens a request generates
    Abortable,        \* those whose client may abort them
    Malformed,        \* those preprocess_add_request may fail on
    Calls,            \* the utility calls clients make, each once
    MaxNumRunningReqs,
    BatchQueueSize,   \* batches in flight; 1 is EngineCore.step
    ShutdownTimeout,  \* vllm_config.shutdown_timeout: 0 aborts, else drains
    MaxSignals        \* bound: SIGTERM or SIGINT arrives so often

PauseModes == {"abort", "wait", "keep"}

ASSUME EngineAssumption ==
    /\ Work \in [Requests -> Nat \ {0}]
    /\ Abortable \subseteq Requests /\ Malformed \subseteq Requests
    /\ Calls \subseteq PauseModes \cup {"sleep", "wake_up", "resume"}
    /\ MaxNumRunningReqs \in Nat \ {0} /\ BatchQueueSize \in Nat \ {0}
    /\ ShutdownTimeout \in Nat /\ MaxSignals \in Nat

VARIABLES
    \* what clients have sent
    sent, aborted,  \* requests, and those whose client sent an abort
    call,           \* [Calls -> CallState]
    \* the input thread
    inThread,       \* the abort it has in hand, if any
    inputQueue, abortsQueue,
    \* the busy loop
    pc, shutdownState, wakeup, signals,
    waiting, running, finishedIds, pauseState,
    left,           \* tokens a request has still to generate
    batchQueue,     \* the batches in flight, oldest first
    idleCallbacks,  \* the calls whose futures wait for an idle engine
    sleeping,       \* model_executor.is_sleeping
    \* for the properties only
    answers,        \* [Requests -> how many final outputs were sent]
    cacheEpoch      \* how often the caches were reset

clientVars == <<sent, aborted, call>>
threadVars == <<inThread, inputQueue, abortsQueue>>
schedVars  == <<waiting, running, finishedIds, left, answers>>
pauseVars  == <<pauseState, idleCallbacks, sleeping, cacheEpoch>>
stopVars   == <<shutdownState, wakeup, signals>>
vars == <<clientVars, threadVars, schedVars, pauseVars, stopVars, pc, batchQueue>>

Scheduled == ToSet(waiting) \cup ToSet(running)
CallState == {"unsent", "sent", "done", "rejected"}
Outstanding == {c \in Calls : call[c] = "sent"}

Msg(type, arg) == [type |-> type, arg |-> arg]
RequestMsgs == [type : {"ADD", "ABORT"}, arg : Requests]
Messages == RequestMsgs \cup [type : {"UTILITY"}, arg : Calls]
                        \cup {Msg("WAKEUP", "none")}

TypeOK ==
    /\ inputQueue \in Seq(Messages)
    /\ inThread \in Seq(Messages) /\ Len(inThread) <= 1
    /\ abortsQueue \in Seq(Requests)
    /\ sent \subseteq Requests /\ aborted \subseteq sent
    /\ call \in [Calls -> CallState]
    /\ pc \in {"shutdown", "input", "get", "drain", "step", "result", "exited", "dead"}
    /\ shutdownState \in {"RUNNING", "REQUESTED", "SHUTTING_DOWN"}
    /\ wakeup \in BOOLEAN /\ signals \in 0..MaxSignals
    /\ waiting \in Seq(Requests) /\ running \in Seq(Requests)
    /\ IsInjective(waiting \o running) /\ Len(running) <= MaxNumRunningReqs
    /\ finishedIds \subseteq Requests
    /\ pauseState \in {"UNPAUSED", "PAUSED_NEW", "PAUSED_ALL"}
    /\ \A r \in Requests : left[r] \in 0..Work[r]
    /\ Len(batchQueue) <= BatchQueueSize
    /\ idleCallbacks \in Seq(Calls) /\ sleeping \in BOOLEAN
    /\ answers \in [Requests -> Nat] /\ cacheEpoch \in Nat

Init ==
    /\ sent = {} /\ aborted = {}
    /\ call = [c \in Calls |-> "unsent"]
    /\ inThread = <<>> /\ inputQueue = <<>> /\ abortsQueue = <<>>
    /\ pc = "shutdown" /\ shutdownState = "RUNNING" /\ wakeup = FALSE /\ signals = 0
    /\ waiting = <<>> /\ running = <<>> /\ finishedIds = {} /\ left = Work
    /\ pauseState = "UNPAUSED" /\ idleCallbacks = <<>> /\ sleeping = FALSE
    /\ batchQueue = <<>>
    /\ answers = [r \in Requests |-> 0] /\ cacheEpoch = 0

Alive == pc \notin {"exited", "dead"}

----------------------------------------------------------------------------
(* The input thread.  A message is read at any time after it was sent, in   *)
(* the order in which its client sent it; ENGPACE may hold an ADD, which    *)
(* here is the same as reading it later.                                    *)

\* Preprocessing an ADD may fail, which is answered at once with an error.
ReceiveAdd(r) ==
    /\ Alive /\ inThread = <<>> /\ r \notin sent
    /\ sent' = sent \cup {r}
    /\ \/ /\ inputQueue' = Append(inputQueue, Msg("ADD", r))
          /\ UNCHANGED answers
       \/ /\ r \in Malformed
          /\ answers' = [answers EXCEPT ![r] = @ + 1]
          /\ UNCHANGED inputQueue
    /\ UNCHANGED <<aborted, call, inThread, abortsQueue, waiting, running, finishedIds, left,
                   pauseVars, stopVars, pc, batchQueue>>

\* An abort is made visible to the step in progress, and then takes its place
\* in the input queue.
ReceiveAbort(r) ==
    /\ Alive /\ inThread = <<>> /\ r \in (sent \cap Abortable) \ aborted
    /\ aborted' = aborted \cup {r}
    /\ abortsQueue' = Append(abortsQueue, r)
    /\ inThread' = <<Msg("ABORT", r)>>
    /\ UNCHANGED <<sent, call, inputQueue, schedVars, pauseVars, stopVars, pc, batchQueue>>

\* Mutant: the abort is left to the queue the step reads.
EnqueueAbortEagerOnly ==
    /\ Alive /\ inThread # <<>>
    /\ inThread' = <<>>
    /\ UNCHANGED <<clientVars, inputQueue, abortsQueue, schedVars, pauseVars, stopVars, pc,
                   batchQueue>>

EnqueueAbort ==
    /\ Alive /\ inThread # <<>>
    /\ inputQueue' = inputQueue \o inThread
    /\ inThread' = <<>>
    /\ UNCHANGED <<clientVars, abortsQueue, schedVars, pauseVars, stopVars, pc, batchQueue>>

\* Clients keep to the protocol the data-parallel engine enforces: they do
\* not resume before the pause has been answered, and they undo a sleep with
\* wake_up.
ReceiveCall(c) ==
    /\ Alive /\ inThread = <<>> /\ call[c] = "unsent"
    /\ c \in {"resume", "wake_up"} => Outstanding = {}
    /\ c = "resume" => ~sleeping
    /\ call' = [call EXCEPT ![c] = "sent"]
    /\ inputQueue' = Append(inputQueue, Msg("UTILITY", c))
    /\ UNCHANGED <<sent, aborted, inThread, abortsQueue, schedVars, pauseVars, stopVars, pc,
                   batchQueue>>

\* The signal handler sets the state; the thread it triggers wakes the loop.
Signal ==
    /\ Alive /\ signals < MaxSignals
    /\ shutdownState' = "REQUESTED" /\ wakeup' = TRUE /\ signals' = signals + 1
    /\ UNCHANGED <<clientVars, threadVars, schedVars, pauseVars, pc, batchQueue>>

\* Mutant: the state alone is set.
WakeupLost ==
    /\ Alive /\ wakeup
    /\ wakeup' = FALSE
    /\ UNCHANGED <<clientVars, threadVars, schedVars, pauseVars, shutdownState, signals, pc,
                   batchQueue>>

WakeupEngine ==
    /\ Alive /\ wakeup
    /\ wakeup' = FALSE
    /\ inputQueue' = Append(inputQueue, Msg("WAKEUP", "none"))
    /\ UNCHANGED <<clientVars, inThread, abortsQueue, schedVars, pauseVars, shutdownState,
                   signals, pc, batchQueue>>

\* The executor's failure callback puts EXECUTOR_FAILED on the input queue at
\* any time; here it is put at the moment the loop comes to read it.
ExecutorFailed ==
    /\ pc \in {"get", "drain"}
    /\ pc' = "dead"
    /\ UNCHANGED <<clientVars, threadVars, schedVars, pauseVars, stopVars, batchQueue>>

----------------------------------------------------------------------------
(* The scheduler, as the engine process sees it.                           *)

\* Mutant: queued requests count while paused.
NumUnfinishedPaused == IF pauseState = "PAUSED_ALL" THEN 0 ELSE Len(waiting) + Len(running)

NumUnfinished ==
    CASE pauseState = "PAUSED_ALL" -> 0
      [] pauseState = "PAUSED_NEW" -> Len(running)
      [] OTHER -> Len(waiting) + Len(running)

HasRequests == NumUnfinished > 0 \/ finishedIds # {}
\* Mutant: the batches in flight are not work.
has_work_scheduler == HasRequests

has_work == HasRequests \/ batchQueue # <<>>
is_running == shutdownState = "RUNNING"

\* finish_requests(ids, FINISHED_ABORTED): unknown and finished ids are skipped.
FinishRequests(ids) ==
    /\ waiting' = Without(waiting, ids)
    /\ running' = Without(running, ids)
    /\ finishedIds' = finishedIds \cup (ids \cap Scheduled)

\* finish_requests(None) followed by _send_abort_outputs.
\* Mutant: the clients are not told.
AbortAllSilently == FinishRequests(Scheduled) /\ UNCHANGED <<left, answers>>

AbortAll ==
    /\ FinishRequests(Scheduled)
    /\ answers' = [r \in Requests |-> IF r \in Scheduled THEN answers[r] + 1 ELSE answers[r]]
    /\ UNCHANGED left

----------------------------------------------------------------------------
(* Client requests, dispatched by _handle_client_request.                  *)

HandleAdd(r) ==
    /\ IF is_running
       THEN waiting' = Append(waiting, r) /\ UNCHANGED answers
       ELSE answers' = [answers EXCEPT ![r] = @ + 1] /\ UNCHANGED waiting
    /\ UNCHANGED <<running, finishedIds, left, pauseVars, call>>

HandleAbort(r) ==
    FinishRequests({r}) /\ UNCHANGED <<left, answers, pauseVars, call>>

\* _reset_caches: running requests are preempted back to the waiting queue.
ResetCaches(w, run) ==
    /\ waiting' = run \o w /\ running' = <<>>
    /\ cacheEpoch' = cacheEpoch + 1

\* pause_scheduler, and sleep which chains the executor's sleep to the
\* pause: the call is answered now if the engine is idle, else when it is.
\* An abort always leaves finished ids behind, so it is never answered now
\* unless there was nothing to abort.
HandlePause(c, mode) ==
    LET paused == IF mode = "keep" THEN "PAUSED_ALL" ELSE "PAUSED_NEW"
        aborts == mode = "abort" /\ Scheduled # {}
        idle == /\ ~aborts /\ finishedIds = {} /\ batchQueue = <<>>
                /\ (mode = "keep" \/ running = <<>>)
    IN /\ pauseState' = paused
       /\ IF idle
          THEN /\ ResetCaches(waiting, running)
               /\ call' = [call EXCEPT ![c] = "done"]
               /\ sleeping' = (sleeping \/ c = "sleep")
               /\ UNCHANGED <<idleCallbacks, finishedIds, left, answers>>
          ELSE /\ IF mode = "abort" THEN AbortAll ELSE UNCHANGED schedVars
               /\ idleCallbacks' = Append(idleCallbacks, c)
               /\ UNCHANGED <<call, sleeping, cacheEpoch>>

HandleResume(c) ==
    /\ pauseState' = "UNPAUSED"
    /\ sleeping' = (sleeping /\ c # "wake_up")
    /\ call' = [call EXCEPT ![c] = "done"]
    /\ UNCHANGED <<schedVars, idleCallbacks, cacheEpoch>>

HandleUtility(c) ==
    IF ~is_running
    THEN call' = [call EXCEPT ![c] = "rejected"] /\ UNCHANGED <<schedVars, pauseVars>>
    ELSE IF c \in {"resume", "wake_up"} THEN HandleResume(c)
    ELSE \E mode \in IF c = "sleep" THEN PauseModes ELSE {c} : HandlePause(c, mode)

\* One message of the input queue; `next' is where the loop goes on.
HandleClientRequest(next) ==
    /\ inputQueue # <<>>
    /\ inputQueue' = Tail(inputQueue)
    /\ LET m == Head(inputQueue) IN
       \/ m.type = "ADD" /\ HandleAdd(m.arg)
       \/ m.type = "ABORT" /\ HandleAbort(m.arg)
       \/ m.type = "UTILITY" /\ HandleUtility(m.arg)
       \/ m.type = "WAKEUP" /\ UNCHANGED <<schedVars, pauseVars, call>>
    /\ pc' = next
    /\ UNCHANGED <<sent, aborted, inThread, abortsQueue, stopVars, batchQueue>>

----------------------------------------------------------------------------
(* The busy loop.                                                          *)

\* Mutant: there is nothing to abort when no request counts as unfinished.
AbortsUnfinished == shutdownState = "REQUESTED" /\ ShutdownTimeout = 0 /\ NumUnfinished > 0

AbortsNow == shutdownState = "REQUESTED" /\ ShutdownTimeout = 0

\* _handle_shutdown.  Under a zero timeout the requests in flight are
\* aborted; either way the loop ends once there is no work.
HandleShutdown ==
    LET abort == AbortsNow
        work == \/ finishedIds # {} \/ batchQueue # <<>>
                \/ IF abort THEN Scheduled # {} ELSE NumUnfinished > 0
    IN /\ pc = "shutdown"
       /\ IF abort THEN AbortAll ELSE UNCHANGED schedVars
       /\ shutdownState' = IF is_running THEN "RUNNING" ELSE "SHUTTING_DOWN"
       /\ pc' = IF is_running \/ work THEN "input" ELSE "exited"
       /\ UNCHANGED <<clientVars, threadVars, pauseVars, wakeup, signals, batchQueue>>

\* The head of the loop in _process_input_queue: an idle engine completes
\* the futures that wait for that, and drops aborts that the input queue
\* does not hold back any more.
BecomeIdle ==
    /\ pc = "input" /\ ~has_work /\ is_running
    /\ IF idleCallbacks = <<>>
       THEN UNCHANGED <<call, idleCallbacks, sleeping, cacheEpoch, waiting, running>>
       ELSE /\ ResetCaches(waiting, running)
            /\ call' = [c \in Calls |-> IF c \in ToSet(idleCallbacks) THEN "done" ELSE call[c]]
            /\ sleeping' = (sleeping \/ "sleep" \in ToSet(idleCallbacks))
            /\ idleCallbacks' = <<>>
    /\ abortsQueue' = IF inputQueue = <<>> THEN <<>> ELSE abortsQueue
    /\ pc' = "get"
    /\ UNCHANGED <<sent, aborted, inThread, inputQueue, finishedIds, left, answers,
                   pauseState, stopVars, batchQueue>>

StopPolling ==
    /\ pc = "input" /\ (has_work \/ ~is_running)
    /\ pc' = "drain"
    /\ UNCHANGED <<clientVars, threadVars, schedVars, pauseVars, stopVars, batchQueue>>

\* The blocking get of an idle engine, and the loop over what else arrived.
BlockingGet == pc = "get" /\ HandleClientRequest("input")
DrainInput  == pc = "drain" /\ HandleClientRequest("drain")
EndDrain ==
    /\ pc = "drain" /\ inputQueue = <<>>
    /\ pc' = "step"
    /\ UNCHANGED <<clientVars, threadVars, schedVars, pauseVars, stopVars, batchQueue>>

\* How many of the waiting requests schedule() admits.
\* Mutant: the pause is not looked at.
AdmittedPaused == Min({MaxNumRunningReqs - Len(running), Len(waiting)})

Admitted == IF pauseState = "UNPAUSED"
            THEN Min({MaxNumRunningReqs - Len(running), Len(waiting)}) ELSE 0

InFlight(r) == Cardinality({i \in DOMAIN batchQueue : r \in batchQueue[i].reqs})

\* The first half of step_with_batch_queue: schedule a batch, and go round
\* the loop again if another one may fit behind it.
ScheduleBatch ==
    LET run == running \o SubSeq(waiting, 1, Admitted)
        reqs == IF pauseState = "PAUSED_ALL" THEN {}
                ELSE {r \in ToSet(run) : InFlight(r) < left[r]}
        later == SubSeq(waiting, Admitted + 1, Len(waiting))
    IN /\ pc = "step" /\ HasRequests
       /\ running' = run /\ waiting' = later /\ finishedIds' = {}
       /\ batchQueue' = Append(batchQueue, [reqs |-> reqs, epoch |-> cacheEpoch])
       /\ pc' = IF Len(batchQueue) + 1 < BatchQueueSize /\ (reqs # {} \/ NumUnfinished > 0)
                THEN "shutdown" ELSE "result"
       /\ UNCHANGED <<clientVars, threadVars, left, answers, pauseVars, stopVars>>

NothingToSchedule ==
    /\ pc = "step" /\ ~HasRequests
    /\ pc' = IF batchQueue = <<>> THEN "shutdown" ELSE "result"
    /\ UNCHANGED <<clientVars, threadVars, schedVars, pauseVars, stopVars, batchQueue>>

\* The second half: wait for the oldest batch, take the aborts that came
\* meanwhile, then update_from_output, which skips requests that are gone.
ProcessResult ==
    LET gone == ToSet(abortsQueue)
        live == (Head(batchQueue).reqs \cap Scheduled) \ gone
        done == {r \in live : left[r] = 1}
    IN /\ pc = "result" /\ batchQueue # <<>>
       /\ waiting' = Without(waiting, gone)
       /\ running' = Without(running, gone \cup done)
       /\ finishedIds' = finishedIds \cup (gone \cap Scheduled) \cup done
       /\ left' = [r \in Requests |-> IF r \in live THEN left[r] - 1 ELSE left[r]]
       /\ answers' = [r \in Requests |-> IF r \in done THEN answers[r] + 1 ELSE answers[r]]
       /\ batchQueue' = Tail(batchQueue)
       /\ abortsQueue' = <<>>
       /\ pc' = "shutdown"
       /\ UNCHANGED <<clientVars, inThread, inputQueue, pauseVars, stopVars>>

BusyLoop ==
    \/ HandleShutdown \/ BecomeIdle \/ StopPolling \/ BlockingGet \/ DrainInput
    \/ EndDrain \/ ScheduleBatch \/ NothingToSchedule \/ ProcessResult

Next ==
    \/ \E r \in Requests : ReceiveAdd(r) \/ ReceiveAbort(r)
    \/ \E c \in Calls : ReceiveCall(c)
    \/ EnqueueAbort \/ Signal \/ WakeupEngine \/ ExecutorFailed
    \/ BusyLoop

\* The threads keep running; clients, signals and failures owe nothing.
Spec == Init /\ [][Next]_vars
        /\ WF_vars(BusyLoop) /\ WF_vars(EnqueueAbort) /\ WF_vars(WakeupEngine)

----------------------------------------------------------------------------
(* Properties.                                                             *)

Carries(queue, type, r) == \E i \in DOMAIN queue : queue[i] = Msg(type, r)
OnTheWay(type, r) == Carries(inThread, type, r) \/ Carries(inputQueue, type, r)

\* A request its client did not abort is, at any moment, in one place only:
\* on its way to the scheduler, in the scheduler, or answered once.  Pauses,
\* sleeps, the shutdown and late results of an aborted batch neither lose
\* it nor answer it twice, in a well-typed state.
NoRequestVanishes ==
    /\ TypeOK
    /\ \A r \in sent : Alive =>
        LET places == {OnTheWay("ADD", r), r \in Scheduled, answers[r] = 1}
            one == /\ ~(OnTheWay("ADD", r) /\ r \in Scheduled)
                   /\ answers[r] = 1 => ~OnTheWay("ADD", r) /\ r \notin Scheduled
        IN answers[r] <= 1 /\ one /\ (TRUE \in places \/ r \in aborted)

\* "ensuring ordering in the input queue to avoid leaking requests": once an
\* abort is no longer on its way, its request is not in the scheduler and
\* will not come to it, whichever of the two queues was read first.
AbortsDoNotLeak ==
    \A r \in aborted : Alive /\ ~OnTheWay("ABORT", r)
                         => r \notin Scheduled /\ ~OnTheWay("ADD", r)

\* No batch in flight was scheduled before the caches were last reset: the
\* reset frees every block, and such a batch would still write them.
ResetsAreSafe == \A i \in DOMAIN batchQueue : batchQueue[i].epoch = cacheEpoch

\* While the engine sleeps, and once its pauses have been answered, no
\* request is in a batch until the scheduler is resumed.
PausedIsIdle ==
    sleeping \/ (pauseState # "UNPAUSED" /\ idleCallbacks = <<>>)
        => \A i \in DOMAIN batchQueue : batchQueue[i].reqs = {}

\* The engine exits with requests in its queues only when it drains while
\* paused: an aborting shutdown answers every request it had accepted.
ExitLeavesNothing ==
    pc = "exited" /\ (ShutdownTimeout = 0 \/ pauseState = "UNPAUSED")
        => Scheduled = {} /\ batchQueue = <<>>

\* A signal ends the process, also when it comes just before an idle engine
\* blocks on its input queue.
ShutdownCompletes == shutdownState = "REQUESTED" ~> ~Alive

\* Every utility call is answered unless the engine shuts down: the future
\* of a pause completes whatever is in flight.
CallsAreAnswered ==
    \A c \in Calls : call[c] = "sent" ~> (call[c] = "done" \/ ~is_running \/ pc = "dead")
=============================================================================
