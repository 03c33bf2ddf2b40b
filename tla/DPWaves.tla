------------------------------ MODULE DPWaves ------------------------------
(***************************************************************************)
(* DPEngineCoreProc of vllm_patched/v1/engine/core.py: data-parallel ranks *)
(* that step together.  A forward pass is a collective of all ranks, so a  *)
(* rank steps while any of them has requests (a wave), with a dummy batch  *)
(* when it has none; every SyncEvery steps they agree whether to go on.    *)
(* A pause is agreed on in the same place.                                 *)
(*                                                                         *)
(* The coordinator, the front-end and the collectives themselves are not   *)
(* part of the repository: what the ranks need of them is modelled.        *)
(***************************************************************************)
EXTENDS Naturals, Sequences, FiniteSets

CONSTANTS
    Rank, First,    \* data-parallel ranks, and the one with dp_rank 0
    SyncEvery,      \* _has_global_unfinished_reqs: 32
    Interval,       \* prefill_schedule_interval
    Modes,          \* pause modes the client uses
    MaxSent,        \* bound: requests, aborts and pauses sent
    MaxAborts,      \* bound: aborts among them
    EarlyAborts     \* whether clients abort requests that no step has had yet

ASSUME WavesAssumption ==
    /\ First \in Rank /\ SyncEvery \in Nat \ {0} /\ Interval \in Nat \ {0}
    /\ Modes \subseteq {"keep", "wait", "abort"} /\ EarlyAborts \in BOOLEAN

VARIABLES
    \* each rank
    at,          \* "top" of the loop, or waiting for a collective: "forward", "sync", "resume"
    running,     \* engines_running
    wave,        \* current_wave
    counter,     \* step_counter, modulo Cycle
    pending,     \* pending_pause
    ignore,      \* ignore_start_dp_wave
    pauseState,
    future,      \* the pause future: "none", "pending", "done"
    waiting, active,   \* unfinished requests of its scheduler
    finished,    \* its finished_req_ids is not empty
    inq,         \* input_queue
    \* the coordinator
    toCoord,     \* what each rank and the front-end ("client") sent it
    coord,       \* its wave, and whether it believes the engines run
    \* the front-end
    client,      \* its copy of both, and where its pause is
    sent         \* how many requests, aborts and pauses it sent

loop == <<at, running, wave, counter>>
pause == <<pending, ignore, pauseState, future>>
reqs == <<waiting, active, finished>>
outside == <<toCoord, coord, client, sent>>
wavesVars == <<loop, pause, reqs, inq, outside>>

Cycle == SyncEvery * Interval
PauseStates == {"unpaused", "paused_new", "paused_all"}

WavesTypeOK ==
    /\ at \in [Rank -> {"top", "forward", "sync", "resume"}]
    /\ running \in [Rank -> BOOLEAN] /\ wave \in [Rank -> Nat] /\ counter \in [Rank -> 0..(Cycle - 1)]
    /\ pending \in [Rank -> BOOLEAN] /\ ignore \in [Rank -> BOOLEAN]
    /\ pauseState \in [Rank -> PauseStates] /\ future \in [Rank -> {"none", "pending", "done"}]
    /\ waiting \in [Rank -> Nat] /\ active \in [Rank -> Nat] /\ finished \in [Rank -> BOOLEAN]
    /\ coord \in [wave : Nat, running : BOOLEAN]
    /\ client.phase \in {"serving", "pausing", "paused", "resuming"}

Each(x) == [r \in Rank |-> x]

WavesInit ==
    /\ at = Each("top") /\ running = Each(FALSE) /\ wave = Each(0) /\ counter = Each(0)
    /\ pending = Each(FALSE) /\ ignore = Each(FALSE)
    /\ pauseState = Each("unpaused") /\ future = Each("none")
    /\ waiting = Each(0) /\ active = Each(0) /\ finished = Each(FALSE)
    /\ inq = Each(<<>>)
    /\ toCoord = [s \in Rank \cup {"client"} |-> <<>>]
    /\ coord = [wave |-> 0, running |-> FALSE]
    /\ client = [wave |-> 0, running |-> FALSE, phase |-> "serving"]
    /\ sent = [requests |-> 0, aborts |-> 0, pauses |-> 0]

----------------------------------------------------------------------------
(* A rank.                                                                 *)

\* get_num_unfinished_requests.
Unfinished(r) ==
    CASE pauseState[r] = "unpaused" -> waiting[r] + active[r]
      [] pauseState[r] = "paused_new" -> active[r]
      [] pauseState[r] = "paused_all" -> 0

HasWork(r) == running[r] \/ Unfinished(r) > 0 \/ finished[r]

Tell(r, message) == toCoord' = [toCoord EXCEPT ![r] = Append(@, message)]

\* add_request of a request that the front-end stamped with a wave.
\* Mutant: a request of a completed wave wakes nobody.
AddRequestQuietly(r, w) ==
    /\ waiting' = [waiting EXCEPT ![r] = @ + 1]
    /\ wave' = [wave EXCEPT ![r] = IF w > @ THEN w ELSE @]
    /\ UNCHANGED <<at, running, counter, pause, active, finished, outside>>

AddRequest(r, w) ==
    /\ waiting' = [waiting EXCEPT ![r] = @ + 1]
    /\ wave' = [wave EXCEPT ![r] = IF w > @ THEN w ELSE @]
    /\ IF w < wave[r] /\ ~running[r] /\ pauseState[r] = "unpaused"
       THEN /\ running' = [running EXCEPT ![r] = TRUE]
            /\ Tell(r, [kind |-> "start_wave", wave |-> wave[r]])
       ELSE UNCHANGED <<running, toCoord>>
    /\ UNCHANGED <<at, counter, pause, active, finished, coord, client, sent>>

\* An abort ends a request that is still there.
AbortRequest(r) ==
    /\ \/ waiting[r] > 0 /\ waiting' = [waiting EXCEPT ![r] = @ - 1] /\ UNCHANGED active
       \/ active[r] > 0 /\ active' = [active EXCEPT ![r] = @ - 1] /\ UNCHANGED waiting
       \/ waiting[r] + active[r] = 0 /\ UNCHANGED <<waiting, active>>
    /\ finished' = [finished EXCEPT ![r] = @ \/ waiting[r] + active[r] > 0]
    /\ UNCHANGED <<loop, pause, outside>>

\* Mutant: a rank that has been paused is woken.
StartWaveAlways(r, w, exclude) ==
    /\ IF exclude # r /\ w >= wave[r]
       THEN wave' = [wave EXCEPT ![r] = w] /\ running' = [running EXCEPT ![r] = TRUE]
       ELSE UNCHANGED <<wave, running>>
    /\ UNCHANGED <<at, counter, pause, reqs, outside>>

\* START_DP_WAVE.
StartWave(r, w, exclude) ==
    /\ IF ~ignore[r] /\ exclude # r /\ w >= wave[r]
       THEN wave' = [wave EXCEPT ![r] = w] /\ running' = [running EXCEPT ![r] = TRUE]
       ELSE UNCHANGED <<wave, running>>
    /\ UNCHANGED <<at, counter, pause, reqs, outside>>

\* pause_scheduler with the _pause_complete of this class.
PauseScheduler(r, mode) ==
    /\ IF mode = "abort"
       THEN /\ waiting' = [waiting EXCEPT ![r] = 0] /\ active' = [active EXCEPT ![r] = 0]
            /\ finished' = [finished EXCEPT ![r] = @ \/ waiting[r] + active[r] > 0]
       ELSE UNCHANGED reqs
    /\ pauseState' = [pauseState EXCEPT ![r] = IF mode = "keep" THEN "paused_all" ELSE "paused_new"]
    /\ pending' = [pending EXCEPT ![r] = TRUE] /\ running' = [running EXCEPT ![r] = TRUE]
    /\ future' = [future EXCEPT ![r] = "pending"]
    /\ UNCHANGED <<at, wave, counter, ignore, outside>>

\* resume_scheduler, up to its all-reduce.  A pause in flight refuses it, and
\* engines that run ignore it.
ResumeScheduler(r) ==
    /\ IF pending[r] \/ running[r]
       THEN UNCHANGED <<at, pauseState, ignore>>
       ELSE /\ pauseState' = [pauseState EXCEPT ![r] = "unpaused"]
            /\ ignore' = [ignore EXCEPT ![r] = FALSE]
            /\ at' = [at EXCEPT ![r] = "resume"]
    /\ UNCHANGED <<running, wave, counter, pending, future, reqs, outside>>

\* A message of the input queue.  An idle rank completes the pause first.
Handle(r) ==
    /\ at[r] = "top" /\ inq[r] # <<>>
    /\ HasWork(r) \/ future[r] # "pending"
    /\ inq' = [inq EXCEPT ![r] = Tail(@)]
    /\ LET m == Head(inq[r]) IN
       \/ m.kind = "add" /\ AddRequest(r, m.wave)
       \/ m.kind = "abort" /\ AbortRequest(r)
       \/ m.kind = "start" /\ StartWave(r, m.wave, m.exclude)
       \/ m.kind = "pause" /\ PauseScheduler(r, m.mode)
       \/ m.kind = "resume" /\ ResumeScheduler(r)

\* _notify_idle_state_callbacks.
NotifyIdle(r) ==
    /\ at[r] = "top" /\ ~HasWork(r) /\ future[r] = "pending"
    /\ future' = [future EXCEPT ![r] = "done"]
    /\ UNCHANGED <<loop, pending, ignore, pauseState, reqs, inq, outside>>

\* The queue is drained and there is work: a batch, or a dummy batch, is
\* executed.  With finished requests to report and nothing else, nothing is.
Step(r) ==
    /\ at[r] = "top" /\ inq[r] = <<>> /\ HasWork(r)
    /\ IF running[r] \/ Unfinished(r) > 0
       THEN at' = [at EXCEPT ![r] = "forward"] /\ UNCHANGED finished
       ELSE finished' = [finished EXCEPT ![r] = FALSE] /\ UNCHANGED at
    /\ UNCHANGED <<running, wave, counter, pause, waiting, active, inq, outside>>

----------------------------------------------------------------------------
(* The collectives.                                                        *)

All(where) == \A r \in Rank : at[r] = where

Throttled(r) == Interval > 1 /\ counter[r] % Interval # 0

\* What the batch admits, and what is active in it.
Admits(r) == pauseState[r] = "unpaused" /\ ~Throttled(r)
Executes(r) == pauseState[r] # "paused_all"

NextCounter(r) == (counter[r] + 1) % Cycle

\* The forward pass; the ranks in "ends" finish all their requests in it.
Forward(ends) ==
    /\ All("forward")
    /\ LET now(r) == active[r] + (IF Admits(r) THEN waiting[r] ELSE 0)
           end(r) == r \in ends /\ Executes(r)
       IN  /\ waiting' = [r \in Rank |-> IF Admits(r) THEN 0 ELSE waiting[r]]
           /\ active' = [r \in Rank |-> IF end(r) THEN 0 ELSE now(r)]
           /\ finished' = [r \in Rank |-> end(r) /\ now(r) > 0]
    /\ counter' = [r \in Rank |-> NextCounter(r)]
    /\ running' = [r \in Rank |-> running[r] \/ NextCounter(r) % SyncEvery # 0]
    /\ at' = [r \in Rank |-> IF NextCounter(r) % SyncEvery = 0 THEN "sync" ELSE "top"]
    /\ UNCHANGED <<wave, pause, inq, outside>>

Consensus == \A r \in Rank : pending[r]

\* Mutant: ranks that wait for the others to pause are not waited for.
SomeUnfinishedOnly == \E r \in Rank : Unfinished(r) > 0

\* sync_dp_state: go on while a rank has requests, or some have been told to
\* pause and others have not.
GoOn == (\E r \in Rank : Unfinished(r) > 0) \/ ((\E r \in Rank : pending[r]) /\ ~Consensus)

\* Mutant: only the rank that announces the end of the wave resets it.
CounterOfFirst(r) == IF GoOn \/ r # First THEN counter[r] ELSE 0

CounterAfter(r) == IF GoOn THEN counter[r] ELSE 0

Sync ==
    /\ All("sync")
    /\ ignore' = [r \in Rank |-> ignore[r] \/ Consensus]
    /\ pending' = [r \in Rank |-> pending[r] /\ ~Consensus]
    /\ running' = Each(GoOn)
    /\ wave' = [r \in Rank |-> IF GoOn THEN wave[r] ELSE wave[r] + 1]
    /\ counter' = [r \in Rank |-> CounterAfter(r)]
    /\ IF GoOn THEN UNCHANGED toCoord ELSE Tell(First, [kind |-> "wave_complete", wave |-> wave[First]])
    /\ at' = Each("top")
    /\ UNCHANGED <<pauseState, future, reqs, inq, coord, client, sent>>

\* The all-reduce of resume_scheduler, a barrier.
ResumeTogether ==
    /\ All("resume")
    /\ running' = Each(\E r \in Rank : Unfinished(r) > 0)
    /\ at' = Each("top")
    /\ UNCHANGED <<wave, counter, pause, reqs, inq, outside>>

----------------------------------------------------------------------------
(* The coordinator: starts a wave once, and knows the last one.            *)

Broadcast(w, exclude) ==
    inq' = [r \in Rank |-> Append(inq[r], [kind |-> "start", wave |-> w, exclude |-> exclude])]

Nobody == "nobody"

Coordinate(s) ==
    /\ toCoord[s] # <<>>
    /\ toCoord' = [toCoord EXCEPT ![s] = Tail(@)]
    /\ LET m == Head(toCoord[s]) IN
       \/ /\ m.kind = "first_req" /\ ~coord.running
          /\ coord' = [coord EXCEPT !.running = TRUE]
          /\ Broadcast(coord.wave, IF m.wave < coord.wave THEN Nobody ELSE m.rank)
       \/ /\ m.kind = "start_wave"
          /\ m.wave > coord.wave \/ (m.wave = coord.wave /\ ~coord.running)
          /\ coord' = [wave |-> m.wave, running |-> TRUE]
          /\ Broadcast(m.wave, s)
       \/ /\ m.kind = "wave_complete" /\ coord.wave <= m.wave
          /\ coord' = [wave |-> m.wave + 1, running |-> FALSE]
          /\ UNCHANGED inq
       \/ /\ \/ m.kind = "first_req" /\ coord.running
             \/ m.kind = "start_wave" /\ (m.wave < coord.wave \/ (m.wave = coord.wave /\ coord.running))
             \/ m.kind = "wave_complete" /\ coord.wave > m.wave
          /\ UNCHANGED <<coord, inq>>
    /\ UNCHANGED <<loop, pause, reqs, client, sent>>

----------------------------------------------------------------------------
(* The front-end, and the one who pauses it.                               *)

\* It learns what the coordinator publishes, late.
Publish ==
    /\ client.wave # coord.wave \/ client.running # coord.running
    /\ client' = [client EXCEPT !.wave = coord.wave, !.running = coord.running]
    /\ UNCHANGED <<loop, pause, reqs, inq, toCoord, coord, sent>>

MaySend == sent.requests + sent.aborts + sent.pauses < MaxSent

SendRequest(r) ==
    /\ MaySend
    /\ sent' = [sent EXCEPT !.requests = @ + 1]
    /\ inq' = [inq EXCEPT ![r] = Append(@, [kind |-> "add", wave |-> client.wave])]
    /\ client' = [client EXCEPT !.running = TRUE]
    /\ IF client.running THEN UNCHANGED toCoord
       ELSE Tell("client", [kind |-> "first_req", wave |-> client.wave, rank |-> r])
    /\ UNCHANGED <<loop, pause, reqs, coord>>

SendAbort(r) ==
    /\ MaySend /\ sent.aborts < MaxAborts /\ sent.aborts < sent.requests
    /\ EarlyAborts \/ active[r] > 0
    /\ sent' = [sent EXCEPT !.aborts = @ + 1]
    /\ inq' = [inq EXCEPT ![r] = Append(@, [kind |-> "abort"])]
    /\ UNCHANGED <<loop, pause, reqs, toCoord, coord, client>>

SendPause ==
    /\ client.phase = "serving" /\ MaySend
    /\ sent' = [sent EXCEPT !.pauses = @ + 1]
    /\ client' = [client EXCEPT !.phase = "pausing"]
    /\ \E mode \in Modes : inq' = [r \in Rank |-> Append(inq[r], [kind |-> "pause", mode |-> mode])]
    /\ UNCHANGED <<loop, pause, reqs, toCoord, coord>>

\* Every rank has answered.
Paused ==
    /\ client.phase = "pausing" /\ \A r \in Rank : future[r] = "done"
    /\ client' = [client EXCEPT !.phase = "paused"]
    /\ UNCHANGED <<loop, pause, reqs, inq, toCoord, coord, sent>>

SendResume ==
    /\ client.phase = "paused"
    /\ client' = [client EXCEPT !.phase = "resuming"]
    /\ inq' = [r \in Rank |-> Append(inq[r], [kind |-> "resume"])]
    /\ future' = Each("none")
    /\ UNCHANGED <<loop, pending, ignore, pauseState, reqs, toCoord, coord, sent>>

Resumed ==
    /\ client.phase = "resuming"
    /\ \A r \in Rank : pauseState[r] = "unpaused" /\ at[r] # "resume"
    /\ client' = [client EXCEPT !.phase = "serving"]
    /\ UNCHANGED <<loop, pause, reqs, inq, toCoord, coord, sent>>

RankStep(r) == Handle(r) \/ NotifyIdle(r) \/ Step(r)

WavesNext ==
    \/ \E r \in Rank : RankStep(r) \/ SendRequest(r) \/ SendAbort(r)
    \/ \E ends \in SUBSET Rank : Forward(ends)
    \/ Sync \/ ResumeTogether
    \/ \E s \in Rank \cup {"client"} : Coordinate(s)
    \/ Publish \/ SendPause \/ Paused \/ SendResume \/ Resumed

\* The ranks and the coordinator run, a request that is executed again and
\* again ends, and whoever paused the engines resumes them.
WavesFairness ==
    /\ \A r \in Rank : WF_wavesVars(RankStep(r))
    /\ WF_wavesVars(\E ends \in SUBSET Rank : Forward(ends))
    /\ SF_wavesVars(Forward(Rank))
    /\ WF_wavesVars(Sync) /\ WF_wavesVars(ResumeTogether)
    /\ \A s \in Rank \cup {"client"} : WF_wavesVars(Coordinate(s))
    /\ WF_wavesVars(Publish) /\ WF_wavesVars(Paused) /\ WF_wavesVars(SendResume)
    /\ WF_wavesVars(Resumed)

WavesSpec == WavesInit /\ [][WavesNext]_wavesVars /\ WavesFairness

----------------------------------------------------------------------------
(* Properties.                                                             *)

\* No two ranks wait in different collectives, where they would wait for ever;
\* those in the same one have made as many steps ("step_counter is identical
\* across DP ranks") of the same wave.
CollectivesMatch ==
    /\ WavesTypeOK
    /\ \A r, s \in Rank :
        at[r] # "top" /\ at[s] # "top" =>
            at[r] = at[s] /\ counter[r] = counter[s] /\ (at[r] = "sync" => wave[r] = wave[s])

\* While the client believes the engines are paused they are, on every rank:
\* no stale START_DP_WAVE and no request wakes one.
PauseHolds ==
    client.phase = "paused" => \A r \in Rank : at[r] = "top" /\ ~running[r] /\ ~pending[r]

\* No forward pass is waited for in vain: whoever enters one is joined by the
\* other ranks, which are told of the wave or learn it from one another.
ForwardsComplete == \A r \in Rank : at[r] = "forward" ~> at[r] # "forward"

\* A pause is answered by every rank, whatever waves come and go.
PauseCompletes == client.phase = "pausing" ~> client.phase = "paused"

\* The coordinator goes on believing that the engines run, nothing will tell it
\* otherwise, and a rank idles: who sends to another rank is told that the
\* engines run, and wakes no one.
Stranded ==
    /\ coord.running /\ \A s \in DOMAIN toCoord : toCoord[s] = <<>>
    /\ \E r \in Rank : at[r] = "top" /\ ~HasWork(r) /\ inq[r] = <<>>

\* Every request ends, also one sent with the wave of a front-end that does
\* not know yet that the wave is over, or sent to a paused engine, unless the
\* coordinator is wrong for ever: after a request, a pause that swallows its
\* START_DP_WAVE, and the resume, the next request may wait for ever.
Load(r) == waiting[r] + active[r] + Len(SelectSeq(inq[r], LAMBDA m : m.kind = "add"))
RequestsFinish == <>[]Stranded \/ \A r \in Rank : Load(r) > 0 ~> Load(r) = 0
=============================================================================
