------------------------ MODULE SmallMachines_proofs ------------------------
(***************************************************************************)
(* The small machines, each with the invariant of its own: the pacing of   *)
(* the input thread, the warm-up gate, the launcher, the prompt tuning,    *)
(* the loads of the router and the adaptive prefill controller.            *)
(***************************************************************************)
EXTENDS EnginePacing, WarmupGate, Deployment, PromptTuning, SloRouter,
        AdaptivePrefillController, DataLemmas

----------------------------------------------------------------------------
(* The pacing bounds for every rate, burst and mode of ENGPACE.            *)

\* What the thread has paid and what it could pay now, together, are covered
\* by the time that passed; and a sleep in the bucket ends when the credit
\* the ADD lacks has come.
PaceInv ==
    /\ PaceTypeOK
    /\ spent + Refilled <= Capacity + (now - mark)
    /\ fillLast >= 0 => sinceFill + Refilled <= now - fillLast
    /\ hold.kind = "bucket" => credit < Rate /\ hold.until = last + (Rate - credit)

LEMMA RefilledRange ==
    ASSUME PaceTypeOK
    PROVE  /\ Refilled \in 0..Capacity
           /\ Refilled <= credit + (now - last)
           /\ Refilled = Capacity \/ Refilled = credit + (now - last)
  BY CapacityAssumption DEF PaceTypeOK, Refilled, Smaller

LEMMA InitPaceInv == PaceInit => PaceInv
  <1> SUFFICES ASSUME PaceInit PROVE PaceInv
    OBVIOUS
  <1> USE PaceAssumption, CapacityAssumption
  <1>1. PaceTypeOK
    <2>1. hold \in Holds
      BY DEF PaceInit, Awake, Holds
    <2>2. fillLast \in Int /\ fillLast <= now
      BY DEF PaceInit
    <2>3. credit \in 0..Capacity
      BY DEF PaceInit
    <2>4. now \in Nat /\ last \in 0..now /\ mark \in 0..now
      BY DEF PaceInit
    <2>5. spent \in Nat /\ sinceFill \in Nat
      BY DEF PaceInit
    <2>6. armed \in BOOLEAN
      BY DEF PaceInit
    <2> QED
      BY <2>1, <2>2, <2>3, <2>4, <2>5, <2>6 DEF PaceTypeOK
  <1>2. Refilled \in 0..Capacity
    BY <1>1, RefilledRange
  <1> QED
    BY <1>1, <1>2 DEF PaceInit, PaceInv, Awake

\* A step that leaves the thread's state alone, at a time that may be later.
LEMMA IdleStep ==
    ASSUME PaceInv, UNCHANGED <<credit, last, fillLast, hold, mark, spent, sinceFill, armed>>,
           now' \in {now, now + 1}
    PROVE  PaceInv'
  <1> USE PaceAssumption, CapacityAssumption DEF PaceInv
  <1>1. PaceTypeOK'
    BY DEF PaceTypeOK
  <1>2. CASE now' = now
    BY <1>1, <1>2 DEF PaceTypeOK, Refilled
  <1>3. CASE now' = now + 1
    <2>1. (spent + Refilled <= Capacity + (now - mark))'
      BY <1>3 DEF PaceTypeOK, Refilled, Smaller
    <2>2. (fillLast >= 0 => sinceFill + Refilled <= now - fillLast)'
      BY <1>3 DEF PaceTypeOK, Refilled, Smaller
    <2>3. (hold.kind = "bucket" => credit < Rate /\ hold.until = last + (Rate - credit))'
      OBVIOUS
    <2> QED
      BY <1>1, <2>1, <2>2, <2>3
  <1> QED
    BY <1>2, <1>3

LEMMA FillStep ==
    ASSUME PaceInv, FillNow, now' = now, armed' \in BOOLEAN
    PROVE  PaceInv'
  <1> USE PaceAssumption, CapacityAssumption DEF PaceInv, FillNow, CreditAfterFill
  <1>1. PaceTypeOK'
    BY DEF PaceTypeOK, Awake, Holds
  <1>2. Refilled' = 0
    BY DEF PaceTypeOK, Refilled, Smaller
  <1>3. Refilled \in 0..Capacity
    BY RefilledRange
  <1> QED
    BY <1>1, <1>2, <1>3 DEF PaceTypeOK, Awake

LEMMA ReceivePacedStep ==
    ASSUME PaceInv, NEW run \in 0..MaxRun, NEW dec \in 0..MaxRun, ReceivePaced(run, dec)
    PROVE  PaceInv'
  <1> USE PaceAssumption, CapacityAssumption DEF PaceInv
  <1>1. Refilled \in 0..Capacity
    BY RefilledRange
  <1>2. UNCHANGED <<now, fillLast, mark>> /\ last' = now
    BY DEF ReceivePaced
  <1>3. armed' \in BOOLEAN
    BY DEF ReceivePaced, ArmedAt, PaceTypeOK
  <1>4. CASE /\ Refilled >= Rate
             /\ credit' = Refilled - Rate
             /\ spent' = spent + Rate /\ sinceFill' = sinceFill + Rate
             /\ UNCHANGED hold
    <2>1. PaceTypeOK'
      BY <1>1, <1>2, <1>3, <1>4 DEF PaceTypeOK
    <2>2. Refilled' = credit'
      BY <1>1, <1>2, <1>4 DEF PaceTypeOK, Refilled, Smaller
    <2>3. hold.kind # "bucket"
      BY DEF ReceivePaced, Awake
    <2> QED
      BY <1>1, <1>2, <1>4, <2>1, <2>2, <2>3 DEF PaceTypeOK
  <1>5. CASE /\ credit' = 0
             /\ UNCHANGED <<hold, spent, sinceFill>>
    <2>1. PaceTypeOK'
      BY <1>1, <1>2, <1>3, <1>5 DEF PaceTypeOK
    <2>2. Refilled' = 0
      BY <1>1, <1>2, <1>5 DEF PaceTypeOK, Refilled, Smaller
    <2>3. hold.kind # "bucket"
      BY DEF ReceivePaced, Awake
    <2> QED
      BY <1>1, <1>2, <1>5, <2>1, <2>2, <2>3 DEF PaceTypeOK
  <1>6. CASE /\ Refilled < Rate
             /\ credit' = Refilled
             /\ hold' = [kind |-> "bucket", until |-> now + (Rate - Refilled)]
             /\ UNCHANGED <<spent, sinceFill>>
    <2>1. PaceTypeOK'
      BY <1>1, <1>2, <1>3, <1>6 DEF PaceTypeOK, Holds
    <2>2. Refilled' = Refilled
      BY <1>1, <1>2, <1>6 DEF PaceTypeOK, Refilled, Smaller
    <2> QED
      BY <1>1, <1>2, <1>6, <2>1, <2>2 DEF PaceTypeOK
  <1> QED
    BY <1>4, <1>5, <1>6 DEF ReceivePaced

LEMMA WakePacedStep ==
    ASSUME PaceInv, WakePaced
    PROVE  PaceInv'
  <1> USE PaceAssumption, CapacityAssumption DEF PaceInv, WakePaced
  <1>1. PaceTypeOK'
    BY DEF PaceTypeOK, Awake, Holds
  <1>2. Refilled >= Rate
    BY DEF PaceTypeOK, Refilled, Smaller
  <1>3. Refilled' = 0
    BY DEF PaceTypeOK, Refilled, Smaller
  <1> QED
    BY <1>1, <1>2, <1>3, RefilledRange DEF PaceTypeOK, Awake

LEMMA NextPaceInv == PaceInv /\ [PaceNext]_paceVars => PaceInv'
  <1> SUFFICES ASSUME PaceInv, [PaceNext]_paceVars PROVE PaceInv'
    OBVIOUS
  <1>1. CASE TimePasses
    BY <1>1, IdleStep DEF TimePasses
  <1>2. CASE MessageArrives \/ ReceiveOther
    BY <1>2, IdleStep DEF MessageArrives, ReceiveOther
  <1>3. CASE StartWindow
    <2> USE PaceAssumption, CapacityAssumption DEF PaceInv, StartWindow
    <2>1. PaceTypeOK' /\ Refilled' = Refilled
      BY <1>3 DEF PaceTypeOK, Refilled
    <2> QED
      BY <1>3, <2>1, RefilledRange DEF PaceTypeOK
  <1>4. CASE WakeFill
    BY <1>4, FillStep DEF WakeFill, PaceInv, PaceTypeOK
  <1>5. CASE WakePaced
    BY <1>5, WakePacedStep
  <1>6. ASSUME NEW run \in 0..MaxRun, ReceiveFill(run) PROVE PaceInv'
    <2>0. armed' \in BOOLEAN
      BY <1>6 DEF ReceiveFill, ArmedAt, PaceInv, PaceTypeOK
    <2>1. CASE now < fillLast + FillRate
      <3> USE PaceAssumption, CapacityAssumption DEF PaceInv
      <3>1. PaceTypeOK' /\ Refilled' = Refilled
        BY <1>6, <2>0, <2>1 DEF ReceiveFill, PaceTypeOK, Refilled, Holds
      <3>2. hold'.kind # "bucket"
        BY <1>6, <2>1 DEF ReceiveFill
      <3> QED
        BY <1>6, <2>1, <3>1, <3>2 DEF ReceiveFill
    <2>2. CASE ~(now < fillLast + FillRate)
      BY <1>6, <2>0, <2>2, FillStep DEF ReceiveFill
    <2> QED
      BY <2>1, <2>2
  <1>7. ASSUME NEW run \in 0..MaxRun, NEW dec \in 0..MaxRun, ReceivePaced(run, dec)
        PROVE  PaceInv'
    BY <1>7, ReceivePacedStep
  <1>8. CASE UNCHANGED paceVars
    BY <1>8, IdleStep DEF paceVars, PaceInv, PaceTypeOK
  <1> QED
    BY <1>1, <1>2, <1>3, <1>4, <1>5, <1>6, <1>7, <1>8 DEF PaceNext

\* In every window the ADDs that paid are within the burst and the rate, for
\* all values of the settings and all interleavings of the modes.
THEOREM PacingBounded == PaceSpec => []WindowBound
  <1>1. PaceInv => WindowBound
    BY RefilledRange, CapacityAssumption DEF PaceInv, WindowBound, PaceTypeOK
  <1> QED
    BY <1>1, InitPaceInv, NextPaceInv, PTL DEF PaceSpec

\* No burst is carried out of fill mode, whatever mixture of sleeps and gifts
\* follows it.
THEOREM FillLeavesNoBurst == PaceSpec => []NoBurstAfterFill
  <1>1. PaceInv => NoBurstAfterFill
    BY RefilledRange, CapacityAssumption DEF PaceInv, NoBurstAfterFill, PaceTypeOK
  <1> QED
    BY <1>1, InitPaceInv, NextPaceInv, PTL DEF PaceSpec

----------------------------------------------------------------------------
(* With the freeze on, what reads the marker file reads it after the       *)
(* warm-up of its own boot.                                                *)

\* The file alone is not enough: between a restart and the start of the
\* first interpreter it may still be the last boot's.
MarkerInv ==
    /\ marker /\ Api \in up => warmer = "done"
    /\ Api \notin up => up = {} /\ warmer = "off" /\ gate = "none"
    /\ healthy => warmer = "done"
    /\ gate = "open" => warmer = "done" \/ gateLeft = 0
    /\ \A p \in Proc : watcher[p] # "off" => Api \in up
    /\ \A p \in Proc : watcher[p] = "frozen" => warmer = "done"
    /\ DOMAIN watcher = Proc

LEMMA LenInNat == Len(Stages) \in Nat
  BY GateAssumption

\* The timers and the places of the threads.
LEMMA GateStepTyped ==
    ASSUME GateTypeOK, [GateNext]_gateVars
    PROVE  GateTypeOK'
<1> USE GateAssumption DEF GateTypeOK, procs, warmup, gates, freeze
<1>1. CASE Restart
  <2>1. /\ boots' \in 0..MaxBoots /\ up' \subseteq Proc
        /\ stage' \in 0..Len(Stages)
        /\ startLeft' \in 0..StartupTimeout /\ gateLeft' \in 0..GateTimeout
    BY <1>1, LenInNat DEF Restart
  <2>2. watcher' \in [Proc -> {"off", "waiting", "frozen", "expired"}]
    BY <1>1 DEF Restart, NoWatch
  <2>3. watchLeft' \in [Proc -> 0..FreezeTimeout]
    <3>1. 0 \in 0..FreezeTimeout
      OBVIOUS
    <3> QED
      BY <1>1, <3>1 DEF Restart, NoTime
  <2> QED
    BY <1>1, <2>1, <2>2, <2>3 DEF Restart
<1>2. CASE Serve
  BY <1>2 DEF Serve
<1>3. CASE Answer \/ WaitHealth \/ StagesDone \/ WriteMarker \/ PollHealth \/ Healthcheck
  BY <1>3 DEF Answer, WaitHealth, StagesDone, WriteMarker, PollHealth, Healthcheck
<1>4. CASE RunStage
  BY <1>4 DEF RunStage, MayRaise
<1>5. CASE Elapse
  BY <1>5 DEF Elapse, Sooner
<1>6. ASSUME NEW p \in Proc, StartInterpreter(p) \/ Fork(p)
      PROVE  GateTypeOK'
  <2>1. Watch(p)
    BY <1>6 DEF StartInterpreter, Fork
  <2>2. watcher' \in [Proc -> {"off", "waiting", "frozen", "expired"}]
    BY <2>1 DEF Watch
  <2>3. watchLeft' \in [Proc -> 0..FreezeTimeout]
    <3>1. FreezeTimeout \in 0..FreezeTimeout
      OBVIOUS
    <3> QED
      BY <2>1, <3>1 DEF Watch
  <2>4. up' \subseteq Proc /\ marker' \in BOOLEAN
    BY <1>6 DEF StartInterpreter, Fork
  <2> QED
    BY <1>6, <2>2, <2>3, <2>4 DEF StartInterpreter, Fork
<1>7. CASE \E p \in Proc : Freeze(p)
  BY <1>7 DEF Freeze
<1>8. CASE UNCHANGED gateVars
  BY <1>8 DEF gateVars
<1> QED
  BY <1>1, <1>2, <1>3, <1>4, <1>5, <1>6, <1>7, <1>8 DEF GateNext

\* Each step keeps MarkerInv, where starting interpreters remove the file.
LEMMA MarkerStep == ASSUME GcFreeze, Api \in Proc, MarkerInv, [GateNext]_gateVars
                    PROVE  MarkerInv'
<1> USE DEF MarkerInv, procs, warmup, gates, freeze
<1>1. CASE Restart
  BY <1>1 DEF Restart, NoWatch, NoTime
<1>2. CASE Serve
  BY <1>2 DEF Serve
<1>3. CASE Answer
  BY <1>3 DEF Answer
<1>4. CASE WaitHealth
  BY <1>4 DEF WaitHealth
<1>5. CASE RunStage
  BY <1>5 DEF RunStage, MayRaise
<1>6. CASE StagesDone
  BY <1>6 DEF StagesDone
<1>7. CASE WriteMarker
  BY <1>7 DEF WriteMarker
<1>8. CASE PollHealth
  <2>1. Api \in up
    BY <1>8 DEF PollHealth
  <2> QED
    BY <1>8, <2>1 DEF PollHealth, MayOpen
<1>9. CASE Healthcheck
  BY <1>9 DEF Healthcheck
<1>10. CASE Elapse
  <2>1. gateLeft = 0 => gateLeft' = 0
    BY <1>10 DEF Elapse, Sooner
  <2> QED
    BY <1>10, <2>1 DEF Elapse
<1>11. CASE \E p \in Proc : StartInterpreter(p)
  <2> SUFFICES ASSUME NEW q \in Proc, StartInterpreter(q)
               PROVE  MarkerInv'
    BY <1>11
  <2>1. ~marker'
    BY DEF StartInterpreter
  <2>2. Api \in up'
    BY DEF StartInterpreter
  <2>3. /\ watcher' = [watcher EXCEPT ![q] = "waiting"]
        /\ UNCHANGED <<warmer, gate, gateLeft, healthy>>
    BY DEF StartInterpreter, Watch
  <2> QED
    BY <2>1, <2>2, <2>3
<1>12. CASE \E p \in Proc : Fork(p)
  BY <1>12 DEF Fork, Watch
<1>13. CASE \E p \in Proc : Freeze(p)
  BY <1>13 DEF Freeze
<1>14. CASE UNCHANGED gateVars
  BY <1>14 DEF gateVars
<1> QED
  BY <1>1, <1>2, <1>3, <1>4, <1>5, <1>6, <1>7, <1>8, <1>9, <1>10, <1>11, <1>12, <1>13,
     <1>14 DEF GateNext

\* With AIR_GC_FREEZE on, the container is healthy, the gate opens on the file
\* and the interpreters freeze only after the warm-up of the same boot, for
\* any processes, stages, timeouts and number of restarts.
THEOREM MarkerIsOfThisBoot == ASSUME GcFreeze, Api \in Proc
                              PROVE  GateSpec => []MarkerTells
<1>1. GateInit => GateTypeOK /\ MarkerInv
  <2>1. GateInit => MarkerInv
    BY DEF GateInit, MarkerInv, NoWatch
  <2>2. GateInit => GateTypeOK
    <3>1. 0 \in 0..MaxBoots /\ 0 \in 0..StartupTimeout /\ 0 \in 0..GateTimeout
      BY GateAssumption
    <3>2. 0 \in 0..Len(Stages)
      BY GateAssumption, LenInNat
    <3>3. NoTime \in [Proc -> 0..FreezeTimeout]
      BY GateAssumption DEF NoTime
    <3>4. NoWatch \in [Proc -> {"off", "waiting", "frozen", "expired"}]
      BY DEF NoWatch
    <3> QED
      BY <3>1, <3>2, <3>3, <3>4 DEF GateInit, GateTypeOK
  <2> QED
    BY <2>1, <2>2
<1>2. GateTypeOK /\ MarkerInv /\ [GateNext]_gateVars => (GateTypeOK /\ MarkerInv)'
  BY MarkerStep, GateStepTyped
<1>3. GateTypeOK /\ MarkerInv => MarkerTells
  BY DEF MarkerInv, MarkerTells
<1> QED
  BY <1>1, <1>2, <1>3, PTL DEF GateSpec

----------------------------------------------------------------------------
(* The launcher leaves no server behind, for any number of servers and     *)
(* signals.                                                                *)

LaunchTyped ==
    /\ at \in Server /\ kat \in Server /\ killer \in {"nobody", "main", "handler"}
    /\ server \in [Server -> {"absent", "up", "healthy", "dead"}]

\* Where the two loops over the servers are, everything before is dead; that
\* is what makes the end of each a state without servers.
LaunchInv ==
    /\ LaunchTyped
    /\ guarded => pc \notin {"spawn", "router", "handlers"}
    /\ ~guarded => killer = "nobody" /\ pc \in {"spawn", "router", "handlers", "unwind", "exited"}
    /\ killer # "nobody" => \A i \in Server : i < kat => ~Alive(i)
    /\ killer = "main" => pc = "cleanup"
    /\ pc = "wait" => \A i \in Server : i < at => ~Alive(i)
    /\ pc \in {"router", "handlers", "open"} => at = 1
    /\ pc \in {"unwind", "exited"} => killer = "nobody"
    /\ guarded /\ pc \in {"unwind", "exited"} => \A i \in Server : ~Alive(i)

LEMMA LaunchInit == DeployInit => LaunchInv
  BY DeploymentAssumption
     DEF DeployInit, LaunchInv, LaunchTyped, Server, Alive

\* The servers, with the launcher where it is.
LEMMA ServerStep ==
    ASSUME LaunchInv, NEW i \in Server, BecomeHealthy(i) \/ ServerEnds(i)
    PROVE  LaunchInv'
  BY DEF LaunchInv, LaunchTyped, Alive, BecomeHealthy, ServerEnds, Rest, mainVars, killVars

\* The main thread.
LEMMA MainStep ==
    ASSUME LaunchInv,
           Spawn \/ StartFails \/ StartRouter \/ InstallHandlers \/ HealthSeen \/ WarmUp \/ Raise
               \/ OpenGate \/ ServerReaped \/ Unwind
    PROVE  LaunchInv'
<1> USE DeploymentAssumption
    DEF LaunchInv, LaunchTyped, Server, Alive, At, Advance, Rest, mainVars, killVars, procVars
<1>1. CASE Spawn
  BY <1>1 DEF Spawn
<1>2. CASE StartFails
  BY <1>2 DEF StartFails
<1>3. CASE StartRouter
  BY <1>3 DEF StartRouter
<1>4. CASE InstallHandlers
  BY <1>4 DEF InstallHandlers
<1>5. CASE HealthSeen
  BY <1>5 DEF HealthSeen
<1>6. CASE WarmUp
  BY <1>6 DEF WarmUp
<1>7. CASE Raise
  BY <1>7 DEF Raise
<1>8. CASE OpenGate
  BY <1>8 DEF OpenGate
<1>9. CASE ServerReaped
  BY <1>9 DEF ServerReaped
<1>10. CASE Unwind
  BY <1>10 DEF Unwind
<1> QED
  BY <1>1, <1>2, <1>3, <1>4, <1>5, <1>6, <1>7, <1>8, <1>9, <1>10

\* Signals and terminate_servers.
LEMMA KillStep ==
    ASSUME LaunchInv, Interrupt \/ Killed \/ Terminated \/ Terminate \/ Kill
    PROVE  LaunchInv'
<1> USE DeploymentAssumption
    DEF LaunchInv, LaunchTyped, Server, Alive, mainVars, killVars, procVars
<1>1. CASE Interrupt
  BY <1>1 DEF Interrupt
<1>2. CASE Killed
  BY <1>2 DEF Killed
<1>3. CASE Terminated
  BY <1>3 DEF Terminated, NextToKill, Reapable
<1>4. CASE Terminate
  BY <1>4 DEF Terminate
<1>5. CASE Kill
  BY <1>5 DEF Kill
<1> QED
  BY <1>1, <1>2, <1>3, <1>4, <1>5

\* The places of the two loops and of the handler.
LEMMA LaunchStepTyped ==
    ASSUME DeployTypeOK, [DeployNext]_deployVars
    PROVE  DeployTypeOK'
<1> USE DeploymentAssumption
    DEF DeployTypeOK, Server, At, Advance, Rest, mainVars, killVars, procVars
<1>1. CASE Spawn
  BY <1>1 DEF Spawn
<1>2. CASE StartFails \/ StartRouter \/ InstallHandlers \/ OpenGate \/ Unwind
  BY <1>2 DEF StartFails, StartRouter, InstallHandlers, OpenGate, Unwind
<1>3. CASE HealthSeen
  BY <1>3 DEF HealthSeen
<1>4. CASE WarmUp
  BY <1>4 DEF WarmUp
<1>5. CASE Raise
  BY <1>5 DEF Raise
<1>6. CASE ServerReaped
  BY <1>6 DEF ServerReaped, Combined
<1>7. CASE Interrupt
  <2>1. Frame \subseteq Server
    BY DEF Frame
  <2>2. held' \subseteq Server
    BY <1>7, <2>1 DEF Interrupt
  <2> QED
    BY <1>7, <2>2 DEF Interrupt
<1>8. CASE Killed
  BY <1>8 DEF Killed
<1>9. CASE Terminated
  BY <1>9 DEF Terminated, NextToKill
<1>10. CASE Terminate \/ Kill
  BY <1>10 DEF Terminate, Kill
<1>11. ASSUME NEW i \in Server, BecomeHealthy(i) \/ ServerEnds(i)
       PROVE  DeployTypeOK'
  <2>1. CASE BecomeHealthy(i)
    BY <2>1 DEF BecomeHealthy
  <2>2. CASE ServerEnds(i)
    <3>1. code' \in [Server -> {0, 1}]
      BY <2>2 DEF ServerEnds
    <3> QED
      BY <2>2, <3>1 DEF ServerEnds
  <2> QED
    BY <1>11, <2>1, <2>2
<1>12. CASE UNCHANGED deployVars
  BY <1>12 DEF deployVars
<1> QED
  BY <1>1, <1>2, <1>3, <1>4, <1>5, <1>6, <1>7, <1>8, <1>9, <1>10, <1>11, <1>12
     DEF DeployNext, Launcher

\* When the launcher ends, after its handlers were installed, every server has
\* ended: by an error, by a signal, or by itself.
THEOREM LauncherCleansUp == DeploySpec => []NoServerLeft
<1>1. DeployInit => DeployTypeOK /\ LaunchInv
  <2>1. 1 \in Server /\ 0 \in 0..MaxSignals /\ {} \subseteq Server
    BY DeploymentAssumption DEF Server
  <2>2. DeployInit => DeployTypeOK
    BY <2>1 DEF DeployInit, DeployTypeOK
  <2> QED
    BY <2>2, LaunchInit
<1>2. LaunchInv /\ [DeployNext]_deployVars => LaunchInv'
  <2> SUFFICES ASSUME LaunchInv, [DeployNext]_deployVars
               PROVE  LaunchInv'
    OBVIOUS
  <2>1. CASE UNCHANGED deployVars
    BY <2>1 DEF LaunchInv, LaunchTyped, Alive, deployVars, mainVars, killVars, procVars
  <2> QED
    BY <2>1, ServerStep, MainStep, KillStep DEF DeployNext, Launcher
<1>3. DeployTypeOK /\ [DeployNext]_deployVars => DeployTypeOK'
  BY LaunchStepTyped
<1>4. DeployTypeOK /\ LaunchInv => NoServerLeft
  BY DEF LaunchInv, NoServerLeft
<1> QED
  BY <1>1, <1>2, <1>3, <1>4, PTL DEF DeploySpec

----------------------------------------------------------------------------
(* The tuning graph implements PromptSearch, and stops only on its own     *)
(* image, for any prompts, thresholds and number of iterations.            *)

Scores == 0..(2 * Full)
Entry == [prompt : Prompt, score : Scores]

TuningTypes ==
    /\ node \in {"setup", "align", "visualize", "evaluate", "checkpoint", "recommend", "write",
                 "route", "optimize", "ended", "failed"}
    /\ iteration \in Nat /\ prompt \in Prompt
    /\ html \in [empty : BOOLEAN, covers : 0..Full]
    /\ composite \in Nat /\ coverage \in Nat
    /\ best \in [score : Nat, prompt : Prompt, iteration : Nat]
    /\ history \in Seq(Entry) /\ evals \in Seq(Entry)

\* best_score is the highest of the history, plus one.
BestIsHighest ==
    /\ \A i \in DOMAIN history : history[i].score + 1 <= best.score
    /\ history # <<>> => \E i \in DOMAIN history : history[i].score + 1 = best.score
    /\ history = <<>> => best.score = 0

\* Between an evaluation and its checkpoint the history is one entry ahead of
\* the disk, and best_iteration tells whether that entry is the new best.  What
\* is recommended is the prompt of the last entry; a failed run may have either.
DiskFollows ==
    /\ node = "checkpoint" =>
          LET e == [prompt |-> prompt, score |-> composite]
          IN  /\ history = Append(evals, e) /\ e \in Entry
              /\ \/ /\ best.iteration = iteration /\ best.prompt = prompt
                    /\ \A i \in DOMAIN evals : evals[i].score < composite
                 \/ /\ best.iteration # iteration
                    /\ \E i \in DOMAIN evals : evals[i].score >= composite
    /\ node \notin {"checkpoint", "failed"} => history = evals
    /\ node \in {"recommend", "write"} => best.prompt = evals[Len(evals)].prompt
    /\ node \in {"recommend", "write", "route", "optimize"} => evals # <<>>

\* Only the iteration that was the best so far carries its own number.
BestIsOlder ==
    /\ best.iteration <= iteration
    /\ node \in {"setup", "align", "visualize", "evaluate"} =>
           best.iteration < iteration \/ history = <<>>

SearchInv == TuningTypes /\ BestIsHighest /\ DiskFollows /\ BestIsOlder

\* The successor of a number is one.
LEMMA Successor == \A n \in Nat : n + 1 \in Nat
OBVIOUS

\* The scores of a list of evaluations are numbers.
LEMMA ScoresAreNumbers == ASSUME NEW s \in Seq(Entry), NEW i \in DOMAIN s
                          PROVE  s[i].score \in Nat
<1>1. s[i] \in Entry
  BY ElementOfSeq, LenProperties
<1> QED
  BY <1>1, TuningAssumption DEF Entry, Scores

\* An alignment that is empty covers none of the fields, if there are any.
LEMMA Alignment == ASSUME Align
                   PROVE  /\ html' \in [empty : BOOLEAN, covers : 0..Full]
                          /\ fields /\ html'.empty => html'.covers = 0
                          /\ html'.covers \in Nat
<1>1. CASE html' = [empty |-> TRUE, covers |-> 0]
  BY <1>1, TuningAssumption
<1>2. CASE html' \in [empty : {FALSE}, covers : 0..Full]
  <2>1. html' \in [empty : BOOLEAN, covers : 0..Full] /\ ~html'.empty
    BY <1>2
  <2>2. html'.covers \in 0..Full
    BY <1>2
  <2> QED
    BY <2>1, <2>2, TuningAssumption
<1>3. CASE ~fields /\ html' \in [empty : BOOLEAN, covers : {Full}]
  BY <1>3, TuningAssumption
<1> QED
  BY <1>1, <1>2, <1>3 DEF Align

\* The state a run starts in.
LEMMA SearchInvInit == TuningInit => SearchInv
BY TuningAssumption DEF TuningInit, SearchInv, TuningTypes, BestIsHighest, DiskFollows,
   BestIsOlder, Entry, Scores

\* The evaluation of an iteration is the new best exactly when it is better
\* than all before.
LEMMA EvaluateKeeps == SearchInv /\ Evaluate => SearchInv'
<1> SUFFICES ASSUME SearchInv, Evaluate PROVE SearchInv'
  OBVIOUS
<1> USE DEF SearchInv
<1> DEFINE e == [prompt |-> prompt, score |-> composite']
<1>1. /\ node = "evaluate" /\ node' = "checkpoint"
      /\ history' = Append(history, e)
      /\ best' = IF composite' + 1 > best.score
                 THEN [score |-> composite' + 1, prompt |-> prompt, iteration |-> iteration]
                 ELSE best
      /\ UNCHANGED <<iteration, prompt, html, evals>>
      /\ history = evals
  BY DEF Evaluate, IsNewBest, work, disk, DiskFollows
<1>2. composite' \in Scores /\ coverage' \in Nat
  <2>1. PICK judge \in 0..Full : composite' = html.covers + judge
    BY TuningAssumption DEF Evaluate, JudgeScores
  <2>2. html.covers \in 0..Full
    BY DEF TuningTypes
  <2> QED
    BY <2>1, <2>2, TuningAssumption DEF Evaluate, Scores
<1>3. e \in Entry
  BY <1>2 DEF Entry, TuningTypes
<1>4. TuningTypes'
  <2>1. history' \in Seq(Entry) /\ evals' \in Seq(Entry)
    BY <1>1, <1>3, AppendProperties DEF TuningTypes
  <2>2. composite' \in Nat
    BY <1>2, TuningAssumption DEF Scores
  <2> QED
    <3>1. best' \in [score : Nat, prompt : Prompt, iteration : Nat]
      <4>1. [score |-> composite' + 1, prompt |-> prompt, iteration |-> iteration]
                \in [score : Nat, prompt : Prompt, iteration : Nat]
        <5>1. composite' + 1 \in Nat
          BY <2>2, Successor, Zenon
        <5>2. prompt \in Prompt /\ iteration \in Nat
          BY DEF TuningTypes
        <5> QED
          BY <5>1, <5>2, Zenon
      <4>2. best \in [score : Nat, prompt : Prompt, iteration : Nat]
        BY DEF TuningTypes
      <4> QED
        BY <1>1, <4>1, <4>2
    <3> QED
      BY <1>1, <1>2, <2>1, <2>2, <3>1 DEF TuningTypes
<1>5. history \in Seq(Entry) /\ best.score \in Nat /\ Len(history) \in Nat
  BY LenProperties DEF TuningTypes
<1>6. \A i \in DOMAIN history : history[i].score \in Nat
  BY <1>5, ScoresAreNumbers
<1>7. /\ DOMAIN history' = 1..(Len(history) + 1) /\ DOMAIN history = 1..Len(history)
      /\ history'[Len(history) + 1] = e
      /\ \A i \in DOMAIN history : history'[i] = history[i]
  BY <1>1, <1>3, <1>5, AppendProperties, LenProperties
<1>8. composite' \in Nat
  BY <1>4 DEF TuningTypes
<1>9. BestIsHighest'
  <2>1. CASE composite' + 1 > best.score
    <3>1. best'.score = composite' + 1 /\ history'[Len(history) + 1].score = composite'
      BY <1>1, <1>7, <2>1
    <3>2. \A i \in DOMAIN history : history'[i].score + 1 <= best'.score
      BY <1>5, <1>6, <1>7, <1>8, <2>1, <3>1 DEF BestIsHighest
    <3>3. Len(history) + 1 \in DOMAIN history' /\ history' # <<>>
      BY <1>1, <1>3, <1>5, <1>7, AppendProperties
    <3>4. \A i \in DOMAIN history' : i \in DOMAIN history \/ i = Len(history) + 1
      BY <1>5, <1>7
    <3>5. \A i \in DOMAIN history' : history'[i].score + 1 <= best'.score
      BY <1>8, <3>1, <3>2, <3>4
    <3> QED
      BY <3>1, <3>3, <3>5 DEF BestIsHighest
  <2>2. CASE ~(composite' + 1 > best.score)
    <3>1. history # <<>>
      BY <2>2, <1>5, <1>8 DEF BestIsHighest
    <3> QED
      BY <1>1, <1>5, <1>6, <1>7, <1>8, <2>2, <3>1 DEF BestIsHighest
  <2> QED
    BY <2>1, <2>2
<1>10. DiskFollows'
  <2>1. history' = Append(evals', e) /\ e = [prompt |-> prompt', score |-> composite']
    BY <1>1
  <2>2. CASE composite' + 1 > best.score
    <3>1. best'.iteration = iteration' /\ best'.prompt = prompt'
      BY <1>1, <2>2
    <3>2. \A i \in DOMAIN evals' : evals'[i].score < composite'
      BY <1>1, <1>5, <1>6, <1>8, <2>2 DEF BestIsHighest
    <3> QED
      BY <1>1, <1>3, <2>1, <3>1, <3>2 DEF DiskFollows
  <2>3. CASE ~(composite' + 1 > best.score)
    <3>1. best' = best /\ history # <<>>
      BY <1>1, <1>5, <1>8, <2>3 DEF BestIsHighest
    <3>2. best'.iteration # iteration'
      BY <1>1, <3>1 DEF BestIsOlder, TuningTypes
    <3>3. \E i \in DOMAIN evals' : evals'[i].score >= composite'
      BY <1>1, <1>5, <1>6, <1>8, <2>3, <3>1 DEF BestIsHighest
    <3> QED
      BY <1>1, <1>3, <2>1, <3>2, <3>3 DEF DiskFollows
  <2> QED
    BY <2>2, <2>3
<1>11. BestIsOlder'
  BY <1>1 DEF BestIsOlder, TuningTypes
<1> QED
  BY <1>4, <1>9, <1>10, <1>11

\* What SaveEval appends is the entry the evaluation left.
LEMMA Saved ==
    ASSUME SearchInv, SaveEval
    PROVE  LET e == [prompt |-> prompt, score |-> composite]
           IN  /\ e \in Entry /\ evals \in Seq(Entry)
               /\ history[Len(history)] = e
               /\ history = Append(evals, e) /\ evals' = history
<1> DEFINE e == [prompt |-> prompt, score |-> composite]
<1>1. /\ evals' = Append(evals, history[Len(history)])
      /\ history = Append(evals, e) /\ e \in Entry
  BY DEF SaveEval, SearchInv, DiskFollows
<1>2. evals \in Seq(Entry)
  BY DEF SearchInv, TuningTypes
<1>3. history[Len(history)] = e
  BY <1>1, <1>2, AppendProperties, LenProperties
<1> QED
  BY <1>1, <1>2, <1>3

\* A checkpoint brings the disk level with the history.
LEMMA SaveEvalKeeps == SearchInv /\ SaveEval => SearchInv'
<1> SUFFICES ASSUME SearchInv, SaveEval PROVE SearchInv'
  OBVIOUS
<1> DEFINE e == [prompt |-> prompt, score |-> composite]
<1>1. /\ node = "checkpoint"
      /\ node' = IF best.iteration = iteration THEN "recommend" ELSE "route"
      /\ UNCHANGED <<iteration, prompt, html, composite, coverage, best, history>>
  BY DEF SaveEval, work, scores
<1>2. /\ evals' = history /\ history[Len(history)] = e /\ history = Append(evals, e)
      /\ evals \in Seq(Entry) /\ e \in Entry
  BY Saved
<1>3. history # <<>>
  BY <1>2, AppendProperties
<1>4. node' = "recommend" => best.prompt = e.prompt
  <2>1. CASE best.iteration = iteration
    <3>1. best.prompt = prompt
      BY <1>1, <2>1 DEF SearchInv, DiskFollows
    <3> QED
      BY <3>1
  <2> QED
    BY <1>1, <2>1
<1>5. DiskFollows'
  BY <1>1, <1>2, <1>3, <1>4 DEF DiskFollows
<1>6. TuningTypes'
  BY <1>1, <1>2 DEF SearchInv, TuningTypes
<1>7. BestIsHighest' /\ BestIsOlder'
  BY <1>1 DEF SearchInv, BestIsHighest, BestIsOlder
<1> QED
  BY <1>5, <1>6, <1>7 DEF SearchInv

\* Every step of the graph keeps the invariant.
LEMMA SearchInvNext == SearchInv /\ [TuningNext]_tuningVars => SearchInv'
<1> SUFFICES ASSUME SearchInv, [TuningNext]_tuningVars PROVE SearchInv'
  OBVIOUS
<1> USE DEF SearchInv, TuningTypes, BestIsHighest, DiskFollows, BestIsOlder, work, scores, disk
<1>1. CASE Setup
  BY <1>1 DEF Setup
<1>2. CASE Align
  BY <1>2, Alignment DEF Align
<1>3. CASE Visualize
  BY <1>3 DEF Visualize
<1>4. CASE Evaluate
  BY <1>4, EvaluateKeeps
<1>5. CASE SaveEval
  BY <1>5, SaveEvalKeeps
<1>6. CASE OpenBest \/ WriteBest \/ ShouldContinue
  BY <1>6 DEF OpenBest, WriteBest, ShouldContinue
<1>7. CASE Optimize
  BY <1>7 DEF Optimize
<1>8. CASE OperatorStops
  BY <1>8 DEF OperatorStops
<1>9. CASE Fail
  BY <1>9 DEF Fail
<1>10. CASE UNCHANGED tuningVars
  BY <1>10 DEF tuningVars
<1> QED
  BY <1>1, <1>2, <1>3, <1>4, <1>5, <1>6, <1>7, <1>8, <1>9, <1>10 DEF TuningNext

\* The writes of a checkpoint, the end of the run and its failure are steps of
\* the search, and every other step is invisible.
LEMMA StepIsSearch == SearchInv /\ [TuningNext]_tuningVars
                          => [Search!SearchNext]_Search!searchVars
<1> SUFFICES ASSUME SearchInv, [TuningNext]_tuningVars
             PROVE  [Search!SearchNext]_Search!searchVars
  OBVIOUS
<1>1. CASE SaveEval
  <2> DEFINE e == [prompt |-> prompt, score |-> composite]
  <2>1. /\ evals' = Append(evals, e) /\ e \in Entry /\ evals \in Seq(Entry)
    BY <1>1, Saved
  <2>2. \A i \in DOMAIN evals : evals[i].score \in Nat
    BY <2>1, ScoresAreNumbers
  <2>3. composite \in Nat
    BY DEF SearchInv, TuningTypes
  <2>4. Search!Improves(e) <=> best.iteration = iteration
    BY <1>1, <2>2, <2>3 DEF Search!Improves, SearchInv, DiskFollows, SaveEval
  <2>5. /\ Phase = "searching" /\ bestPrompt' = bestPrompt
        /\ Phase' = IF best.iteration = iteration THEN "recommending" ELSE "searching"
    BY <1>1 DEF SaveEval, Phase
  <2>6. Search!Record(e)
    BY <2>1, <2>4, <2>5 DEF Search!Record
  <2>7. e \in Search!Evaluation
    BY <2>1 DEF Search!Evaluation, Entry, Scores
  <2> QED
    BY <2>6, <2>7 DEF Search!SearchNext
<1>2. CASE OpenBest
  <2>1. Search!Tear
    BY <1>2 DEF OpenBest, Search!Tear, Phase
  <2> QED
    BY <2>1 DEF Search!SearchNext
<1>3. CASE WriteBest
  <2>1. Search!Recommend
    BY <1>3 DEF WriteBest, Search!Recommend, Phase, SearchInv, DiskFollows
  <2> QED
    BY <2>1 DEF Search!SearchNext
<1>4. CASE ShouldContinue
  <2>1. CASE node' = "ended"
    <3>1. Search!End
      BY <1>4, <2>1 DEF ShouldContinue, Search!End, Phase, SearchInv, DiskFollows, disk
    <3> QED
      BY <3>1 DEF Search!SearchNext
  <2>2. CASE node' # "ended"
    BY <1>4, <2>2 DEF ShouldContinue, Search!searchVars, Phase, disk
  <2> QED
    BY <2>1, <2>2
<1>5. CASE OperatorStops
  <2>1. Search!End
    BY <1>5 DEF OperatorStops, Search!End, Phase, SearchInv, DiskFollows, disk
  <2> QED
    BY <2>1 DEF Search!SearchNext
<1>6. CASE Fail
  <2>1. node \notin {"ended", "failed"} /\ node' = "failed" /\ UNCHANGED <<evals, bestPrompt>>
    BY <1>6 DEF Fail, disk
  <2>2. Phase \in {"searching", "recommending"} /\ Phase' = "broken"
    BY <2>1 DEF Phase, SearchInv, TuningTypes
  <2>3. Search!Break
    BY <2>1, <2>2 DEF Search!Break
  <2> QED
    BY <2>3 DEF Search!SearchNext
<1>7. CASE Setup \/ Align \/ Visualize \/ Evaluate \/ Optimize
  BY <1>7 DEF Setup, Align, Visualize, Evaluate, Optimize, Search!searchVars, Phase, disk
<1>8. CASE UNCHANGED tuningVars
  BY <1>8 DEF tuningVars, disk, Search!searchVars, Phase
<1> QED
  BY <1>1, <1>2, <1>3, <1>4, <1>5, <1>6, <1>7, <1>8 DEF TuningNext

\* The directory of a run is that of a PromptSearch: an evaluation is saved
\* before the prompt it brings, and a prompt is recommended exactly when its
\* evaluation is better than all before.
THEOREM TuningSearches == TuningSpec => ImplementsSearch
<1>1. TuningInit => Search!SearchInit
  BY DEF TuningInit, Search!SearchInit, Phase
<1> QED
  BY <1>1, SearchInvInit, SearchInvNext, StepIsSearch, PTL
     DEF TuningSpec, ImplementsSearch, Search!SearchSpec

\* In the search, a prompt about to be recommended is better than all before
\* it, and the one recommended otherwise is the first best.
KeepsInv ==
    /\ evals \in Seq(Search!Evaluation)
    /\ Search!KeepsBest
    /\ Phase = "recommending" =>
          /\ Len(evals) \in DOMAIN evals
          /\ \A i \in DOMAIN evals : i < Len(evals) => evals[i].score < evals[Len(evals)].score

\* The scores of the search are numbers.
LEMMA SearchScores == ASSUME NEW s \in Seq(Search!Evaluation), NEW i \in DOMAIN s
                      PROVE  s[i].score \in Nat
<1>1. s[i] \in Search!Evaluation
  BY ElementOfSeq, LenProperties
<1> QED
  BY <1>1, TuningAssumption DEF Search!Evaluation

\* A new entry that improves on nothing leaves the first best where it is.
LEMMA RecordKeeps ==
    ASSUME KeepsInv, NEW e \in Search!Evaluation, Search!Record(e)
    PROVE  KeepsInv'
<1>1. /\ evals' = Append(evals, e) /\ bestPrompt' = bestPrompt /\ Phase = "searching"
      /\ Phase' = IF Search!Improves(e) THEN "recommending" ELSE "searching"
      /\ evals \in Seq(Search!Evaluation)
  BY DEF Search!Record, KeepsInv
<1>2. /\ evals' \in Seq(Search!Evaluation) /\ Len(evals') = Len(evals) + 1
      /\ Len(evals) \in Nat /\ DOMAIN evals = 1..Len(evals)
      /\ DOMAIN evals' = 1..(Len(evals) + 1)
      /\ evals'[Len(evals) + 1] = e /\ \A i \in DOMAIN evals : evals'[i] = evals[i]
  BY <1>1, AppendProperties, LenProperties
<1>3. e.score \in Nat /\ \A i \in DOMAIN evals : evals[i].score \in Nat
  <2>1. e.score \in Nat
    BY TuningAssumption DEF Search!Evaluation
  <2>2. \A i \in DOMAIN evals : evals[i].score \in Nat
    BY <1>1, SearchScores
  <2> QED
    BY <2>1, <2>2
<1>4. CASE Search!Improves(e)
  <2>1. Phase' = "recommending" /\ Len(evals') \in DOMAIN evals'
    BY <1>1, <1>2, <1>4
  <2>2. \A i \in DOMAIN evals' : i < Len(evals') => evals'[i].score < evals'[Len(evals')].score
    BY <1>1, <1>2, <1>4 DEF Search!Improves
  <2> QED
    BY <1>2, <2>1, <2>2 DEF KeepsInv, Search!KeepsBest
<1>5. CASE ~Search!Improves(e)
  <2>1. PICK j \in DOMAIN evals : ~(evals[j].score < e.score)
    BY <1>5 DEF Search!Improves
  <2>2. evals # <<>>
    BY <1>2, <2>1
  <2>3. PICK i \in DOMAIN evals : Search!FirstBest(i) /\ bestPrompt = evals[i].prompt
    BY <1>1, <2>2 DEF KeepsInv, Search!KeepsBest
  <2>4. i \in DOMAIN evals' /\ evals'[i] = evals[i]
    BY <1>2
  <2>5. e.score <= evals[i].score
    BY <1>3, <2>1, <2>3 DEF Search!FirstBest
  <2>6. ASSUME NEW k \in DOMAIN evals'
        PROVE  /\ evals'[k].score <= evals'[i].score
               /\ k < i => evals'[k].score < evals'[i].score
    <3>1. CASE k \in DOMAIN evals
      BY <1>2, <2>3, <2>4, <3>1 DEF Search!FirstBest
    <3>2. CASE k = Len(evals) + 1
      BY <1>2, <2>4, <2>5, <3>2
    <3> QED
      BY <1>2, <3>1, <3>2
  <2>7. evals' # <<>> /\ bestPrompt' = evals'[i].prompt
    BY <1>1, <1>2, <2>3, <2>4
  <2>8. Search!FirstBest(i)'
    BY <2>4, <2>6 DEF Search!FirstBest
  <2>9. Search!KeepsBest'
    BY <2>4, <2>7, <2>8 DEF Search!KeepsBest
  <2> QED
    BY <1>1, <1>2, <1>5, <2>9 DEF KeepsInv
<1> QED
  BY <1>4, <1>5

\* The other steps of the search.
LEMMA SearchKeeps == KeepsInv /\ [Search!SearchNext]_Search!searchVars => KeepsInv'
<1> SUFFICES ASSUME KeepsInv, [Search!SearchNext]_Search!searchVars PROVE KeepsInv'
  OBVIOUS
<1>1. ASSUME NEW e \in Search!Evaluation, Search!Record(e) PROVE KeepsInv'
  BY <1>1, RecordKeeps
<1>2. CASE Search!Tear
  BY <1>2 DEF Search!Tear, KeepsInv, Search!KeepsBest
<1>3. CASE Search!Recommend
  <2>1. /\ Phase = "recommending" /\ Phase' = "searching" /\ evals' = evals
        /\ bestPrompt' = evals[Len(evals)].prompt
    BY <1>3 DEF Search!Recommend
  <2>2. /\ Len(evals) \in DOMAIN evals /\ evals \in Seq(Search!Evaluation)
        /\ \A i \in DOMAIN evals : i < Len(evals) => evals[i].score < evals[Len(evals)].score
    BY <2>1 DEF KeepsInv
  <2>3. DOMAIN evals = 1..Len(evals) /\ Len(evals) \in Nat
    BY <2>2, LenProperties
  <2>4. \A i \in DOMAIN evals : evals[i].score \in Nat
    BY <2>2, SearchScores
  <2>5. Search!FirstBest(Len(evals))
    BY <2>2, <2>3, <2>4 DEF Search!FirstBest
  <2>6. Search!FirstBest(Len(evals))'
    BY <2>1, <2>5 DEF Search!FirstBest
  <2>7. Search!KeepsBest'
    BY <2>1, <2>2, <2>3, <2>6 DEF Search!KeepsBest
  <2> QED
    BY <2>1, <2>2, <2>7 DEF KeepsInv
<1>4. CASE Search!End
  BY <1>4 DEF Search!End, KeepsInv, Search!KeepsBest, Search!FirstBest
<1>5. CASE Search!Break
  BY <1>5 DEF Search!Break, KeepsInv, Search!KeepsBest
<1>6. CASE UNCHANGED Search!searchVars
  BY <1>6 DEF Search!searchVars, KeepsInv, Search!KeepsBest, Search!FirstBest
<1> QED
  BY <1>1, <1>2, <1>3, <1>4, <1>5, <1>6 DEF Search!SearchNext

\* Between two checkpoints, and when the run has ended by itself, the prompt
\* on disk is that of the first best evaluation on disk.
THEOREM TuningKeepsBest == TuningSpec => []Search!KeepsBest
<1>1. Search!SearchInit => KeepsInv
  BY DEF Search!SearchInit, KeepsInv, Search!KeepsBest
<1>2. KeepsInv => Search!KeepsBest
  BY DEF KeepsInv
<1> QED
  BY <1>1, <1>2, SearchKeeps, TuningSearches, PTL DEF ImplementsSearch, Search!SearchSpec

----------------------------------------------------------------------------
\* With fields, coverage above 0 is that of an alignment whose image was drawn.
ImageInv ==
    /\ fields /\ html.empty => html.covers = 0
    /\ node = "evaluate" => html.empty \/ image = iteration
    /\ node \in {"checkpoint", "recommend", "write", "route"} /\ fields =>
          coverage = 0 \/ judged = iteration
    /\ coverage \in Nat /\ html.covers \in Nat /\ iteration \in Nat
    /\ StopsOnItsOwnImage

\* A run that ends early as good enough has judged its own image.
THEOREM StopIsJustified == TuningSpec => []StopsOnItsOwnImage
<1>1. TuningInit => ImageInv
  BY TuningAssumption DEF TuningInit, ImageInv, StopsOnItsOwnImage
<1>2. ImageInv /\ [TuningNext]_tuningVars => ImageInv'
  <2> SUFFICES ASSUME ImageInv, [TuningNext]_tuningVars PROVE ImageInv'
    OBVIOUS
  <2> USE DEF ImageInv, StopsOnItsOwnImage, work, scores, disk
  <2>1. CASE Setup
    BY <2>1 DEF Setup
  <2>2. CASE Align
    BY <2>2, Alignment DEF Align
  <2>3. CASE Visualize
    BY <2>3 DEF Visualize
  <2>4. CASE Evaluate
    BY <2>4 DEF Evaluate
  <2>5. CASE ShouldContinue
    <3>1. node' = "ended" => GoodEnough \/ iteration >= MaxIterations
      BY <2>5 DEF ShouldContinue
    <3>2. GoodEnough /\ fields /\ CoverageMin > 0 => judged = iteration
      BY <2>5, TuningAssumption DEF ShouldContinue, GoodEnough
    <3>3. /\ UNCHANGED <<fields, html, iteration, image, judged, coverage, asked>>
          /\ node' \in {"ended", "optimize"}
      BY <2>5 DEF ShouldContinue
    <3>4. StopsOnItsOwnImage'
      BY <3>1, <3>2, <3>3, TuningAssumption
    <3> QED
      BY <3>3, <3>4
  <2>6. CASE Optimize
    BY <2>6 DEF Optimize
  <2>7. CASE OperatorStops
    BY <2>7 DEF OperatorStops
  <2>8. CASE Fail
    BY <2>8 DEF Fail
  <2>9. CASE UNCHANGED tuningVars
    BY <2>9 DEF tuningVars
  <2>10. CASE SaveEval \/ OpenBest \/ WriteBest
    BY <2>10 DEF SaveEval, OpenBest, WriteBest
  <2> QED
    BY <2>1, <2>2, <2>3, <2>4, <2>5, <2>6, <2>7, <2>8, <2>9, <2>10 DEF TuningNext
<1>3. ImageInv => StopsOnItsOwnImage
  BY DEF ImageInv
<1> QED
  BY <1>1, <1>2, <1>3, PTL DEF TuningSpec

----------------------------------------------------------------------------
(* The router's loads, for any workers, requests, lengths and prefixes.    *)

LEMMA CandidatesAreWorkers ==
    ASSUME NEW n \in Nat
    PROVE  Candidates(n) \in Seq(Worker) /\ ToSet(Candidates(n)) \subseteq Worker
<1>1. \A long \in BOOLEAN : Pool(long) \in Seq(Worker)
  BY RouterAssumption, KeepFacts DEF Pool
<1>2. Candidates(n) \in Seq(Worker)
  <2>1. Pool(TRUE) \in Seq(Worker) /\ Pool(FALSE) \in Seq(Worker)
    BY <1>1
  <2>2. Pool(TRUE) \o Pool(FALSE) \in Seq(Worker) /\ Pool(FALSE) \o Pool(TRUE) \in Seq(Worker)
    BY <2>1, ConcatFacts
  <2> QED
    BY <2>1, <2>2 DEF Candidates
<1>3. \A w \in ToSet(Candidates(n)) : w \in Worker
  BY <1>2, ElementFacts
<1> QED
  BY <1>2, <1>3

\* Whichever rule chooses, the choice is one of the candidates.
LEMMA SelectedIsWorker ==
    ASSUME RouterTypeOK, NEW q \in Query, NEW n \in Nat, Candidates(n) # <<>>
    PROVE  Selected(q, n) \in Worker
<1> DEFINE c == Candidates(n)
           values == {Score(q, n, w) : w \in ToSet(c)}
           ranking == Preference[Prefix[q]]
           known == Keep(ranking, ToSet(c))
           cheap == {w \in Worker : Score(q, n, w) = BestScore(q, n)}
           least == Keep(c, cheap)
<1>1. c \in Seq(Worker) /\ ToSet(c) \subseteq Worker
  BY CandidatesAreWorkers
<1>2. ToSet(c) # {} /\ IsFiniteSet(ToSet(c))
  <2>1. c # <<>>
    OBVIOUS
  <2> HIDE DEF c
  <2> QED
    BY <1>1, <2>1, ElementFacts, FiniteElements
<1>3. ranking \in Seq(Worker) /\ ToSet(ranking) = Worker
  BY RouterAssumption
<1>4. \A w \in Worker : Score(q, n, w) \in Int
  <2> SUFFICES ASSUME NEW w \in Worker PROVE Score(q, n, w) \in Int
    OBVIOUS
  <2>1. queued[w] \in Int /\ Output[q] \in Int /\ OutputWeight \in Int /\ Bonus \in Int
    BY RouterAssumption DEF RouterTypeOK
  <2>2. OutputWeight * Output[q] \in Int
    BY <2>1
  <2> HIDE DEF values
  <2> QED
    BY <2>1, <2>2 DEF Score
<1> HIDE DEF c
<1>5. BestScore(q, n) \in values
  <2>1. values \in SUBSET Int /\ values # {}
    BY <1>1, <1>2, <1>4
  <2>2. IsFiniteSet(values)
    <3> DEFINE f == [w \in ToSet(c) |-> Score(q, n, w)]
    <3>1. IsFiniteSet({f[w] : w \in ToSet(c)})
      <4>1. DOMAIN f = ToSet(c) /\ f = [w \in ToSet(c) |-> f[w]]
        OBVIOUS
      <4> HIDE DEF f
      <4> QED
        BY <1>2, <4>1, FiniteImage
    <3>2. {f[w] : w \in ToSet(c)} = values
      OBVIOUS
    <3> QED
      BY <3>1, <3>2
  <2> HIDE DEF values
  <2>3. \E m \in values : \A x \in values : m <= x
    BY <2>1, <2>2, FiniteMinimum
  <2>4. Min(values) \in values
    BY <2>3 DEF Min
  <2> QED
    BY <2>4 DEF BestScore, values, c
<1>6. Head(known) \in Worker
  <2>1. known \in Seq(Worker) /\ ToSet(known) = Worker \cap ToSet(c)
    <3> HIDE DEF ranking
    <3> QED
      BY <1>3, KeepFacts
  <2>2. known # <<>>
    BY <1>1, <1>2, <2>1, ElementFacts
  <2> HIDE DEF known
  <2> QED
    BY <2>1, <2>2
<1>7. Head(least) \in Worker
  <2>1. least \in Seq(Worker) /\ ToSet(least) = ToSet(c) \cap cheap
    <3> HIDE DEF cheap
    <3> QED
      BY <1>1, KeepFacts
  <2>2. ToSet(c) \cap cheap # {}
    BY <1>1, <1>5
  <2>3. least # <<>>
    <3> HIDE DEF least, cheap
    <3> QED
      BY <2>1, <2>2, ElementFacts
  <2> HIDE DEF least
  <2> QED
    BY <2>1, <2>3
<1>8. Sticky(q, n) = Head(known)
  BY DEF Sticky, c
<1>9. Selected(q, n) = Sticky(q, n) \/ Selected(q, n) = Head(least)
  BY DEF Selected, c
<1> QED
  BY <1>6, <1>7, <1>8, <1>9

LEMMA RecordedFits ==
    ASSUME RouterTypeOK, NEW w \in Worker, NEW q \in Query
    PROVE  /\ Recorded(w, Prefix[q]) \in Seq({Prefix[x] : x \in Query})
           /\ Len(Recorded(w, Prefix[q])) <= History
<1> DEFINE P == {Prefix[x] : x \in Query}
           rest == Without(recent[w], {Prefix[q]})
           seen == Append(rest, Prefix[q])
<1>1. Prefix[q] \in P /\ recent[w] \in Seq(P) /\ Len(recent[w]) <= History
  BY DEF RouterTypeOK
<1> HIDE DEF P
<1>2. rest \in Seq(P) /\ Len(rest) <= Len(recent[w])
  BY <1>1, WithoutFacts
<1> HIDE DEF rest
<1>3. seen \in Seq(P) /\ Len(seen) = Len(rest) + 1 /\ seen # <<>>
  BY <1>1, <1>2
<1>4. Recorded(w, Prefix[q]) = IF Len(seen) > History THEN Tail(seen) ELSE seen
  BY DEF Recorded, seen, rest
<1> HIDE DEF seen
<1>5. Tail(seen) \in Seq(P) /\ Len(Tail(seen)) = Len(seen) - 1
  BY <1>3
<1>6. Len(rest) \in Nat /\ Len(recent[w]) \in Nat /\ History \in Nat
  BY <1>1, <1>2, RouterAssumption
<1>7. CASE Len(seen) > History
  BY <1>1, <1>2, <1>3, <1>4, <1>5, <1>6, <1>7 DEF P
<1>8. CASE ~(Len(seen) > History)
  BY <1>3, <1>4, <1>6, <1>8 DEF P
<1> QED
  BY <1>7, <1>8

LEMMA CountedFacts ==
    ASSUME IsFiniteSet(Query), RouterTypeOK, NEW w
    PROVE  /\ Counted(w) \subseteq Query /\ IsFiniteSet(Counted(w))
           /\ Cardinality(Counted(w)) \in Nat
           /\ \A q \in Counted(w) : tokens[q] \in Nat
<1>1. Counted(w) \subseteq Query
  BY DEF Counted
<1>2. IsFiniteSet(Counted(w))
  BY <1>1, FS_Subset
<1>3. \A q \in Query : tokens[q] \in Nat
  BY DEF RouterTypeOK
<1> QED
  BY <1>1, <1>2, <1>3, FS_CardinalityType

\* A step that neither routes nor gives back.
LEMMA LoadsKept ==
    ASSUME LoadsAreExact, RouterTypeOK', UNCHANGED <<worker, tokens, inflight, queued>>,
           \A q \in Query : phase'[q] \in {"routed", "proxying", "lost"}
                                <=> phase[q] \in {"routed", "proxying", "lost"}
    PROVE  LoadsAreExact'
<1>1. \A w \in Worker : Counted(w)' = Counted(w)
  BY DEF Counted
<1> QED
  BY <1>1 DEF LoadsAreExact

\* track_request_start
LEMMA RouteLoads ==
    ASSUME IsFiniteSet(Query), LoadsAreExact, NEW q \in Query, phase[q] = "choosing",
           NEW n \in Nat, NEW v \in Worker, RouteTo(q, n, v), RouterTypeOK'
    PROVE  LoadsAreExact'
<1>1. /\ RouterTypeOK
      /\ worker' = [worker EXCEPT ![q] = v] /\ tokens' = [tokens EXCEPT ![q] = n]
      /\ inflight' = [inflight EXCEPT ![v] = @ + 1]
      /\ queued' = [queued EXCEPT ![v] = @ + n]
      /\ phase' = [phase EXCEPT ![q] = "routed"]
  BY DEF RouteTo, LoadsAreExact
<1>2. \A w : q \notin Counted(w)
  BY DEF Counted
<1>3. /\ phase'[q] = "routed" /\ worker'[q] = v /\ tokens'[q] = n
      /\ \A r \in Query \ {q} : /\ phase'[r] = phase[r] /\ worker'[r] = worker[r]
                               /\ tokens'[r] = tokens[r]
  BY <1>1 DEF RouterTypeOK
<1>4. ASSUME NEW w \in Worker
      PROVE  /\ inflight'[w] = Cardinality(Counted(w)')
             /\ queued'[w] = SumFunctionOnSet(tokens', Counted(w)')
  <2>1. /\ IsFiniteSet(Counted(w)) /\ Counted(w) \subseteq Query
        /\ \A r \in Counted(w) : tokens[r] \in Nat
        /\ inflight[w] = Cardinality(Counted(w)) /\ Cardinality(Counted(w)) \in Nat
        /\ queued[w] = SumFunctionOnSet(tokens, Counted(w))
    BY <1>1, CountedFacts DEF LoadsAreExact
  <2>2. SumFunctionOnSet(tokens', Counted(w)) = SumFunctionOnSet(tokens, Counted(w))
    <3>1. \A r \in Counted(w) : tokens[r] = tokens'[r] /\ tokens[r] \in Int
      BY <1>2, <1>3, <2>1
    <3> QED
      BY <2>1, <3>1, SumAgrees
  <2>3. CASE w = v
    <3>1. Counted(w)' = Counted(w) \cup {q}
      BY <1>2, <1>3, <2>1, <2>3 DEF Counted
    <3>2. Cardinality(Counted(w)') = Cardinality(Counted(w)) + 1 /\ IsFiniteSet(Counted(w)')
      BY <1>2, <2>1, <3>1, FS_AddElement
    <3>3. \A r \in Counted(w)' : tokens'[r] \in Int
      BY <1>3, <2>1, <3>1
    <3>4. q \in Counted(w)' /\ Counted(w)' \ {q} = Counted(w)
      BY <1>2, <3>1
    <3>5. SumFunctionOnSet(tokens', Counted(w)')
            = tokens'[q] + SumFunctionOnSet(tokens', Counted(w)' \ {q})
      <4> DEFINE D == Counted(w)'
      <4>1. IsFiniteSet(D) /\ q \in D /\ \A r \in D : tokens'[r] \in Int
        BY <3>2, <3>3, <3>4
      <4> HIDE DEF D
      <4>2. SumFunctionOnSet(tokens', D) = tokens'[q] + SumFunctionOnSet(tokens', D \ {q})
        BY <4>1, SumSplit
      <4> QED
        BY <4>2 DEF D
    <3>6. SumFunctionOnSet(tokens', Counted(w)') = n + queued[w]
      BY <1>3, <2>1, <2>2, <3>4, <3>5
    <3>7. queued[w] \in Nat /\ inflight[w] \in Nat
      BY <1>1 DEF RouterTypeOK
    <3>8. queued'[w] = queued[w] + n /\ inflight'[w] = inflight[w] + 1
      BY <1>1, <2>3 DEF RouterTypeOK
    <3> QED
      BY <2>1, <3>2, <3>6, <3>7, <3>8
  <2>4. CASE w # v
    <3>1. Counted(w)' = Counted(w)
      BY <1>2, <1>3, <2>1, <2>4 DEF Counted
    <3>2. queued'[w] = queued[w] /\ inflight'[w] = inflight[w]
      BY <1>1, <2>4 DEF RouterTypeOK
    <3> QED
      BY <2>1, <2>2, <3>1, <3>2
  <2> QED
    BY <2>3, <2>4
<1> QED
  BY <1>4 DEF LoadsAreExact

\* track_request_end: what it takes away is there.
LEMMA UntrackLoads ==
    ASSUME IsFiniteSet(Query), LoadsAreExact, NEW q \in Query, Proxy(q)
    PROVE  LoadsAreExact'
<1> DEFINE v == worker[q]
<1>1. PICK end \in {"done", "failed"} : phase' = [phase EXCEPT ![q] = end]
  BY DEF Proxy
<1>2. /\ RouterTypeOK /\ phase[q] = "proxying" /\ UNCHANGED <<worker, tokens, lock, recent>>
      /\ inflight' = [inflight EXCEPT ![v] = Less(@, 1)]
      /\ queued' = [queued EXCEPT ![v] = Less(@, tokens[q])]
  BY DEF Proxy, Untrack, LoadsAreExact
<1>3. phase'[q] = end /\ \A r \in Query \ {q} : phase'[r] = phase[r]
  BY <1>1, <1>2 DEF RouterTypeOK
<1>4. RouterTypeOK'
  <2>1. phase' \in [Query -> {"new", "choosing", "routed", "proxying", "lost", "failed", "done"}]
    BY <1>1, <1>2 DEF RouterTypeOK
  <2>2. \A w \in Worker : Less(inflight[w], 1) \in Nat /\ Less(queued[w], tokens[q]) \in Nat
    BY <1>2 DEF RouterTypeOK, Less
  <2>3. inflight' \in [Worker -> Nat] /\ queued' \in [Worker -> Nat]
    BY <1>2, <2>2 DEF RouterTypeOK
  <2> QED
    BY <1>2, <2>1, <2>3 DEF RouterTypeOK
<1>5. ASSUME NEW w \in Worker
      PROVE  /\ inflight'[w] = Cardinality(Counted(w)')
             /\ queued'[w] = SumFunctionOnSet(tokens', Counted(w)')
  <2>1. /\ IsFiniteSet(Counted(w)) /\ Counted(w) \subseteq Query
        /\ \A r \in Counted(w) : tokens[r] \in Nat
        /\ inflight[w] = Cardinality(Counted(w)) /\ Cardinality(Counted(w)) \in Nat
        /\ queued[w] = SumFunctionOnSet(tokens, Counted(w))
    BY <1>2, CountedFacts DEF LoadsAreExact
  <2>2. CASE w = v
    <3>1. q \in Counted(w) /\ Counted(w)' = Counted(w) \ {q}
      BY <1>2, <1>3, <2>1, <2>2 DEF Counted
    <3>2. /\ Cardinality(Counted(w) \ {q}) = Cardinality(Counted(w)) - 1
          /\ IsFiniteSet(Counted(w) \ {q})
      BY <2>1, <3>1, FS_RemoveElement
    <3>3. SumFunctionOnSet(tokens, Counted(w))
            = tokens[q] + SumFunctionOnSet(tokens, Counted(w) \ {q})
      BY <2>1, <3>1, SumSplit
    <3>4. SumFunctionOnSet(tokens, Counted(w) \ {q}) \in Nat
      BY <2>1, <3>2, SumNat
    <3>5. Cardinality(Counted(w) \ {q}) \in Nat /\ tokens[q] \in Nat
      BY <2>1, <3>1, <3>2, FS_CardinalityType
    <3>6. queued'[w] = Less(queued[w], tokens[q]) /\ inflight'[w] = Less(inflight[w], 1)
      BY <1>2, <2>2 DEF RouterTypeOK
    <3>7. queued'[w] = SumFunctionOnSet(tokens, Counted(w) \ {q})
      BY <2>1, <3>3, <3>4, <3>5, <3>6 DEF Less
    <3>8. inflight'[w] = Cardinality(Counted(w) \ {q})
      BY <2>1, <3>2, <3>5, <3>6 DEF Less
    <3> QED
      BY <1>2, <3>1, <3>7, <3>8
  <2>3. CASE w # v
    <3>1. Counted(w)' = Counted(w)
      BY <1>2, <1>3, <2>1, <2>3 DEF Counted
    <3>2. queued'[w] = queued[w] /\ inflight'[w] = inflight[w]
      BY <1>2, <2>3 DEF RouterTypeOK
    <3> QED
      BY <1>2, <2>1, <3>1, <3>2
  <2> QED
    BY <2>2, <2>3
<1> QED
  BY <1>4, <1>5 DEF LoadsAreExact

\* In every interleaving of the handlers' threads, and whatever ends a proxied
\* request, the loads by which the router chooses are those of the requests at
\* the workers, and the choice is always a worker.
THEOREM RouterLoadsAreExact ==
    ASSUME IsFiniteSet(Query)
    PROVE  RouterSpec => []LoadsAreExact
<1>1. RouterInit => LoadsAreExact
  <2> SUFFICES ASSUME RouterInit PROVE LoadsAreExact
    OBVIOUS
  <2>1. \A w \in Worker : Counted(w) = {}
    BY DEF RouterInit, Counted
  <2>2. Cardinality({}) = 0
    BY FS_EmptySet
  <2>3. RouterTypeOK
    <3>1. \A w \in Worker : recent[w] = <<>> /\ Len(recent[w]) <= History
      BY RouterAssumption DEF RouterInit
    <3>2. recent \in [Worker -> Seq({Prefix[q] : q \in Query})]
      BY DEF RouterInit
    <3> QED
      BY <3>1, <3>2 DEF RouterInit, RouterTypeOK
  <2> QED
    BY <2>1, <2>2, <2>3, SumEmpty DEF LoadsAreExact, RouterInit
<1>2. LoadsAreExact /\ [RouterNext]_routerVars => LoadsAreExact'
  <2> SUFFICES ASSUME LoadsAreExact, [RouterNext]_routerVars PROVE LoadsAreExact'
    OBVIOUS
  <2>1. RouterTypeOK
    BY DEF LoadsAreExact
  <2>2. ASSUME NEW q \in Query, Acquire(q) PROVE LoadsAreExact'
    <3>1. RouterTypeOK'
      BY <2>1, <2>2 DEF Acquire, RouterTypeOK, loads
    <3>2. \A r \in Query : phase'[r] = phase[r] \/ (r = q /\ phase[r] = "new" /\ phase'[r] = "choosing")
      BY <2>1, <2>2 DEF Acquire, RouterTypeOK
    <3>3. UNCHANGED <<worker, tokens, inflight, queued>>
      BY <2>2 DEF Acquire, loads
    <3> QED
      BY <3>1, <3>2, <3>3, LoadsKept
  <2>3. ASSUME NEW q \in Query, Route(q) PROVE LoadsAreExact'
    <3>1. PICK n \in PromptTokens(q) :
             IF Candidates(n) = <<>>
             THEN /\ phase' = [phase EXCEPT ![q] = "failed"]
                  /\ UNCHANGED <<worker, tokens, loads>>
             ELSE RouteTo(q, n, Selected(q, n))
      BY <2>3 DEF Route
    <3>2. n \in Nat /\ phase[q] = "choosing" /\ lock' = Free
      BY <2>3, RouterAssumption DEF PromptTokens, Route
    <3>3. CASE Candidates(n) = <<>>
      <4>1. phase' = [phase EXCEPT ![q] = "failed"] /\ UNCHANGED <<worker, tokens, loads>>
        BY <3>1, <3>3
      <4>2. RouterTypeOK'
        BY <2>1, <3>2, <4>1 DEF RouterTypeOK, loads
      <4>3. \A r \in Query : phase'[r] = phase[r] \/ (r = q /\ phase'[r] = "failed")
        BY <2>1, <4>1 DEF RouterTypeOK
      <4>4. UNCHANGED <<worker, tokens, inflight, queued>>
        BY <4>1 DEF loads
      <4> QED
        BY <3>2, <4>2, <4>3, <4>4, LoadsKept
    <3>4. CASE Candidates(n) # <<>>
      <4> DEFINE v == Selected(q, n)
      <4>1. v \in Worker /\ RouteTo(q, n, v)
        BY <2>1, <3>1, <3>2, <3>4, SelectedIsWorker
      <4> HIDE DEF v
      <4>2. /\ Recorded(v, Prefix[q]) \in Seq({Prefix[x] : x \in Query})
            /\ Len(Recorded(v, Prefix[q])) <= History
        BY <2>1, <4>1, RecordedFits
      <4>3. recent' = [recent EXCEPT ![v] = Recorded(v, Prefix[q])]
        BY <4>1 DEF RouteTo
      <4>4. /\ recent' \in [Worker -> Seq({Prefix[x] : x \in Query})]
            /\ \A w \in Worker : Len(recent'[w]) <= History
        BY <2>1, <4>1, <4>2, <4>3 DEF RouterTypeOK
      <4>5. inflight' \in [Worker -> Nat] /\ queued' \in [Worker -> Nat]
        BY <2>1, <3>2, <4>1 DEF RouteTo, RouterTypeOK
      <4>6. RouterTypeOK'
        BY <2>1, <3>2, <4>1, <4>4, <4>5 DEF RouteTo, RouterTypeOK
      <4> QED
        BY <3>2, <4>1, <4>6, RouteLoads
    <3> QED
      BY <3>3, <3>4
  <2>4. ASSUME NEW q \in Query, LogRoute(q) PROVE LoadsAreExact'
    <3>1. PICK next \in {"proxying", "lost"} : phase' = [phase EXCEPT ![q] = next]
      BY <2>4 DEF LogRoute
    <3>2. RouterTypeOK'
      BY <2>1, <2>4, <3>1 DEF LogRoute, RouterTypeOK, loads
    <3>3. \A r \in Query : phase'[r] = phase[r] \/ (r = q /\ phase[r] = "routed" /\ phase'[r] = next)
      BY <2>1, <2>4, <3>1 DEF LogRoute, RouterTypeOK
    <3>4. UNCHANGED <<worker, tokens, inflight, queued>>
      BY <2>4 DEF LogRoute, loads
    <3> QED
      BY <3>2, <3>3, <3>4, LoadsKept
  <2>5. CASE UNCHANGED routerVars
    BY <2>5, <2>1, LoadsKept DEF routerVars, loads, RouterTypeOK
  <2> QED
    BY <2>2, <2>3, <2>4, <2>5, UntrackLoads DEF RouterNext, Handle
<1> QED
  BY <1>1, <1>2, PTL DEF RouterSpec

-----------------------------------------------------------------------------
(* The adaptive controller for every window, threshold, bound and set of    *)
(* requests: types, the fail-safe state, and when swaps are off.           *)

Sample == [age : 0..(Window + 1), ttftOk : BOOLEAN, tbtOk : BOOLEAN]

LEMMA PolicyTyped ==
    ASSUME NEW l \in Levels, NEW s \in States
    PROVE  /\ PolicyForLevel(l, s) \in Policies
           /\ PolicyForLevel(l, s).level = l
           /\ PolicyForLevel(l, s).state = s
           /\ PolicyForLevel(l, s).swap = SwapAllowed(l, s)
  <1>1. SwapAllowed(l, s) \in BOOLEAN
    BY DEF SwapAllowed
  <1>2. ReserveStep \in Int
    BY ControllerAssumption DEF ReserveStep, AtLeast
  <1>3. l * ReserveStep \in Int
    BY <1>2 DEF Levels
  <1>4. AtLeast(MinReserve, AtMost(MaxReserve, BaseReserve + l * ReserveStep)) \in Nat
    BY <1>3, ControllerAssumption DEF AtLeast, AtMost
  <1> QED
    BY <1>1, <1>4 DEF PolicyForLevel, Policies

LEMMA OldTyped ==
    ASSUME NEW q \in Seq(Sample)
    PROVE  Old(q) \in Nat
  <1>1. DOMAIN q = 1..Len(q) /\ Len(q) \in Int
    OBVIOUS
  <1>2. IsFiniteSet(DOMAIN q)
    BY <1>1, FS_Interval
  <1>3. IsFiniteSet({i \in DOMAIN q : \A j \in 1..i : q[j].age > Window})
    BY <1>2, FS_Subset
  <1> QED
    BY <1>3, FS_CardinalityType DEF Old

LEMMA TrimTyped ==
    ASSUME NEW q \in Seq(Sample)
    PROVE  Trim(q) \in Seq(Sample)
  <1> DEFINE first == 1 + AtLeast(Old(q), Len(q) - MaxSamples)
  <1>1. first \in Int /\ first >= 1 /\ Len(q) \in Int
    BY OldTyped, ControllerAssumption DEF AtLeast
  <1>2. \A i \in first .. Len(q) : q[i] \in Sample
    BY <1>1
  <1> QED
    BY <1>1, <1>2, SubSeqProperties DEF Trim

\* Besides its type, the policy always belongs to the state and the level, and a
\* controller that failed safe is at the lowest level and has no swap.
PolicyMatches == policy.state = state /\ policy.level = level

SafeWhenFailed == state = "FAIL_SAFE" => level = -2 /\ ~policy.swap

Inv == TypeOK /\ PolicyMatches /\ SafeWhenFailed

LEMMA InitInv == Init => Inv
  <1> SUFFICES ASSUME Init PROVE Inv
    OBVIOUS
  <1>1. BaselinePolicy \in Policies /\ BaselinePolicy.state = "COLD_START"
        /\ BaselinePolicy.level = 0
    BY ControllerAssumption DEF BaselinePolicy, Policies, Levels, States
  <1>2. completed \in Seq(Sample)
    BY DEF Init
  <1>3. sinceUpdate \in 0..ControlInterval /\ cooldown \in 0..Cooldown
    BY ControllerAssumption DEF Init
  <1>4. DOMAIN requests = {} /\ requests \in [DOMAIN requests -> Known]
    BY DEF Init
  <1>5. state \in States /\ level \in Levels /\ policy \in Policies /\ used \in Policies
    BY <1>1 DEF Init, States, Levels
  <1>6. TypeOK
    BY <1>2, <1>3, <1>4, <1>5 DEF Init, TypeOK, Sample
  <1>7. PolicyMatches /\ SafeWhenFailed
    BY <1>1 DEF Init, PolicyMatches, SafeWhenFailed
  <1> QED
    BY <1>6, <1>7 DEF Inv

\* Whatever state and level the controller takes, its policy follows.
LEMMA BecomeInv ==
    ASSUME NEW s \in States, NEW l \in Levels, s = "FAIL_SAFE" => l = -2, Become(s, l)
    PROVE  /\ state' = s /\ level' = l
           /\ state' \in States /\ level' \in Levels /\ policy' \in Policies
           /\ PolicyMatches' /\ SafeWhenFailed'
           /\ policy'.swap = SwapAllowed(l, s)
  <1>1. state' = s /\ level' = l /\ policy' = PolicyForLevel(l, s)
    BY DEF Become
  <1>2. policy' \in Policies /\ policy'.level = l /\ policy'.state = s
        /\ policy'.swap = SwapAllowed(l, s)
    BY <1>1, PolicyTyped
  <1>3. s = "FAIL_SAFE" => ~SwapAllowed(l, s)
    BY DEF SwapAllowed
  <1> QED
    BY <1>1, <1>2, <1>3 DEF PolicyMatches, SafeWhenFailed

LEMMA EnterFailSafeInv ==
    ASSUME EnterFailSafe
    PROVE  /\ state' = "FAIL_SAFE" /\ level' = -2
           /\ state' \in States /\ level' \in Levels /\ policy' \in Policies
           /\ PolicyMatches' /\ SafeWhenFailed'
  <1>1. "FAIL_SAFE" \in States /\ -2 \in Levels
    BY DEF States, Levels
  <1>2. Become("FAIL_SAFE", -2)
    BY DEF EnterFailSafe
  <1> QED
    BY <1>1, <1>2, BecomeInv

\* The calls that leave the controller alone keep what is said of it.
LEMMA ControlKept ==
    ASSUME Inv, UNCHANGED control
    PROVE  /\ state' \in States /\ level' \in Levels /\ policy' \in Policies
           /\ PolicyMatches' /\ SafeWhenFailed'
           /\ state = "FAIL_SAFE" => state' = "FAIL_SAFE"
  BY DEF Inv, TypeOK, control, PolicyMatches, SafeWhenFailed

LEMMA OutcomeTyped ==
    ASSUME TypeOK, NEW r \in Request
    PROVE  Outcome(r) \in Sample
  <1>1. r \in DOMAIN requests => requests[r] \in Known
    BY DEF TypeOK
  <1>2. 0 \in 0..(Window + 1)
    BY ControllerAssumption
  <1> QED
    BY <1>1, <1>2 DEF Outcome, Sample, Known

LEMMA ObservationTyped ==
    ASSUME TypeOK, NEW r \in Request, NEW ok \in BOOLEAN
    PROVE  Observation(r, ok) \in Known
  <1>1. r \in DOMAIN requests => requests[r] \in Known
    BY DEF TypeOK
  <1> QED
    BY <1>1 DEF Observation, Known

\* Every way out of _decide_next.
LEMMA MaybeUpdateInv ==
    ASSUME Inv, NEW q \in Seq(Sample), NEW pressing \in BOOLEAN, NEW unstable \in BOOLEAN,
           MaybeUpdate(q, pressing, unstable)
    PROVE  /\ state' \in States /\ level' \in Levels /\ policy' \in Policies
           /\ PolicyMatches' /\ SafeWhenFailed'
           /\ state = "FAIL_SAFE" => state' = "FAIL_SAFE"
           /\ sinceUpdate' \in 0..ControlInterval /\ cooldown' \in 0..Cooldown
  <1>1. state \in States /\ level \in Levels /\ cooldown \in 0..Cooldown
        /\ sinceUpdate \in 0..ControlInterval
    BY DEF Inv, TypeOK
  <1>2. CASE sinceUpdate < ControlInterval
    <2>1. UNCHANGED control /\ UNCHANGED timers
      BY <1>2 DEF MaybeUpdate
    <2> QED
      BY <1>1, <2>1, ControlKept DEF timers
  <1>3. CASE ~(sinceUpdate < ControlInterval)
    <2>0. sinceUpdate' \in 0..ControlInterval
      BY <1>3, ControllerAssumption DEF MaybeUpdate
    <2>1. CASE FailSafe(unstable)
      <3>1. EnterFailSafe /\ cooldown' = cooldown
        BY <2>1 DEF FailSafe
      <3> QED
        BY <3>1, <1>1, <2>0, EnterFailSafeInv
    <2>2. ASSUME ~FailsSafe(unstable),
                 \/ ColdStart(q, pressing) \/ DecodeProtect(q)
                 \/ Overload(q) \/ PrefillRecovery(q) \/ Balanced(q)
          PROVE  /\ cooldown' \in 0..Cooldown
                 /\ \E s \in States, l \in Levels : Become(s, l) /\ (s = "FAIL_SAFE" => l = -2)
      <3>0. state # "FAIL_SAFE"
        BY <2>2 DEF FailsSafe
      <3>1. CASE ColdStart(q, pressing)
        <4>1. (IF level < 1 /\ pressing THEN 1 ELSE level) \in Levels /\ "COLD_START" \in States
          BY <1>1 DEF Levels, States
        <4> QED
          BY <3>1, <4>1, <1>1 DEF ColdStart
      <3>2. CASE DecodeProtect(q)
        <4>1. Lowered \in Levels /\ "DECODE_PROTECT" \in States
          BY <1>1, ControllerAssumption DEF Levels, States, Lowered, AtLeast
        <4> QED
          BY <3>2, <4>1, <1>1 DEF DecodeProtect
      <3>3. CASE Overload(q)
        <4>1. AtMost(0, level) \in Levels /\ "OVERLOAD" \in States
          BY <1>1 DEF Levels, States, AtMost
        <4> QED
          BY <3>3, <4>1, <1>1 DEF Overload
      <3>4. CASE PrefillRecovery(q)
        <4>1. AtMost(2, level + 1) \in Levels /\ "PREFILL_RECOVERY" \in States
          BY <1>1 DEF Levels, States, AtMost
        <4>2. Cooldown \in 0..Cooldown
          BY ControllerAssumption
        <4> QED
          BY <3>4, <4>1, <4>2, <3>0, <1>1 DEF PrefillRecovery
      <3>5. CASE Balanced(q)
        <4>1. TowardsZero(q) \in Levels /\ "BALANCED" \in States
          BY <1>1 DEF Levels, States, TowardsZero
        <4> QED
          BY <3>5, <4>1, <1>1 DEF Balanced
      <3> QED
        BY <2>2, <3>1, <3>2, <3>3, <3>4, <3>5
    <2>3. CASE ~FailsSafe(unstable) /\ ~FailSafe(unstable)
      <3>1. cooldown' \in 0..Cooldown
            /\ \E s \in States, l \in Levels : Become(s, l) /\ (s = "FAIL_SAFE" => l = -2)
        BY <1>3, <2>2, <2>3 DEF MaybeUpdate
      <3>2. PICK s \in States, l \in Levels : Become(s, l) /\ (s = "FAIL_SAFE" => l = -2)
        BY <3>1
      <3>3. state # "FAIL_SAFE"
        BY <2>3 DEF FailsSafe
      <3> QED
        BY <2>0, <3>1, <3>2, <3>3, BecomeInv
    <2>4. FailSafe(unstable) \/ ~FailsSafe(unstable)
      BY <1>3 DEF MaybeUpdate
    <2> QED
      BY <2>1, <2>3, <2>4 DEF FailSafe
  <1> QED
    BY <1>2, <1>3

LEMMA ScheduleInv ==
    ASSUME Inv, Schedule
    PROVE  /\ Inv'
           /\ state = "FAIL_SAFE" => state' = "FAIL_SAFE"
           /\ used' = policy'
  <1>1. Trim(completed) \in Seq(Sample)
    BY TrimTyped DEF Inv, TypeOK, Sample
  <1>2. PICK pressing \in BOOLEAN, unstable \in BOOLEAN :
           MaybeUpdate(Trim(completed), pressing, unstable)
    <2>1. swapTried \in BOOLEAN /\ (unfinished \ DOMAIN requests # {}) \in BOOLEAN
      BY DEF Inv, TypeOK
    <2> QED
      BY <2>1 DEF Schedule
  <1>3. /\ state' \in States /\ level' \in Levels /\ policy' \in Policies
        /\ PolicyMatches' /\ SafeWhenFailed'
        /\ state = "FAIL_SAFE" => state' = "FAIL_SAFE"
        /\ sinceUpdate' \in 0..ControlInterval /\ cooldown' \in 0..Cooldown
    BY <1>1, <1>2, MaybeUpdateInv
  <1>4. used' = policy' /\ completed' = Trim(completed)
        /\ swapTried' = (swapTried \/ used'.swap)
        /\ UNCHANGED <<requests, unfinished, sloFinite>>
    BY DEF Schedule
  <1>5. swapTried' \in BOOLEAN
    BY <1>3, <1>4 DEF Inv, TypeOK, Policies
  <1>6. TypeOK'
    BY <1>1, <1>3, <1>4, <1>5 DEF Inv, TypeOK, Sample
  <1> QED
    BY <1>3, <1>4, <1>6 DEF Inv

LEMMA NextInv ==
    ASSUME Inv, [Next]_vars
    PROVE  Inv' /\ (state = "FAIL_SAFE" => state' = "FAIL_SAFE")
  <1>1. TypeOK /\ completed \in Seq(Sample)
    BY DEF Inv, TypeOK, Sample
  <1>2. ASSUME NEW r \in Request, Arrive(r)
        PROVE  Inv' /\ (state = "FAIL_SAFE" => state' = "FAIL_SAFE")
    <2>1. UNCHANGED control /\ TypeOK'
      BY <1>1, <1>2 DEF Arrive, TypeOK, control, observed, timers
    <2> QED
      BY <2>1, ControlKept DEF Inv
  <1>3. ASSUME NEW r \in Request, AcceptTokens(r)
        PROVE  Inv' /\ (state = "FAIL_SAFE" => state' = "FAIL_SAFE")
    <2>1. UNCHANGED <<completed, timers, unfinished, used, swapTried, sloFinite>>
      BY <1>3 DEF AcceptTokens
    <2>2. CASE sloFinite
      <3>1. PICK ok \in BOOLEAN :
               requests' = [q \in DOMAIN requests \cup {r} |->
                               IF q = r THEN Observation(r, ok) ELSE requests[q]]
        BY <1>3, <2>2 DEF AcceptTokens
      <3>2. UNCHANGED control
        BY <1>3, <2>2 DEF AcceptTokens
      <3>3. \A q \in DOMAIN requests : requests[q] \in Known
        BY <1>1 DEF TypeOK
      <3>4. requests' \in [DOMAIN requests' -> Known] /\ DOMAIN requests' \subseteq Request
        BY <3>1, <3>3, <1>1, ObservationTyped DEF TypeOK
      <3>5. TypeOK'
        BY <1>1, <2>1, <3>2, <3>4 DEF TypeOK, control, timers
      <3> QED
        BY <3>2, <3>5, ControlKept DEF Inv
    <2>3. CASE ~sloFinite
      <3>1. EnterFailSafe /\ UNCHANGED requests
        BY <1>3, <2>3 DEF AcceptTokens
      <3>2. /\ state' = "FAIL_SAFE" /\ state' \in States /\ level' \in Levels
            /\ policy' \in Policies /\ PolicyMatches' /\ SafeWhenFailed'
        BY <3>1, EnterFailSafeInv
      <3>3. TypeOK'
        BY <1>1, <2>1, <3>1, <3>2 DEF TypeOK, timers
      <3> QED
        BY <3>2, <3>3 DEF Inv
    <2> QED
      BY <2>2, <2>3
  <1>4. ASSUME NEW r \in Request, Finish(r)
        PROVE  Inv' /\ (state = "FAIL_SAFE" => state' = "FAIL_SAFE")
    <2>1. Append(completed, Outcome(r)) \in Seq(Sample)
      BY <1>1, OutcomeTyped, AppendProperties
    <2>2. completed' \in Seq(Sample)
      BY <1>4, <2>1, TrimTyped DEF Finish
    <2>3. requests' \in [DOMAIN requests' -> Known] /\ DOMAIN requests' \subseteq Request
      BY <1>1, <1>4 DEF Finish, TypeOK
    <2>4. UNCHANGED <<control, timers, used, swapTried, sloFinite>> /\ unfinished' \subseteq Request
      BY <1>1, <1>4 DEF Finish, TypeOK
    <2>5. TypeOK'
      BY <1>1, <2>2, <2>3, <2>4 DEF TypeOK, Sample, control, timers
    <2> QED
      BY <2>4, <2>5, ControlKept DEF Inv
  <1>5. CASE Schedule
    BY <1>5, ScheduleInv
  <1>6. CASE Tick
    <2>1. UNCHANGED <<control, requests, unfinished, used, swapTried, sloFinite>>
      BY <1>6 DEF Tick
    <2>2. \A i \in DOMAIN completed :
             [completed[i] EXCEPT !.age = AtMost(Window + 1, @ + 1)] \in Sample
      <3> SUFFICES ASSUME NEW i \in DOMAIN completed
                   PROVE  [completed[i] EXCEPT !.age = AtMost(Window + 1, @ + 1)] \in Sample
        OBVIOUS
      <3>1. completed[i] \in Sample
        BY <1>1
      <3>2. AtMost(Window + 1, completed[i].age + 1) \in 0..(Window + 1)
        BY <3>1, ControllerAssumption DEF Sample, AtMost
      <3> QED
        BY <3>1, <3>2 DEF Sample
    <2>3. completed' \in Seq(Sample)
      <3>1. DOMAIN completed = 1..Len(completed) /\ Len(completed) \in Nat
        BY <1>1
      <3>2. completed' \in [1..Len(completed) -> Sample]
        BY <1>6, <2>2, <3>1 DEF Tick
      <3> QED
        BY <3>1, <3>2
    <2>4. sinceUpdate' \in 0..ControlInterval /\ cooldown' \in 0..Cooldown
      <3>1. sinceUpdate \in 0..ControlInterval /\ cooldown \in 0..Cooldown
        BY <1>1 DEF TypeOK
      <3>2. sinceUpdate' = AtMost(ControlInterval, sinceUpdate + 1)
            /\ cooldown' = AtLeast(0, cooldown - 1)
        BY <1>6 DEF Tick
      <3> QED
        BY <3>1, <3>2, ControllerAssumption DEF AtMost, AtLeast
    <2>5. TypeOK'
      BY <1>1, <2>1, <2>3, <2>4 DEF TypeOK, Sample, control
    <2> QED
      BY <2>1, <2>5, ControlKept DEF Inv
  <1>7. CASE UNCHANGED vars
    BY <1>7, <1>1, ControlKept DEF Inv, TypeOK, vars, control, observed, timers
  <1> QED
    BY <1>2, <1>3, <1>4, <1>5, <1>6, <1>7 DEF Next

\* The types of the controller, of its window and of the policies it hands out,
\* for every configuration the assumptions admit.
THEOREM ControllerTyped == Spec => []TypeOK
  <1>1. Inv => TypeOK
    BY DEF Inv
  <1> QED
    BY <1>1, InitInv, NextInv, PTL DEF Spec

\* _enter_fail_safe is final, and rebuilds the policy itself, so that the next
\* schedule() has it without waiting for a control interval.
THEOREM FailSafeIsFinal == Spec => FailSafeHolds
  <1>1. ASSUME Inv, [Next]_vars
        PROVE  [/\ state = "FAIL_SAFE" => state' = "FAIL_SAFE"
                /\ Schedule /\ state' = "FAIL_SAFE" =>
                     used'.state = "FAIL_SAFE" /\ used'.level = -2 /\ ~used'.swap]_vars
    <2>1. state = "FAIL_SAFE" => state' = "FAIL_SAFE"
      BY <1>1, NextInv
    <2>2. ASSUME Schedule, state' = "FAIL_SAFE"
          PROVE  used'.state = "FAIL_SAFE" /\ used'.level = -2 /\ ~used'.swap
      <3>1. Inv' /\ used' = policy'
        BY <1>1, <2>2, ScheduleInv
      <3> QED
        BY <2>2, <3>1 DEF Inv, PolicyMatches, SafeWhenFailed
    <2> QED
      BY <2>1, <2>2
  <1> QED
    BY <1>1, InitInv, NextInv, PTL DEF Spec, FailSafeHolds

\* Where the controller's own thresholds say that decodes suffer, an update takes
\* the slot swap away: by the state from the levels above, by the level otherwise.
THEOREM SwapsStopForDecodes == Spec => SwapOffWhenDecodesSuffer
  <1>1. ASSUME Inv, Schedule, sinceUpdate = ControlInterval,
               EnoughSamples(completed'),
               TbtDanger(completed') \/ (TbtBad(completed') /\ TtftBad(completed'))
        PROVE  ~used'.swap
    <2> DEFINE q == Trim(completed)
    <2>1. completed' = q /\ used' = policy'
      BY <1>1 DEF Schedule
    <2>2. PICK pressing \in {FALSE, unfinished \ DOMAIN requests # {}},
               unstable \in {FALSE, swapTried} : MaybeUpdate(q, pressing, unstable)
      BY <1>1 DEF Schedule
    <2>3. ~(sinceUpdate < ControlInterval)
      BY <1>1, ControllerAssumption
    <2>4. \/ FailSafe(unstable)
          \/ ColdStart(q, pressing) \/ DecodeProtect(q)
          \/ Overload(q) \/ PrefillRecovery(q) \/ Balanced(q)
      BY <2>2, <2>3 DEF MaybeUpdate
    <2>5. ~ColdStart(q, pressing) /\ ~PrefillRecovery(q) /\ ~Balanced(q)
      BY <1>1, <2>1 DEF ColdStart, PrefillRecovery, Balanced
    <2>6. CASE FailSafe(unstable)
      BY <2>1, <2>6 DEF FailSafe, EnterFailSafe, Become, PolicyForLevel, SwapAllowed
    <2>7. CASE DecodeProtect(q)
      BY <2>1, <2>7 DEF DecodeProtect, Become, PolicyForLevel, SwapAllowed
    <2>8. CASE Overload(q)
      BY <2>1, <2>8 DEF Overload, Become, PolicyForLevel, SwapAllowed
    <2> QED
      BY <2>4, <2>5, <2>6, <2>7, <2>8
  <1>2. ASSUME Inv, [Next]_vars
        PROVE  [/\ Schedule /\ sinceUpdate = ControlInterval
                /\ EnoughSamples(completed')
                /\ TbtDanger(completed') \/ (TbtBad(completed') /\ TtftBad(completed'))
                => ~used'.swap]_vars
    BY <1>1, <1>2
  <1> QED
    BY <1>2, InitInv, NextInv, PTL DEF Spec, SwapOffWhenDecodesSuffer

\* The window is in the order in which the requests finished.
OldestFirst(q) == \A i, j \in DOMAIN q : i < j => q[j].age <= q[i].age

LEMMA OldPrefix ==
    ASSUME NEW q \in Seq(Sample), OldestFirst(q), NEW i \in 1..Len(q), q[i].age > Window
    PROVE  i <= Old(q)
  <1> DEFINE S == {k \in DOMAIN q : \A j \in 1..k : q[j].age > Window}
  <1>1. DOMAIN q = 1..Len(q) /\ Len(q) \in Nat /\ i \in Nat
    OBVIOUS
  <1>2. \A j \in 1..i : q[j].age > Window
    <2> SUFFICES ASSUME NEW j \in 1..i PROVE q[j].age > Window
      OBVIOUS
    <2>1. j \in 1..Len(q) /\ (j < i \/ j = i)
      BY <1>1
    <2>2. q[i].age \in Nat /\ q[j].age \in Nat /\ Window \in Nat
      <3>1. q[i] \in Sample /\ q[j] \in Sample
        BY <1>1, <2>1
      <3> QED
        BY <3>1, ControllerAssumption DEF Sample
    <2>3. j < i => q[i].age <= q[j].age
      BY <1>1, <2>1 DEF OldestFirst
    <2> QED
      BY <2>1, <2>2, <2>3
  <1>3. 1..i \subseteq S
    <2> SUFFICES ASSUME NEW k \in 1..i PROVE k \in S
      OBVIOUS
    <2>1. k \in DOMAIN q /\ \A j \in 1..k : j \in 1..i
      BY <1>1
    <2> QED
      BY <1>2, <2>1
  <1>4. IsFiniteSet(1..Len(q)) /\ S \subseteq 1..Len(q)
    BY <1>1, FS_Interval
  <1>5. IsFiniteSet(S)
    BY <1>4, FS_Subset
  <1>6. Cardinality(1..i) = i /\ IsFiniteSet(1..i)
    <2>1. Cardinality(1..i) = IF 1 > i THEN 0 ELSE i - 1 + 1
      BY <1>1, FS_Interval
    <2> QED
      BY <1>1, <2>1, FS_Interval
  <1> HIDE DEF S
  <1>7. Cardinality(1..i) <= Cardinality(S)
    BY <1>3, <1>5, FS_Subset
  <1> QED
    BY <1>6, <1>7 DEF Old, S

\* What is trimmed keeps its order, and holds nothing older than the window.
LEMMA TrimmedIsFresh ==
    ASSUME NEW q \in Seq(Sample), OldestFirst(q)
    PROVE  OldestFirst(Trim(q)) /\ \A i \in DOMAIN Trim(q) : Trim(q)[i].age <= Window
  <1> DEFINE first == 1 + AtLeast(Old(q), Len(q) - MaxSamples)
             t == SubSeq(q, first, Len(q))
  <1>1. Old(q) \in Nat /\ Len(q) \in Nat /\ MaxSamples \in Nat /\ DOMAIN q = 1..Len(q)
    BY OldTyped, ControllerAssumption
  <1>2. first \in Nat /\ first >= 1 + Old(q)
    BY <1>1 DEF AtLeast
  <1>3. Trim(q) = t
    BY DEF Trim
  <1> HIDE DEF first
  <1>4. \A i \in DOMAIN t : first + i - 1 \in 1..Len(q) /\ t[i] = q[first + i - 1] /\ i \in Nat \ {0}
    BY <1>1, <1>2
  <1> HIDE DEF t
  <1>5. OldestFirst(t)
    <2> SUFFICES ASSUME NEW i \in DOMAIN t, NEW j \in DOMAIN t, i < j PROVE t[j].age <= t[i].age
      BY DEF OldestFirst
    <2>1. first + i - 1 < first + j - 1
      BY <1>2, <1>4
    <2> QED
      BY <1>1, <1>4, <2>1 DEF OldestFirst
  <1>6. ASSUME NEW i \in DOMAIN t PROVE t[i].age <= Window
    <2>1. first + i - 1 \in 1..Len(q) /\ t[i] = q[first + i - 1] /\ i \in Nat \ {0}
      BY <1>4
    <2>2. first + i - 1 > Old(q)
      BY <1>1, <1>2, <2>1
    <2>3. q[first + i - 1] \in Sample
      BY <1>1, <2>1
    <2>4. t[i].age \in Nat /\ Window \in Nat
      BY <2>1, <2>3, ControllerAssumption DEF Sample
    <2>5. ~(t[i].age > Window)
      <3> SUFFICES ASSUME t[i].age > Window PROVE FALSE
        OBVIOUS
      <3>1. first + i - 1 <= Old(q)
        BY <2>1, OldPrefix
      <3> QED
        BY <1>1, <2>1, <2>2, <3>1
    <2> QED
      BY <2>4, <2>5
  <1> QED
    BY <1>3, <1>5, <1>6

\* A request that finishes is younger than all before it.
LEMMA NewestLast ==
    ASSUME NEW q \in Seq(Sample), OldestFirst(q), NEW o \in Sample, o.age = 0
    PROVE  OldestFirst(Append(q, o))
  <1> DEFINE p == Append(q, o)
  <1>1. /\ Len(q) \in Nat /\ DOMAIN q = 1..Len(q) /\ DOMAIN p = 1..(Len(q) + 1)
        /\ p[Len(q) + 1] = o
        /\ \A i \in 1..Len(q) : p[i] = q[i] /\ q[i] \in Sample
    OBVIOUS
  <1> HIDE DEF p
  <1> SUFFICES ASSUME NEW i \in DOMAIN p, NEW j \in DOMAIN p, i < j PROVE p[j].age <= p[i].age
    BY DEF OldestFirst, p
  <1>2. i \in 1..Len(q) /\ p[i] = q[i] /\ q[i].age \in Nat
    BY <1>1 DEF Sample
  <1>3. CASE j = Len(q) + 1
    BY <1>1, <1>2, <1>3
  <1>4. CASE j # Len(q) + 1
    <2>1. j \in 1..Len(q) /\ p[j] = q[j]
      BY <1>1, <1>4
    <2> QED
      BY <1>1, <1>2, <2>1 DEF OldestFirst
  <1> QED
    BY <1>3, <1>4

Current == Inv /\ TrackedAreUnfinished /\ OldestFirst(completed)

LEMMA NextCurrent ==
    ASSUME Current, [Next]_vars
    PROVE  /\ Current'
           /\ Schedule => \A i \in DOMAIN completed' : completed'[i].age <= Window
  <1>1. /\ Inv /\ Inv' /\ TypeOK /\ completed \in Seq(Sample) /\ OldestFirst(completed)
        /\ DOMAIN requests \subseteq unfinished
    BY NextInv DEF Current, Inv, TypeOK, Sample, TrackedAreUnfinished
  <1>2. ASSUME UNCHANGED <<completed>> PROVE OldestFirst(completed)'
    BY <1>1, <1>2 DEF OldestFirst
  <1>3. ASSUME Schedule
        PROVE  /\ TrackedAreUnfinished' /\ OldestFirst(completed)'
               /\ \A i \in DOMAIN completed' : completed'[i].age <= Window
    <2>1. completed' = Trim(completed) /\ UNCHANGED <<requests, unfinished>>
      BY <1>3 DEF Schedule
    <2>2. OldestFirst(Trim(completed)) /\ \A i \in DOMAIN Trim(completed) : Trim(completed)[i].age <= Window
      BY <1>1, TrimmedIsFresh
    <2>3. OldestFirst(completed') /\ \A i \in DOMAIN completed' : completed'[i].age <= Window
      BY <2>1, <2>2
    <2> QED
      BY <1>1, <2>1, <2>3 DEF TrackedAreUnfinished, OldestFirst
  <1>4. ASSUME NEW r \in Request, Arrive(r) PROVE (TrackedAreUnfinished /\ OldestFirst(completed))'
    BY <1>1, <1>2, <1>4 DEF Arrive, observed, TrackedAreUnfinished
  <1>5. ASSUME NEW r \in Request, AcceptTokens(r)
        PROVE  (TrackedAreUnfinished /\ OldestFirst(completed))'
    <2>1. UNCHANGED <<completed, unfinished>> /\ r \in unfinished
      BY <1>5 DEF AcceptTokens
    <2>2. DOMAIN requests' \subseteq DOMAIN requests \cup {r}
      <3>1. CASE sloFinite
        BY <1>5, <3>1 DEF AcceptTokens
      <3>2. CASE ~sloFinite
        BY <1>5, <3>2 DEF AcceptTokens
      <3> QED
        BY <3>1, <3>2
    <2> QED
      BY <1>1, <1>2, <2>1, <2>2 DEF TrackedAreUnfinished
  <1>6. ASSUME NEW r \in Request, Finish(r) PROVE (TrackedAreUnfinished /\ OldestFirst(completed))'
    <2>1. Outcome(r) \in Sample /\ Outcome(r).age = 0
      BY <1>1, OutcomeTyped DEF Outcome
    <2>2. Append(completed, Outcome(r)) \in Seq(Sample) /\ OldestFirst(Append(completed, Outcome(r)))
      BY <1>1, <2>1, NewestLast, AppendProperties
    <2>3. OldestFirst(Trim(Append(completed, Outcome(r))))
      BY <2>2, TrimmedIsFresh
    <2>4. completed' = Trim(Append(completed, Outcome(r)))
      BY <1>6 DEF Finish
    <2>5. DOMAIN requests' = DOMAIN requests \ {r} /\ unfinished' = unfinished \ {r}
      BY <1>6 DEF Finish, Dropped
    <2>6. OldestFirst(completed')
      BY <2>3, <2>4
    <2> QED
      BY <1>1, <2>5, <2>6 DEF TrackedAreUnfinished, OldestFirst
  <1>7. ASSUME Tick PROVE (TrackedAreUnfinished /\ OldestFirst(completed))'
    <2>1. /\ UNCHANGED <<requests, unfinished>>
          /\ completed' = [i \in DOMAIN completed |->
                              [completed[i] EXCEPT !.age = AtMost(Window + 1, @ + 1)]]
      BY <1>7 DEF Tick
    <2>2. DOMAIN completed' = DOMAIN completed
      BY <2>1
    <2>3. \A i \in DOMAIN completed : completed'[i].age = AtMost(Window + 1, completed[i].age + 1)
      <3> SUFFICES ASSUME NEW i \in DOMAIN completed
                   PROVE  completed'[i].age = AtMost(Window + 1, completed[i].age + 1)
        OBVIOUS
      <3>1. completed[i] \in Sample
        BY <1>1
      <3>2. completed'[i] = [completed[i] EXCEPT !.age = AtMost(Window + 1, completed[i].age + 1)]
        BY <2>1
      <3> QED
        BY <3>1, <3>2 DEF Sample
    <2>4. \A i \in DOMAIN completed : completed[i].age \in Nat
      <3> SUFFICES ASSUME NEW i \in DOMAIN completed PROVE completed[i].age \in Nat
        OBVIOUS
      <3>1. completed[i] \in Sample
        BY <1>1
      <3> QED
        BY <3>1, ControllerAssumption DEF Sample
    <2>5. ASSUME NEW i \in DOMAIN completed, NEW j \in DOMAIN completed, i < j
          PROVE  completed'[j].age <= completed'[i].age
      <3>1. completed[j].age <= completed[i].age
        BY <1>1, <2>5 DEF OldestFirst
      <3> QED
        BY <2>3, <2>4, <3>1, ControllerAssumption DEF AtMost
    <2>6. OldestFirst(completed')
      BY <2>2, <2>5 DEF OldestFirst
    <2>7. OldestFirst(completed)'
      BY <2>6 DEF OldestFirst
    <2>8. TrackedAreUnfinished'
      BY <1>1, <2>1 DEF TrackedAreUnfinished
    <2> QED
      BY <2>7, <2>8
  <1>8. ASSUME UNCHANGED vars PROVE (TrackedAreUnfinished /\ OldestFirst(completed))'
    BY <1>1, <1>2, <1>8 DEF vars, observed, TrackedAreUnfinished
  <1>9. (TrackedAreUnfinished /\ OldestFirst(completed))'
    <2>1. CASE Schedule
      BY <1>3, <2>1
    <2>2. CASE \E r \in Request : Arrive(r) \/ AcceptTokens(r) \/ Finish(r)
      BY <1>4, <1>5, <1>6, <2>2
    <2> QED
      BY <1>7, <1>8, <2>1, <2>2 DEF Next
  <1>10. Current'
    BY <1>1, <1>9 DEF Current
  <1>11. Schedule => \A i \in DOMAIN completed' : completed'[i].age <= Window
    BY <1>3
  <1> QED
    BY <1>10, <1>11

\* The controller keeps observations of unfinished requests only, and decides on
\* requests that finished within the window: popping old ones from the left is
\* enough, because the queue stays in the order of their ends.
THEOREM DecisionsAreCurrent == Spec => ObservationsAreCurrent
  <1>1. Init => Current
    <2> SUFFICES ASSUME Init PROVE Current
      OBVIOUS
    <2>1. completed = <<>> /\ DOMAIN requests = {}
      BY DEF Init
    <2> QED
      BY <2>1, InitInv DEF Current, TrackedAreUnfinished, OldestFirst
  <1>2. Current /\ [Next]_vars => Current'
    BY NextCurrent
  <1>3. Current => TypeOK /\ TrackedAreUnfinished
    BY DEF Current, Inv
  <1>4. ASSUME Current, [Next]_vars
        PROVE  [Schedule => \A i \in DOMAIN completed' : completed'[i].age <= Window]_vars
    BY <1>4, NextCurrent
  <1> QED
    BY <1>1, <1>2, <1>3, <1>4, PTL DEF Spec, ObservationsAreCurrent, DecisionsUseFreshSamples
=============================================================================
