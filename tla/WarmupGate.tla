----------------------------- MODULE WarmupGate -----------------------------
(***************************************************************************)
(* sitecustomize.py (config_yml_aira/0714-v0250-port): the warm-up worker, *)
(* the marker file that says it is over, and what reads the marker: the    *)
(* gate before /health, the garbage-collector freeze of every interpreter  *)
(* of the container, and the compose healthcheck.  A container may be      *)
(* restarted: its processes go, the file stays.                            *)
(*                                                                         *)
(* Deadlines are what is left of them, in ticks; the hooks are installed   *)
(* (_WARMUP_WANTED).                                                       *)
(***************************************************************************)
EXTENDS Naturals, Sequences

CONSTANTS
    Proc,            \* interpreters and forked children of the container
    Api,             \* the one that serves, and starts first
    GcFreeze,        \* AIR_GC_FREEZE
    HealthGate,      \* AIR_HEALTH_GATE
    RustFrontend,    \* VLLM_USE_RUST_FRONTEND
    Stages,          \* the warm-up stages that are on, in their order
    StartupTimeout,  \* AIR_WARMUP_STARTUP_TIMEOUT
    GateTimeout,     \* AIR_HEALTH_GATE_TIMEOUT
    FreezeTimeout,   \* AIR_GC_FREEZE_TIMEOUT
    MaxBoots         \* bound: restarts of the container

ASSUME GateAssumption ==
    /\ Api \in Proc /\ GcFreeze \in BOOLEAN /\ HealthGate \in BOOLEAN /\ RustFrontend \in BOOLEAN
    /\ Stages \in Seq({"generic", "long", "prime", "pack", "storm"})
    /\ StartupTimeout \in Nat /\ GateTimeout \in Nat /\ FreezeTimeout \in Nat /\ MaxBoots \in Nat

VARIABLES
    boots,
    marker,      \* the file AIR_GC_MARKER exists
    up,          \* the processes that run
    answers,     \* /v1/models answers below 500
    warmer,      \* the warm-up thread: "off", "wait", "run", "write", "done"
    stage,       \* how many stages it has begun
    startLeft,   \* what is left of its wait for the server
    gate,        \* "none", "closed" or "open"
    gateLeft,    \* what is left before it opens by itself
    watcher,     \* the freeze thread of each process
    watchLeft,
    healthy      \* the compose healthcheck has succeeded in this boot

procs  == <<boots, up>>
warmup == <<warmer, stage, startLeft>>
gates  == <<gate, gateLeft>>
freeze == <<watcher, watchLeft>>
gateVars == <<procs, marker, answers, warmup, gates, freeze, healthy>>

GateTypeOK ==
    /\ boots \in 0..MaxBoots /\ marker \in BOOLEAN /\ up \subseteq Proc
    /\ answers \in BOOLEAN /\ healthy \in BOOLEAN
    /\ warmer \in {"off", "wait", "run", "write", "done"} /\ stage \in 0..Len(Stages)
    /\ startLeft \in 0..StartupTimeout /\ gateLeft \in 0..GateTimeout
    /\ gate \in {"none", "closed", "open"}
    /\ watcher \in [Proc -> {"off", "waiting", "frozen", "expired"}]
    /\ watchLeft \in [Proc -> 0..FreezeTimeout]

NoWatch == [p \in Proc |-> "off"]
NoTime == [p \in Proc |-> 0]

GateInit ==
    /\ boots = 0 /\ marker = FALSE /\ up = {} /\ answers = FALSE /\ healthy = FALSE
    /\ warmer = "off" /\ stage = 0 /\ startLeft = 0
    /\ gate = "none" /\ gateLeft = 0
    /\ watcher = NoWatch /\ watchLeft = NoTime

\* Whatever file the last boot left stays.
Restart ==
    /\ boots < MaxBoots /\ up # {}
    /\ boots' = boots + 1 /\ up' = {} /\ answers' = FALSE /\ healthy' = FALSE
    /\ warmer' = "off" /\ stage' = 0 /\ startLeft' = 0
    /\ gate' = "none" /\ gateLeft' = 0
    /\ watcher' = NoWatch /\ watchLeft' = NoTime
    /\ UNCHANGED marker

\* The watcher of a process that starts: _arm_gc_watcher.
Watch(p) ==
    IF GcFreeze
    THEN /\ watcher' = [watcher EXCEPT ![p] = "waiting"]
         /\ watchLeft' = [watchLeft EXCEPT ![p] = FreezeTimeout]
    ELSE UNCHANGED <<freeze>>

\* Mutant: the file of an earlier boot is left alone.
StartInterpreterKeeping(p) ==
    /\ p \notin up /\ (p = Api \/ Api \in up)
    /\ up' = up \cup {p}
    /\ Watch(p)
    /\ UNCHANGED <<boots, marker, answers, warmup, gates, healthy>>

\* Every interpreter imports sitecustomize, which removes the file only when
\* the freeze is on.
StartInterpreter(p) ==
    /\ p \notin up /\ (p = Api \/ Api \in up)
    /\ up' = up \cup {p}
    /\ marker' = (marker /\ ~GcFreeze)
    /\ Watch(p)
    /\ UNCHANGED <<boots, answers, warmup, gates, healthy>>

\* A forked child (register_at_fork) has the watcher alone.
Fork(p) ==
    /\ p \notin up /\ Api \in up
    /\ up' = up \cup {p}
    /\ Watch(p)
    /\ UNCHANGED <<boots, marker, answers, warmup, gates, healthy>>

\* _health_gate_enabled: "storm" alone does not engage it.
GateEnabled ==
    HealthGate /\ \E i \in DOMAIN Stages : Stages[i] # "storm"

\* _serve_http, or _run_multi_api_server of the Rust frontend, which has no
\* application to wrap.
Serve ==
    /\ Api \in up /\ warmer = "off"
    /\ warmer' = "wait" /\ startLeft' = StartupTimeout
    /\ IF GateEnabled /\ ~RustFrontend
       THEN gate' = "closed" /\ gateLeft' = GateTimeout
       ELSE UNCHANGED <<gates>>
    /\ UNCHANGED <<procs, marker, answers, stage, freeze, healthy>>

Answer ==
    /\ warmer # "off" /\ ~answers
    /\ answers' = TRUE
    /\ UNCHANGED <<procs, marker, warmup, gates, freeze, healthy>>

\* _wait_health.
WaitHealth ==
    /\ warmer = "wait"
    /\ \/ answers /\ startLeft > 0 /\ warmer' = "run"
       \/ startLeft = 0 /\ warmer' = "write"
    /\ UNCHANGED <<procs, marker, answers, stage, startLeft, gates, freeze, healthy>>

\* A stage whose error ends the warm-up: the one request of "prime", or a
\* pack file that cannot be read.  The others' errors are swallowed.
MayRaise == {"prime", "pack", "storm"}

RunStage ==
    /\ warmer = "run" /\ stage < Len(Stages)
    /\ stage' = stage + 1
    /\ warmer' \in {"run"} \cup (IF Stages[stage + 1] \in MayRaise THEN {"write"} ELSE {})
    /\ UNCHANGED <<procs, marker, answers, startLeft, gates, freeze, healthy>>

StagesDone ==
    /\ warmer = "run" /\ stage = Len(Stages)
    /\ warmer' = "write"
    /\ UNCHANGED <<procs, marker, answers, stage, startLeft, gates, freeze, healthy>>

\* _write_gc_marker, in the finally: of the worker; a failure is swallowed.
WriteMarker ==
    /\ warmer = "write" /\ warmer' = "done"
    /\ marker' \in {TRUE, marker}
    /\ UNCHANGED <<procs, answers, stage, startLeft, gates, freeze, healthy>>

\* Mutant: the gate waits for the file only.
MayOpenOnMarker == marker

MayOpen == marker \/ gateLeft = 0

\* The gate looks at the file and the clock only when /health is asked.
PollHealth ==
    /\ answers /\ gate = "closed" /\ MayOpen
    /\ gate' = "open"
    /\ UNCHANGED <<procs, marker, answers, warmup, gateLeft, freeze, healthy>>

\* The healthcheck of the compose files: test -f.  Docker makes the first test
\* of a boot an interval after its start, when the interpreter runs: assumed.
Healthcheck ==
    /\ Api \in up /\ ~healthy /\ marker
    /\ healthy' = TRUE
    /\ UNCHANGED <<procs, marker, answers, warmup, gates, freeze>>

\* _gc_freeze_watcher.
Freeze(p) ==
    /\ watcher[p] = "waiting"
    /\ \/ /\ watchLeft[p] > 0 /\ marker
          /\ watcher' = [watcher EXCEPT ![p] = "frozen"]
       \/ /\ watchLeft[p] = 0
          /\ watcher' = [watcher EXCEPT ![p] = "expired"]
    /\ UNCHANGED <<procs, marker, answers, warmup, gates, watchLeft, healthy>>

Sooner(n) == IF n > 0 THEN n - 1 ELSE 0

Elapse ==
    /\ startLeft' = Sooner(startLeft) /\ gateLeft' = Sooner(gateLeft)
    /\ watchLeft' = [p \in Proc |-> Sooner(watchLeft[p])]
    /\ UNCHANGED <<procs, marker, answers, warmer, stage, gate, watcher, healthy>>

GateNext ==
    \/ Restart \/ Serve \/ Answer \/ WaitHealth \/ RunStage \/ StagesDone \/ WriteMarker
    \/ PollHealth \/ Healthcheck \/ Elapse
    \/ \E p \in Proc : StartInterpreter(p) \/ Fork(p) \/ Freeze(p)

\* Time passes, the server comes up and is asked for its health.  Nothing is
\* assumed of the warm-up, which may hang.
GateFairness == WF_gateVars(Elapse) /\ WF_gateVars(Answer) /\ WF_gateVars(PollHealth)

GateSpec == GateInit /\ [][GateNext]_gateVars /\ GateFairness

----------------------------------------------------------------------------
(* Properties.                                                             *)

\* Whoever reads the marker reads that of this boot's warm-up, never one that an
\* earlier boot left.  "The grader starts the benchmark only once the container
\* reports healthy"; the gate that answers 503 "until the warmup-done marker
\* exists" opens after the warm-up or at its timeout; what a process freezes is
\* the "post-warmup object graph".  No timer runs below zero meanwhile.
MarkerTells ==
    /\ GateTypeOK
    /\ healthy => warmer = "done"
    /\ gate = "open" => warmer = "done" \/ gateLeft = 0
    /\ \A p \in Proc : watcher[p] = "frozen" => warmer = "done"

\* "A wedged warmup cannot make the container permanently unhealthy": a gate
\* that is asked opens, whatever becomes of the warm-up and of the file.
GateOpens == gate = "closed" ~> gate # "closed"
=============================================================================
