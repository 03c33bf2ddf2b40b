----------------------------- MODULE Deployment -----------------------------
(***************************************************************************)
(* The launcher prefill_chunked/scripts/run_baseline.py: it starts the     *)
(* vLLM servers and the router (or readiness gate) before them, waits for  *)
(* their health, warms them up, opens the gate and waits for them to end.  *)
(* The three deployments (single, short_long, replica_short_long) have     *)
(* this shape, with one server or more.                                    *)
(*                                                                         *)
(* A Python signal handler runs in the main thread, on top of the frame it *)
(* interrupts, be that another handler's: what that frame holds stays      *)
(* held.  subprocess.Popen: poll(), wait(timeout) and wait() all take one  *)
(* lock of the Popen, which the same thread cannot take twice.             *)
(***************************************************************************)
EXTENDS Naturals, FiniteSets

CONSTANTS
    NumServers,
    WarmupEnabled,
    MaxSignals      \* bound: signals sent to the launcher

ASSUME DeploymentAssumption ==
    NumServers \in Nat \ {0} /\ WarmupEnabled \in BOOLEAN /\ MaxSignals \in Nat

Server == 1..NumServers

VARIABLES
    pc, at,       \* the main thread: its phase and the server it is at
    server,       \* "absent", "up", "healthy" or "dead"
    code,         \* exit codes, 0 or 1
    signalled,    \* servers that got SIGKILL
    routerGate,   \* "none", "closed", "open", "stopped"
    warmed,       \* servers whose warm-up is over
    guarded,      \* the signal handlers have been installed
    killer,       \* who runs terminate_servers: "nobody", "main" or "handler"
    kpc, kat,     \* and where it is
    held,         \* servers whose Popen an interrupted frame has locked
    exitCode,
    signals

mainVars == <<pc, at>>
killVars == <<killer, kpc, kat>>
procVars == <<server, code, signalled>>
deployVars == <<mainVars, procVars, routerGate, warmed, guarded, killVars, held, exitCode,
                signals>>

DeployTypeOK ==
    /\ pc \in {"spawn", "router", "handlers", "health", "warm", "open", "wait", "cleanup",
               "unwind", "exited"}
    /\ at \in Server /\ kat \in Server
    /\ server \in [Server -> {"absent", "up", "healthy", "dead"}]
    /\ code \in [Server -> {0, 1}] /\ signalled \subseteq Server /\ warmed \subseteq Server
    /\ routerGate \in {"none", "closed", "open", "stopped"}
    /\ guarded \in BOOLEAN /\ held \subseteq Server /\ exitCode \in {0, 1} /\ signals \in 0..MaxSignals
    /\ killer \in {"nobody", "main", "handler"}
    /\ kpc \in {"poll", "wait30", "wait"}

DeployInit ==
    /\ pc = "spawn" /\ at = 1
    /\ server = [i \in Server |-> "absent"] /\ code = [i \in Server |-> 0] /\ signalled = {}
    /\ routerGate = "none" /\ warmed = {} /\ guarded = FALSE
    /\ killer = "nobody" /\ kpc = "poll" /\ kat = 1
    /\ held = {} /\ exitCode = 0 /\ signals = 0

Alive(i) == server[i] \in {"up", "healthy"}

\* The main thread runs unless a handler has interrupted it.
At(phase) == pc = phase /\ killer # "handler"

\* The next server, or the next phase.
Advance(next) ==
    IF at < NumServers THEN at' = at + 1 /\ UNCHANGED pc
                       ELSE at' = 1 /\ pc' = next

Rest == UNCHANGED <<killVars, held, exitCode, signals>>

----------------------------------------------------------------------------
(* The servers.                                                            *)

BecomeHealthy(i) ==
    /\ server[i] = "up"
    /\ server' = [server EXCEPT ![i] = "healthy"]
    /\ UNCHANGED <<mainVars, code, signalled, routerGate, warmed, guarded>> /\ Rest

\* It ends by itself, by SIGTERM or by SIGKILL.
ServerEnds(i) ==
    /\ Alive(i)
    /\ server' = [server EXCEPT ![i] = "dead"]
    /\ \E c \in {0, 1} : code' = [code EXCEPT ![i] = c]
    /\ UNCHANGED <<mainVars, signalled, routerGate, warmed, guarded>> /\ Rest

----------------------------------------------------------------------------
(* The main thread.                                                        *)

Spawn ==
    /\ At("spawn")
    /\ server' = [server EXCEPT ![at] = "up"]
    /\ Advance("router")
    /\ UNCHANGED <<code, signalled, routerGate, warmed, guarded>> /\ Rest

\* Popen, the router's port or its import fails: nothing but the router is
\* undone on the way out.
StartFails ==
    /\ At("spawn") \/ At("router")
    /\ pc' = "unwind" /\ exitCode' = 1
    /\ UNCHANGED <<at, procVars, routerGate, warmed, guarded, killVars, held, signals>>

StartRouter ==
    /\ At("router")
    /\ routerGate' = "closed" /\ pc' = "handlers"
    /\ UNCHANGED <<at, procVars, warmed, guarded>> /\ Rest

InstallHandlers ==
    /\ At("handlers")
    /\ guarded' = TRUE
    /\ pc' = IF WarmupEnabled THEN "health" ELSE "wait"
    /\ UNCHANGED <<at, procVars, routerGate, warmed>> /\ Rest

\* wait_for_health.
HealthSeen ==
    /\ At("health") /\ server[at] = "healthy"
    /\ Advance("warm")
    /\ UNCHANGED <<procVars, routerGate, warmed, guarded>> /\ Rest

\* Failed requests of a warm-up are logged only.
WarmUp ==
    /\ At("warm")
    /\ warmed' = warmed \cup {at}
    /\ Advance("open")
    /\ UNCHANGED <<procVars, routerGate, guarded>> /\ Rest

\* Mutant: an error on the way is reported, and the servers left running.
RaiseOnly ==
    /\ \/ At("health") /\ (server[at] = "dead" \/ server[at] = "up")
       \/ At("warm")
    /\ exitCode' = 1 /\ pc' = "unwind"
    /\ UNCHANGED <<at, procVars, routerGate, warmed, guarded, killVars, held, signals>>

\* The server exited, or was not healthy in time, or the warm-up raised.
Raise ==
    /\ \/ At("health") /\ (server[at] = "dead" \/ server[at] = "up")
       \/ At("warm")
    /\ exitCode' = 1 /\ pc' = "cleanup"
    /\ killer' = "main" /\ kpc' = "poll" /\ kat' = 1
    /\ UNCHANGED <<at, procVars, routerGate, warmed, guarded, held, signals>>

OpenGate ==
    /\ At("open")
    /\ routerGate' = "open" /\ pc' = "wait"
    /\ UNCHANGED <<at, procVars, warmed, guarded>> /\ Rest

\* The first code that is not 0.
Combined == IF exitCode = 0 THEN code[at] ELSE exitCode

\* servers[0].wait(), then the others'.
ServerReaped ==
    /\ At("wait") /\ server[at] = "dead"
    /\ exitCode' = Combined
    /\ Advance("unwind")
    /\ UNCHANGED <<procVars, routerGate, warmed, guarded, killVars, held, signals>>

\* The outer finally.
Unwind ==
    /\ At("unwind")
    /\ pc' = "exited" /\ routerGate' = IF routerGate = "none" THEN "none" ELSE "stopped"
    /\ UNCHANGED <<at, procVars, warmed, guarded>> /\ Rest

----------------------------------------------------------------------------
(* Signals, and terminate_servers.                                         *)

\* The server whose Popen the main thread, or the handler on top of it, may
\* be in a poll() or a wait() of: wait_for_health polls, too.
Frame ==
    IF killer # "nobody" THEN {kat} ELSE IF pc \in {"health", "wait"} THEN {at} ELSE {}

\* forward_signal, which may interrupt itself.  The frame below holds the
\* lock, or does not yet.  The handlers are put back before the outer finally.
Interrupt ==
    /\ guarded /\ signals < MaxSignals /\ pc \notin {"unwind", "exited"}
    /\ signals' = signals + 1
    /\ routerGate' = "stopped"
    /\ killer' = "handler" /\ kpc' = "poll" /\ kat' = 1
    /\ held' \in {held, held \cup Frame}
    /\ UNCHANGED <<mainVars, procVars, warmed, guarded, exitCode>>

\* Without handlers the launcher ends, and its servers do not.
Killed ==
    /\ ~guarded /\ signals < MaxSignals /\ pc # "exited"
    /\ signals' = signals + 1
    /\ pc' = "exited" /\ routerGate' = IF routerGate = "none" THEN "none" ELSE "stopped"
    /\ exitCode' = 1
    /\ UNCHANGED <<at, procVars, warmed, guarded, killVars, held>>

\* With the lock held poll() says nothing, wait(timeout) times out, and
\* wait() waits for ever.
Locked == killer = "handler" /\ kat \in held

Reapable == server[kat] = "dead" /\ ~Locked

\* The next server, or back: the handler raises SystemExit, which no frame
\* below it catches.
NextToKill ==
    IF kat < NumServers
    THEN kat' = kat + 1 /\ kpc' = "poll" /\ UNCHANGED <<killer, pc, exitCode>>
    ELSE kat' = 1 /\ kpc' = "poll" /\ killer' = "nobody" /\ pc' = "unwind" /\ exitCode' = 1

\* poll() says it has ended, or a wait() returns.
Terminated ==
    /\ killer # "nobody" /\ Reapable
    /\ NextToKill
    /\ UNCHANGED <<at, procVars, routerGate, warmed, guarded, held, signals>>

\* Mutant: SIGTERM, and a wait without a timeout.
TerminateAndWait ==
    /\ killer # "nobody" /\ kpc = "poll" /\ ~Reapable
    /\ kpc' = "wait"
    /\ UNCHANGED <<mainVars, procVars, routerGate, warmed, guarded, killer, kat, held, exitCode,
                   signals>>

Terminate ==
    /\ killer # "nobody" /\ kpc = "poll" /\ ~Reapable
    /\ kpc' = "wait30"
    /\ UNCHANGED <<mainVars, procVars, routerGate, warmed, guarded, killer, kat, held, exitCode,
                   signals>>

\* TimeoutExpired after 30 s.
Kill ==
    /\ killer # "nobody" /\ kpc = "wait30" /\ ~Reapable
    /\ kpc' = "wait" /\ signalled' = signalled \cup {kat}
    /\ UNCHANGED <<mainVars, server, code, routerGate, warmed, guarded, killer, kat, held,
                   exitCode, signals>>

Launcher ==
    \/ Spawn \/ StartRouter \/ InstallHandlers \/ HealthSeen \/ Raise \/ WarmUp \/ OpenGate
    \/ ServerReaped \/ Unwind \/ Terminated \/ Terminate \/ Kill

DeployNext ==
    \/ Launcher \/ StartFails \/ Interrupt \/ Killed
    \/ \E i \in Server : BecomeHealthy(i) \/ ServerEnds(i)

\* The launcher runs, and SIGKILL ends a server.  No server is bound to get
\* healthy, to end, or to obey SIGTERM.
DeployFairness ==
    /\ WF_deployVars(Launcher)
    /\ \A i \in Server : WF_deployVars(i \in signalled /\ ServerEnds(i))

DeploySpec == DeployInit /\ [][DeployNext]_deployVars /\ DeployFairness

----------------------------------------------------------------------------
(* Properties.                                                             *)

\* Once its handlers are installed the launcher leaves no server behind,
\* whether it ends by an error, a signal or with its servers; and it keeps its
\* place among them.
NoServerLeft == DeployTypeOK /\ (pc = "exited" /\ guarded => \A i \in Server : ~Alive(i))

\* A signal ends the launcher at any time, also when the servers ignore
\* SIGTERM or another signal comes, unless its handler gets to a server whose
\* Popen a frame below it has locked.
SignalStopsUnlessLocked == killer = "handler" ~> pc = "exited" \/ Locked

\* "Received signal; stopping vLLM servers": a signal ends the launcher at
\* any time.
SignalStops == killer = "handler" ~> pc = "exited"
=============================================================================
