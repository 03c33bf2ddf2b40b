----------------------------- MODULE MCPeriphery -----------------------------
(***************************************************************************)
(* The machines around the engine and beside it: the launcher, the warm-up *)
(* and its gate, the router, the pacing of the engine's input thread, and  *)
(* the prompt tuning of LayoutAgent.  They share no variable: a behavior   *)
(* picks one in its initial state and is a behavior of that one, while the *)
(* others rest in theirs.                                                  *)
(***************************************************************************)
EXTENDS EnginePacing, WarmupGate, Deployment, SloRouter, PromptTuning

VARIABLE part

\* Two short workers and a long one, a prompt on each side of the split and
\* one so near it that it is tokenized.
ThreeWorkers == <<"s1", "s2", "l1">>
Lengths == [q \in Query |-> IF q = "a" THEN 1 ELSE IF q = "b" THEN 4 ELSE 9]
TrueLengths == [q \in Query |-> IF q = "a" THEN 1 ELSE IF q = "b" THEN 6 ELSE 9]
NoOutput == [q \in Query |-> 0]
PrefixOf == [q \in Query |-> IF q = "c" THEN "q" ELSE "p"]
Preferences == [x \in {"p", "q"} |-> IF x = "p" THEN <<"s2", "l1", "s1">> ELSE <<"l1", "s1", "s2">>]

TwoStages == <<"generic", "prime">>

machines == <<paceVars, gateVars, deployVars, routerVars, tuningVars>>

PeripheryInit ==
    /\ part \in {"pacing", "warmup", "launcher", "router", "tuning"}
    /\ PaceInit /\ GateInit /\ DeployInit /\ RouterInit /\ TuningInit
    /\ part # "tuning" => fields

Pacing ==
    /\ part = "pacing" /\ PaceNext
    /\ UNCHANGED <<part, gateVars, deployVars, routerVars, tuningVars>>
Warming ==
    /\ part = "warmup" /\ GateNext
    /\ UNCHANGED <<part, paceVars, deployVars, routerVars, tuningVars>>
Launching ==
    /\ part = "launcher" /\ DeployNext
    /\ UNCHANGED <<part, paceVars, gateVars, routerVars, tuningVars>>
Routing ==
    /\ part = "router" /\ RouterNext
    /\ UNCHANGED <<part, paceVars, gateVars, deployVars, tuningVars>>
Tuning ==
    /\ part = "tuning" /\ TuningNext
    /\ UNCHANGED <<part, paceVars, gateVars, deployVars, routerVars>>

PeripheryNext == Pacing \/ Warming \/ Launching \/ Routing \/ Tuning

\* The fairness of each part, for its own behaviors.
PeripheryFairness ==
    /\ part = "warmup" => GateFairness
    /\ part = "launcher" => DeployFairness

PeripherySpec ==
    PeripheryInit /\ [][PeripheryNext]_<<part, machines>> /\ PeripheryFairness
=============================================================================
