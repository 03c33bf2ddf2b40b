---------------------------- MODULE PromptTuning ----------------------------
(***************************************************************************)
(* The prompt-tuning graph of LayoutAgent (graph.py and its nodes): align, *)
(* visualize, evaluate, checkpoint, and either the end or a new prompt and *)
(* the next iteration.  The state of the graph is in memory and lost with  *)
(* the process; what a checkpoint writes stays.  A checkpoint writes       *)
(* eval.json and then, in two steps as a file is written, best_prompt.txt; *)
(* an error or a Ctrl-C may end the run between any two steps.             *)
(*                                                                         *)
(* Scores are in halves of a point: coverage and judge are 0..Full, their  *)
(* sum is the composite score.                                             *)
(***************************************************************************)
EXTENDS Naturals, Sequences

CONSTANTS
    Prompt,           \* prompts the optimizer may write, none of them empty
    NoPrompt,         \* the file is not there
    Torn,             \* it was opened for writing and not written
    FirstPrompt,      \* the initial prompt file
    Full,             \* 1.0; half of it is what a judge that fails gives
    Threshold,        \* stop_threshold
    CoverageMin,      \* coverage_threshold
    MaxIterations,    \* max_iterations
    Interactive       \* interrupt_before = ["optimize_prompt"]

ASSUME TuningAssumption ==
    /\ FirstPrompt \in Prompt /\ NoPrompt \notin Prompt /\ Torn \notin Prompt /\ Torn # NoPrompt
    /\ Full \in Nat \ {0} /\ Threshold \in Nat /\ CoverageMin \in Nat
    /\ MaxIterations \in Nat /\ Interactive \in BOOLEAN

VARIABLES
    node,        \* what runs next: a node, a write of the checkpoint, or the
                 \* edge out of it ("route"); or "ended" or "failed"
    fields,      \* the layout names a field
    iteration,
    prompt,      \* current_prompt
    html,        \* merged_html: whether it is empty, and how much it covers
    image,       \* the iteration viz_source_path belongs to
    coverage, composite,
    best,        \* best_score (plus one), best_prompt, best_iteration
    history,     \* eval_history
    evals,       \* iter_NN/eval.json on disk
    bestPrompt,  \* best_prompt.txt on disk
    \* for the properties only
    judged,      \* the iteration whose image the last evaluation judged
    asked        \* the operator has stopped the run

work == <<iteration, prompt, html, image>>
scores == <<coverage, composite, best, history, judged>>
disk == <<evals, bestPrompt>>
tuningVars == <<node, fields, work, scores, disk, asked>>

NoImage == MaxIterations + 1

TuningInit ==
    /\ node = "setup" /\ fields \in BOOLEAN /\ iteration = 0 /\ prompt = FirstPrompt
    /\ html = [empty |-> TRUE, covers |-> 0] /\ image = NoImage
    /\ coverage = 0 /\ composite = 0
    /\ best = [score |-> 0, prompt |-> FirstPrompt, iteration |-> 0]
    /\ history = <<>> /\ evals = <<>> /\ bestPrompt = NoPrompt
    /\ judged = NoImage /\ asked = FALSE

\* setup and run_chandra.
Setup ==
    /\ node = "setup" /\ node' = "align"
    /\ UNCHANGED <<fields, work, scores, disk, asked>>

\* align_schema and merge_schemas: the model may answer nothing usable.
\* Without fields every answer covers them all.
Align ==
    /\ node = "align" /\ node' = "visualize"
    /\ html' \in IF fields
                 THEN {[empty |-> TRUE, covers |-> 0]} \cup [empty : {FALSE}, covers : 0..Full]
                 ELSE [empty : BOOLEAN, covers : {Full}]
    /\ UNCHANGED <<fields, iteration, prompt, image, scores, disk, asked>>

\* Without HTML the path of the last image stays in the state.
Visualize ==
    /\ node = "visualize" /\ node' = "evaluate"
    /\ image' = IF html.empty THEN image ELSE iteration
    /\ UNCHANGED <<fields, iteration, prompt, html, scores, disk, asked>>

\* Half a point when there is no image or the judge fails.
JudgeScores == IF image = NoImage THEN {Full \div 2} ELSE 0..Full

\* Mutant: the last of equals is kept.
ImprovesOrEquals(score) == score + 1 >= best.score

\* best_score starts below every score.
IsNewBest(score) == score + 1 > best.score

Evaluate ==
    /\ node = "evaluate" /\ node' = "checkpoint"
    /\ coverage' = html.covers
    /\ \E judge \in JudgeScores : composite' = html.covers + judge
    /\ history' = Append(history, [prompt |-> prompt, score |-> composite'])
    /\ best' = IF IsNewBest(composite')
               THEN [score |-> composite' + 1, prompt |-> prompt, iteration |-> iteration]
               ELSE best
    /\ judged' = image
    /\ UNCHANGED <<fields, work, disk, asked>>

\* Mutant: a high judge score masks missing fields.
GoodByScore == composite >= Threshold

\* should_continue_router: "Require both composite score AND coverage".
GoodEnough == composite >= Threshold /\ coverage >= CoverageMin

\* checkpoint: the last evaluation is on disk, ...
SaveEval ==
    /\ node = "checkpoint"
    /\ evals' = Append(evals, history[Len(history)])
    /\ node' = IF best.iteration = iteration THEN "recommend" ELSE "route"
    /\ UNCHANGED <<fields, work, scores, bestPrompt, asked>>

\* ... and best_prompt.txt is opened, which empties it, ...
OpenBest ==
    /\ node = "recommend" /\ node' = "write"
    /\ bestPrompt' = Torn
    /\ UNCHANGED <<fields, work, scores, evals, asked>>

\* ... and written.
WriteBest ==
    /\ node = "write" /\ node' = "route"
    /\ bestPrompt' = best.prompt
    /\ UNCHANGED <<fields, work, scores, evals, asked>>

ShouldContinue ==
    /\ node = "route"
    /\ node' = IF GoodEnough \/ iteration >= MaxIterations THEN "ended" ELSE "optimize"
    /\ UNCHANGED <<fields, work, scores, disk, asked>>

\* optimize_prompt: an optimizer that fails or answers nothing leaves the
\* prompt as it is.
Optimize ==
    /\ node = "optimize" /\ node' = "align"
    /\ prompt' \in Prompt /\ iteration' = iteration + 1
    /\ UNCHANGED <<fields, html, image, scores, disk, asked>>

\* At the breakpoint the operator stops the run.
OperatorStops ==
    /\ Interactive /\ node = "optimize"
    /\ node' = "ended" /\ asked' = TRUE
    /\ UNCHANGED <<fields, work, scores, disk>>

\* An exception that no node catches, or a Ctrl-C, ends the process.
Fail ==
    /\ node \notin {"ended", "failed"}
    /\ node' = "failed"
    /\ UNCHANGED <<fields, work, scores, disk, asked>>

TuningNext ==
    \/ Setup \/ Align \/ Visualize \/ Evaluate \/ SaveEval \/ OpenBest \/ WriteBest \/ ShouldContinue
    \/ Optimize \/ OperatorStops \/ Fail

TuningSpec == TuningInit /\ [][TuningNext]_tuningVars

----------------------------------------------------------------------------
(* Properties.                                                             *)

Phase ==
    CASE node \in {"recommend", "write"} -> "recommending"
      [] node = "ended"  -> "over"
      [] node = "failed" -> "broken"
      [] OTHER           -> "searching"

\* The directory of a run is a PromptSearch: between two checkpoints and when
\* the run has ended by itself, best_prompt.txt is the prompt of the first best
\* iteration on disk, also when a later iteration is worse, or as good, or
\* fails; only an error or a stop amid the writes of a new best leaves it
\* behind.
Search == INSTANCE PromptSearch WITH
    MaxScore <- 2 * Full, tried <- evals, kept <- bestPrompt, phase <- Phase

ImplementsSearch == Search!SearchSpec

\* Where coverage is asked for, a run stops as good enough only on the
\* evaluation of its own output: although a judge may be shown the image of an
\* earlier iteration when the alignment came back empty, such an evaluation
\* never ends the run.  A layout without fields asks for none.
StopsOnItsOwnImage ==
    /\ node = "ended" /\ ~asked /\ iteration < MaxIterations
    /\ fields /\ CoverageMin > 0
    => judged = iteration
=============================================================================
