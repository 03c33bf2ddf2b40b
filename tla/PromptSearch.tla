---------------------------- MODULE PromptSearch ----------------------------
(***************************************************************************)
(* What a tuning run of LayoutAgent promises to whoever reads its          *)
(* directory: the evaluations made so far, and, while the run goes on and  *)
(* when it ends by itself, the prompt of the best of them, the first one   *)
(* of equals.  An evaluation is on disk before the prompt it may bring:    *)
(* what stops the run in between leaves the prompt recommended before, or  *)
(* a piece of a file.                                                      *)
(***************************************************************************)
EXTENDS Naturals, Sequences

CONSTANTS
    Prompt,
    NoPrompt,
    Torn,        \* a file opened for writing and not written to its end
    MaxScore

Evaluation == [prompt : Prompt, score : 0..MaxScore]

VARIABLES
    tried,   \* the evaluations of the run
    kept,    \* the prompt it recommends
    phase    \* "searching", "recommending", "over" or, by an error, "broken"

searchVars == <<tried, kept, phase>>

SearchInit == tried = <<>> /\ kept = NoPrompt /\ phase = "searching"

\* No earlier prompt was as good.
Improves(e) == \A i \in DOMAIN tried : tried[i].score < e.score

Record(e) ==
    /\ phase = "searching"
    /\ tried' = Append(tried, e)
    /\ phase' = IF Improves(e) THEN "recommending" ELSE "searching"
    /\ UNCHANGED kept

Tear ==
    /\ phase = "recommending"
    /\ kept' = Torn
    /\ UNCHANGED <<tried, phase>>

Recommend ==
    /\ phase = "recommending"
    /\ kept' = tried[Len(tried)].prompt /\ phase' = "searching"
    /\ UNCHANGED tried

End ==
    /\ phase = "searching" /\ tried # <<>>
    /\ phase' = "over"
    /\ UNCHANGED <<tried, kept>>

Break ==
    /\ phase \in {"searching", "recommending"}
    /\ phase' = "broken"
    /\ UNCHANGED <<tried, kept>>

SearchNext == (\E e \in Evaluation : Record(e)) \/ Tear \/ Recommend \/ End \/ Break

SearchSpec == SearchInit /\ [][SearchNext]_searchVars

\* The first of the best evaluations.
FirstBest(i) ==
    /\ i \in DOMAIN tried
    /\ \A j \in DOMAIN tried :
          /\ tried[j].score <= tried[i].score
          /\ j < i => tried[j].score < tried[i].score

\* Between two checkpoints and at the end of the run the prompt recommended
\* is that of the first best evaluation on disk.
KeepsBest ==
    phase \in {"searching", "over"} =>
        IF tried = <<>> THEN kept = NoPrompt
        ELSE \E i \in DOMAIN tried : FirstBest(i) /\ kept = tried[i].prompt
=============================================================================
