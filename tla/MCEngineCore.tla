---------------------------- MODULE MCEngineCore ----------------------------
(***************************************************************************)
(* Finite instances of EngineCoreProc.                                     *)
(***************************************************************************)
EXTENDS EngineCoreProc

CONSTANTS r1, r2

OneTwo == [r \in Requests |-> IF r = r1 THEN 2 ELSE 1]
=============================================================================
