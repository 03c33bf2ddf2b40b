------------------------- MODULE MCPrefillScheduler -------------------------
(***************************************************************************)
(* Finite instances of PrefillScheduler: requests and their sizes.         *)
(***************************************************************************)
EXTENDS PrefillScheduler

CONSTANTS r1, r2, r3

Two == {r1, r2}
Three == {r1, r2, r3}

\* A prompt of two chunks, one of one token, one in between; and a
\* prompt of many chunks.
MixedPrompts == [r \in Request |-> IF r = r1 THEN 4 ELSE IF r = r2 THEN 2 ELSE 1]
LongFirst    == [r \in Request |-> IF r = r1 THEN 6 ELSE IF r = r2 THEN 2 ELSE 1]
ShortPrompts == [r \in Request |-> IF r = r1 THEN 2 ELSE 1]
TwoTokens    == [r \in Request |-> 2]
ThreeTokens  == [r \in Request |-> 3]
NoCache      == [r \in Request |-> 0]
CachedFirst  == [r \in Request |-> IF r = r1 THEN 2 ELSE 0]
=============================================================================
