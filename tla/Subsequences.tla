---------------------------- MODULE Subsequences ----------------------------
(***************************************************************************)
(* The elements of a queue that are, or are not, in a set, in their order: *)
(* what remove_all and RequestQueue.remove_requests leave of a queue.      *)
(***************************************************************************)
EXTENDS Integers, Sequences, SequencesExt

Keep(queue, set) ==
    LET kept[n \in 0..Len(queue)] ==
            IF n = 0 THEN <<>>
            ELSE IF queue[n] \in set THEN Append(kept[n - 1], queue[n])
            ELSE kept[n - 1]
    IN kept[Len(queue)]

Without(queue, set) == Keep(queue, ToSet(queue) \ set)
=============================================================================
