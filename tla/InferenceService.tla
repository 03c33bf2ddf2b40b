-------------------------- MODULE InferenceService --------------------------
(***************************************************************************)
(* What the engine promises to its clients, whatever the scheduler does    *)
(* inside: an accepted request receives its output tokens one at a time,   *)
(* none is lost, repeated or delivered after the end, and the request is   *)
(* closed with the very token that ends it.  Queues, KV blocks, chunks,    *)
(* preemptions and batches in flight are invisible here.                   *)
(***************************************************************************)
EXTENDS Integers

CONSTANTS
    Request,
    MaxTokens,      \* [Request -> Nat], tokens that end a request
    MayStopEarly,   \* requests that may end sooner (a stop token)
    Abortable       \* requests the client may cancel

VARIABLES
    life,           \* "absent", "open" or "closed"
    tokens          \* output tokens delivered

Init ==
    /\ life = [r \in Request |-> "absent"]
    /\ tokens = [r \in Request |-> 0]

Accept(r) ==
    /\ life[r] = "absent"
    /\ life' = [life EXCEPT ![r] = "open"]
    /\ UNCHANGED tokens

Cancel(r) ==
    /\ r \in Abortable /\ life[r] = "open"
    /\ life' = [life EXCEPT ![r] = "closed"]
    /\ UNCHANGED tokens

\* A batch delivers one token to each request of R and closes those it ends.
Deliver(R, ended) ==
    /\ \A r \in R : life[r] = "open"
    /\ tokens' = [r \in Request |-> IF r \in R THEN tokens[r] + 1 ELSE tokens[r]]
    /\ \A r \in R : tokens'[r] >= MaxTokens[r] => r \in ended
    /\ \A r \in ended : tokens'[r] >= MaxTokens[r] \/ r \in MayStopEarly
    /\ life' = [r \in Request |-> IF r \in ended THEN "closed" ELSE life[r]]

Next ==
    \/ \E r \in Request : Accept(r) \/ Cancel(r)
    \/ \E R \in SUBSET Request : \E ended \in SUBSET R : Deliver(R, ended)

Spec == Init /\ [][Next]_<<life, tokens>>
=============================================================================
