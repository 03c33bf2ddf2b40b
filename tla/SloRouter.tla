----------------------------- MODULE SloRouter -----------------------------
(***************************************************************************)
(* The SLO router of prefill_chunked/scripts (slo_router.py with           *)
(* routing_utils.py): each request has a thread of its own; a worker is    *)
(* picked by prompt length, load and prefix under a lock, which is held    *)
(* while a prompt of unclear length is tokenized by a worker.              *)
(*                                                                         *)
(* prefill_tps_ewma and decode_tps_ewma keep their initial values, so a    *)
(* score is in prefill tokens: one output token weighs OutputWeight.       *)
(***************************************************************************)
EXTENDS Integers, Sequences, FiniteSets, SequencesExt, FiniteSetsExt, Subsequences

CONSTANTS
    Workers,         \* the workers in configured order
    LongWorkers,     \* those of the long pool
    Query,           \* inference requests with a JSON body
    Estimate,        \* [Query -> Nat], prompt length by characters
    Actual,          \* [Query -> Nat], by the tokenizer
    Output,          \* [Query -> Nat], max_tokens
    Prefix,          \* [Query -> prefix hash]
    Preference,      \* [prefix hash -> Seq of workers], rendezvous_hash
    Split,           \* split_prompt_tokens
    ShortMax, AmbiguousMax,   \* ROUTE_SHORT_MAX, ROUTE_AMBIGUOUS_MAX
    Bonus,           \* PREFIX_CACHE_BONUS_TOKENS
    OutputWeight,    \* prefill_tps_ewma / decode_tps_ewma
    History,         \* PREFIX_HASH_HISTORY
    PrefixLocality   \* deployment.router.prefix_locality

Worker == ToSet(Workers)

ASSUME RouterAssumption ==
    /\ Workers \in Seq(Worker) /\ LongWorkers \subseteq Worker /\ PrefixLocality \in BOOLEAN
    /\ \A q \in Query : Estimate[q] \in Nat /\ Actual[q] \in Nat /\ Output[q] \in Nat
    /\ \A q \in Query : Preference[Prefix[q]] \in Seq(Worker) /\ ToSet(Preference[Prefix[q]]) = Worker
    /\ Split \in Nat /\ ShortMax \in Nat /\ AmbiguousMax \in Nat /\ ShortMax <= AmbiguousMax
    /\ Bonus \in Nat /\ OutputWeight \in Nat /\ History \in Nat

VARIABLES
    phase,     \* "new", "choosing", "routed", "proxying", "lost", "failed", "done"
    worker,    \* the worker of each routed request
    tokens,    \* prompt_tokens of its route_info
    lock,      \* who holds states_lock
    inflight,  \* WorkerState.inflight
    queued,    \* WorkerState.queue_prefill_tokens
    recent     \* WorkerState.recent_prefix_hashes

loads == <<inflight, queued, recent>>
routerVars == <<phase, worker, tokens, lock, loads>>

Free == "nobody"
NoWorker == "none"

RouterTypeOK ==
    /\ phase \in [Query -> {"new", "choosing", "routed", "proxying", "lost", "failed", "done"}]
    /\ worker \in [Query -> Worker \cup {NoWorker}]
    /\ tokens \in [Query -> Nat] /\ lock \in Query \cup {Free}
    /\ inflight \in [Worker -> Nat] /\ queued \in [Worker -> Nat]
    /\ recent \in [Worker -> Seq({Prefix[q] : q \in Query})]
    /\ \A w \in Worker : Len(recent[w]) <= History

RouterInit ==
    /\ phase = [q \in Query |-> "new"] /\ worker = [q \in Query |-> NoWorker]
    /\ tokens = [q \in Query |-> 0] /\ lock = Free
    /\ inflight = [w \in Worker |-> 0] /\ queued = [w \in Worker |-> 0]
    /\ recent = [w \in Worker |-> <<>>]

\* resolve_routing: the estimate when it is clear of the split, what the
\* tokenizer says otherwise, or the estimate if it does not answer.
PromptTokens(q) ==
    IF Estimate[q] < (3 * Split) \div 4 \/ Estimate[q] > (3 * Split) \div 2
    THEN {Estimate[q]}
    ELSE {Estimate[q], Actual[q]}

Pool(long) == Keep(Workers, IF long THEN LongWorkers ELSE Worker \ LongWorkers)

\* slo_candidate_workers.
Candidates(n) ==
    IF n >= AmbiguousMax THEN Pool(TRUE)
    ELSE IF n >= Split THEN Pool(TRUE) \o Pool(FALSE)
    ELSE IF n >= ShortMax THEN Pool(FALSE) \o Pool(TRUE)
    ELSE Pool(FALSE)

\* slo_route_score.
Score(q, n, w) ==
    queued[w] + n + OutputWeight * Output[q]
        - (IF Prefix[q] \in ToSet(recent[w]) THEN Bonus ELSE 0)

Sticky(q, n) == Head(Keep(Preference[Prefix[q]], ToSet(Candidates(n))))

BestScore(q, n) == Min({Score(q, n, w) : w \in ToSet(Candidates(n))})

\* select_slo_worker: the worker that knows the prefix unless its score is
\* more than twice the least, or the first with the least.
Selected(q, n) ==
    IF /\ PrefixLocality /\ Len(Candidates(n)) > 1
       /\ Score(q, n, Sticky(q, n)) <= 2 * BestScore(q, n)
    THEN Sticky(q, n)
    ELSE Head(Keep(Candidates(n), {w \in Worker : Score(q, n, w) = BestScore(q, n)}))

\* record_prefix_hit: the hash becomes the most recent of History.
Recorded(w, p) ==
    LET seen == Append(Without(recent[w], {p}), p)
    IN  IF Len(seen) > History THEN Tail(seen) ELSE seen

\* A request takes the lock to be routed.
Acquire(q) ==
    /\ phase[q] = "new" /\ lock = Free
    /\ lock' = q /\ phase' = [phase EXCEPT ![q] = "choosing"]
    /\ UNCHANGED <<worker, tokens, loads>>

\* track_request_start, under the lock of the choice.
RouteTo(q, n, w) ==
    /\ worker' = [worker EXCEPT ![q] = w] /\ tokens' = [tokens EXCEPT ![q] = n]
    /\ inflight' = [inflight EXCEPT ![w] = @ + 1]
    /\ queued' = [queued EXCEPT ![w] = @ + n]
    /\ recent' = [recent EXCEPT ![w] = Recorded(w, Prefix[q])]
    /\ phase' = [phase EXCEPT ![q] = "routed"]

\* A pool without workers is an exception in the handler.
Route(q) ==
    /\ phase[q] = "choosing" /\ lock' = Free
    /\ \E n \in PromptTokens(q) :
        IF Candidates(n) = <<>>
        THEN /\ phase' = [phase EXCEPT ![q] = "failed"]
             /\ UNCHANGED <<worker, tokens, loads>>
        ELSE RouteTo(q, n, Selected(q, n))

\* The route is logged before the proxy's try: an error there loses the
\* request and leaves its load.
LogRoute(q) ==
    /\ phase[q] = "routed"
    /\ \E next \in {"proxying", "lost"} : phase' = [phase EXCEPT ![q] = next]
    /\ UNCHANGED <<worker, tokens, lock, loads>>

Less(a, b) == IF a > b THEN a - b ELSE 0

\* track_request_end.
Untrack(q) ==
    /\ inflight' = [inflight EXCEPT ![worker[q]] = Less(@, 1)]
    /\ queued' = [queued EXCEPT ![worker[q]] = Less(@, tokens[q])]

\* Mutant: the load is given back when the upstream has answered.
ProxyAnswered(q) ==
    /\ phase[q] = "proxying" /\ lock = Free
    /\ \/ phase' = [phase EXCEPT ![q] = "done"] /\ Untrack(q)
       \/ phase' = [phase EXCEPT ![q] = "failed"] /\ UNCHANGED <<inflight, queued>>
    /\ UNCHANGED <<worker, tokens, lock, recent>>

\* _proxy: whatever ends it, an answer, an error or a client that left, the
\* finally clause takes the lock and gives the load back.
Proxy(q) ==
    /\ phase[q] = "proxying" /\ lock = Free
    /\ \E end \in {"done", "failed"} : phase' = [phase EXCEPT ![q] = end]
    /\ Untrack(q)
    /\ UNCHANGED <<worker, tokens, lock, recent>>

Handle(q) == Acquire(q) \/ Route(q) \/ LogRoute(q) \/ Proxy(q)

RouterNext == \E q \in Query : Handle(q)

RouterSpec == RouterInit /\ [][RouterNext]_routerVars

----------------------------------------------------------------------------
(* Properties.                                                             *)

Counted(w) == {q \in Query : worker[q] = w /\ phase[q] \in {"routed", "proxying", "lost"}}

\* What the choices are made by is exact however handlers interleave and
\* proxied requests fail: a worker's load is that of the requests at it, with
\* those lost before the proxy, and no max(0, ...) ever hides a wrong one; in
\* a well-typed state, in which no worker remembers more than History prefixes.
LoadsAreExact ==
    /\ RouterTypeOK
    /\ \A w \in Worker :
        /\ inflight[w] = Cardinality(Counted(w))
        /\ queued[w] = SumFunctionOnSet(tokens, Counted(w))
=============================================================================
