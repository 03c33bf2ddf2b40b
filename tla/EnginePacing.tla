---------------------------- MODULE EnginePacing ----------------------------
(***************************************************************************)
(* ENGPACE: the pacing of ADD messages in the engine's input thread,       *)
(* process_input_sockets of vllm_patched/v1/engine/core.py.                *)
(*                                                                         *)
(* Time is counted in ticks and credit in the ticks it is worth, so that   *)
(* one token of the bucket is Rate.  What the thread reads of the          *)
(* scheduler, which another thread changes, is any value it may have.      *)
(* A sleep may take longer than asked.                                     *)
(***************************************************************************)
EXTENDS Integers, Sequences

CONSTANTS
    Rate,          \* ENGPACE_RATE_MS; the model is of pacing switched on
    Burst,         \* ENGPACE_BURST_N
    IdleDecodes,   \* ENGPACE_IDLE_DECODES, -1 is off
    FillRun,       \* ENGPACE_FILL_RUN, 0 is off
    FillRate,      \* ENGPACE_FILL_RATE_MS
    MaxRun,        \* bound: running requests
    MaxWire,       \* bound: messages sent and not read
    MaxTime        \* bound on the clock

ASSUME PaceAssumption ==
    /\ Rate \in Nat \ {0} /\ Burst \in Nat \ {0} /\ IdleDecodes \in Int /\ IdleDecodes >= -1
    /\ FillRun \in Nat /\ FillRate \in Nat
    /\ MaxRun \in Nat /\ MaxWire \in Nat /\ MaxTime \in Nat

Capacity == Burst * Rate
ASSUME CapacityAssumption == Capacity \in Nat /\ Rate <= Capacity

VARIABLES
    now,
    wire,       \* messages on the input sockets, "ADD" or "OTHER"
    credit,     \* _engpace_tokens
    last,       \* _engpace_last
    fillLast,   \* _engpace_fill_last
    armed,      \* _engpace_fill_armed
    hold,       \* what the thread sleeps for with an ADD in hand, and until when
    \* for the properties only
    mark,       \* when the observed window began
    spent,      \* credit paid for ADDs in the window
    sinceFill   \* credit paid since the last fill-mode ADD

paceVars == <<now, wire, credit, last, fillLast, armed, hold, mark, spent, sinceFill>>

Awake == [kind |-> "awake", until |-> 0]
Smaller(a, b) == IF a <= b THEN a ELSE b

Holds == [kind : {"awake", "fill", "bucket"}, until : Nat]

PaceTypeOK ==
    /\ now \in Nat /\ last \in 0..now /\ mark \in 0..now /\ fillLast \in Int /\ fillLast <= now
    /\ credit \in 0..Capacity /\ armed \in BOOLEAN
    /\ hold \in Holds
    /\ spent \in Nat /\ sinceFill \in Nat

\* _engpace_fill_last is 0.0 on a clock that started long ago.
PaceInit ==
    /\ now = 0 /\ wire = <<>>
    /\ credit = Capacity /\ last = 0 /\ fillLast = 0 - (FillRate + 1) /\ armed = FALSE
    /\ hold = Awake
    /\ mark = 0 /\ spent = 0 /\ sinceFill = 0

TimePasses ==
    /\ now < MaxTime
    /\ now' = now + 1
    /\ UNCHANGED <<wire, credit, last, fillLast, armed, hold, mark, spent, sinceFill>>

MessageArrives ==
    /\ Len(wire) < MaxWire
    /\ \E kind \in {"ADD", "OTHER"} : wire' = Append(wire, kind)
    /\ UNCHANGED <<now, credit, last, fillLast, armed, hold, mark, spent, sinceFill>>

ReceiveOther ==
    /\ hold = Awake /\ wire # <<>> /\ Head(wire) = "OTHER"
    /\ wire' = Tail(wire)
    /\ UNCHANGED <<now, credit, last, fillLast, armed, hold, mark, spent, sinceFill>>

\* The observer begins a window.
StartWindow ==
    /\ mark' = now /\ spent' = 0
    /\ UNCHANGED <<now, wire, credit, last, fillLast, armed, hold, sinceFill>>

\* The latch: armed by an empty engine, disarmed by a full one.
ArmedAt(run) == run = 0 \/ (run < FillRun /\ armed)
FillAt(run) == FillRun > 0 /\ ArmedAt(run) /\ run < FillRun

\* Mutant: the bucket has no lid.
RefilledUnbounded == credit + (now - last)

Refilled == Smaller(Capacity, credit + (now - last))

\* The credit a fill-mode ADD leaves.
\* Mutant: the burst survives the fill.
CreditKept == credit

CreditAfterFill == 0

\* An ADD while the window is being filled: these keep FillRate apart, and
\* leave no credit behind.
FillNow ==
    /\ fillLast' = now /\ last' = now /\ credit' = CreditAfterFill
    /\ sinceFill' = 0 /\ hold' = Awake
    /\ UNCHANGED <<mark, spent>>

ReceiveFill(run) ==
    /\ hold = Awake /\ wire # <<>> /\ Head(wire) = "ADD" /\ FillAt(run)
    /\ wire' = Tail(wire) /\ armed' = ArmedAt(run)
    /\ IF now < fillLast + FillRate
       THEN /\ hold' = [kind |-> "fill", until |-> fillLast + FillRate]
            /\ UNCHANGED <<credit, last, fillLast, mark, spent, sinceFill>>
       ELSE FillNow
    /\ UNCHANGED now

WakeFill ==
    /\ hold.kind = "fill" /\ now >= hold.until
    /\ FillNow
    /\ UNCHANGED <<now, wire, armed>>

\* An idle engine gives a token to an ADD that has none.
IdleGate(dec) == IdleDecodes >= 0 /\ dec <= IdleDecodes

\* An ADD in steady state: it pays Rate, or takes the idle gate's gift, or
\* sleeps until the bucket holds a token.
ReceivePaced(run, dec) ==
    /\ hold = Awake /\ wire # <<>> /\ Head(wire) = "ADD" /\ ~FillAt(run)
    /\ wire' = Tail(wire) /\ armed' = ArmedAt(run)
    /\ last' = now
    /\ \/ /\ Refilled >= Rate
          /\ credit' = Refilled - Rate
          /\ spent' = spent + Rate /\ sinceFill' = sinceFill + Rate
          /\ UNCHANGED hold
       \/ /\ Refilled < Rate /\ IdleGate(dec)
          /\ credit' = 0
          /\ UNCHANGED <<hold, spent, sinceFill>>
       \/ /\ Refilled < Rate /\ ~IdleGate(dec)
          /\ credit' = Refilled
          /\ hold' = [kind |-> "bucket", until |-> now + (Rate - Refilled)]
          /\ UNCHANGED <<spent, sinceFill>>
    /\ UNCHANGED <<now, fillLast, mark>>

WakePaced ==
    /\ hold.kind = "bucket" /\ now >= hold.until
    /\ last' = now /\ credit' = 0 /\ hold' = Awake
    /\ spent' = spent + Rate /\ sinceFill' = sinceFill + Rate
    /\ UNCHANGED <<now, wire, fillLast, armed, mark>>

PaceNext ==
    \/ TimePasses \/ MessageArrives \/ ReceiveOther \/ StartWindow \/ WakeFill \/ WakePaced
    \/ \E run \in 0..MaxRun : ReceiveFill(run)
    \/ \E run, dec \in 0..MaxRun : ReceivePaced(run, dec)

PaceSpec == PaceInit /\ [][PaceNext]_paceVars

----------------------------------------------------------------------------
(* Properties.                                                             *)

\* Over every window of time the ADDs that paid, however they interleave with
\* fill mode, gifts and sleeps that end late, are at most the burst and one
\* for each Rate that passed: no credit is counted twice, nor more kept than the
\* bucket holds.
WindowBound == PaceTypeOK /\ spent <= Capacity + (now - mark)

\* "leaving fill carries no burst credit": after a fill-mode ADD the next ones
\* are one Rate apart from the start.
NoBurstAfterFill == fillLast >= 0 => sinceFill <= now - fillLast
=============================================================================
