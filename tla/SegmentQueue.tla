---------------------------- MODULE SegmentQueue ----------------------------
(***************************************************************************)
(* The lock-free queue between the protocol side and the ring-boundary     *)
(* interrupt: Firmware/Motion/Src/motion_segment_queue.c, one access to    *)
(* the shared indices or to a slot per step.  head and tail run freely and *)
(* wrap at IndexMod (2^32 in the code); only their low bits select a slot. *)
(*                                                                         *)
(* msq_push() runs in the main loop, msq_pop() in the DMA interrupt.       *)
(* msq_flush() is reached through stepgen_core_abort() from three          *)
(* contexts: "main" (stepgen_stop), "isr" (enter_fault) and "estop"        *)
(* (stepgen_emergency_stop, from the E-STOP interrupt).  On one core a     *)
(* context is only ever preempted by a higher one, and waits until it is   *)
(* done: the main loop for the interrupt, everything for the E-STOP.  The  *)
(* queue claims more, to be lock-free between its two sides; without       *)
(* OneCore push and pop interleave freely.                                 *)
(***************************************************************************)
EXTENDS Integers, Sequences

CONSTANTS
    Depth,          \* MOTION_SEGMENT_QUEUE_DEPTH
    IndexMod,       \* range of the free-running indices
    FlushFrom,      \* the contexts that may call msq_flush()
    OneCore,        \* the main loop never runs while a pop is under way
    MaxSegments     \* bound of the exploration: segments submitted

ASSUME DepthAssumption == Depth \in Nat \ {0}
ASSUME IndexModAssumption ==
    IndexMod \in Nat /\ IndexMod > Depth /\ IndexMod % Depth = 0
ASSUME FlushFromAssumption == FlushFrom \subseteq {"main", "isr", "estop"}
ASSUME OneCoreAssumption == OneCore \in BOOLEAN
ASSUME MaxSegmentsAssumption == MaxSegments \in Nat

VARIABLES
    buf, head, tail,        \* motion_segment_queue_t
    pushing, pushHead,      \* msq_push(): where it is, its copy of head
    popping, popTail,       \* msq_pop(): where it is, its copy of tail
    got,                    \*   and the segment it has copied out
    flushing, flushHead,    \* msq_flush(): who is in it, the head it loaded
    \* history
    sent,                   \* segments published since boot
    delivered,              \* the last segment a pop has returned
    dropped                 \* the last segment published when a flush returned

queue == <<buf, head, tail>>
push  == <<pushing, pushHead>>
pop   == <<popping, popTail, got>>
flush == <<flushing, flushHead>>
vars  == <<queue, push, pop, flush, sent, delivered, dropped>>

Index == 0 .. IndexMod - 1
Slot(i) == i % Depth
AfterNoWrap(i) == i + 1     \* mutant
After(i) == IF i + 1 = IndexMod THEN 0 ELSE i + 1
Distance(i, j) == IF i >= j THEN i - j ELSE i - j + IndexMod

(* msq_count() and msq_free() *)
Count == Distance(head, tail)
Free  == Depth - Count

(* The waiting segments, oldest first: what the slots between the indices hold. *)
Waiting == [i \in 1 .. Count |-> buf[Slot((tail + i - 1) % IndexMod)]]

TypeOK ==
    /\ buf \in [0 .. Depth - 1 -> Nat]
    /\ head \in Index /\ tail \in Index
    /\ pushing \in {"idle", "write", "publish"} /\ pushHead \in Index
    /\ popping \in {"idle", "read", "release"} /\ popTail \in Index
    /\ got \in Nat
    /\ flushing \in {"none", "main", "isr", "estop"} /\ flushHead \in Index
    /\ sent \in Nat /\ delivered \in Nat /\ dropped \in Nat

(* msq_init() *)
Init ==
    /\ buf = [s \in 0 .. Depth - 1 |-> 0] /\ head = 0 /\ tail = 0
    /\ pushing = "idle" /\ pushHead = 0
    /\ popping = "idle" /\ popTail = 0 /\ got = 0
    /\ flushing = "none" /\ flushHead = 0
    /\ sent = 0 /\ delivered = 0 /\ dropped = 0

---------------------------------------------------------------------------
MainRuns == flushing \notin {"main", "estop"} /\ (OneCore => popping = "idle")
IsrRuns  == flushing \notin {"isr", "estop"}

(* Mutant: the test for a full queue is off by one. *)
PushCheckLate ==
    /\ MainRuns /\ pushing = "idle" /\ sent < MaxSegments
    /\ Free >= 0
    /\ pushing' = "write" /\ pushHead' = head
    /\ UNCHANGED <<queue, pop, flush, sent, delivered, dropped>>

(* A full queue is refused without a trace, so only the other case is a step. *)
PushCheck ==
    /\ MainRuns /\ pushing = "idle" /\ sent < MaxSegments
    /\ Free > 0
    /\ pushing' = "write" /\ pushHead' = head
    /\ UNCHANGED <<queue, pop, flush, sent, delivered, dropped>>

PushWrite ==
    /\ MainRuns /\ pushing = "write"
    /\ buf' = [buf EXCEPT ![Slot(pushHead)] = sent + 1]
    /\ pushing' = "publish"
    /\ UNCHANGED <<head, tail, pushHead, pop, flush, sent, delivered, dropped>>

PushPublish ==
    /\ MainRuns /\ pushing = "publish"
    /\ head' = After(pushHead)
    /\ pushing' = "idle"
    /\ sent' = sent + 1
    /\ UNCHANGED <<buf, tail, pushHead, pop, flush, delivered, dropped>>

(* Mutant: no test for an empty queue. *)
PopCheckBlind ==
    /\ IsrRuns /\ popping = "idle"
    /\ popping' = "read" /\ popTail' = tail
    /\ UNCHANGED <<queue, push, got, flush, sent, delivered, dropped>>

PopCheck ==
    /\ IsrRuns /\ popping = "idle"
    /\ head # tail
    /\ popping' = "read" /\ popTail' = tail
    /\ UNCHANGED <<queue, push, got, flush, sent, delivered, dropped>>

(* Mutant: the slot after the oldest. *)
PopReadNext ==
    /\ IsrRuns /\ popping = "read"
    /\ got' = buf[Slot(After(popTail))]
    /\ popping' = "release"
    /\ UNCHANGED <<queue, push, popTail, flush, sent, delivered, dropped>>

PopRead ==
    /\ IsrRuns /\ popping = "read"
    /\ got' = buf[Slot(popTail)]
    /\ popping' = "release"
    /\ UNCHANGED <<queue, push, popTail, flush, sent, delivered, dropped>>

PopRelease ==
    /\ IsrRuns /\ popping = "release"
    /\ tail' = After(popTail)
    /\ popping' = "idle"
    /\ delivered' = got
    /\ UNCHANGED <<buf, head, push, popTail, got, flush, sent, dropped>>

(* q->tail = q->head: a load and a store.  A flush that cuts into one of    *)
(* the main loop is left out: head stands meanwhile, and both store it.     *)
FlushLoad(context) ==
    /\ flushing = "none"
    /\ context = "main" => pushing = "idle" /\ popping = "idle"
    /\ context = "isr" => popping = "idle"
    /\ flushing' = context /\ flushHead' = head
    /\ UNCHANGED <<queue, push, pop, sent, delivered, dropped>>

(* Mutant: q->head = q->tail, an index the producer owns. *)
FlushStoreHead ==
    /\ flushing # "none"
    /\ flushing = "main" => popping = "idle"
    /\ head' = tail
    /\ flushing' = "none"
    /\ dropped' = sent
    /\ UNCHANGED <<buf, tail, push, pop, flushHead, sent, delivered>>

FlushStore ==
    /\ flushing # "none"
    /\ flushing = "main" => popping = "idle"
    /\ tail' = flushHead
    /\ flushing' = "none"
    /\ dropped' = sent - Distance(head, flushHead)
    /\ UNCHANGED <<buf, head, push, pop, flushHead, sent, delivered>>

Next ==
    \/ PushCheck \/ PushWrite \/ PushPublish
    \/ PopCheck \/ PopRead \/ PopRelease
    \/ \E context \in FlushFrom : FlushLoad(context)
    \/ FlushStore

Spec == Init /\ [][Next]_vars

---------------------------------------------------------------------------
(* The indices never run further apart than the queue is deep, also when    *)
(* they wrap: msq_push() refuses on a difference that a pop or a flush may  *)
(* be changing while it is taken.                                           *)
NeverOverfull == Count <= Depth

(* A push never copies into the slot a pop is copying out of: the copies of *)
(* the 28-byte segment are not atomic, so only the indices keep them apart. *)
SlotsDisjoint ==
    pushing = "write" /\ popping = "read" => Slot(pushHead) # Slot(popTail)

(* What a flush dropped stays dropped: no segment that was in the queue     *)
(* when msq_flush() returned is still waiting afterwards                    *)
(* (stepgen_core.h: an immediate stop drops the queue).                     *)
FlushIsFinal == \A i \in 1 .. Count : Waiting[i] > dropped

(* The queue of the code implements the promised one. *)
Fifo == INSTANCE SegmentFifo WITH q <- Waiting
ImplementsFifo == Fifo!Spec
=============================================================================
