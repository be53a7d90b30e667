----------------------------- MODULE SegmentFifo -----------------------------
(***************************************************************************)
(* What the segment queue promises its two sides: a bounded queue that     *)
(* hands segments over in the order they were submitted, each at most      *)
(* once, and from which a flush may discard segments, the oldest first.    *)
(* A segment is its submission number.                                     *)
(***************************************************************************)
EXTENDS Naturals, Sequences

CONSTANT Depth      \* MOTION_SEGMENT_QUEUE_DEPTH

VARIABLES
    q,              \* the segments waiting, oldest first
    sent,           \* segments submitted since boot
    delivered       \* the last segment handed to the consumer, 0 for none

vars == <<q, sent, delivered>>

Init == q = <<>> /\ sent = 0 /\ delivered = 0

Push ==
    /\ Len(q) < Depth
    /\ q' = Append(q, sent + 1)
    /\ sent' = sent + 1
    /\ UNCHANGED delivered

Pop ==
    /\ q # <<>>
    /\ delivered' = Head(q)
    /\ q' = Tail(q)
    /\ UNCHANGED sent

Flush ==
    /\ \E drop \in 1 .. Len(q) : q' = SubSeq(q, drop + 1, Len(q))
    /\ UNCHANGED <<sent, delivered>>

Next == Push \/ Pop \/ Flush

Spec == Init /\ [][Next]_vars
=============================================================================
