------------------------ MODULE SegmentQueue_proofs ------------------------
(***************************************************************************)
(* The queue never overfills, its two sides never touch the same slot, a   *)
(* flush is final and the ring of slots implements the promised FIFO, for  *)
(* every depth, index range and interleaving, as long as the consumer is   *)
(* not preempted by a flush: the E-STOP context is excluded.               *)
(***************************************************************************)
EXTENDS SegmentQueue, TLAPS

(* A push has seen room below head and nobody else moves head. *)
PushInv == pushing # "idle" => /\ pushHead = head
                               /\ Count < Depth
                               /\ flushing # "main"

(* A pop has seen a segment at tail and nobody else moves tail. *)
PopInv == popping # "idle" => /\ popTail = tail
                              /\ head # tail
                              /\ flushing # "isr"

(* A flush under way will move tail forward, never past head. *)
FlushInv == /\ flushing # "estop"
            /\ flushing = "main" => flushHead = head
            /\ flushing = "isr" => Distance(head, flushHead) <= Count

(* Nothing waits that was not published. *)
Published == Count <= sent

QInv == TypeOK /\ NeverOverfull /\ Published /\ PushInv /\ PopInv /\ FlushInv

NoEStop == "estop" \notin FlushFrom

-----------------------------------------------------------------------------
LEMMA AfterIsIndex == ASSUME NEW i \in Index PROVE After(i) \in Index
BY IndexModAssumption, DepthAssumption DEF Index, After

LEMMA DistanceIsNat ==
    ASSUME NEW i \in Index, NEW j \in Index
    PROVE  Distance(i, j) \in 0 .. IndexMod - 1 /\ (Distance(i, j) = 0 <=> i = j)
BY IndexModAssumption, DepthAssumption DEF Index, Distance

(* Moving head on adds one to the distance while there is room for it. *)
LEMMA DistanceHead ==
    ASSUME NEW i \in Index, NEW j \in Index, Distance(i, j) < IndexMod - 1
    PROVE  Distance(After(i), j) = Distance(i, j) + 1
BY IndexModAssumption, DepthAssumption DEF Index, Distance, After

(* Moving tail on takes one away while there is something to take. *)
LEMMA DistanceTail ==
    ASSUME NEW i \in Index, NEW j \in Index, i # j
    PROVE  Distance(i, After(j)) = Distance(i, j) - 1
BY IndexModAssumption, DepthAssumption DEF Index, Distance, After

LEMMA SlotIsSlot == ASSUME NEW i \in Index PROVE Slot(i) \in 0 .. Depth - 1
BY DepthAssumption, IndexModAssumption DEF Index, Slot

(* Two indices less than a depth apart select different slots, also across  *)
(* the wrap: the depth divides the index range.                             *)
LEMMA SlotsDiffer ==
    ASSUME NEW i \in Index, NEW j \in Index,
           Distance(i, j) > 0, Distance(i, j) < Depth
    PROVE  Slot(i) # Slot(j)
<1> SUFFICES ASSUME Slot(i) = Slot(j) PROVE FALSE
    OBVIOUS
<1> DEFINE r == i % Depth
           qi == i \div Depth
           qj == j \div Depth
           m == IndexMod \div Depth
<1>1. i \in Int /\ j \in Int /\ IndexMod \in Int /\ Depth \in Nat \ {0}
    BY DepthAssumption, IndexModAssumption DEF Index
<1>2. i = Depth * qi + r /\ j = Depth * qj + r /\ IndexMod = Depth * m
    BY <1>1, IndexModAssumption DEF Slot
<1>3. qi \in Int /\ qj \in Int /\ m \in Int /\ r \in Int
    BY <1>1
<1> HIDE DEF r, qi, qj, m
<1>4. ASSUME NEW z \in Int, Depth * z > 0, Depth * z < Depth PROVE FALSE
    <2>1. CASE z <= 0
        <3>1. Depth * z <= 0
            BY <1>1, <2>1
        <3> QED
            BY <3>1, <1>1, <1>4
    <2>2. CASE z >= 1
        <3>1. Depth * z >= Depth
            BY <1>1, <2>2
        <3> QED
            BY <3>1, <1>1, <1>4
    <2> QED
        BY <2>1, <2>2
<1>5. CASE i >= j
    <2>1. Depth * (qi - qj) = i - j
        BY <1>1, <1>2, <1>3
    <2>2. i - j > 0 /\ i - j < Depth
        BY <1>5 DEF Distance
    <2> QED
        BY <2>1, <2>2, <1>3, <1>4
<1>6. CASE ~(i >= j)
    <2>1. Depth * (qi - qj + m) = i - j + IndexMod
        BY <1>1, <1>2, <1>3
    <2>2. i - j + IndexMod > 0 /\ i - j + IndexMod < Depth
        BY <1>6 DEF Distance
    <2> QED
        BY <2>1, <2>2, <1>3, <1>4
<1> QED
    BY <1>5, <1>6

-----------------------------------------------------------------------------
LEMMA InitQInv == Init => QInv
<1> SUFFICES ASSUME Init PROVE QInv
    OBVIOUS
<1>1. 0 \in Index
    BY DepthAssumption, IndexModAssumption DEF Index
<1>2. TypeOK
    BY <1>1 DEF Init, TypeOK
<1>3. Count = 0
    BY <1>1, DistanceIsNat DEF Init, Count
<1>4. NeverOverfull
    BY <1>3, DepthAssumption DEF NeverOverfull
<1>5. Published
    BY <1>3 DEF Init, Published
<1> QED
    BY <1>2, <1>4, <1>5 DEF Init, QInv, PushInv, PopInv, FlushInv

LEMMA PushCheckQInv == QInv /\ PushCheck => QInv'
<1> SUFFICES ASSUME QInv, PushCheck PROVE QInv'
    OBVIOUS
<1> USE DEF QInv, PushCheck, queue, pop, flush
<1>1. TypeOK'
    BY DEF TypeOK
<1>2. Count' = Count /\ Count \in 0 .. IndexMod - 1
    BY DistanceIsNat DEF TypeOK, Count
<1>3. NeverOverfull'
    BY <1>2 DEF NeverOverfull
<1>6. Published'
    BY <1>2 DEF Published
<1>4. PushInv'
    BY <1>2, DepthAssumption DEF PushInv, Free, MainRuns
<1>5. PopInv' /\ FlushInv'
    BY <1>2 DEF PopInv, FlushInv
<1> QED
    BY <1>1, <1>3, <1>4, <1>5, <1>6

LEMMA PushWriteQInv == QInv /\ PushWrite => QInv'
<1> SUFFICES ASSUME QInv, PushWrite PROVE QInv'
    OBVIOUS
<1> USE DEF QInv, PushWrite, pop, flush
<1>1. TypeOK'
    BY SlotIsSlot DEF TypeOK
<1>2. Count' = Count
    BY DEF Count
<1>3. NeverOverfull' /\ Published' /\ PushInv'
    BY <1>2 DEF NeverOverfull, Published, PushInv
<1>4. PopInv' /\ FlushInv'
    BY <1>2 DEF PopInv, FlushInv
<1> QED
    BY <1>1, <1>3, <1>4

(* Publishing uses up the room the push has seen. *)
LEMMA PushPublishQInv == QInv /\ PushPublish => QInv'
<1> SUFFICES ASSUME QInv, PushPublish PROVE QInv'
    OBVIOUS
<1> USE DEF QInv, PushPublish, pop, flush
<1>1. TypeOK'
    BY AfterIsIndex DEF TypeOK
<1>2. head \in Index /\ tail \in Index /\ flushHead \in Index
    BY DEF TypeOK
<1>3. pushHead = head /\ Count < Depth /\ Count \in 0 .. IndexMod - 1
    BY <1>2, DistanceIsNat DEF PushInv, Count
<1>4. Count' = Count + 1
    BY <1>2, <1>3, DistanceHead, IndexModAssumption, DepthAssumption DEF Count
<1>5. NeverOverfull' /\ Published'
    BY <1>3, <1>4, DepthAssumption DEF NeverOverfull, Published, TypeOK
<1>6. PushInv'
    BY DEF PushInv
<1>7. PopInv'
    <2>1. head' # tail'
        BY <1>1, <1>2, <1>3, <1>4, DistanceIsNat DEF Count, TypeOK
    <2> QED
        BY <2>1 DEF PopInv
<1>8. FlushInv'
    <2>1. flushing # "main"
        BY DEF PushInv
    <2>2. CASE flushing = "isr"
        <3>1. Distance(head, flushHead) <= Count
            BY <2>2 DEF FlushInv
        <3>2. Distance(head', flushHead) = Distance(head, flushHead) + 1
            BY <3>1, <1>2, <1>3, DistanceHead, DistanceIsNat,
               IndexModAssumption, DepthAssumption
        <3> QED
            BY <3>1, <3>2, <2>2, <1>2, <1>3, <1>4, DistanceIsNat DEF FlushInv
    <2> QED
        BY <2>1, <2>2 DEF FlushInv
<1> QED
    BY <1>1, <1>5, <1>6, <1>7, <1>8

LEMMA PopCheckQInv == QInv /\ PopCheck => QInv'
<1> SUFFICES ASSUME QInv, PopCheck PROVE QInv'
    OBVIOUS
<1> USE DEF QInv, PopCheck, queue, push, flush
<1>1. TypeOK'
    BY DEF TypeOK
<1>2. Count' = Count
    BY DEF Count
<1>3. NeverOverfull' /\ Published' /\ PushInv' /\ FlushInv'
    BY <1>2 DEF NeverOverfull, Published, PushInv, FlushInv
<1>4. PopInv'
    BY DEF PopInv, IsrRuns
<1> QED
    BY <1>1, <1>3, <1>4

LEMMA PopReadQInv == QInv /\ PopRead => QInv'
<1> SUFFICES ASSUME QInv, PopRead PROVE QInv'
    OBVIOUS
<1> USE DEF QInv, PopRead, queue, push, flush
<1>1. TypeOK'
    BY SlotIsSlot DEF TypeOK
<1>2. Count' = Count
    BY DEF Count
<1>3. NeverOverfull' /\ Published' /\ PushInv' /\ FlushInv' /\ PopInv'
    BY <1>2 DEF NeverOverfull, Published, PushInv, FlushInv, PopInv
<1> QED
    BY <1>1, <1>3

(* Releasing takes the segment the pop has seen. *)
LEMMA PopReleaseQInv == QInv /\ PopRelease => QInv'
<1> SUFFICES ASSUME QInv, PopRelease PROVE QInv'
    OBVIOUS
<1> USE DEF QInv, PopRelease, push, flush
<1>1. TypeOK'
    BY AfterIsIndex DEF TypeOK
<1>2. head \in Index /\ tail \in Index /\ flushHead \in Index
    BY DEF TypeOK
<1>3. popTail = tail /\ head # tail /\ flushing # "isr"
    BY DEF PopInv
<1>4. Count' = Count - 1 /\ Count \in 0 .. IndexMod - 1
    BY <1>2, <1>3, DistanceTail, DistanceIsNat DEF Count
<1>5. NeverOverfull' /\ Published' /\ PushInv'
    BY <1>4, DepthAssumption DEF NeverOverfull, Published, PushInv, TypeOK
<1>6. PopInv' /\ FlushInv'
    BY <1>3 DEF PopInv, FlushInv
<1> QED
    BY <1>1, <1>5, <1>6

LEMMA FlushLoadQInv ==
    ASSUME NoEStop, QInv, NEW context \in FlushFrom, FlushLoad(context)
    PROVE  QInv'
<1> USE DEF QInv, FlushLoad, queue, push, pop
<1>0. context \in {"main", "isr"}
    BY FlushFromAssumption DEF NoEStop
<1>1. TypeOK'
    BY <1>0 DEF TypeOK
<1>2. Count' = Count /\ Count \in 0 .. IndexMod - 1
    BY DistanceIsNat DEF Count, TypeOK
<1>3. NeverOverfull' /\ Published'
    BY <1>2 DEF NeverOverfull, Published
<1>4. PushInv' /\ PopInv'
    BY <1>0, <1>2 DEF PushInv, PopInv
<1>5. FlushInv'
    <2>1. Distance(head', flushHead') = 0
        BY DistanceIsNat DEF TypeOK
    <2> QED
        BY <1>0, <1>2, <2>1 DEF FlushInv
<1> QED
    BY <1>1, <1>3, <1>4, <1>5

(* Storing moves tail forward onto what head was. *)
LEMMA FlushStoreQInv == QInv /\ FlushStore => QInv'
<1> SUFFICES ASSUME QInv, FlushStore PROVE QInv'
    OBVIOUS
<1> USE DEF QInv, FlushStore, push, pop
<1>1. head \in Index /\ tail \in Index /\ flushHead \in Index
    BY DEF TypeOK
<1>2. Count' = Distance(head, flushHead)
    BY DEF Count
<1>3. Count' <= Count /\ Count' \in 0 .. IndexMod - 1 /\ Count \in 0 .. IndexMod - 1
    BY <1>1, <1>2, DistanceIsNat DEF FlushInv, TypeOK, Count
<1>4. NeverOverfull' /\ Published' /\ PushInv'
    BY <1>3, DepthAssumption DEF NeverOverfull, Published, PushInv, TypeOK
<1>5. popping = "idle"
    BY DEF PopInv, FlushInv, TypeOK
<1>6. PopInv' /\ FlushInv'
    BY <1>5 DEF PopInv, FlushInv
<1>7. TypeOK'
    BY <1>2, <1>3 DEF TypeOK, Published
<1> QED
    BY <1>4, <1>6, <1>7

LEMMA StepQInv == NoEStop /\ QInv /\ [Next]_vars => QInv'
<1> SUFFICES ASSUME NoEStop, QInv, [Next]_vars PROVE QInv'
    OBVIOUS
<1>1. CASE PushCheck
    BY <1>1, PushCheckQInv
<1>2. CASE PushWrite
    BY <1>2, PushWriteQInv
<1>3. CASE PushPublish
    BY <1>3, PushPublishQInv
<1>4. CASE PopCheck
    BY <1>4, PopCheckQInv
<1>5. CASE PopRead
    BY <1>5, PopReadQInv
<1>6. CASE PopRelease
    BY <1>6, PopReleaseQInv
<1>7. ASSUME NEW context \in FlushFrom, FlushLoad(context) PROVE QInv'
    BY <1>7, FlushLoadQInv
<1>8. CASE FlushStore
    BY <1>8, FlushStoreQInv
<1>9. CASE UNCHANGED vars
    BY <1>9 DEF QInv, TypeOK, NeverOverfull, Published, PushInv, PopInv, FlushInv,
                Count, vars, queue, push, pop, flush
<1> QED
    BY <1>1, <1>2, <1>3, <1>4, <1>5, <1>6, <1>7, <1>8, <1>9 DEF Next

(* The inductive invariant of the queue without the E-STOP context. *)
THEOREM QueueInvariance ==
    ASSUME NoEStop PROVE Spec => []QInv
<1>1. Init => QInv
    BY InitQInv
<1>2. QInv /\ [Next]_vars => QInv'
    BY StepQInv
<1> QED
    BY <1>1, <1>2, PTL DEF Spec

-----------------------------------------------------------------------------
(* The queue code keeps its state well typed. *)
THEOREM QueueTypeCorrect ==
    ASSUME NoEStop PROVE Spec => []TypeOK
<1>1. QInv => TypeOK
    BY DEF QInv
<1> QED
    BY QueueInvariance, <1>1, PTL

(* msq_push() never lets head lap tail, whatever pops and flushes do while  *)
(* it is between its check and its publication.                             *)
THEOREM QueueNeverOverfull ==
    ASSUME NoEStop PROVE Spec => []NeverOverfull
<1>1. QInv => NeverOverfull
    BY DEF QInv
<1> QED
    BY QueueInvariance, <1>1, PTL

(* The slot msq_push() copies into is never the one msq_pop() copies out of. *)
THEOREM QueueSlotsDisjoint ==
    ASSUME NoEStop PROVE Spec => []SlotsDisjoint
<1>1. QInv => SlotsDisjoint
    <2> SUFFICES ASSUME QInv, pushing = "write", popping = "read"
                 PROVE  Slot(pushHead) # Slot(popTail)
        BY DEF SlotsDisjoint
    <2>1. pushHead = head /\ popTail = tail /\ head # tail /\ Count < Depth
        BY DEF QInv, PushInv, PopInv
    <2>2. head \in Index /\ tail \in Index
        BY DEF QInv, TypeOK
    <2>3. Distance(head, tail) > 0 /\ Distance(head, tail) < Depth
        BY <2>1, <2>2, DistanceIsNat, IndexModAssumption DEF Count
    <2> QED
        BY <2>1, <2>2, <2>3, SlotsDiffer
<1> QED
    BY QueueInvariance, <1>1, PTL


-----------------------------------------------------------------------------
(* What the slots hold.                                                      *)

(* The index of the n-th waiting segment. *)
Nth(n) == (tail + n - 1) % IndexMod

(* Between the indices wait the segments published last, in order; the push *)
(* has written the next one, the pop has read the oldest one, and what a    *)
(* flush dropped is older than all of them.                                 *)
ContentInv ==
    /\ \A n \in 1 .. Count : buf[Slot(Nth(n))] = sent - Count + n
    /\ pushing = "publish" => buf[Slot(pushHead)] = sent + 1
    /\ popping = "release" => got = buf[Slot(popTail)]
    /\ dropped + Count <= sent

(* Going k on from an index, within one turn. *)
LEMMA Turn ==
    ASSUME NEW i \in Index, NEW k \in 0 .. IndexMod
    PROVE  (i + k) % IndexMod = IF i + k < IndexMod THEN i + k ELSE i + k - IndexMod
<1> DEFINE x == i + k
           m == x % IndexMod
           d == x \div IndexMod
<1>1. /\ IndexMod \in Nat \ {0} /\ x \in 0 .. 2 * IndexMod - 1 /\ m \in 0 .. IndexMod - 1 /\ d \in Int
      /\ x = IndexMod * d + m
    BY IndexModAssumption DEF Index
<1> HIDE DEF x, m, d
<1>2. d = 0 \/ d = 1
    <2>1. CASE d <= -1
        <3>1. IndexMod * d <= -IndexMod
            BY <1>1, <2>1
        <3> QED
            BY <3>1, <1>1
    <2>2. CASE d >= 2
        <3>1. IndexMod * d >= 2 * IndexMod
            BY <1>1, <2>2
        <3> QED
            BY <3>1, <1>1
    <2> QED
        BY <2>1, <2>2, <1>1
<1>3. IndexMod * 0 = 0 /\ IndexMod * 1 = IndexMod
    BY <1>1
<1>4. m = IF x < IndexMod THEN x ELSE x - IndexMod
    BY <1>1, <1>2, <1>3
<1>5. CASE x < IndexMod
    <2>1. m = x
        BY <1>4, <1>5
    <2>2. (i + k) % IndexMod = i + k
        BY <2>1 DEF m, x
    <2> QED
        BY <1>5, <2>2 DEF x
<1>6. CASE ~(x < IndexMod)
    <2>1. m = x - IndexMod
        BY <1>4, <1>6
    <2>2. (i + k) % IndexMod = (i + k) - IndexMod
        BY <2>1 DEF m, x
    <2>3. i + k - IndexMod = (i + k) - IndexMod
        BY IndexModAssumption DEF Index
    <2> QED
        BY <1>6, <2>2, <2>3 DEF x
<1> QED
    BY <1>5, <1>6

(* The waiting segments lie between tail and head, the last next to head. *)
LEMMA NthPlace ==
    ASSUME TypeOK, NEW n \in 1 .. Count
    PROVE  Nth(n) \in Index /\ Distance(head, Nth(n)) = Count - n + 1
<1>1. head \in Index /\ tail \in Index /\ Count \in 0 .. IndexMod - 1 /\ IndexMod \in Nat
    BY DistanceIsNat, IndexModAssumption DEF TypeOK, Count
<1>2. n - 1 \in 0 .. IndexMod /\ tail + n - 1 = tail + (n - 1)
    BY <1>1 DEF Index
<1>3. Nth(n) = IF tail + (n - 1) < IndexMod THEN tail + (n - 1) ELSE tail + (n - 1) - IndexMod
    BY <1>1, <1>2, Turn DEF Nth
<1> QED
    BY <1>1, <1>3 DEF Index, Distance, Count

LEMMA NthEnds ==
    ASSUME TypeOK
    PROVE  Nth(1) = tail /\ Nth(Count + 1) = head
<1>1. /\ head \in Index /\ tail \in Index /\ Count \in 0 .. IndexMod - 1 /\ IndexMod \in Nat
      /\ tail + 1 - 1 = tail + 0 /\ tail + (Count + 1) - 1 = tail + Count
    BY DistanceIsNat, IndexModAssumption DEF TypeOK, Count, Index
<1>2. Nth(1) = tail
    <2>1. (tail + 0) % IndexMod = IF tail + 0 < IndexMod THEN tail + 0 ELSE tail + 0 - IndexMod
        BY <1>1, Turn
    <2>2. tail + 0 < IndexMod /\ tail + 0 = tail
        BY <1>1 DEF Index
    <2>3. (tail + 1 - 1) % IndexMod = tail
        BY <1>1, <2>1, <2>2
    <2> QED
        BY <2>3 DEF Nth
<1>3. (tail + Count) % IndexMod = IF tail + Count < IndexMod THEN tail + Count
                                  ELSE tail + Count - IndexMod
    BY <1>1, Turn
<1>4. (tail + Count) % IndexMod = head
    BY <1>1, <1>3 DEF Count, Distance, Index
<1> QED
    BY <1>1, <1>2, <1>4 DEF Nth

(* Without a flush by the E-STOP, moving tail to an index no further from   *)
(* head drops the oldest segments and renumbers the rest.                   *)
LEMMA TailMoves ==
    ASSUME TypeOK, NEW t \in Index, Distance(head, t) <= Count,
           NEW n \in 1 .. Distance(head, t)
    PROVE  /\ Count - Distance(head, t) \in 0 .. Count
           /\ n + (Count - Distance(head, t)) \in 1 .. Count
           /\ (t + n - 1) % IndexMod = Nth(n + (Count - Distance(head, t)))
<1>1. /\ head \in Index /\ tail \in Index /\ Count \in 0 .. IndexMod - 1 /\ IndexMod \in Nat
      /\ Distance(head, t) \in 0 .. IndexMod - 1
    BY DistanceIsNat, IndexModAssumption DEF TypeOK, Count
<1> DEFINE d == Count - Distance(head, t)
<1>2. d \in 0 .. Count /\ n + d \in 1 .. Count
    BY <1>1
<1>3. /\ n - 1 \in 0 .. IndexMod /\ t + n - 1 = t + (n - 1)
      /\ n + d - 1 \in 0 .. IndexMod /\ tail + (n + d) - 1 = tail + (n + d - 1)
    BY <1>1, <1>2 DEF Index
<1>4. /\ (t + (n - 1)) % IndexMod = IF t + (n - 1) < IndexMod THEN t + (n - 1)
                                    ELSE t + (n - 1) - IndexMod
      /\ (tail + (n + d - 1)) % IndexMod =
            IF tail + (n + d - 1) < IndexMod THEN tail + (n + d - 1)
            ELSE tail + (n + d - 1) - IndexMod
    <2> HIDE DEF d
    <2> QED
        BY <1>1, <1>3, Turn
<1>5. (t + (n - 1)) % IndexMod = (tail + (n + d - 1)) % IndexMod
    BY <1>1, <1>2, <1>4 DEF Distance, Count, Index
<1> QED
    BY <1>2, <1>3, <1>5 DEF Nth

(* A push writes next to the waiting segments, never over one. *)
LEMMA WriteSpares ==
    ASSUME QInv, pushing = "write", NEW n \in 1 .. Count
    PROVE  Slot(Nth(n)) # Slot(pushHead)
<1>1. /\ head \in Index /\ pushHead = head /\ Count < Depth /\ Count \in 0 .. IndexMod - 1
    BY DistanceIsNat DEF QInv, TypeOK, PushInv, Count
<1>2. Nth(n) \in Index /\ Distance(head, Nth(n)) = Count - n + 1
    BY NthPlace DEF QInv
<1>3. Distance(head, Nth(n)) > 0 /\ Distance(head, Nth(n)) < Depth
    BY <1>1, <1>2, DepthAssumption
<1> QED
    BY <1>1, <1>2, <1>3, SlotsDiffer

LEMMA StepContent ==
    ASSUME NoEStop, QInv, QInv', ContentInv, [Next]_vars
    PROVE  ContentInv'
<1>0. /\ TypeOK /\ TypeOK' /\ head \in Index /\ tail \in Index /\ Count \in 0 .. IndexMod - 1
      /\ Count' \in 0 .. IndexMod - 1 /\ sent \in Nat /\ dropped \in Nat /\ IndexMod \in Nat
    BY DistanceIsNat, IndexModAssumption DEF QInv, TypeOK, Count
<1>1. ASSUME UNCHANGED <<buf, head, tail, sent, dropped>>,
             pushing' = "publish" => pushing = "publish" /\ pushHead' = pushHead,
             popping' = "release" => got' = buf[Slot(popTail')]
      PROVE  ContentInv'
    <2>1. Count' = Count
        BY <1>1 DEF Count
    <2> QED
        BY <1>1, <2>1 DEF ContentInv, Nth
<1>2. CASE PushCheck \/ PopCheck \/ PopRead \/ (\E context \in FlushFrom : FlushLoad(context))
           \/ UNCHANGED vars
    BY <1>1, <1>2 DEF PushCheck, PopCheck, PopRead, FlushLoad, queue, push, pop, flush, vars, ContentInv
<1>3. CASE PushWrite
    <2>1. /\ pushing = "write" /\ UNCHANGED <<head, tail, pushHead, sent, dropped, popTail, popping, got>>
          /\ buf' = [buf EXCEPT ![Slot(pushHead)] = sent + 1] /\ pushHead \in Index
          /\ buf \in [0 .. Depth - 1 -> Nat]
        BY <1>0, <1>3 DEF PushWrite, pop, TypeOK
    <2>2. Count' = Count
        BY <2>1 DEF Count
    <2>3. ASSUME NEW n \in 1 .. Count
          PROVE  buf'[Slot(Nth(n))] = buf[Slot(Nth(n))]
        <3>1. Slot(Nth(n)) # Slot(pushHead) /\ Slot(Nth(n)) \in 0 .. Depth - 1
            BY <1>0, <2>1, WriteSpares, NthPlace, SlotIsSlot
        <3> QED
            BY <2>1, <3>1
    <2>4. buf'[Slot(pushHead)] = sent + 1
        BY <2>1, SlotIsSlot
    <2>5. popping = "release" => buf'[Slot(popTail)] = buf[Slot(popTail)]
        <3>1. CASE popping = "release"
            <4>1. popTail = tail /\ head # tail
                BY <3>1 DEF QInv, PopInv
            <4>2. 1 \in 1 .. Count /\ Nth(1) = popTail
                BY <1>0, <4>1, NthEnds, DistanceIsNat DEF Count
            <4> QED
                BY <2>3, <4>2
        <3> QED
            BY <3>1
    <2>6. \A n \in 1 .. Count' : buf'[Slot(Nth(n)')] = sent' - Count' + n
        BY <2>1, <2>2, <2>3 DEF ContentInv, Nth
    <2> QED
        BY <2>1, <2>2, <2>4, <2>5, <2>6 DEF ContentInv
<1>4. CASE PushPublish
    <2>1. /\ pushing = "publish" /\ UNCHANGED <<buf, tail, dropped, popTail, popping, got>>
          /\ head' = After(pushHead) /\ sent' = sent + 1 /\ pushing' = "idle"
          /\ pushHead = head /\ Count < Depth
        BY <1>4 DEF PushPublish, pop, QInv, PushInv
    <2>2. Count' = Count + 1
        BY <1>0, <2>1, DistanceHead, IndexModAssumption, DepthAssumption DEF Count
    <2>3. ASSUME NEW n \in 1 .. Count'
          PROVE  buf[Slot(Nth(n))] = sent' - Count' + n
        <3>1. CASE n \in 1 .. Count
            BY <1>0, <2>1, <2>2, <3>1 DEF ContentInv
        <3>2. CASE n = Count + 1
            <4>1. Nth(n) = pushHead
                BY <1>0, <2>1, <3>2, NthEnds
            <4> QED
                BY <1>0, <2>1, <2>2, <3>2, <4>1 DEF ContentInv
        <3> QED
            BY <1>0, <2>2, <3>1, <3>2
    <2>4. dropped' + Count' <= sent'
        BY <1>0, <2>1, <2>2 DEF ContentInv
    <2>5. popping' = "release" => got' = buf'[Slot(popTail')]
        BY <2>1 DEF ContentInv
    <2>6. \A n \in 1 .. Count' : buf'[Slot(Nth(n)')] = sent' - Count' + n
        BY <2>1, <2>3 DEF Nth
    <2> QED
        BY <2>1, <2>4, <2>5, <2>6 DEF ContentInv
<1>5. ASSUME UNCHANGED <<buf, head, push, sent>>, tail' \in Index, Distance(head, tail') <= Count,
             dropped' + Count' <= sent, popping' = "idle"
      PROVE  ContentInv'
    <2>1. Count' = Distance(head, tail')
        BY <1>5 DEF Count
    <2> DEFINE t == tail'
               d == Count - Count'
    <2>2. t \in Index /\ Count' = Distance(head, t) /\ Distance(head, t) <= Count
        BY <1>5, <2>1
    <2>3. ASSUME NEW n \in 1 .. Count'
          PROVE  buf[Slot((t + n - 1) % IndexMod)] = sent - Count' + n
        <3> HIDE DEF t
        <3>1. /\ d \in 0 .. Count /\ n + d \in 1 .. Count /\ (t + n - 1) % IndexMod = Nth(n + d)
            BY <1>0, <2>2, <2>3, TailMoves
        <3>2. buf[Slot(Nth(n + d))] = sent - Count + (n + d)
            BY <3>1 DEF ContentInv
        <3>3. sent - Count + (n + d) = sent - Count' + n
            BY <1>0, <2>3
        <3> QED
            BY <3>1, <3>2, <3>3
    <2>4. \A n \in 1 .. Count' : buf'[Slot(Nth(n)')] = sent' - Count' + n
        BY <1>5, <2>3 DEF Nth
    <2> QED
        BY <1>5, <2>4 DEF ContentInv, push
<1>6. CASE PopRelease
    <2>1. /\ UNCHANGED <<buf, head, push, sent, dropped>> /\ tail' = After(tail) /\ head # tail
          /\ popping' = "idle"
        BY <1>6 DEF PopRelease, QInv, PopInv
    <2>2. Distance(head, tail') = Count - 1 /\ tail' \in Index /\ Count' = Count - 1
        BY <1>0, <2>1, DistanceTail, AfterIsIndex DEF Count
    <2>3. dropped' + Count' <= sent
        BY <1>0, <2>1, <2>2 DEF ContentInv
    <2> QED
        BY <1>0, <1>5, <2>1, <2>2, <2>3
<1>7. CASE FlushStore
    <2>1. /\ UNCHANGED <<buf, head, push, sent, popping>> /\ tail' = flushHead
          /\ dropped' = sent - Distance(head, flushHead) /\ flushing # "none"
        BY <1>7 DEF FlushStore, pop
    <2>2. /\ tail' \in Index /\ Distance(head, tail') <= Count /\ Count' = Distance(head, tail')
        <3>1. flushHead \in Index /\ flushing \in {"main", "isr"}
            BY <1>0, <2>1 DEF TypeOK, QInv, FlushInv
        <3>2. flushing = "main" => Distance(head, flushHead) = 0
            BY <1>0, <3>1, DistanceIsNat DEF QInv, FlushInv
        <3> QED
            BY <1>0, <2>1, <3>1, <3>2 DEF QInv, FlushInv, Count
    <2>3. dropped' + Count' <= sent
        BY <1>0, <2>1, <2>2
    <2>4. popping' = "idle"
        BY <1>7, <2>1 DEF FlushStore, QInv, PopInv, FlushInv, TypeOK
    <2> QED
        BY <1>5, <2>1, <2>2, <2>3, <2>4
<1> QED
    BY <1>2, <1>3, <1>4, <1>6, <1>7 DEF Next

LEMMA ContentCorrect ==
    ASSUME NoEStop PROVE Spec => []ContentInv
<1>1. Init => ContentInv
    <2> SUFFICES ASSUME Init PROVE ContentInv
        OBVIOUS
    <2>1. Count = 0
        BY InitQInv, DistanceIsNat DEF Init, Count, QInv, TypeOK
    <2> QED
        BY <2>1 DEF Init, ContentInv
<1>2. QInv /\ QInv' /\ ContentInv /\ [Next]_vars => ContentInv'
    BY StepContent
<1> QED
    BY <1>1, <1>2, QueueInvariance, PTL DEF Spec

(* What msq_flush() dropped stays dropped, whatever push is under way when  *)
(* it loads head and whatever is published before it stores tail.           *)
THEOREM QueueFlushIsFinal ==
    ASSUME NoEStop PROVE Spec => []FlushIsFinal
<1>1. QInv /\ ContentInv => FlushIsFinal
    <2> SUFFICES ASSUME QInv, ContentInv, NEW n \in 1 .. Count
                 PROVE  Waiting[n] > dropped
        BY DEF FlushIsFinal
    <2>1. Waiting[n] = sent - Count + n
        BY DEF Waiting, ContentInv, Nth
    <2>2. sent \in Nat /\ dropped \in Nat /\ Count \in Nat /\ dropped + Count <= sent
        BY DistanceIsNat DEF QInv, TypeOK, ContentInv, Count
    <2> QED
        BY <2>1, <2>2
<1> QED
    BY <1>1, QueueInvariance, ContentCorrect, PTL


-----------------------------------------------------------------------------
(* The promised queue.                                                       *)

LEMMA WaitingType ==
    ASSUME QInv
    PROVE  /\ Waiting \in Seq(Nat) /\ Len(Waiting) = Count /\ Count \in 0 .. Depth
           /\ \A n \in 1 .. Count : Waiting[n] = buf[Slot(Nth(n))]
<1>1. Count \in 0 .. Depth
    BY DistanceIsNat, DepthAssumption DEF QInv, TypeOK, Count, NeverOverfull
<1>2. \A n \in 1 .. Count : buf[Slot(Nth(n))] \in Nat
    BY NthPlace, SlotIsSlot DEF QInv, TypeOK
<1>3. Waiting = [n \in 1 .. Count |-> buf[Slot(Nth(n))]]
    BY DEF Waiting, Nth
<1> QED
    BY <1>1, <1>2, <1>3

(* Two sequences of the same length with the same elements are the same. *)
LEMMA SameSequence ==
    ASSUME NEW p \in Seq(Nat), NEW q \in Seq(Nat), Len(p) = Len(q),
           \A n \in 1 .. Len(p) : p[n] = q[n]
    PROVE  p = q
OBVIOUS

LEMMA FifoPush ==
    ASSUME QInv, QInv', ContentInv, PushPublish
    PROVE  Fifo!Push
<1>0. /\ TypeOK /\ head \in Index /\ tail \in Index /\ Count \in 0 .. IndexMod - 1 /\ sent \in Nat
    BY DistanceIsNat DEF QInv, TypeOK, Count
<1>1. /\ pushing = "publish" /\ UNCHANGED <<buf, tail, delivered>>
      /\ head' = After(head) /\ sent' = sent + 1 /\ pushHead = head /\ Count < Depth
    BY DEF PushPublish, QInv, PushInv
<1>2. Count' = Count + 1
    BY <1>0, <1>1, DistanceHead, IndexModAssumption, DepthAssumption DEF Count
<1>3. /\ Waiting \in Seq(Nat) /\ Len(Waiting) = Count
      /\ \A n \in 1 .. Count : Waiting[n] = buf[Slot(Nth(n))]
    BY WaitingType
<1>4. (/\ Waiting \in Seq(Nat) /\ Len(Waiting) = Count
       /\ \A n \in 1 .. Count : Waiting[n] = buf[Slot(Nth(n))])'
    BY WaitingType, PTL
<1>5. /\ Append(Waiting, sent + 1) \in Seq(Nat) /\ Len(Append(Waiting, sent + 1)) = Count + 1
      /\ \A n \in 1 .. Count : Append(Waiting, sent + 1)[n] = Waiting[n]
      /\ Append(Waiting, sent + 1)[Count + 1] = sent + 1
    BY <1>0, <1>3
<1>6. ASSUME NEW n \in 1 .. Count'
      PROVE  Waiting'[n] = Append(Waiting, sent + 1)[n]
    <2>1. Waiting'[n] = buf[Slot(Nth(n))]
        BY <1>1, <1>4 DEF Nth
    <2>2. CASE n \in 1 .. Count
        BY <1>3, <1>5, <2>1, <2>2
    <2>3. CASE n = Count + 1
        <3>1. Nth(n) = pushHead
            BY <1>0, <1>1, <2>3, NthEnds
        <3> QED
            <4>1. buf[Slot(pushHead)] = sent + 1
                BY <1>1 DEF ContentInv
            <4>2. Waiting'[n] = sent + 1
                BY <2>1, <3>1, <4>1
            <4>3. Append(Waiting, sent + 1)[n] = sent + 1
                BY <1>5, <2>3
            <4> QED
                BY <4>2, <4>3
    <2>4. n \in 1 .. Count \/ n = Count + 1
        <3> DEFINE c == Count
        <3>1. c \in Nat /\ n \in 1 .. c + 1
            BY <1>0, <1>2
        <3> HIDE DEF c
        <3>2. n \in 1 .. c \/ n = c + 1
            BY <3>1
        <3> QED
            BY <3>2 DEF c
    <2> QED
        BY <2>2, <2>3, <2>4
<1>7. Waiting' = Append(Waiting, sent + 1)
    <2> DEFINE p == Waiting'
               r == Append(Waiting, sent + 1)
    <2>1. p \in Seq(Nat) /\ r \in Seq(Nat) /\ Len(p) = Len(r) /\ \A n \in 1 .. Len(p) : p[n] = r[n]
        BY <1>2, <1>4, <1>5, <1>6
    <2> HIDE DEF p, r
    <2>2. p = r
        BY <2>1, SameSequence
    <2> QED
        BY <2>2 DEF p, r
<1> QED
    BY <1>1, <1>3, <1>7 DEF Fifo!Push

(* Moving tail on drops the oldest segments. *)
LEMMA FifoDrop ==
    ASSUME QInv, QInv', UNCHANGED <<buf, head>>, tail' \in Index, Distance(head, tail') <= Count
    PROVE  /\ Count - Count' \in 0 .. Count /\ Waiting \in Seq(Nat) /\ Len(Waiting) = Count
           /\ Waiting' = SubSeq(Waiting, (Count - Count') + 1, Count)
<1>0. TypeOK /\ Count \in Nat /\ Count' = Distance(head, tail') /\ Count' \in Nat
    BY DistanceIsNat DEF QInv, TypeOK, Count
<1>1. /\ Waiting \in Seq(Nat) /\ Len(Waiting) = Count
      /\ \A n \in 1 .. Count : Waiting[n] = buf[Slot(Nth(n))]
    BY WaitingType
<1>2. (/\ Waiting \in Seq(Nat) /\ Len(Waiting) = Count
       /\ \A n \in 1 .. Count : Waiting[n] = buf[Slot(Nth(n))])'
    BY WaitingType, PTL
<1> DEFINE t == tail'
           d == Count - Count'
           r == SubSeq(Waiting, d + 1, Count)
<1>3. d \in 0 .. Count
    BY <1>0
<1>4. ASSUME NEW n \in 1 .. Count'
      PROVE  n + d \in 1 .. Count /\ Waiting'[n] = Waiting[n + d]
    <2>1. t \in Index /\ Count' = Distance(head, t) /\ Distance(head, t) <= Count
          /\ d = Count - Distance(head, t) /\ n \in 1 .. Distance(head, t)
        BY <1>0, <1>4
    <2>2. Waiting'[n] = buf[Slot((t + n - 1) % IndexMod)]
        BY <1>2 DEF Nth
    <2> HIDE DEF t, d
    <2>3. n + d \in 1 .. Count /\ (t + n - 1) % IndexMod = Nth(n + d)
        BY <1>0, <2>1, TailMoves
    <2> QED
        BY <1>1, <2>2, <2>3
<1>5. r \in Seq(Nat) /\ Len(r) = Count' /\ \A n \in 1 .. Count' : r[n] = Waiting[n + d]
    <2> DEFINE w == Waiting
               m == Count
               l == Count'
    <2>1. w \in Seq(Nat) /\ Len(w) = m /\ d \in 0 .. m /\ m \in Nat /\ l \in Nat /\ l = m - d
        BY <1>0, <1>1, <1>3
    <2>2. r = SubSeq(w, d + 1, m)
        OBVIOUS
    <2> HIDE DEF w, m, l, d, r
    <2>3. r \in Seq(Nat) /\ Len(r) = l /\ \A n \in 1 .. l : r[n] = w[n + d]
        BY <2>1, <2>2
    <2> QED
        BY <2>3 DEF w, l
<1>6. Waiting' = r
    <2> DEFINE p == Waiting'
    <2>1. p \in Seq(Nat) /\ Len(p) = Len(r) /\ r \in Seq(Nat) /\ \A n \in 1 .. Len(p) : p[n] = r[n]
        BY <1>2, <1>4, <1>5
    <2> HIDE DEF p, r
    <2>2. p = r
        BY <2>1, SameSequence
    <2> QED
        BY <2>2 DEF p
<1> QED
    BY <1>1, <1>3, <1>6

LEMMA FifoSteps ==
    ASSUME NoEStop, QInv, QInv', ContentInv, [Next]_vars
    PROVE  [Fifo!Next]_Fifo!vars
<1> USE DEF Fifo!Next, Fifo!vars
<1>0. /\ TypeOK /\ head \in Index /\ tail \in Index /\ Count \in 0 .. IndexMod - 1
    BY DistanceIsNat DEF QInv, TypeOK, Count
<1>1. CASE UNCHANGED <<buf, head, tail, sent, delivered>>
    BY <1>1 DEF Waiting, Count
<1>2. CASE PushCheck \/ PopCheck \/ PopRead \/ (\E context \in FlushFrom : FlushLoad(context))
           \/ UNCHANGED vars
    BY <1>1, <1>2 DEF PushCheck, PopCheck, PopRead, FlushLoad, queue, vars
<1>3. CASE PushWrite
    <2>1. /\ pushing = "write" /\ UNCHANGED <<head, tail, pushHead, sent, delivered>>
          /\ buf' = [buf EXCEPT ![Slot(pushHead)] = sent + 1]
          /\ buf \in [0 .. Depth - 1 -> Nat]
        BY <1>0, <1>3 DEF PushWrite, TypeOK
    <2>2. Count' = Count
        BY <2>1 DEF Count
    <2>3. ASSUME NEW n \in 1 .. Count
          PROVE  buf'[Slot((tail + n - 1) % IndexMod)] = buf[Slot((tail + n - 1) % IndexMod)]
        <3>1. Slot(Nth(n)) # Slot(pushHead) /\ Slot(Nth(n)) \in 0 .. Depth - 1
            BY <1>0, <2>1, WriteSpares, NthPlace, SlotIsSlot
        <3>2. buf'[Slot(Nth(n))] = buf[Slot(Nth(n))]
            BY <2>1, <3>1
        <3> QED
            BY <3>2 DEF Nth
    <2>4. Waiting' = Waiting
        BY <2>1, <2>2, <2>3 DEF Waiting
    <2> QED
        BY <2>1, <2>4
<1>4. CASE PushPublish
    BY <1>4, FifoPush
<1>5. CASE PopRelease
    <2>1. /\ UNCHANGED <<buf, head, sent>> /\ tail' = After(tail) /\ head # tail
          /\ delivered' = buf[Slot(tail)]
        BY <1>5 DEF PopRelease, QInv, PopInv, ContentInv
    <2>2. Distance(head, tail') = Count - 1 /\ tail' \in Index /\ Count' = Count - 1
        BY <1>0, <2>1, DistanceTail, AfterIsIndex DEF Count
    <2>3. Count \in 1 .. IndexMod - 1 /\ Count - Count' = 1
        BY <1>0, <2>1, <2>2, DistanceIsNat DEF Count
    <2>4. Waiting \in Seq(Nat) /\ Len(Waiting) = Count /\ Waiting' = SubSeq(Waiting, 2, Count)
        BY <1>0, <2>1, <2>2, <2>3, FifoDrop
    <2>5. Waiting[1] = buf[Slot(tail)]
        BY <1>0, <2>3, WaitingType, NthEnds
    <2>6. Waiting # <<>> /\ Head(Waiting) = Waiting[1] /\ Tail(Waiting) = SubSeq(Waiting, 2, Count)
        <3> DEFINE w == Waiting
                   m == Count
        <3>1. w \in Seq(Nat) /\ Len(w) = m /\ m \in Nat \ {0}
            BY <2>3, <2>4
        <3> HIDE DEF w, m
        <3>2. w # <<>> /\ Head(w) = w[1] /\ Tail(w) = SubSeq(w, 2, m)
            BY <3>1
        <3> QED
            BY <3>2 DEF w, m
    <2> QED
        BY <2>1, <2>4, <2>5, <2>6 DEF Fifo!Pop
<1>6. CASE FlushStore
    <2>1. /\ UNCHANGED <<buf, head, sent, delivered>> /\ tail' = flushHead
          /\ flushing \in {"main", "isr"} /\ flushHead \in Index
        BY <1>0, <1>6 DEF FlushStore, TypeOK, QInv, FlushInv
    <2>2. flushing = "main" => Distance(head, flushHead) = 0
        BY <1>0, <2>1, DistanceIsNat DEF QInv, FlushInv
    <2>3. tail' \in Index /\ Distance(head, tail') <= Count
        BY <1>0, <2>1, <2>2 DEF QInv, FlushInv
    <2>4. /\ Count - Count' \in 0 .. Count /\ Waiting \in Seq(Nat) /\ Len(Waiting) = Count
          /\ Waiting' = SubSeq(Waiting, (Count - Count') + 1, Count)
        BY <2>1, <2>3, FifoDrop
    <2>5. CASE Count - Count' = 0
        <3> DEFINE w == Waiting
                   m == Count
        <3>1. w \in Seq(Nat) /\ Len(w) = m /\ m \in Nat /\ Waiting' = SubSeq(w, 1, m)
            BY <1>0, <2>4, <2>5
        <3> HIDE DEF w, m
        <3>2. SubSeq(w, 1, m) = w
            BY <3>1
        <3> QED
            BY <2>1, <3>1, <3>2 DEF w
    <2>6. CASE Count - Count' # 0
        <3>1. Count - Count' \in 1 .. Len(Waiting)
            BY <2>4, <2>6
        <3> QED
            BY <2>1, <2>4, <3>1 DEF Fifo!Flush
    <2> QED
        BY <2>5, <2>6
<1> QED
    BY <1>2, <1>3, <1>4, <1>5, <1>6 DEF Next

(* The ring of slots with its two free-running indices, read and written by *)
(* a push, a pop and a flush that interleave, is the bounded queue promised *)
(* to the two sides: in order, at most once, and a flush drops the oldest.  *)
THEOREM QueueIsFifo ==
    ASSUME NoEStop PROVE Spec => ImplementsFifo
<1>1. Init => Fifo!Init
    <2> SUFFICES ASSUME Init PROVE Fifo!Init
        OBVIOUS
    <2>1. Count = 0
        BY InitQInv, DistanceIsNat DEF Init, Count, QInv, TypeOK
    <2>2. Waiting \in Seq(Nat) /\ Len(Waiting) = 0
        BY <2>1, InitQInv, WaitingType
    <2>3. Waiting = <<>>
        BY <2>2
    <2> QED
        BY <2>3 DEF Init, Fifo!Init
<1>2. QInv /\ QInv' /\ ContentInv /\ [Next]_vars => [Fifo!Next]_Fifo!vars
    BY FifoSteps
<1> QED
    BY <1>1, <1>2, QueueInvariance, ContentCorrect, PTL DEF Spec, ImplementsFifo, Fifo!Spec
=============================================================================
