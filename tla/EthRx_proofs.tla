---------------------------- MODULE EthRx_proofs ----------------------------
(***************************************************************************)
(* For every number of descriptors and buffers: reception keeps its types  *)
(* and delivers in order, and a receive buffer has one owner as long as    *)
(* every start finds the DMA where the main loop reads.                    *)
(*                                                                         *)
(* The argument is about the ring seen from rd.  The descriptors built,    *)
(* the first RxDescCnt - cnt of them, have a buffer of their own; those    *)
(* behind them wait for one and are not owned by the DMA; the frames not   *)
(* read yet lie in the ring from rd to where the DMA writes.               *)
(***************************************************************************)
EXTENDS EthRx, FiniteSetTheorems, TLAPS

(* How far descriptor i is from descriptor r, going round.                  *)
Dist(r, i) == IF i >= r THEN i - r ELSE (i + RxDescCnt) - r

Built(i) == Dist(rd, i) < RxDescCnt - cnt

Partition ==
    /\ \A i, j \in Desc : buf[i] # None /\ buf[i] = buf[j] => i = j
    /\ pool \cap stack = {} /\ pool \cap Held = {} /\ stack \cap Held = {}
    /\ hand \notin pool \cup stack \cup Held
    /\ pool \cup stack \cup Held \cup ({hand} \ {None}) = Buffers

Attached == \A i \in Desc : buf[i] # None => addr[i] = buf[i]

(* Before the first start.                                                  *)
Fresh ==
    /\ \A i \in Desc : buf[i] = None
    /\ cnt = 0 /\ rd = 0 /\ bld = 0
    /\ stack = {} /\ hand = None
    /\ mac = "ready" /\ ~link /\ pc \in {"input", "timers", "link"}

BuildsNext == IF cnt = 0 THEN bld = rd ELSE Dist(rd, bld) = RxDescCnt - cnt
BuiltHaveBuffers == \A i \in Desc : Built(i) => buf[i] # None
Waiting == \A i \in Desc : ~Built(i) => ~own[i] /\ buf[i] = None

(* A start finds all descriptors with their buffers, all without (as the    *)
(* reader left them), or the ring as the reset left it.                     *)
Starting ==
    \/ \A i \in Desc : ~Built(i) => buf[i] # None
    \/ Waiting
    \/ /\ rd = 0 /\ stack = {} /\ hand = None
       /\ \A i \in Desc : ~Built(i) => buf[i] = None

RingInv ==
    /\ Partition /\ Attached
    /\ \/ Fresh
       \/ /\ BuildsNext /\ BuiltHaveBuffers
          /\ IF pc = "start" THEN Starting ELSE Waiting

ControlInv ==
    /\ pc = "start" <=> mac = "busy"
    /\ hand # None => pc \in {"build", "deliver"}
    /\ pc = "deliver" => hand # None

IInv == TypeOK /\ ControlInv /\ (inStep => RingInv)

-----------------------------------------------------------------------------
(* The ring.                                                                *)
LEMMA StepType == ASSUME NEW i \in Desc PROVE Step(i) \in Desc
  BY DescAssumption DEF Desc, Step

LEMMA DistType ==
    ASSUME NEW r \in Desc, NEW i \in Desc
    PROVE  /\ Dist(r, i) \in 0 .. RxDescCnt - 1
           /\ Dist(r, i) = 0 <=> i = r
  BY DescAssumption DEF Desc, Dist

LEMMA DistInjective ==
    ASSUME NEW r \in Desc, NEW i \in Desc, NEW j \in Desc, Dist(r, i) = Dist(r, j)
    PROVE  i = j
  BY DescAssumption DEF Desc, Dist

(* Reading moves every other descriptor one nearer and the one read to the end. *)
LEMMA DistFromNext ==
    ASSUME NEW r \in Desc, NEW i \in Desc
    PROVE  Dist(Step(r), i) = IF i = r THEN RxDescCnt - 1 ELSE Dist(r, i) - 1
  BY DescAssumption DEF Desc, Dist, Step

LEMMA DistToNext ==
    ASSUME NEW r \in Desc, NEW i \in Desc
    PROVE  IF Dist(r, i) = RxDescCnt - 1
           THEN Step(i) = r
           ELSE Dist(r, Step(i)) = Dist(r, i) + 1
  BY DescAssumption DEF Desc, Dist, Step

-----------------------------------------------------------------------------
(* Types and control.                                                       *)
LEMMA InitTypes == ASSUME Init PROVE TypeOK /\ ControlInv
<1> USE DescAssumption DEF Init
<1>1. 0 \in Desc /\ 0 \in 0 .. RxDescCnt
  BY DEF Desc
<1>2. own \in [Desc -> BOOLEAN]
  OBVIOUS
<1>3. buf \in [Desc -> Buffers \cup {None}] /\ addr \in [Desc -> Buffers \cup {None}]
  OBVIOUS
<1>4. data \in [Buffers -> Nat]
  OBVIOUS
<1>5. link \in BOOLEAN /\ inStep \in BOOLEAN
  OBVIOUS
<1>. QED BY <1>1, <1>2, <1>3, <1>4, <1>5 DEF TypeOK, ControlInv

LEMMA NextTypes ==
    ASSUME TypeOK, ControlInv, [Next]_vars
    PROVE  TypeOK' /\ ControlInv'
<1> USE DescAssumption, NoneAssumption DEF TypeOK, ControlInv
<1>1. CASE ReadFrame
  BY <1>1, StepType DEF ReadFrame, MayRead, FrameReady, dma, Desc
<1>2. CASE ReadNothing
  BY <1>2 DEF ReadNothing, MayRead, ring, dma, owners
<1>3. ASSUME NEW b \in Buffers, GiveBack(b) PROVE TypeOK' /\ ControlInv'
  BY <1>3, StepType, SMTT(30) DEF GiveBack, Building, dma, Desc
<1>4. CASE BuildEnds
  BY <1>4 DEF BuildEnds, ring, dma, owners
<1>5. CASE Deliver
  BY <1>5 DEF Deliver, Freed, ring, dma
<1>6. CASE Release
  BY <1>6 DEF Release, Freed, ring, dma
<1>7. CASE TimersDone
  BY <1>7 DEF TimersDone, ring, dma, owners
<1>8. CASE LinkDown
  <2>1. mac' \in {"ready", "started", "error"} /\ mac # "busy"
    BY <1>8 DEF LinkDown
  <2>2. link' \in BOOLEAN
    BY <1>8, Zenon DEF LinkDown
  <2>2a. stops' \in Nat /\ pc' = "input" /\ pc = "link"
    BY <1>8 DEF LinkDown
  <2>3. UNCHANGED <<ring, dma, alloc, owners, last, inStep>>
    BY <1>8 DEF LinkDown
  <2>. QED BY <2>1, <2>2, <2>2a, <2>3 DEF ring, dma, owners
<1>9. CASE LinkUp
  BY <1>9 DEF LinkUp, dma, owners
<1>10. CASE LinkUpRefused
  BY <1>10 DEF LinkUpRefused, ring, dma, owners
<1>11. CASE LinkSame
  BY <1>11 DEF LinkSame, ring, dma, owners
<1>12. CASE DmaReceive
  <2>0. arrived' = arrived + 1 /\ arrived + 1 \in Nat
    BY <1>12 DEF DmaReceive
  <2>1. data' \in [Buffers -> Nat]
    <3>1. data' = [data EXCEPT ![addr[hw]] = arrived + 1]
      BY <1>12 DEF DmaReceive
    <3>2. data' = [b \in Buffers |-> IF b = addr[hw] THEN arrived + 1 ELSE data[b]]
      BY <3>1
    <3>. QED BY <2>0, <3>2
  <2>2. own' \in [Desc -> BOOLEAN] /\ hw' \in Desc
    BY <1>12, StepType DEF DmaReceive
  <2>. QED BY <1>12, <2>0, <2>1, <2>2 DEF DmaReceive, owners
<1>13. CASE BusError
  BY <1>13 DEF BusError, ring, dma, owners
<1>14. CASE UNCHANGED vars
  BY <1>14 DEF vars, ring, dma, owners
<1>. QED
  BY <1>1, <1>2, <1>3, <1>4, <1>5, <1>6, <1>7, <1>8, <1>9, <1>10, <1>11, <1>12, <1>13,
     <1>14 DEF Next, MainLoop

(* Every variable of reception stays in its type, whatever frames come and  *)
(* whatever the link does (TypeOK).                                         *)
THEOREM EthTypeCorrect == Spec => []TypeOK
<1>1. Init => TypeOK /\ ControlInv
  BY InitTypes
<1>2. TypeOK /\ ControlInv /\ [Next]_vars => (TypeOK /\ ControlInv)'
  BY NextTypes
<1>. QED BY <1>1, <1>2, PTL DEF Spec
-----------------------------------------------------------------------------
(* The partition of the buffers.                                            *)
LEMMA HeldAdd ==
    ASSUME TypeOK, TypeOK', NEW i \in Desc, NEW b \in Buffers,
           buf' = [buf EXCEPT ![i] = b], buf[i] \in {None, b}
    PROVE  Held' = Held \cup {b}
<1>1. \A j \in Desc : buf'[j] = IF j = i THEN b ELSE buf[j]
  BY DEF TypeOK
<1>2. b # None
  BY NoneAssumption
<1>3. Held' \subseteq Held \cup {b}
  BY <1>1 DEF Held
<1>4. Held \cup {b} \subseteq Held'
  <2>1. b \in Held'
    BY <1>1, <1>2 DEF Held
  <2>2. ASSUME NEW c \in Held PROVE c \in Held'
    <3>1. PICK j \in Desc : buf[j] = c /\ c # None
      BY DEF Held
    <3>2. buf'[j] = c
      BY <1>1, <3>1
    <3>. QED BY <3>1, <3>2 DEF Held
  <2>. QED BY <2>1, <2>2
<1>. QED BY <1>3, <1>4

LEMMA HeldDrop ==
    ASSUME TypeOK, Partition, NEW i \in Desc, buf[i] # None,
           buf' = [buf EXCEPT ![i] = None]
    PROVE  Held' = Held \ {buf[i]}
<1>1. \A j \in Desc : buf'[j] = IF j = i THEN None ELSE buf[j]
  BY DEF TypeOK
<1>2. \A j \in Desc : j # i => buf[j] # buf[i]
  BY DEF Partition
<1>3. Held' \subseteq Held \ {buf[i]}
  BY <1>1, <1>2 DEF Held
<1>4. ASSUME NEW c \in Held, c # buf[i] PROVE c \in Held'
  <2>1. PICK j \in Desc : buf[j] = c /\ c # None
    BY DEF Held
  <2>2. buf'[j] = c
    BY <1>1, <1>4, <2>1
  <2>. QED BY <2>1, <2>2 DEF Held
<1>. QED BY <1>3, <1>4

(* All buffers cannot hang in fewer than RxDescCnt descriptors.             *)
LEMMA BuffersLeft ==
    ASSUME TypeOK, NEW n \in 0 .. RxDescCnt - 1,
           \A i \in Desc : i >= n => buf[i] = None
    PROVE  Held # Buffers
<1> DEFINE D == {i \in Desc : buf[i] # None}
           F == [i \in D |-> buf[i]]
<1>1. D \subseteq 0 .. n - 1
  BY DescAssumption DEF Desc
<1>2. IsFiniteSet(0 .. n - 1) /\ Cardinality(0 .. n - 1) = n
  BY DescAssumption, FS_Interval
<1>3. IsFiniteSet(D) /\ Cardinality(D) <= n
  BY <1>1, <1>2, FS_Subset
<1>4. F \in Surjection(D, Held)
  <2>1. F \in [D -> Held]
    BY DEF Held
  <2>2. \A c \in Held : \E i \in D : F[i] = c
    BY DEF Held
  <2>. QED BY <2>1, <2>2, Zenon DEF Surjection
<1>5. Cardinality(Held) <= Cardinality(D) /\ IsFiniteSet(Held)
  <2>. HIDE DEF D, F
  <2>. QED BY <1>3, <1>4, FS_Surjection
<1>6. Cardinality(D) \in Nat /\ Cardinality(Held) \in Nat /\ Cardinality(Buffers) \in Nat
  BY <1>3, <1>5, BufferAssumption, FS_CardinalityType
<1>. QED
  <2>. HIDE DEF D, F
  <2>. QED BY <1>3, <1>5, <1>6, BufferAssumption, DescAssumption

-----------------------------------------------------------------------------
(* One lemma for each action that disturbs the ring or its owners.          *)
LEMMA InitRing == ASSUME Init PROVE RingInv
<1>1. Held = {}
  BY DEF Init, Held
<1>2. Partition
  BY <1>1, NoneAssumption DEF Init, Partition
<1>3. Attached /\ Fresh
  BY DEF Init, Attached, Fresh
<1>. QED BY <1>2, <1>3 DEF RingInv

LEMMA ReadFrameRing ==
    ASSUME TypeOK, ControlInv, RingInv, ReadFrame
    PROVE  RingInv'
<1>1. Partition /\ Attached /\ BuildsNext /\ BuiltHaveBuffers /\ Waiting
  BY DEF RingInv, ReadFrame, MayRead, Fresh
<1>2. rd \in Desc /\ cnt \in 0 .. RxDescCnt - 1 /\ bld \in Desc
  BY DescAssumption DEF TypeOK, ReadFrame, FrameReady
<1>3. buf[rd] # None /\ addr[rd] = buf[rd]
  BY <1>1, <1>2, DistType, DescAssumption DEF Built, BuiltHaveBuffers, Attached
<1>4. \A i \in Desc : buf'[i] = IF i = rd THEN None ELSE buf[i]
  BY <1>2 DEF TypeOK, ReadFrame
<1>5. Held' = Held \ {buf[rd]}
  BY <1>1, <1>2, <1>3, HeldDrop DEF ReadFrame
<1>6. hand = None /\ hand' = buf[rd] /\ pool' = pool /\ stack' = stack
  BY <1>3 DEF ReadFrame, ControlInv
<1>7. buf[rd] \in Held
  BY <1>2, <1>3 DEF Held
<1>8. Partition'
  <2>1. \A i, j \in Desc : buf'[i] # None /\ buf'[i] = buf'[j] => i = j
    BY <1>1, <1>4 DEF Partition
  <2>2. /\ pool \cap stack = {} /\ pool \cap Held = {} /\ stack \cap Held = {}
        /\ pool \cup stack \cup Held = Buffers
    BY <1>1, <1>6 DEF Partition
  <2>. QED BY <1>3, <1>5, <1>6, <1>7, <2>1, <2>2 DEF Partition
<1>9. Attached'
  BY <1>1, <1>4 DEF Attached, ReadFrame
<1>10. \A i \in Desc : Built(i)' <=> Built(i) /\ i # rd
  BY <1>2, DistFromNext, DistType, DescAssumption DEF Built, ReadFrame
<1>11. BuildsNext'
  <2>1. Dist(Step(rd), bld) = RxDescCnt - (cnt + 1)
    BY <1>1, <1>2, DistFromNext, DistType, DescAssumption DEF BuildsNext
  <2>. QED BY <1>2, <2>1 DEF BuildsNext, ReadFrame
<1>12. BuiltHaveBuffers'
  BY <1>1, <1>4, <1>10 DEF BuiltHaveBuffers
<1>13. Waiting'
  BY <1>1, <1>4, <1>10 DEF Waiting, ReadFrame, FrameReady
<1>14. pc' # "start"
  BY DEF ReadFrame
<1>. QED BY <1>8, <1>9, <1>11, <1>12, <1>13, <1>14 DEF RingInv

LEMMA GiveBackRing ==
    ASSUME TypeOK, TypeOK', RingInv, NEW b \in Buffers, GiveBack(b)
    PROVE  RingInv'
<1>1. Partition /\ Attached /\ BuildsNext /\ BuiltHaveBuffers
  BY DEF RingInv, GiveBack, Building, Fresh
<1>2. rd \in Desc /\ cnt \in 1 .. RxDescCnt /\ bld \in Desc /\ b # None
  BY DescAssumption, NoneAssumption DEF TypeOK, GiveBack, Building
<1>3. IF buf[bld] # None THEN b = buf[bld] ELSE b \in pool
  BY DEF GiveBack
<1>4. \A i \in Desc : buf'[i] = IF i = bld THEN b ELSE buf[i]
  BY <1>2 DEF TypeOK, GiveBack
<1>5. Held' = Held \cup {b}
  BY <1>2, <1>3, HeldAdd DEF GiveBack
<1>6. hand' = hand /\ pool' = pool \ {b} /\ stack' = stack
  BY DEF GiveBack
<1>7. b \in pool \/ b \in Held
  BY <1>2, <1>3 DEF Held
<1>8. \A i \in Desc : buf[i] = b => i = bld
  <2>1. \A i \in Desc : buf[i] = b => b \in Held
    BY <1>2 DEF Held
  <2>. QED BY <1>1, <1>2, <1>3, <2>1 DEF Partition
<1>9. Partition'
  <2>1. \A i, j \in Desc : buf'[i] # None /\ buf'[i] = buf'[j] => i = j
    BY <1>1, <1>4, <1>8 DEF Partition
  <2>2. /\ pool \cap stack = {} /\ pool \cap Held = {} /\ stack \cap Held = {}
        /\ hand \notin pool \cup stack \cup Held
        /\ pool \cup stack \cup Held \cup ({hand} \ {None}) = Buffers
    BY <1>1 DEF Partition
  <2>3. /\ pool' \cap stack' = {} /\ pool' \cap Held' = {} /\ stack' \cap Held' = {}
        /\ hand' \notin pool' \cup stack' \cup Held'
        /\ pool' \cup stack' \cup Held' \cup ({hand'} \ {None}) = Buffers
    BY <1>5, <1>6, <1>7, <2>2
  <2>. QED BY <2>1, <2>3 DEF Partition
<1>10. Attached'
  <2>1. \A i \in Desc : addr'[i] = IF i = bld /\ buf[bld] = None THEN b ELSE addr[i]
    BY <1>2 DEF TypeOK, GiveBack
  <2>. QED BY <1>1, <1>3, <1>4, <2>1 DEF Attached
<1>11. Dist(rd, bld) = RxDescCnt - cnt
  BY <1>1, <1>2 DEF BuildsNext
<1>12. \A i \in Desc : Built(i)' <=> Built(i) \/ i = bld
  <2>1. \A i \in Desc : Dist(rd, i) = Dist(rd, bld) <=> i = bld
    BY <1>2, DistInjective
  <2>. QED BY <1>2, <1>11, <2>1, DistType, DescAssumption DEF Built, GiveBack
<1>13. BuildsNext'
  <2>1. IF cnt = 1 THEN Step(bld) = rd
                   ELSE Dist(rd, Step(bld)) = RxDescCnt - (cnt - 1)
    BY <1>2, <1>11, DistToNext, DescAssumption
  <2>. QED BY <1>2, <2>1 DEF BuildsNext, GiveBack
<1>14. BuiltHaveBuffers'
  BY <1>1, <1>2, <1>4, <1>12 DEF BuiltHaveBuffers
<1>15. Waiting => Waiting'
  <2>1. \A i \in Desc : i # bld => own'[i] = own[i]
    BY <1>2 DEF TypeOK, GiveBack
  <2>. QED BY <1>4, <1>12, <2>1 DEF Waiting
<1>16. Starting => Starting'
  <2>1. rd' = rd /\ stack' = stack /\ hand' = hand
    BY DEF GiveBack
  <2>. QED BY <1>2, <1>4, <1>12, <1>15, <2>1 DEF Starting
<1>17. pc' = pc
  BY DEF GiveBack
<1>18. ~Fresh
  BY DEF Fresh, GiveBack, Building
<1>. QED BY <1>9, <1>10, <1>13, <1>14, <1>15, <1>16, <1>17, <1>18 DEF RingInv

LEMMA BuildEndsRing ==
    ASSUME TypeOK, RingInv, BuildEnds
    PROVE  RingInv'
<1>1. Partition /\ Attached /\ BuildsNext /\ BuiltHaveBuffers
  BY DEF RingInv, BuildEnds, Fresh
<1>2. rd \in Desc /\ cnt \in 0 .. RxDescCnt /\ bld \in Desc
  BY DEF TypeOK
<1>3. Waiting
  <2>1. CASE cnt = 0
    <3>1. \A i \in Desc : Built(i)
      BY <1>2, <2>1, DistType, DescAssumption DEF Built
    <3>. QED BY <3>1 DEF Waiting
  <2>2. CASE pc = "start" /\ Starved
    <3>1. ~Built(bld) /\ buf[bld] = None /\ pool = {}
      BY <1>1, <1>2, <2>2, DistType, DescAssumption DEF Starved, BuildsNext, Built
    <3>2. Starting
      BY <2>2 DEF RingInv, Fresh
    <3>3. SUFFICES ASSUME rd = 0, stack = {}, hand = None,
                          \A i \in Desc : ~Built(i) => buf[i] = None
                   PROVE  FALSE
      BY <1>2, <3>1, <3>2 DEF Starting
    <3>4. Held = Buffers
      BY <1>1, <3>1, <3>3 DEF Partition
    <3>5. \A i \in Desc : i >= RxDescCnt - cnt => buf[i] = None
      BY <1>2, <3>3, DescAssumption DEF Built, Dist, Desc
    <3>6. RxDescCnt - cnt \in 0 .. RxDescCnt - 1
      BY <1>2, <2>2, DescAssumption DEF Starved
    <3>. QED BY <3>4, <3>5, <3>6, BuffersLeft
  <2>3. CASE pc # "start"
    BY <2>3 DEF RingInv, BuildEnds, Fresh
  <2>. QED BY <2>1, <2>2, <2>3 DEF BuildEnds
<1>4. UNCHANGED <<own, buf, addr, rd, bld, cnt, pool, stack, hand>>
  BY DEF BuildEnds, ring, owners
<1>5. pc' # "start"
  BY DEF BuildEnds
<1>6. Partition' /\ Attached'
  BY <1>1, <1>4 DEF Partition, Attached, Held
<1>7. BuildsNext' /\ BuiltHaveBuffers' /\ Waiting'
  BY <1>1, <1>3, <1>4 DEF BuildsNext, BuiltHaveBuffers, Waiting, Built
<1>. QED BY <1>5, <1>6, <1>7 DEF RingInv

(* Buffers that move between the hand, LwIP and the pool.                   *)
LEMMA FreeingRing ==
    ASSUME TypeOK, RingInv, NEW s, ~Fresh, pc # "start", pc' # "start",
           s \subseteq stack \cup ({hand} \ {None}),
           pool' = pool \cup s,
           stack' = (stack \cup ({hand} \ {None})) \ s,
           hand' = None, UNCHANGED <<own, buf, addr, rd, bld, cnt>>
    PROVE  RingInv'
<1>1. Partition /\ Attached /\ BuildsNext /\ BuiltHaveBuffers /\ Waiting
  BY DEF RingInv
<1>2. Held' = Held /\ None \notin Held
  BY DEF Held
<1>3. None \notin pool \cup stack
  BY NoneAssumption DEF TypeOK
<1>4. Partition'
  <2>1. /\ pool \cap stack = {} /\ pool \cap Held = {} /\ stack \cap Held = {}
        /\ hand \notin pool \cup stack \cup Held
        /\ pool \cup stack \cup Held \cup ({hand} \ {None}) = Buffers
    BY <1>1 DEF Partition
  <2>2. \A i, j \in Desc : buf'[i] # None /\ buf'[i] = buf'[j] => i = j
    BY <1>1 DEF Partition
  <2>3. /\ pool' \cap stack' = {} /\ pool' \cap Held' = {} /\ stack' \cap Held' = {}
        /\ hand' \notin pool' \cup stack' \cup Held'
        /\ pool' \cup stack' \cup Held' \cup ({hand'} \ {None}) = Buffers
    BY <1>2, <1>3, <2>1
  <2>. QED BY <2>2, <2>3 DEF Partition
<1>5. Attached' /\ BuildsNext' /\ BuiltHaveBuffers' /\ Waiting'
  BY <1>1 DEF Attached, BuildsNext, BuiltHaveBuffers, Waiting, Built
<1>. QED BY <1>4, <1>5 DEF RingInv

LEMMA LinkUpRing ==
    ASSUME TypeOK, ControlInv, RingInv, LinkUp, inStep'
    PROVE  RingInv'
<1>1. Partition /\ Attached
  BY DEF RingInv
<1>2. bld = rd /\ cnt' = RxDescCnt /\ pc' = "start" /\ pc = "link"
      /\ UNCHANGED <<own, buf, addr, rd, bld, pool, stack, hand>>
  BY DEF LinkUp, owners
<1>3. rd \in Desc /\ cnt \in 0 .. RxDescCnt
  BY DEF TypeOK
<1>4. \A i \in Desc : ~Built(i)'
  BY <1>2, <1>3, DistType, DescAssumption DEF Built
<1>5. Partition' /\ Attached'
  BY <1>1, <1>2 DEF Partition, Attached, Held
<1>6. BuildsNext' /\ BuiltHaveBuffers'
  BY <1>2, <1>3, <1>4, DistType, DescAssumption DEF BuildsNext, BuiltHaveBuffers
<1>7. Starting'
  <2>1. CASE Fresh
    BY <1>2, <2>1 DEF Fresh, Starting
  <2>2. CASE ~Fresh /\ cnt = 0
    <3>1. BuiltHaveBuffers
      BY <2>2 DEF RingInv
    <3>2. \A i \in Desc : Built(i)
      BY <1>3, <2>2, DistType, DescAssumption DEF Built
    <3>3. \A i \in Desc : buf'[i] # None
      BY <1>2, <3>1, <3>2 DEF BuiltHaveBuffers
    <3>. QED BY <3>3 DEF Starting
  <2>3. CASE ~Fresh /\ cnt # 0
    <3>1. BuildsNext /\ Waiting
      BY <1>2, <2>3 DEF RingInv
    <3>2. cnt = RxDescCnt
      BY <1>2, <1>3, <2>3, <3>1, DistType, DescAssumption DEF BuildsNext
    <3>3. \A i \in Desc : ~Built(i)
      BY <1>3, <3>2, DistType, DescAssumption DEF Built
    <3>4. Waiting'
      BY <1>2, <3>1, <3>3 DEF Waiting
    <3>. QED BY <3>4 DEF Starting
  <2>. QED BY <2>1, <2>2, <2>3
<1>. QED BY <1>2, <1>5, <1>6, <1>7 DEF RingInv

LEMMA DmaReceiveRing ==
    ASSUME TypeOK, ControlInv, RingInv, DmaReceive
    PROVE  RingInv'
<1>1. Partition /\ Attached /\ BuildsNext /\ BuiltHaveBuffers /\ Waiting
  BY DEF RingInv, DmaReceive, Fresh, ControlInv
<1>2. UNCHANGED <<buf, addr, rd, bld, cnt, pool, stack, hand, pc>>
  BY DEF DmaReceive, owners
<1>3. \A i \in Desc : own'[i] => own[i]
  BY DEF TypeOK, DmaReceive
<1>4. Partition' /\ Attached'
  BY <1>1, <1>2 DEF Partition, Attached, Held
<1>5. BuildsNext' /\ BuiltHaveBuffers'
  BY <1>1, <1>2 DEF BuildsNext, BuiltHaveBuffers, Built
<1>6. Waiting'
  BY <1>1, <1>2, <1>3 DEF Waiting, Built
<1>7. pc' # "start"
  BY <1>2 DEF DmaReceive, ControlInv
<1>. QED BY <1>4, <1>5, <1>6, <1>7 DEF RingInv

(* A step that moves neither descriptors nor buffers.                       *)
LEMMA SameRing ==
    ASSUME RingInv, UNCHANGED <<own, buf, addr, rd, bld, cnt, pool, stack, hand>>,
           pc # "start" \/ pc' = "start", pc' = "start" => pc = "start",
           Fresh => Fresh'
    PROVE  RingInv'
<1>1. Partition' /\ Attached'
  BY DEF RingInv, Partition, Attached, Held
<1>2. CASE Fresh
  BY <1>1, <1>2 DEF RingInv
<1>3. CASE ~Fresh
  <2>1. BuildsNext' /\ BuiltHaveBuffers'
    BY <1>3 DEF RingInv, BuildsNext, BuiltHaveBuffers, Built
  <2>2. CASE pc = "start"
    BY <1>1, <1>3, <2>1, <2>2 DEF RingInv, Starting, Waiting, Built
  <2>3. CASE pc # "start"
    BY <1>1, <1>3, <2>1, <2>3 DEF RingInv, Waiting, Built
  <2>. QED BY <2>2, <2>3
<1>. QED BY <1>2, <1>3

LEMMA NextRing ==
    ASSUME TypeOK, TypeOK', ControlInv, RingInv, [Next]_vars, inStep'
    PROVE  RingInv'
<1>1. CASE ReadFrame
  BY <1>1, ReadFrameRing
<1>2. CASE ReadNothing
  BY <1>2, SameRing DEF ReadNothing, MayRead, Fresh, ring, owners
<1>3. ASSUME NEW b \in Buffers, GiveBack(b) PROVE RingInv'
  BY <1>3, GiveBackRing
<1>4. CASE BuildEnds
  BY <1>4, BuildEndsRing
<1>5. CASE Deliver
  <2>1. hand # None /\ pc = "deliver" /\ pc' = "input" /\ ~Fresh
    BY <1>5 DEF Deliver, ControlInv, Fresh
  <2>2. PICK s \in SUBSET (stack \cup {hand}) :
            pool' = pool \cup s /\ stack' = (stack \cup {hand}) \ s
    BY <1>5 DEF Deliver, Freed
  <2>3. hand' = None /\ UNCHANGED <<own, buf, addr, rd, bld, cnt>>
    BY <1>5 DEF Deliver, ring
  <2>. QED BY <2>1, <2>2, <2>3, FreeingRing
<1>6. CASE Release
  <2>1. hand = None /\ pc = "timers" /\ pc' = "timers"
    BY <1>6 DEF Release, ControlInv
  <2>2. PICK s \in SUBSET stack :
            s # {} /\ pool' = pool \cup s /\ stack' = stack \ s
    BY <1>6 DEF Release, Freed
  <2>3. hand' = None /\ UNCHANGED <<own, buf, addr, rd, bld, cnt>>
    BY <1>6, <2>1 DEF Release, ring
  <2>4. ~Fresh
    BY <2>2 DEF Fresh
  <2>. QED BY <2>1, <2>2, <2>3, <2>4, FreeingRing
<1>7. CASE TimersDone
  BY <1>7, SameRing DEF TimersDone, Fresh, ring, owners
<1>8. CASE LinkDown
  BY <1>8, SameRing DEF LinkDown, Fresh, ring, owners
<1>9. CASE LinkUp
  BY <1>9, LinkUpRing
<1>10. CASE LinkUpRefused
  BY <1>10, SameRing DEF LinkUpRefused, Fresh, ring, owners
<1>11. CASE LinkSame
  BY <1>11, SameRing DEF LinkSame, Fresh, ring, owners
<1>12. CASE DmaReceive
  BY <1>12, DmaReceiveRing
<1>13. CASE BusError
  BY <1>13, SameRing DEF BusError, Fresh, ring, owners
<1>14. CASE UNCHANGED vars
  BY <1>14, SameRing DEF vars, Fresh, ring, owners
<1>. QED
  BY <1>1, <1>2, <1>3, <1>4, <1>5, <1>6, <1>7, <1>8, <1>9, <1>10, <1>11, <1>12, <1>13,
     <1>14 DEF Next, MainLoop

(* No step puts the ring back in step.                                      *)
LEMMA StaysOutOfStep == ASSUME [Next]_vars, inStep' PROVE inStep
  BY DEF Next, MainLoop, ReadFrame, ReadNothing, GiveBack, BuildEnds, Deliver, Release,
         TimersDone, LinkDown, LinkUp, LinkUpRefused, LinkSame, DmaReceive, BusError, vars

LEMMA RingOwners == ASSUME IInv PROVE OneOwner
<1> SUFFICES ASSUME inStep PROVE OneOwner
  BY DEF OneOwner
<1>1. RingInv /\ Partition
  BY DEF IInv, RingInv
<1>2. ASSUME mac = "started", NEW i \in Desc, own[i]
      PROVE  addr[i] = buf[i] /\ buf[i] # None
  <2>1. pc # "start" /\ ~Fresh
    BY <1>2 DEF IInv, ControlInv, Fresh
  <2>2. Built(i) /\ buf[i] # None
    BY <1>1, <1>2, <2>1 DEF RingInv, Waiting, BuiltHaveBuffers
  <2>. QED BY <1>1, <2>2 DEF RingInv, Attached
<1>. QED BY <1>1, <1>2 DEF OneOwner, Partition

(* While every start has found the ring in step, a receive buffer is in     *)
(* exactly one place, and the DMA writes to buffers of its own only         *)
(* (OneOwner: the zero-copy path of ethernetif.c).                          *)
THEOREM EthOneOwner == Spec => []OneOwner
<1>1. Init => IInv
  BY InitTypes, InitRing DEF IInv
<1>2. IInv /\ [Next]_vars => IInv'
  BY NextTypes, NextRing, StaysOutOfStep DEF IInv
<1>3. IInv => OneOwner
  BY RingOwners
<1>. QED BY <1>1, <1>2, <1>3, PTL DEF Spec

-----------------------------------------------------------------------------
(* The order of the frames.  Between the frame delivered last and the one    *)
(* the DMA writes next are the one in hand and the unread ones, which lie in *)
(* the ring in the order they came, from rd up to the descriptor the DMA is  *)
(* at.                                                                       *)
InHand == IF hand = None THEN 0 ELSE 1
Unread == arrived - (last + InHand)

FrameInv ==
    /\ Unread \in 0 .. RxDescCnt - cnt
    /\ IF Unread = RxDescCnt THEN hw = rd ELSE Dist(rd, hw) = Unread
    /\ hand # None => data[hand] = last + 1
    /\ \A i \in Desc : Built(i) =>
          IF Dist(rd, i) < Unread
          THEN ~own[i] /\ data[buf[i]] = last + InHand + 1 + Dist(rd, i)
          ELSE own[i]

LEMMA InitFrames == ASSUME Init PROVE FrameInv
<1>1. InHand = 0 /\ Unread = 0
  BY DEF Init, InHand, Unread
<1>2. rd \in Desc /\ hw = rd /\ cnt = 0
  BY DescAssumption DEF Init, Desc
<1>3. Dist(rd, hw) = 0 /\ \A i \in Desc : Dist(rd, i) \in 0 .. RxDescCnt - 1
  BY <1>2, DistType
<1>. QED BY <1>1, <1>2, <1>3, DescAssumption DEF Init, FrameInv

LEMMA ReadFrameFrames ==
    ASSUME TypeOK, ControlInv, RingInv, FrameInv, ReadFrame
    PROVE  FrameInv'
<1>1. Partition /\ Attached /\ BuiltHaveBuffers
  BY DEF RingInv, ReadFrame, MayRead, Fresh
<1>2. rd \in Desc /\ hw \in Desc /\ cnt \in 0 .. RxDescCnt - 1
  BY DescAssumption DEF TypeOK, ReadFrame, FrameReady
<1>3. /\ hand = None /\ hand' = addr[rd] /\ rd' = Step(rd) /\ cnt' = cnt + 1
      /\ UNCHANGED <<own, hw, data, arrived, last>> /\ ~own[rd]
  BY DEF ReadFrame, FrameReady, ControlInv, dma
<1>4. Dist(rd, rd) = 0 /\ Built(rd) /\ buf[rd] # None /\ addr[rd] = buf[rd]
  <2>1. Dist(rd, rd) = 0
    BY <1>2, DistType
  <2>2. Built(rd)
    BY <1>2, <2>1, DescAssumption DEF Built
  <2>. QED BY <1>1, <1>2, <2>1, <2>2 DEF BuiltHaveBuffers, Attached
<1>5. InHand = 0 /\ InHand' = 1
  BY <1>3, <1>4 DEF InHand
<1>6. Unread \in 1 .. RxDescCnt - cnt /\ Unread' = Unread - 1 /\ data[buf[rd]] = last + 1
  <2>1. arrived \in Nat /\ last \in Nat /\ Unread \in 0 .. RxDescCnt - cnt
    BY DEF TypeOK, FrameInv
  <2>2. 0 < Unread /\ data[buf[rd]] = last + InHand + 1 + 0
    BY <1>2, <1>3, <1>4, <2>1 DEF FrameInv
  <2>3. Unread' = Unread - 1
    BY <1>3, <1>5, <2>1 DEF Unread
  <2>. QED BY <1>2, <1>5, <2>1, <2>2, <2>3, DescAssumption
<1>7. \A i \in Desc : /\ Dist(rd, i) \in 0 .. RxDescCnt - 1 /\ (Dist(rd, i) = 0 <=> i = rd)
                      /\ Dist(Step(rd), i) = IF i = rd THEN RxDescCnt - 1 ELSE Dist(rd, i) - 1
  BY <1>2, DistType, DistFromNext
<1>8. Unread' \in 0 .. RxDescCnt - cnt'
  BY <1>2, <1>3, <1>6, DescAssumption
<1>9. IF Unread' = RxDescCnt THEN hw' = rd' ELSE Dist(rd, hw)' = Unread'
  <2>1. IF Unread = RxDescCnt THEN hw = rd ELSE Dist(rd, hw) = Unread
    BY DEF FrameInv
  <2>2. Dist(rd, hw)' = Dist(Step(rd), hw)
    BY <1>3 DEF Dist
  <2>3. Dist(Step(rd), hw) = IF hw = rd THEN RxDescCnt - 1 ELSE Dist(rd, hw) - 1
    BY <1>2, <1>7
  <2>. QED BY <1>2, <1>6, <1>7, <2>1, <2>2, <2>3, DescAssumption
<1>10. hand' # None => data'[hand'] = last' + 1
  BY <1>3, <1>4, <1>6
<1>11. ASSUME NEW i \in Desc, Built(i)'
       PROVE  IF Dist(rd, i)' < Unread'
              THEN ~own'[i] /\ data'[buf'[i]] = last' + InHand' + 1 + Dist(rd, i)'
              ELSE own'[i]
  <2>1. Dist(rd, i)' = Dist(Step(rd), i)
    BY <1>3 DEF Dist
  <2>2. Dist(rd, i)' < RxDescCnt - cnt'
    BY <1>11 DEF Built
  <2>3. i # rd /\ Dist(rd, i)' = Dist(rd, i) - 1 /\ Dist(rd, i) < RxDescCnt - cnt
    BY <1>2, <1>3, <1>7, <2>1, <2>2, DescAssumption
  <2>4. buf'[i] = buf[i]
    BY <2>3 DEF TypeOK, ReadFrame
  <2>5. IF Dist(rd, i) < Unread
        THEN ~own[i] /\ data[buf[i]] = last + 1 + Dist(rd, i)
        ELSE own[i]
    <3>1. IF Dist(rd, i) < Unread
          THEN ~own[i] /\ data[buf[i]] = last + InHand + 1 + Dist(rd, i)
          ELSE own[i]
      BY <2>3 DEF FrameInv, Built
    <3>. QED BY <1>5, <3>1 DEF TypeOK
  <2>6. Dist(rd, i)' < Unread' <=> Dist(rd, i) < Unread
    BY <1>2, <1>6, <1>7, <2>3, DescAssumption
  <2>7. last' + InHand' + 1 + Dist(rd, i)' = last + 1 + Dist(rd, i)
    BY <1>3, <1>5, <1>7, <2>3 DEF TypeOK
  <2>. QED BY <1>3, <2>4, <2>5, <2>6, <2>7
<1>. QED BY <1>8, <1>9, <1>10, <1>11 DEF FrameInv

LEMMA GiveBackFrames ==
    ASSUME TypeOK, RingInv, FrameInv, NEW b \in Buffers, GiveBack(b)
    PROVE  FrameInv'
<1>1. BuildsNext
  BY DEF RingInv, GiveBack, Building, Fresh
<1>2. rd \in Desc /\ bld \in Desc /\ cnt \in 1 .. RxDescCnt
  BY DescAssumption DEF TypeOK, GiveBack, Building
<1>3. /\ cnt' = cnt - 1 /\ own' = [own EXCEPT ![bld] = TRUE] /\ buf' = [buf EXCEPT ![bld] = b]
      /\ UNCHANGED <<rd, hw, data, arrived, hand, last>>
  BY DEF GiveBack, dma
<1>4. Dist(rd, bld) = RxDescCnt - cnt
  BY <1>1, <1>2 DEF BuildsNext
<1>5. InHand' = InHand /\ Unread' = Unread /\ \A i : Dist(rd, i)' = Dist(rd, i)
  BY <1>3 DEF InHand, Unread, Dist
<1>6. Unread \in 0 .. RxDescCnt - cnt
  BY DEF FrameInv
<1>7. ASSUME NEW i \in Desc, Dist(rd, i) < RxDescCnt - (cnt - 1)
      PROVE  IF Dist(rd, i) < Unread
             THEN ~own'[i] /\ data[buf'[i]] = last + InHand + 1 + Dist(rd, i)
             ELSE own'[i]
  <2>1. Dist(rd, i) \in 0 .. RxDescCnt - 1
    BY <1>2, DistType
  <2>2. CASE i = bld
    <3>1. own'[i] /\ ~(Dist(rd, i) < Unread)
      BY <1>2, <1>3, <1>4, <1>6, <2>2, DescAssumption DEF TypeOK
    <3>. QED BY <3>1
  <2>3. CASE i # bld
    <3>1. own'[i] = own[i] /\ buf'[i] = buf[i]
      BY <1>2, <1>3, <2>3 DEF TypeOK
    <3>2. Dist(rd, i) # Dist(rd, bld)
      BY <1>2, <2>3, DistInjective
    <3>3. Built(i)
      BY <1>2, <1>4, <1>7, <2>1, <3>2, DescAssumption DEF Built
    <3>. QED BY <3>1, <3>3 DEF FrameInv
  <2>. QED BY <2>2, <2>3
<1>8. ASSUME NEW i \in Desc, Built(i)'
      PROVE  IF Dist(rd, i)' < Unread'
             THEN ~own'[i] /\ data'[buf'[i]] = last' + InHand' + 1 + Dist(rd, i)'
             ELSE own'[i]
  <2>1. Dist(rd, i) < RxDescCnt - (cnt - 1)
    BY <1>3, <1>5, <1>8 DEF Built
  <2>. QED BY <1>3, <1>5, <1>7, <2>1
<1>9. Unread' \in 0 .. RxDescCnt - cnt'
  BY <1>2, <1>3, <1>5, <1>6, DescAssumption
<1>10. IF Unread' = RxDescCnt THEN hw' = rd' ELSE Dist(rd, hw)' = Unread'
  BY <1>3, <1>5 DEF FrameInv, Dist
<1>11. hand' # None => data'[hand'] = last' + 1
  BY <1>3 DEF FrameInv
<1>. QED BY <1>8, <1>9, <1>10, <1>11 DEF FrameInv

LEMMA DeliverFrames ==
    ASSUME TypeOK, ControlInv, FrameInv, Deliver
    PROVE  FrameInv'
<1>1. hand # None /\ hand' = None /\ last' = last + 1
  BY DEF Deliver, ControlInv, FrameInv
<1>2. UNCHANGED <<own, buf, rd, cnt, hw, data, arrived>>
  BY DEF Deliver, ring, dma
<1>3. InHand = 1 /\ InHand' = 0
  BY <1>1 DEF InHand
<1>4. last' + InHand' = last + InHand /\ last \in Nat
  BY <1>1, <1>3 DEF TypeOK
<1>5. Unread' = Unread /\ \A i : Dist(rd, i)' = Dist(rd, i)
  BY <1>2, <1>4 DEF Unread, Dist
<1>6. Dist(rd, hw)' = Dist(rd, hw)
  BY <1>2 DEF Dist
<1>7. \A i \in Desc : Built(i)' <=> Built(i)
  BY <1>2, <1>5 DEF Built
<1>. QED BY <1>1, <1>2, <1>4, <1>5, <1>6, <1>7 DEF FrameInv

LEMMA DmaReceiveFrames ==
    ASSUME TypeOK, ControlInv, RingInv, FrameInv, DmaReceive
    PROVE  FrameInv'
<1>1. Partition /\ Attached /\ BuiltHaveBuffers /\ Waiting
  BY DEF RingInv, DmaReceive, Fresh, ControlInv
<1>2. rd \in Desc /\ hw \in Desc /\ cnt \in 0 .. RxDescCnt
  BY DEF TypeOK
<1>3. /\ own[hw] /\ data' = [data EXCEPT ![addr[hw]] = arrived + 1]
      /\ own' = [own EXCEPT ![hw] = FALSE] /\ hw' = Step(hw) /\ arrived' = arrived + 1
      /\ UNCHANGED <<buf, rd, cnt, hand, last>>
  BY DEF DmaReceive, owners
<1>4. Built(hw) /\ buf[hw] # None /\ addr[hw] = buf[hw] /\ buf[hw] \in Held
  BY <1>1, <1>2, <1>3 DEF Waiting, BuiltHaveBuffers, Attached, Held
<1>5. InHand' = InHand /\ \A i : Dist(rd, i)' = Dist(rd, i)
  BY <1>3 DEF InHand, Dist
<1>6. Unread' = Unread + 1 /\ Unread \in 0 .. RxDescCnt - cnt /\ arrived = last + InHand + Unread
  <2>1. arrived \in Nat /\ last \in Nat /\ InHand \in {0, 1}
    BY DEF TypeOK, InHand
  <2>. QED BY <1>3, <1>5, <2>1 DEF Unread, FrameInv
<1>7. Dist(rd, hw) = Unread /\ Unread < RxDescCnt - cnt
  <2>1. Dist(rd, rd) = 0 /\ Dist(rd, hw) < RxDescCnt - cnt
    BY <1>2, <1>4, DistType DEF Built
  <2>2. Unread # RxDescCnt
    <3>1. SUFFICES ASSUME Unread = RxDescCnt PROVE FALSE
      OBVIOUS
    <3>2. hw = rd /\ Dist(rd, hw) < Unread
      BY <1>2, <2>1, <3>1, DescAssumption DEF FrameInv
    <3>. QED BY <1>2, <1>3, <1>4, <3>2 DEF FrameInv
  <2>. QED BY <2>1, <2>2 DEF FrameInv
<1>8. \A c \in Buffers : c # buf[hw] => data'[c] = data[c]
  BY <1>3, <1>4 DEF TypeOK
<1>9. data'[buf[hw]] = arrived + 1
  <2>1. buf[hw] \in Buffers
    BY <1>2, <1>4 DEF TypeOK
  <2>. QED BY <1>3, <1>4, <2>1 DEF TypeOK
<1>10. Unread' \in 0 .. RxDescCnt - cnt'
  BY <1>2, <1>3, <1>6, <1>7, DescAssumption
<1>11. IF Unread' = RxDescCnt THEN hw' = rd' ELSE Dist(rd, hw)' = Unread'
  <2>1. IF Dist(rd, hw) = RxDescCnt - 1
        THEN Step(hw) = rd
        ELSE Dist(rd, Step(hw)) = Dist(rd, hw) + 1
    BY <1>2, DistToNext
  <2>2. Dist(rd, hw)' = Dist(rd, Step(hw))
    BY <1>3 DEF Dist
  <2>. QED BY <1>2, <1>3, <1>6, <1>7, <2>1, <2>2, DescAssumption
<1>12. hand' # None => data'[hand'] = last' + 1
  <2>1. hand # None => hand \in Buffers /\ hand # buf[hw]
    BY <1>1, <1>4 DEF TypeOK, Partition
  <2>. QED BY <1>3, <1>8, <2>1 DEF FrameInv
<1>13. ASSUME NEW i \in Desc, Built(i)'
       PROVE  IF Dist(rd, i)' < Unread'
              THEN ~own'[i] /\ data'[buf'[i]] = last' + InHand' + 1 + Dist(rd, i)'
              ELSE own'[i]
  <2>1. Built(i) /\ Dist(rd, i) \in 0 .. RxDescCnt - 1
    BY <1>2, <1>3, <1>5, <1>13, DistType DEF Built
  <2>2. CASE i = hw
    <3>1. ~own'[i] /\ data'[buf'[i]] = arrived + 1
      BY <1>2, <1>3, <1>9, <2>2 DEF TypeOK
    <3>2. Dist(rd, i)' = Unread /\ Unread < Unread'
      BY <1>5, <1>6, <1>7, <2>2
    <3>3. last' + InHand' + 1 + Dist(rd, i)' = arrived + 1
      <4>1. last \in Nat /\ InHand \in {0, 1} /\ Unread \in Nat
        BY <1>6 DEF TypeOK, InHand
      <4>. QED BY <1>3, <1>5, <1>6, <3>2, <4>1
    <3>. QED BY <3>1, <3>2, <3>3
  <2>3. CASE i # hw
    <3>1. own'[i] = own[i] /\ buf'[i] = buf[i]
      BY <1>3, <2>3 DEF TypeOK
    <3>2. buf[i] \in Buffers /\ buf[i] # buf[hw]
      BY <1>1, <1>2, <1>4, <2>1, <2>3 DEF TypeOK, BuiltHaveBuffers, Partition
    <3>3. Dist(rd, i) # Unread
      BY <1>2, <1>7, <2>3, DistInjective
    <3>4. Dist(rd, i)' < Unread' <=> Dist(rd, i) < Unread
      BY <1>5, <1>6, <2>1, <3>3
    <3>5. IF Dist(rd, i) < Unread
          THEN ~own[i] /\ data[buf[i]] = last + InHand + 1 + Dist(rd, i)
          ELSE own[i]
      BY <2>1 DEF FrameInv
    <3>. QED BY <1>3, <1>5, <1>8, <3>1, <3>2, <3>4, <3>5
  <2>. QED BY <2>2, <2>3
<1>. QED BY <1>10, <1>11, <1>12, <1>13 DEF FrameInv

(* A start gives up the frames not read, and finds the DMA at rd.            *)
LEMMA LinkUpFrames ==
    ASSUME TypeOK, ControlInv, LinkUp, inStep'
    PROVE  FrameInv'
<1>1. /\ hw = rd /\ cnt' = RxDescCnt /\ last' = arrived /\ hand' = None
      /\ UNCHANGED <<own, buf, rd, hw, data, arrived>>
  BY DEF LinkUp, ControlInv, dma, owners
<1>2. rd \in Desc /\ arrived \in Nat
  BY DEF TypeOK
<1>3. Unread' = 0 /\ InHand' = 0
  BY <1>1, <1>2 DEF Unread, InHand
<1>4. Dist(rd, hw)' = 0
  BY <1>1, <1>2 DEF Dist, Desc
<1>5. \A i \in Desc : ~Built(i)'
  <2>1. \A i \in Desc : Dist(rd, i)' = Dist(rd, i) /\ Dist(rd, i) \in 0 .. RxDescCnt - 1
    BY <1>1, <1>2, DistType DEF Dist
  <2>. QED BY <1>1, <2>1, DescAssumption DEF Built
<1>. QED BY <1>1, <1>3, <1>4, <1>5, DescAssumption DEF FrameInv

LEMMA SameFrames ==
    ASSUME FrameInv, UNCHANGED <<own, buf, rd, cnt, hw, data, arrived, hand, last>>
    PROVE  FrameInv'
BY DEF FrameInv, Unread, InHand, Built, Dist

LEMMA NextFrames ==
    ASSUME TypeOK, ControlInv, RingInv, FrameInv, [Next]_vars, inStep'
    PROVE  FrameInv'
<1>1. CASE ReadFrame
  BY <1>1, ReadFrameFrames
<1>2. ASSUME NEW b \in Buffers, GiveBack(b) PROVE FrameInv'
  BY <1>2, GiveBackFrames
<1>3. CASE Deliver
  BY <1>3, DeliverFrames
<1>4. CASE LinkUp
  BY <1>4, LinkUpFrames
<1>5. CASE DmaReceive
  BY <1>5, DmaReceiveFrames
<1>6. CASE \/ ReadNothing \/ BuildEnds \/ Release \/ TimersDone \/ LinkDown
           \/ LinkUpRefused \/ LinkSame \/ BusError \/ UNCHANGED vars
  <2>1. UNCHANGED <<own, buf, rd, cnt, hw, data, arrived, hand, last>>
    BY <1>6 DEF ReadNothing, BuildEnds, Release, TimersDone, LinkDown, LinkUpRefused, LinkSame,
           BusError, vars, ring, dma, owners
  <2>. QED BY <2>1, SameFrames
<1>. QED
  BY <1>1, <1>2, <1>3, <1>4, <1>5, <1>6 DEF Next, MainLoop

(* While every start has found the ring in step, the frame handed up is the  *)
(* one received next after the frame handed up before it, or given up by the *)
(* last start: none is skipped, repeated or overtaken, whatever the pool and *)
(* the link do (InOrder: HAL_ETH_ReadData(), ETH_UpdateDescriptor()).        *)
THEOREM EthInOrder == Spec => []InOrder
<1> DEFINE J == IInv /\ (inStep => FrameInv)
<1>1. Init => J
  BY InitTypes, InitRing, InitFrames DEF IInv
<1>2. J /\ [Next]_vars => J'
  <2> SUFFICES ASSUME J, [Next]_vars PROVE J'
    OBVIOUS
  <2>1. IInv'
    BY NextTypes, NextRing, StaysOutOfStep DEF IInv
  <2>2. inStep' => FrameInv'
    BY NextFrames, StaysOutOfStep DEF IInv
  <2>. QED BY <2>1, <2>2
<1>3. J => InOrder
  BY DEF IInv, ControlInv, FrameInv, InOrder
<1>. QED BY <1>1, <1>2, <1>3, PTL DEF Spec
=============================================================================
