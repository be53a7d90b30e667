---------------------------- MODULE Stepgen_proofs ----------------------------
(***************************************************************************)
(* Proofs about Stepgen, for any number of axes, any ring, guard and queue *)
(* and any latency of the interrupt.                                       *)
(***************************************************************************)
EXTENDS StepgenProps, TLAPS

(* What TypeOK says beyond the core and the port. *)
FacadeTypeOK ==
    /\ state \in States
    /\ ready \in [Half -> BOOLEAN]
    /\ mpc \in MainPC /\ ipc \in IsrPC
    /\ sent \in Nat /\ dropped \in Nat
    /\ origin \in [Axes -> Int]

LEMMA TypeParts == TypeOK <=> CoreTypeOK /\ PortTypeOK /\ FacadeTypeOK
  BY DEF TypeOK, FacadeTypeOK

LEMMA TypePartsNext == CoreTypeOK' /\ PortTypeOK' /\ FacadeTypeOK' => TypeOK'
  BY DEF TypeOK, FacadeTypeOK

LEMMA CoreTypeStutter == CoreTypeOK /\ UNCHANGED coreVars => CoreTypeOK'
  BY DEF CoreTypeOK, coreVars, positions, segments

LEMMA PortTypeStutter == PortTypeOK /\ UNCHANGED portVars => PortTypeOK'
  BY DEF PortTypeOK, portVars, dma, motion

LEMMA InitType == Init => TypeOK
<1> SUFFICES ASSUME Init PROVE CoreTypeOK /\ PortTypeOK /\ FacadeTypeOK
  BY TypeParts
<1> USE HalfTicksAssumption, RateAssumption, WrapAssumption, InvertAssumption,
        BoundAssumption, QueueDepthAssumption
<1>1. CoreTypeOK
  <2>1. 0 \in HalfIx /\ 0 \in Tick /\ 0 \in 0 .. PhaseMod - 1
    BY DEF HalfIx, Tick, PhaseMod
  <2>2. ax \in [Axes -> AxisState]
    BY <2>1 DEF Init, CoreInit, AxisState, Sign
  <2>3. ring \in [RingIx -> Word]
    BY DEF Init, CoreInit, Blank, IdleWord, Word, Sign
  <2>4. <<>> \in AtMostOne
    BY DEF AtMostOne
  <2>5. frame \in [Caller -> Frame]
    BY <2>1, <2>4 DEF Init, CoreInit, Frame, Half
  <2>7. staged \in [Half -> [Axes -> Int]]
    BY DEF Init, CoreInit, NoSteps
  <2>8. queue \in Seq(Segment)
    BY DEF Init, CoreInit
  <2>9. /\ fillHalf \in HalfIx /\ playHalf \in HalfIx
        /\ remaining \in 0 .. MaxDuration /\ stalled \in 0 .. 2 * HalfTicks
    BY <2>1 DEF Init, CoreInit
  <2>10. /\ posPlanned \in [Axes -> Int] /\ posOutput \in [Axes -> Int]
         /\ lastSeq \in Nat /\ faults = {}
    BY DEF Init, CoreInit
  <2>11. pending \in AtMostOne /\ segValid \in BOOLEAN /\ moving \in BOOLEAN
    BY <2>4 DEF Init, CoreInit
  <2>. QED
    BY <2>2, <2>3, <2>5, <2>7, <2>8, <2>9, <2>10, <2>11 DEF CoreTypeOK
<1>2. PortTypeOK
  <2>1. idx \in RingIx /\ FarPast \in 0 .. FarPast
    BY DEF Init, PortInit, RingIx, FarPast
  <2>2. /\ sinceDir \in [Axes -> 0 .. FarPast] /\ sinceStep \in [Axes -> 0 .. FarPast]
        /\ motor \in [Axes -> Int]
    BY <2>1 DEF Init, PortInit
  <2>3. running \in BOOLEAN /\ enable \in BOOLEAN /\ pin \in [Axes -> BOOLEAN]
    BY DEF Init, PortInit
  <2>4. flags \subseteq {"HT", "TC", "ERR"}
    BY DEF Init, PortInit
  <2>. QED BY <2>1, <2>2, <2>3, <2>4 DEF PortTypeOK
<1>3. FacadeTypeOK
  BY DEF Init, FacadeTypeOK, States, Half, MainPC, IsrPC
<1>. QED BY <1>1, <1>2, <1>3

---------------------------------------------------------------------------
(* Steps that change only the facade. *)
FacadeStep ==
    \/ EnableCheck \/ EnableReady \/ StartRun \/ StopCheck \/ StopReady
    \/ ClearEStopCheck \/ ClearEStopDemote \/ ClearCheck \/ ClearIdle
    \/ SubmitCheck \/ SubmitRefused
    \/ IsrDone \/ IsrFaultCheck \/ IsrFault

LEMMA FacadeStepType == TypeOK /\ FacadeStep => TypeOK'
<1> SUFFICES ASSUME TypeOK, FacadeStep PROVE TypeOK'
  OBVIOUS
<1>1. UNCHANGED coreVars /\ UNCHANGED portVars /\ UNCHANGED history
  BY DEF FacadeStep, EnableCheck, EnableReady, StartRun, StopCheck, StopReady,
         ClearEStopCheck, ClearEStopDemote, ClearCheck, ClearIdle, SubmitCheck,
         SubmitRefused, IsrDone, IsrFaultCheck, IsrFault, facade, history
<1>2. FacadeTypeOK'
  <2>1. state' \in States /\ mpc' \in MainPC /\ ipc' \in IsrPC
    BY TypeParts DEF FacadeTypeOK, FacadeStep, EnableCheck, EnableReady, StartRun, StopCheck, StopReady,
         ClearEStopCheck, ClearEStopDemote, ClearCheck, ClearIdle, SubmitCheck,
         SubmitRefused, IsrDone, IsrFaultCheck, IsrFault, facade, States, MainPC, IsrPC
  <2>2. ready' \in [Half -> BOOLEAN]
    BY TypeParts DEF FacadeTypeOK, FacadeStep, EnableCheck, EnableReady, StartRun, StopCheck, StopReady,
         ClearEStopCheck, ClearEStopDemote, ClearCheck, ClearIdle, SubmitCheck,
         SubmitRefused, IsrDone, IsrFaultCheck, IsrFault, facade
  <2>. QED BY <1>1, <2>1, <2>2, TypeParts DEF FacadeTypeOK, history
<1>. QED BY <1>1, <1>2, TypeParts, TypePartsNext, CoreTypeStutter, PortTypeStutter

---------------------------------------------------------------------------
(* Steps of the port that leave the core alone. *)
LEMMA PortStartType == PortTypeOK /\ PortStart => PortTypeOK'
  BY HalfTicksAssumption DEF PortTypeOK, PortStart, RingIx, FarPast

LEMMA PortStopType == PortTypeOK /\ PortStop => PortTypeOK'
  BY DEF PortTypeOK, PortStop, FlagsOfStop, motion

LEMMA PortEmergencyStopType == PortTypeOK /\ PortEmergencyStop => PortTypeOK'
  BY DEF PortTypeOK, PortEmergencyStop, FlagsOfStop, motion

LEMMA PortWriteDirType ==
    ASSUME NEW levels \in [Axes -> BOOLEAN], PortTypeOK, PortWriteDir(levels)
    PROVE  PortTypeOK'
<1>1. sinceDir' \in [Axes -> 0 .. FarPast]
  BY HalfTicksAssumption DEF PortTypeOK, PortWriteDir, FarPast
<1>. QED BY <1>1 DEF PortTypeOK, PortWriteDir, dma

LEMMA PlayWordType == PortTypeOK /\ PlayWord => PortTypeOK'
<1> SUFFICES ASSUME PortTypeOK, PlayWord PROVE PortTypeOK'
  OBVIOUS
<1> USE HalfTicksAssumption
<1>1. idx' \in RingIx
  BY DEF PortTypeOK, PlayWord, RingIx
<1>2. /\ sinceDir' \in [Axes -> 0 .. FarPast] /\ sinceStep' \in [Axes -> 0 .. FarPast]
  BY DEF PortTypeOK, PlayWord, Later, FarPast
<1>3. motor' \in [Axes -> Int]
  <2>1. \A a \in Axes : MotionOf(a, pin[a]) \in Int
    BY DEF MotionOf
  <2>. QED BY <2>1 DEF PortTypeOK, PlayWord
<1>4. flags' \subseteq {"HT", "TC", "ERR"}
  BY DEF PortTypeOK, PlayWord
<1>. QED BY <1>1, <1>2, <1>3, <1>4 DEF PortTypeOK, PlayWord

LEMMA DmaErrorType == PortTypeOK /\ DmaError => PortTypeOK'
  BY DEF PortTypeOK, DmaError, motion

PortStep == EnableDrives \/ StartPort \/ Stop \/ DmaTick \/ DmaFails

LEMMA PortStepType == TypeOK /\ PortStep => TypeOK'
<1> SUFFICES ASSUME TypeOK, PortStep PROVE TypeOK'
  OBVIOUS
<1>1. UNCHANGED coreVars
  BY DEF PortStep, EnableDrives, StartPort, Stop, DmaTick, DmaFails
<1>2. PortTypeOK'
  <2>1. CASE EnableDrives
    BY <2>1, TypeParts DEF EnableDrives, PortTypeOK, dma, motion
  <2>. QED
    BY <2>1, TypeParts, PortStartType, PortStopType, PlayWordType, DmaErrorType
       DEF PortStep, StartPort, Stop, DmaTick, DmaFails
<1>3. FacadeTypeOK'
  <2>1. CASE StartPort
    BY <2>1, TypeParts DEF StartPort, FacadeTypeOK, facade, PortTypeOK, CoreTypeOK, MainPC
  <2>. QED
    BY <2>1, TypeParts DEF PortStep, EnableDrives, Stop, DmaTick, DmaFails,
       FacadeTypeOK, facade, history, MainPC
<1>. QED BY <1>1, <1>2, <1>3, TypeParts, TypePartsNext, CoreTypeStutter

---------------------------------------------------------------------------
(* What the operators of the core return. *)
LEMMA Remainders ==
    /\ \A x \in Int : x % HalfMod \in HalfIx
    /\ \A x \in Int : x % TickMod \in Tick
    /\ \A x \in Int : x % PhaseMod \in 0 .. PhaseMod - 1
  BY WrapAssumption, RateAssumption DEF HalfIx, Tick, PhaseMod

LEMMA NextHalfType == \A h \in HalfIx : NextHalf(h) \in HalfIx
  BY Remainders DEF NextHalf, HalfIx

LEMMA HalfStartType == \A h \in HalfIx : HalfStart(h) \in Tick
  BY Remainders, HalfTicksAssumption DEF HalfStart, HalfIx

LEMMA BlankType == Blank \in [RingIx -> Word]
  BY DEF Blank, IdleWord, Word, Sign

LEMMA NoStepsType == NoSteps \in [Half -> [Axes -> Int]]
  BY DEF NoSteps

LEMMA AxisFields ==
    ASSUME NEW x \in AxisState
    PROVE  /\ \A b \in BOOLEAN : [x EXCEPT !.armed = b] \in AxisState
           /\ \A t \in Tick : [x EXCEPT !.blockUntil = t] \in AxisState
           /\ \A i \in 0 .. RateMax, g \in Sign : [x EXCEPT !.inc = i, !.dirSign = g] \in AxisState
           /\ \A l \in BOOLEAN : [x EXCEPT !.dirLevel = l, !.dirKnown = TRUE] \in AxisState
           /\ \A p \in 0 .. PhaseMod - 1 : [x EXCEPT !.phase = p] \in AxisState
           /\ \A l \in BOOLEAN, h \in HalfIx, t \in Tick :
                 [x EXCEPT !.armed = TRUE, !.armedLevel = l, !.armedHalf = h,
                           !.blockUntil = t] \in AxisState
  BY DEF AxisState

LEMMA RewoundType == CoreTypeOK => Rewound \in [Axes -> AxisState]
<1> SUFFICES ASSUME CoreTypeOK, NEW a \in Axes
             PROVE  [ax[a] EXCEPT !.blockUntil = 0, !.armed = FALSE] \in AxisState
  BY DEF Rewound
<1>1. ax[a] \in AxisState /\ 0 \in Tick
  BY WrapAssumption DEF CoreTypeOK, Tick
<1>. QED BY <1>1 DEF AxisState

LEMMA AfterTakeType ==
    ASSUME CoreTypeOK, NEW h
    PROVE  /\ AfterTake(h) \in [Axes -> AxisState]
           /\ DirWord(AfterTake(h)) \in [Axes -> BOOLEAN]
<1>1. ASSUME NEW a \in Axes
      PROVE  [ax[a] EXCEPT !.dirLevel = ax[a].armedLevel, !.dirKnown = TRUE,
                           !.armed = FALSE] \in AxisState
  BY ZenonT(60) DEF CoreTypeOK, AxisState
<1>2. AfterTake(h) \in [Axes -> AxisState]
  BY <1>1 DEF AfterTake, CoreTypeOK
<1>. QED BY <1>2 DEF DirWord, AxisState

LEMMA CommittedType ==
    ASSUME CoreTypeOK, NEW half \in Half
    PROVE  Committed(half) \in [Axes -> Int]
<1>1. posOutput \in [Axes -> Int] /\ staged[half] \in [Axes -> Int]
  BY DEF CoreTypeOK
<1>. QED BY <1>1 DEF Committed

LEMMA CoreAbortType ==
    ASSUME CoreTypeOK, NEW bits, bits \subseteq {"BUFFER_UNDERRUN"}, CoreAbort(bits)
    PROVE  CoreTypeOK'
<1>1. ax' \in [Axes -> AxisState]
  <2>1. ASSUME NEW a \in Axes
        PROVE  [ax[a] EXCEPT !.inc = 0, !.dirSign = 0, !.armed = FALSE] \in AxisState
    <3>1. ax[a] \in AxisState /\ 0 \in 0 .. RateMax /\ 0 \in Sign
      BY RateAssumption DEF CoreTypeOK, Sign
    <3>. QED BY <3>1 DEF AxisState
  <2>. QED BY <2>1 DEF CoreAbort
<1>2. ring' \in [RingIx -> Word] /\ staged' \in [Half -> [Axes -> Int]]
  BY BlankType, NoStepsType DEF CoreAbort
<1>3. /\ pending' \in AtMostOne /\ queue' \in Seq(Segment)
      /\ remaining' \in 0 .. MaxDuration /\ stalled' \in 0 .. 2 * HalfTicks
  <2>1. pending' = <<>> /\ queue' = <<>> /\ remaining' = 0 /\ stalled' = 0
    BY DEF CoreAbort
  <2>2. <<>> \in AtMostOne /\ <<>> \in Seq(Segment)
    BY DEF AtMostOne
  <2>. QED BY <2>1, <2>2, HalfTicksAssumption, BoundAssumption
<1>4. faults' \subseteq {"BUFFER_UNDERRUN", "SEGMENT_STARVED", "BAD_SEGMENT"}
  BY DEF CoreAbort, CoreTypeOK
<1>5. segValid' \in BOOLEAN /\ moving' \in BOOLEAN
  BY DEF CoreAbort
<1>. QED BY <1>1, <1>2, <1>3, <1>4, <1>5 DEF CoreAbort, CoreTypeOK

(* The frame and the staged counts when a half is begun. *)
LEMMA BeginFillType ==
    ASSUME CoreTypeOK, NEW c \in Caller, NEW half \in Half, NEW index \in HalfIx,
           BeginFill(c, half, index)
    PROVE  /\ frame' \in [Caller -> Frame] /\ fillHalf' \in HalfIx
           /\ staged' \in [Half -> [Axes -> Int]]
<1>1. [at |-> "loop", half |-> half, index |-> index, done |-> 0, incoming |-> <<>>] \in Frame
  BY HalfTicksAssumption DEF Frame, AtMostOne
<1>2. frame' \in [Caller -> Frame]
  BY <1>1 DEF BeginFill, CoreTypeOK
<1>3. staged' \in [Half -> [Axes -> Int]]
  BY DEF BeginFill, CoreTypeOK
<1>. QED BY <1>2, <1>3 DEF BeginFill

---------------------------------------------------------------------------
(* The steps of the calls and of the interrupt around the fill. *)
LEMMA StartFill0Type == TypeOK /\ StartFill0 => TypeOK'
<1> SUFFICES ASSUME TypeOK, StartFill0 PROVE TypeOK'
  OBVIOUS
<1>1. /\ ax' \in [Axes -> AxisState] /\ staged' \in [Half -> [Axes -> Int]]
      /\ playHalf' \in HalfIx /\ fillHalf' \in HalfIx
  BY TypeParts, RewoundType, NoStepsType, WrapAssumption DEF StartFill0, HalfIx
<1>2. frame' \in [Caller -> Frame]
  <2>1. [at |-> "loop", half |-> 0, index |-> 0, done |-> 0, incoming |-> <<>>] \in Frame
    BY HalfTicksAssumption, WrapAssumption DEF Frame, AtMostOne, HalfIx, Half
  <2>. QED BY <2>1, TypeParts DEF StartFill0, CoreTypeOK
<1>3. CoreTypeOK'
  BY <1>1, <1>2, TypeParts DEF StartFill0, CoreTypeOK, segments
<1>4. FacadeTypeOK' /\ UNCHANGED portVars
  BY TypeParts DEF StartFill0, FacadeTypeOK, facade, history, MainPC
<1>. QED BY <1>3, <1>4, TypeParts, TypePartsNext, PortTypeStutter

LEMMA StartFill1Type == TypeOK /\ StartFill1 => TypeOK'
<1> SUFFICES ASSUME TypeOK, StartFill1 PROVE TypeOK'
  OBVIOUS
<1>1. /\ frame' \in [Caller -> Frame] /\ fillHalf' \in HalfIx
      /\ staged' \in [Half -> [Axes -> Int]]
  <2>1. NextHalf(0) \in HalfIx /\ 1 \in Half /\ "main" \in Caller
    BY NextHalfType, WrapAssumption DEF HalfIx, Half, Caller
  <2>. QED BY <2>1, BeginFillType, TypeParts DEF StartFill1
<1>2. CoreTypeOK'
  BY <1>1, TypeParts DEF StartFill1, CoreTypeOK, segments
<1>3. FacadeTypeOK' /\ UNCHANGED portVars
  BY TypeParts DEF StartFill1, FacadeTypeOK, facade, history, MainPC
<1>. QED BY <1>2, <1>3, TypeParts, TypePartsNext, PortTypeStutter

LEMMA StartDirType == TypeOK /\ StartDir => TypeOK'
<1> SUFFICES ASSUME TypeOK, StartDir PROVE TypeOK'
  OBVIOUS
<1>1. ax' \in [Axes -> AxisState] /\ playHalf' \in HalfIx
  BY TypeParts, AfterTakeType, WrapAssumption DEF StartDir, HalfIx
<1>2. CoreTypeOK'
  BY <1>1, TypeParts DEF StartDir, CoreTypeOK, segments, positions
<1>3. PortTypeOK'
  BY TypeParts, AfterTakeType, PortWriteDirType, PortTypeStutter DEF StartDir
<1>4. FacadeTypeOK'
  BY TypeParts DEF StartDir, FacadeTypeOK, history, MainPC
<1>. QED BY <1>2, <1>3, <1>4, TypePartsNext

LEMMA StopAbortType == TypeOK /\ StopAbort => TypeOK'
<1> SUFFICES ASSUME TypeOK, StopAbort PROVE TypeOK'
  OBVIOUS
<1>1. CoreTypeOK'
  BY TypeParts, CoreAbortType DEF StopAbort
<1>2. FacadeTypeOK' /\ UNCHANGED portVars
  BY TypeParts DEF StopAbort, FacadeTypeOK, facade, MainPC
<1>. QED BY <1>1, <1>2, TypeParts, TypePartsNext, PortTypeStutter

LEMMA ClearRewindType == TypeOK /\ ClearRewind => TypeOK'
<1> SUFFICES ASSUME TypeOK, ClearRewind PROVE TypeOK'
  OBVIOUS
<1>1. /\ ax' \in [Axes -> AxisState] /\ ring' \in [RingIx -> Word]
      /\ staged' \in [Half -> [Axes -> Int]]
      /\ fillHalf' \in HalfIx /\ playHalf' \in HalfIx
  BY TypeParts, RewoundType, BlankType, NoStepsType, WrapAssumption DEF ClearRewind, HalfIx
<1>2. CoreTypeOK'
  BY <1>1, TypeParts DEF ClearRewind, CoreTypeOK, segments
<1>3. PortTypeOK'
  BY TypeParts DEF ClearRewind, PortTypeOK, dma, motion
<1>4. FacadeTypeOK'
  BY TypeParts DEF ClearRewind, FacadeTypeOK, history, MainPC
<1>. QED BY <1>2, <1>3, <1>4, TypePartsNext

LEMMA SubmitPushType == TypeOK /\ SubmitPush => TypeOK'
<1> SUFFICES ASSUME TypeOK, SubmitPush PROVE TypeOK'
  OBVIOUS
<1>1. queue' \in Seq(Segment)
  <2>1. PICK kind \in Kinds :
          /\ ValidSegment(kind)
          /\ queue' = Append(queue, [dur |-> kind.dur, rate |-> kind.rate, seq |-> sent + 1])
    BY DEF SubmitPush
  <2>2. kind.dur \in 1 .. MaxDuration
    BY <2>1, KindsAssumption, BoundAssumption DEF ValidSegment
  <2>3. kind.rate \in [Axes -> -RateMax .. RateMax]
    BY <2>1, KindsAssumption, RateAssumption DEF ValidSegment
  <2>4. sent + 1 \in Nat
    BY TypeParts DEF FacadeTypeOK
  <2>5. [dur |-> kind.dur, rate |-> kind.rate, seq |-> sent + 1] \in Segment
    BY <2>2, <2>3, <2>4 DEF Segment
  <2>. QED BY <2>1, <2>5, TypeParts DEF CoreTypeOK
<1>2. CoreTypeOK'
  BY <1>1, TypeParts DEF SubmitPush, CoreTypeOK, positions
<1>3. FacadeTypeOK' /\ UNCHANGED portVars
  BY TypeParts DEF SubmitPush, FacadeTypeOK, facade, MainPC
<1>. QED BY <1>2, <1>3, TypeParts, TypePartsNext, PortTypeStutter

LEMMA IsrOverrunType == TypeOK /\ IsrOverrun => TypeOK'
<1> SUFFICES ASSUME TypeOK, IsrOverrun PROVE TypeOK'
  OBVIOUS
<1>1. CoreTypeOK'
  BY TypeParts, CoreAbortType DEF IsrOverrun
<1>2. PortTypeOK'
  BY TypeParts DEF IsrOverrun, PortTypeOK, FlagsOfStop, motion
<1>3. FacadeTypeOK'
  BY TypeParts DEF IsrOverrun, FacadeTypeOK, facade, IsrPC
<1>. QED BY <1>1, <1>2, <1>3, TypePartsNext

LEMMA IsrBoundaryType == TypeOK /\ IsrBoundary => TypeOK'
<1> SUFFICES ASSUME TypeOK, IsrBoundary PROVE TypeOK'
  OBVIOUS
<1>1. frame' \in [Caller -> Frame]
  <2>1. \A f \in Frame, h \in Half : [f EXCEPT !.half = h] \in Frame
    BY DEF Frame
  <2>2. (IF "HT" \in flags THEN 0 ELSE 1) \in Half
    BY DEF Half
  <2>3. frame \in [Caller -> Frame] /\ "isr" \in Caller
    BY TypeParts DEF CoreTypeOK, Caller
  <2>. QED BY <2>1, <2>2, <2>3 DEF IsrBoundary
<1>2. CoreTypeOK'
  BY <1>1, TypeParts DEF IsrBoundary, CoreTypeOK, segments, positions
<1>3. PortTypeOK'
  BY TypeParts DEF IsrBoundary, PortTypeOK, motion
<1>4. FacadeTypeOK'
  BY TypeParts DEF IsrBoundary, FacadeTypeOK, facade, history, IsrPC
<1>. QED BY <1>2, <1>3, <1>4, TypePartsNext

LEMMA IsrPlayType == TypeOK /\ IsrPlay => TypeOK'
<1> SUFFICES ASSUME TypeOK, IsrPlay PROVE TypeOK'
  OBVIOUS
<1>1. ax' \in [Axes -> AxisState] /\ playHalf' \in HalfIx
  BY TypeParts, AfterTakeType, NextHalfType DEF IsrPlay, CoreTypeOK
<1>2. CoreTypeOK'
  BY <1>1, TypeParts DEF IsrPlay, CoreTypeOK, segments, positions
<1>3. PortTypeOK'
  BY TypeParts, AfterTakeType, PortWriteDirType, PortTypeStutter DEF IsrPlay
<1>4. FacadeTypeOK'
  BY TypeParts DEF IsrPlay, FacadeTypeOK, history, IsrPC
<1>. QED BY <1>2, <1>3, <1>4, TypePartsNext

LEMMA IsrRefillType == TypeOK /\ IsrRefill => TypeOK'
<1> SUFFICES ASSUME TypeOK, IsrRefill PROVE TypeOK'
  OBVIOUS
<1> DEFINE half == frame["isr"].half
<1>1. half \in Half /\ "isr" \in Caller /\ NextHalf(playHalf) \in HalfIx
  BY TypeParts, NextHalfType DEF CoreTypeOK, Caller, Frame
<1>2. FacadeTypeOK'
  BY TypeParts DEF IsrRefill, FacadeTypeOK, facade, IsrPC
<1>3. CASE ready[1 - half]
  <2>1. /\ posOutput' \in [Axes -> Int] /\ frame' \in [Caller -> Frame]
        /\ fillHalf' \in HalfIx /\ staged' \in [Half -> [Axes -> Int]]
    BY <1>1, <1>3, TypeParts, CommittedType, BeginFillType DEF IsrRefill
  <2>2. CoreTypeOK'
    BY <1>3, <2>1, TypeParts DEF IsrRefill, CoreTypeOK, segments
  <2>3. UNCHANGED portVars
    BY <1>3 DEF IsrRefill
  <2>. QED BY <1>2, <2>2, <2>3, TypeParts, TypePartsNext, PortTypeStutter
<1>4. CASE ~ready[1 - half]
  <2>1. PortEmergencyStop /\ CoreAbort({"BUFFER_UNDERRUN"})
    BY <1>4 DEF IsrRefill
  <2>. QED BY <1>2, <2>1, TypeParts, TypePartsNext, PortEmergencyStopType, CoreAbortType
<1>. QED BY <1>3, <1>4

LEMMA EStopType == TypeOK /\ EStop => TypeOK'
<1> SUFFICES ASSUME TypeOK, EStop PROVE TypeOK'
  OBVIOUS
<1>1. FacadeTypeOK'
  BY TypeParts DEF EStop, FacadeTypeOK, States
<1>. QED
  BY <1>1, TypeParts, TypePartsNext, PortEmergencyStopType, CoreAbortType DEF EStop

---------------------------------------------------------------------------
(* The steps of the fill loop. *)
LEMMA CandidatesType ==
    ASSUME CoreTypeOK, Candidates # <<>>
    PROVE  /\ Head(Candidates) \in Segment
           /\ (IF pending = <<>> THEN Tail(queue) ELSE queue) \in Seq(Segment)
<1>1. pending \in Seq(Segment) /\ queue \in Seq(Segment)
  BY DEF CoreTypeOK, AtMostOne
<1>2. Candidates \in Seq(Segment)
  BY <1>1 DEF Candidates
<1>3. Head(Candidates) \in Segment
  BY <1>2
<1>4. ASSUME pending = <<>> PROVE queue # <<>>
  BY <1>1, <1>4 DEF Candidates
<1>. QED BY <1>1, <1>3, <1>4

LEMMA SingletonType == \A s \in Segment : <<s>> \in AtMostOne /\ <<s>> # <<>>
  BY DEF AtMostOne

LEMMA SilenceRestType ==
    ASSUME CoreTypeOK, NEW c \in Caller, frame[c].at = "loop", SilenceRest(c)
    PROVE  ring' \in [RingIx -> Word] /\ frame' \in [Caller -> Frame]
<1>1. IdleWord \in Word
  BY DEF IdleWord, Word, Sign
<1>2. ring' \in [RingIx -> Word]
  BY <1>1 DEF SilenceRest, CoreTypeOK
<1>3. frame[c] \in Frame
  BY DEF CoreTypeOK
<1>4. [frame[c] EXCEPT !.done = HalfTicks] \in Frame
  BY <1>3, HalfTicksAssumption DEF Frame
<1>5. frame' \in [Caller -> Frame]
  BY <1>4 DEF SilenceRest, CoreTypeOK
<1>. QED BY <1>2, <1>5

LEMMA FillTakeType ==
    ASSUME CoreTypeOK, NEW c \in Caller, FillTake(c) PROVE CoreTypeOK'
<1>1. pending' \in AtMostOne /\ queue' \in Seq(Segment)
  BY CandidatesType DEF FillTake, Take, AtMostOne
<1>2. frame' \in [Caller -> Frame]
  <2>1. <<Head(Candidates)>> \in AtMostOne /\ <<Head(Candidates)>> # <<>>
    BY CandidatesType, SingletonType DEF FillTake
  <2>2. frame[c] \in Frame
    BY DEF CoreTypeOK
  <2>3. [frame[c] EXCEPT !.at = "apply", !.incoming = <<Head(Candidates)>>] \in Frame
    BY <2>1, <2>2 DEF Frame
  <2>. QED BY <2>3 DEF FillTake, CoreTypeOK
<1>. QED BY <1>1, <1>2 DEF FillTake, CoreTypeOK, positions

LEMMA FillHoldType ==
    ASSUME CoreTypeOK, NEW c \in Caller, FillHold(c) PROVE CoreTypeOK'
<1>1. ring' \in [RingIx -> Word] /\ frame' \in [Caller -> Frame]
  BY SilenceRestType DEF FillHold, NeedsSegment
<1>2. pending' \in AtMostOne /\ queue' \in Seq(Segment)
  <2>1. <<Head(Candidates)>> \in AtMostOne /\ <<>> \in AtMostOne
    BY CandidatesType, SingletonType DEF FillHold, AtMostOne
  <2>. QED BY <2>1, CandidatesType DEF FillHold
<1>3. faults' \subseteq {"BUFFER_UNDERRUN", "SEGMENT_STARVED", "BAD_SEGMENT"}
  BY DEF FillHold, CoreTypeOK
<1>4. stalled' \in 0 .. 2 * HalfTicks
  <2>1. frame[c] \in Frame /\ stalled \in 0 .. 2 * HalfTicks
    BY DEF CoreTypeOK
  <2>2. frame[c].done \in 0 .. HalfTicks
    BY <2>1 DEF Frame
  <2>. QED BY <2>1, <2>2, HalfTicksAssumption DEF FillHold
<1>. QED BY <1>1, <1>2, <1>3, <1>4 DEF FillHold, CoreTypeOK, positions

LEMMA FillStarveType ==
    ASSUME CoreTypeOK, NEW c \in Caller, FillStarve(c) PROVE CoreTypeOK'
<1>1. ring' \in [RingIx -> Word] /\ frame' \in [Caller -> Frame]
  BY SilenceRestType DEF FillStarve, NeedsSegment
<1>2. ax' \in [Axes -> AxisState]
  <2>1. \A a \in Axes : ax[a] \in AxisState
    BY DEF CoreTypeOK
  <2>2. 0 \in 0 .. RateMax /\ 0 \in Sign
    BY RateAssumption DEF Sign
  <2>. QED BY <2>1, <2>2, AxisFields DEF FillStarve
<1>3. faults' \subseteq {"BUFFER_UNDERRUN", "SEGMENT_STARVED", "BAD_SEGMENT"}
  BY DEF FillStarve, CoreTypeOK
<1>4. moving' \in BOOLEAN /\ segValid' \in BOOLEAN
  BY DEF FillStarve
<1>. QED BY <1>1, <1>2, <1>3, <1>4 DEF FillStarve, CoreTypeOK, positions

LEMMA AppliedType ==
    ASSUME CoreTypeOK, NEW a \in Axes, NEW r \in -RateMax .. RateMax, NEW now
    PROVE  Applied(a, r, now) \in AxisState
<1> DEFINE x      == [ax[a] EXCEPT !.inc = Magnitude(r), !.dirSign = SignOf(r)]
           want   == LevelFor(a, r)
           target == IF now # HalfStart(fillHalf) \/ x.armed THEN NextHalf(fillHalf)
                     ELSE fillHalf
           until  == (HalfStart(target) + GuardTicks) % TickMod
<1>1. ax[a] \in AxisState /\ fillHalf \in HalfIx
  BY DEF CoreTypeOK
<1>2. Magnitude(r) \in 0 .. RateMax /\ SignOf(r) \in Sign
  BY RateAssumption DEF Magnitude, SignOf, Sign
<1>3. x \in AxisState
  BY <1>1, <1>2, AxisFields
<1>4. want \in BOOLEAN
  <2>1. (r < 0) \in BOOLEAN /\ (r > 0) \in BOOLEAN
    OBVIOUS
  <2>. QED BY <2>1, Zenon DEF LevelFor
<1>5. target \in HalfIx
  BY <1>1, NextHalfType
<1>6. until \in Tick
  <2>1. HalfStart(target) \in Int
    BY <1>5, HalfStartType, WrapAssumption DEF Tick
  <2>. HIDE DEF target
  <2>. QED BY <2>1, Remainders, GuardAssumption
<1>7. [x EXCEPT !.armed = TRUE, !.armedLevel = want, !.armedHalf = target,
                !.blockUntil = until] \in AxisState
  <2>. HIDE DEF x, want, target, until
  <2>. QED BY <1>3, <1>4, <1>5, <1>6, AxisFields
<1>. QED BY <1>3, <1>7 DEF Applied

LEMMA FillApplyType ==
    ASSUME CoreTypeOK, NEW c \in Caller, FillApply(c) PROVE CoreTypeOK'
<1> DEFINE s == Head(frame[c].incoming)
<1>1. frame[c] \in Frame /\ frame[c].at = "apply"
  BY DEF CoreTypeOK, FillApply
<1>2. s \in Segment
  BY <1>1 DEF Frame, AtMostOne
<1>3. s.dur \in 0 .. MaxDuration /\ s.seq \in Nat /\ s.rate \in [Axes -> -RateMax .. RateMax]
  BY <1>2, BoundAssumption DEF Segment
<1>4. ax' \in [Axes -> AxisState]
  <2>1. \A a \in Axes : Applied(a, s.rate[a], Now(c)) \in AxisState
    BY <1>3, AppliedType
  <2>. QED BY <2>1 DEF FillApply
<1>5. frame' \in [Caller -> Frame]
  <2>1. <<>> \in AtMostOne
    BY DEF AtMostOne
  <2>2. [frame[c] EXCEPT !.at = "loop", !.incoming = <<>>] \in Frame
    BY <1>1, <2>1 DEF Frame
  <2>. QED BY <2>2 DEF FillApply, CoreTypeOK
<1>6. /\ remaining' \in 0 .. MaxDuration /\ lastSeq' \in Nat
      /\ stalled' \in 0 .. 2 * HalfTicks
  BY <1>3, HalfTicksAssumption DEF FillApply
<1>7. moving' \in BOOLEAN /\ segValid' \in BOOLEAN
  BY DEF FillApply
<1>. QED BY <1>4, <1>5, <1>6, <1>7 DEF FillApply, CoreTypeOK, positions

LEMMA FillEmitType ==
    ASSUME CoreTypeOK, NEW c \in Caller, FillEmit(c) PROVE CoreTypeOK'
<1> DEFINE now == Now(c)
           half == frame[c].half
           from == half * HalfTicks + frame[c].done
<1>0. PICK k \in 1 .. HalfTicks : IsRun(c, k) /\ EmitRun(c, k)
  BY DEF FillEmit
<1>1. /\ IsRun(c, k)
      /\ ring' = [i \in RingIx |->
                      IF i \in from .. from + k - 1
                      THEN [a \in Axes |->
                              IF StepsAt(ax[a].phase, Rate(a, now), i - from)
                              THEN Forward(a) ELSE 0]
                      ELSE ring[i]]
      /\ ax' = [a \in Axes |->
                    [ax[a] EXCEPT !.phase = (ax[a].phase + Rate(a, now) * k) % PhaseMod]]
      /\ staged' = [staged EXCEPT ![half] =
                        [a \in Axes |-> staged[half][a]
                           + Forward(a) * ClosedForm(ax[a].phase, Rate(a, now), k)]]
      /\ posPlanned' = [a \in Axes |-> posPlanned[a]
                           + Forward(a) * ClosedForm(ax[a].phase, Rate(a, now), k)]
      /\ remaining' = remaining - k
      /\ frame' = [frame EXCEPT ![c].done = @ + k]
  BY <1>0 DEF EmitRun
<1>2. frame[c] \in Frame /\ half \in Half /\ frame[c].done \in 0 .. HalfTicks
  BY DEF CoreTypeOK, Frame
<1>3. k <= HalfTicks - frame[c].done /\ k <= remaining
  BY <1>1 DEF IsRun
<1>4. ASSUME NEW a \in Axes
      PROVE  /\ ax[a] \in AxisState /\ ax[a].phase \in Nat /\ ax[a].inc \in Nat
             /\ Rate(a, now) \in Nat
             /\ Forward(a) \in {-1, 1}
             /\ Rate(a, now) * k \in Nat /\ ax[a].inc * k \in Nat
             /\ ClosedForm(ax[a].phase, Rate(a, now), k) \in Int
  <2>1. ax[a] \in AxisState
    BY DEF CoreTypeOK
  <2>2. ax[a].phase \in Nat /\ ax[a].inc \in Nat
    BY <2>1, RateAssumption DEF AxisState
  <2>3. Rate(a, now) \in Nat /\ Forward(a) \in {-1, 1}
    BY <2>2 DEF Rate, Forward
  <2>4. \A m \in Nat : m * k \in Nat
    BY <1>1, HalfTicksAssumption
  <2>5. Rate(a, now) * k \in Nat /\ ax[a].inc * k \in Nat
    BY <2>2, <2>3, <2>4
  <2>6. PhaseMod \in Nat \ {0}
    BY RateAssumption DEF PhaseMod
  <2>7. \A p \in Nat, m \in Nat : (p + m) \div PhaseMod \in Int
    BY <2>6
  <2>8. ClosedForm(ax[a].phase, Rate(a, now), k) \in Int
    BY <2>2, <2>5, <2>7 DEF ClosedForm
  <2>. QED BY <2>1, <2>2, <2>3, <2>5, <2>8
<1>5. ring' \in [RingIx -> Word]
  <2>1. \A a \in Axes : Forward(a) \in Sign
    BY <1>4 DEF Sign
  <2>2. \A i \in RingIx : [a \in Axes |-> IF StepsAt(ax[a].phase, Rate(a, now), i - from)
                                         THEN Forward(a) ELSE 0] \in Word
    BY <2>1 DEF Word, Sign
  <2>3. ring \in [RingIx -> Word]
    BY DEF CoreTypeOK
  <2>. QED BY <1>1, <2>2, <2>3
<1>6. ax' \in [Axes -> AxisState]
  <2> DEFINE next(a) == [ax[a] EXCEPT !.phase = (ax[a].phase + Rate(a, now) * k) % PhaseMod]
  <2>1. ASSUME NEW a \in Axes PROVE next(a) \in AxisState
    <3>1. ax[a].phase + Rate(a, now) * k \in Int
      BY <1>4
    <3>2. (ax[a].phase + Rate(a, now) * k) % PhaseMod \in 0 .. PhaseMod - 1
      BY <3>1, Remainders
    <3>. QED BY <1>4, <3>2, AxisFields
  <2>2. ax' = [a \in Axes |-> next(a)]
    BY <1>1
  <2>. HIDE DEF next
  <2>. QED BY <2>1, <2>2
<1> DEFINE delta(a) == Forward(a) * ClosedForm(ax[a].phase, Rate(a, now), k)
<1>7. \A a \in Axes : delta(a) \in Int
  BY <1>4
<1>8. staged' \in [Half -> [Axes -> Int]] /\ posPlanned' \in [Axes -> Int]
  <2>1. staged \in [Half -> [Axes -> Int]] /\ posPlanned \in [Axes -> Int]
    BY DEF CoreTypeOK
  <2>2. /\ staged' = [staged EXCEPT ![half] = [a \in Axes |-> staged[half][a] + delta(a)]]
        /\ posPlanned' = [a \in Axes |-> posPlanned[a] + delta(a)]
    BY <1>1
  <2>. HIDE DEF delta
  <2>. QED BY <1>2, <1>7, <2>1, <2>2
<1>10. frame' \in [Caller -> Frame]
  <2>1. frame[c].done + k \in 0 .. HalfTicks
    BY <1>1, <1>2, <1>3, HalfTicksAssumption
  <2>2. [frame[c] EXCEPT !.done = frame[c].done + k] \in Frame
    BY <1>2, <2>1 DEF Frame
  <2>. QED BY <1>1, <2>2 DEF CoreTypeOK
<1>11. remaining' \in 0 .. MaxDuration
  BY <1>1, <1>3, BoundAssumption, HalfTicksAssumption DEF CoreTypeOK
<1>. QED BY <1>5, <1>6, <1>8, <1>10, <1>11 DEF FillEmit, CoreTypeOK

LEMMA FillStepType ==
    ASSUME CoreTypeOK, NEW c \in Caller, FillStep(c) PROVE CoreTypeOK'
  BY FillTakeType, FillHoldType, FillStarveType, FillApplyType, FillEmitType DEF FillStep

LEMMA FillerType == TypeOK /\ (IsrFillStep \/ MainFillStep) => TypeOK'
<1> SUFFICES ASSUME TypeOK, IsrFillStep \/ MainFillStep PROVE TypeOK'
  OBVIOUS
<1>1. CoreTypeOK'
  BY TypeParts, FillStepType DEF IsrFillStep, MainFillStep, Caller
<1>2. FacadeTypeOK' /\ UNCHANGED portVars
  BY TypeParts DEF IsrFillStep, MainFillStep, FacadeTypeOK, facade, history
<1>. QED BY <1>1, <1>2, TypeParts, TypePartsNext, PortTypeStutter

---------------------------------------------------------------------------
LEMMA StutterType == TypeOK /\ UNCHANGED vars => TypeOK'
<1> SUFFICES ASSUME TypeOK, UNCHANGED vars PROVE TypeOK'
  OBVIOUS
<1>1. FacadeTypeOK' /\ UNCHANGED coreVars /\ UNCHANGED portVars
  BY TypeParts DEF vars, FacadeTypeOK, facade, history
<1>. QED BY <1>1, TypeParts, TypePartsNext, CoreTypeStutter, PortTypeStutter

LEMMA StepType == TypeOK /\ [Next]_vars => TypeOK'
  BY FacadeStepType, PortStepType, StartFill0Type, StartFill1Type, StartDirType,
     StopAbortType, ClearRewindType, SubmitPushType, IsrOverrunType, IsrBoundaryType,
     IsrPlayType, IsrRefillType, EStopType, FillerType, StutterType
     DEF Next, Main, Isr, FacadeStep, PortStep

(* The types of every variable, and with them the bounds that the code      *)
(* relies on: rates within the clamp, phases within the accumulator, a      *)
(* frame that fills no more than its half and holds a segment exactly       *)
(* between taking and applying it.                                          *)
THEOREM TypeCorrect == Spec => []TypeOK
  BY InitType, StepType, PTL DEF Spec

---------------------------------------------------------------------------
(* The lifecycle.  Up to AbortsAreFinal an E-STOP may cut into an interrupt *)
(* but, except for EStopIsLatched, into no call of the main loop: there     *)
(* EStopIsSafe does not hold (ClaimEStopIsSafe.cfg).                        *)
(* In these calls the main loop is alone on the processor: the timebase     *)
(* stands and no interrupt is pending.                                      *)
Alone == {"enable", "enabled", "fill0", "fill1", "run", "port", "stopped",
          "demote", "recheck", "clear", "cleared"}

(* The control part of the inductive invariant: which states each point of  *)
(* a call is reached in, and what the port does meanwhile.                  *)
ControlInv ==
    /\ running => state = "RUNNING"
    /\ mpc \in {"abort", "stop"} => ~running
    /\ mpc \in Alone => ~running /\ ipc = "idle" /\ flags = {}
    /\ ipc \in {"fault", "faulted"} => ~running /\ ~enable
    /\ mpc \in {"enable", "enabled"} => state = "SAFE_IDLE"
    /\ mpc \in {"fill0", "fill1", "run"} => state = "READY"
    /\ mpc \in {"port", "stopped"} => state = "RUNNING"
    /\ mpc = "demote" => state = "EMERGENCY_STOP"
    /\ mpc \in {"recheck", "clear", "cleared"} => state = "FAULT"
    /\ state = "EMERGENCY_STOP" => mpc \in {"idle", "abort", "stop", "demote"}
    /\ enable => state \in {"READY", "RUNNING"} \/ mpc = "enabled"
    /\ state \in {"READY", "RUNNING"} => enable \/ ipc \in {"fault", "faulted"}
    /\ mpc = "enabled" => enable
    /\ state = "RUNNING" =>
         \/ running \/ mpc \in {"port", "abort", "stop", "stopped"}
         \/ ipc \in {"fault", "faulted"}

LEMMA InitControl == Init => ControlInv
  BY DEF Init, CoreInit, PortInit, ControlInv, Alone

(* The steps of the main loop. *)
LEMMA MainControl ==
    ASSUME TypeOK, ControlInv, Main
    PROVE  ControlInv'
<1> USE DEF ControlInv, Alone, MainAt, MainRuns, IsrIdle
<1>1. CASE EnableCheck \/ EnableReady
  BY <1>1 DEF EnableCheck, EnableReady, facade, portVars, dma
<1>2. CASE EnableDrives
  BY <1>2 DEF EnableDrives, facade, dma
<1>3. CASE StartFill0 \/ StartFill1
  BY <1>3 DEF StartFill0, StartFill1, facade, portVars, dma
<1>4. CASE StartDir
  BY <1>4 DEF StartDir, PortWriteDir, portVars, dma
<1>5. CASE StartRun \/ StartPort
  BY <1>5 DEF StartRun, StartPort, PortStart, facade, portVars, dma
<1>6. CASE MainFillStep
  BY <1>6 DEF MainFillStep, facade, portVars, dma
<1>7. CASE Stop
  BY <1>7 DEF Stop, PortStop, facade
<1>8. CASE StopAbort \/ StopCheck \/ StopReady
  BY <1>8 DEF StopAbort, StopCheck, StopReady, facade, portVars, dma
<1>9. CASE ClearEStopCheck \/ ClearEStopDemote \/ ClearCheck
  <2>1. CASE ClearEStopCheck
    BY <2>1 DEF ClearEStopCheck, facade, portVars, dma
  <2>2. CASE ClearEStopDemote
    BY <2>2 DEF ClearEStopDemote, portVars, dma
  <2>3. CASE ClearCheck
    BY <2>3 DEF ClearCheck, facade, portVars, dma
  <2>. QED BY <1>9, <2>1, <2>2, <2>3
<1>10. CASE ClearRewind \/ ClearIdle
  BY <1>10 DEF ClearRewind, ClearIdle, facade, portVars, dma
<1>11. CASE SubmitCheck \/ SubmitPush \/ SubmitRefused
  BY <1>11 DEF SubmitCheck, SubmitPush, SubmitRefused, facade, portVars, dma
<1>. QED
  BY <1>1, <1>2, <1>3, <1>4, <1>5, <1>6, <1>7, <1>8, <1>9, <1>10, <1>11 DEF Main

(* The steps of the interrupt. *)
LEMMA IsrControl ==
    ASSUME TypeOK, ControlInv, Isr
    PROVE  ControlInv'
<1> USE DEF ControlInv, Alone
<1>1. CASE IsrOverrun
  BY <1>1 DEF IsrOverrun, Missed, facade
<1>2. CASE IsrBoundary
  BY <1>2 DEF IsrBoundary, facade
<1>3. CASE IsrPlay
  BY <1>3 DEF IsrPlay, PortWriteDir, portVars, dma
<1>4. CASE IsrRefill
  BY <1>4 DEF IsrRefill, PortEmergencyStop, facade, portVars, dma
<1>5. CASE IsrFillStep \/ IsrDone
  BY <1>5 DEF IsrFillStep, IsrDone, facade, portVars, dma
<1>6. CASE IsrFaultCheck \/ IsrFault
  BY <1>6 DEF IsrFaultCheck, IsrFault, facade, portVars, dma
<1>. QED BY <1>1, <1>2, <1>3, <1>4, <1>5, <1>6 DEF Isr

LEMMA StepControl ==
    ASSUME "main" \notin EStopCuts, TypeOK, ControlInv, [Next]_vars
    PROVE  ControlInv'
<1> USE DEF ControlInv, Alone
<1>1. CASE EStop
  BY <1>1 DEF EStop, PortEmergencyStop
<1>2. CASE DmaTick
  BY <1>2 DEF DmaTick, PlayWord, facade
<1>3. CASE DmaFails
  BY <1>3 DEF DmaFails, DmaError, facade
<1>4. CASE UNCHANGED vars
  BY <1>4 DEF vars, facade, portVars, dma
<1>. QED BY <1>1, <1>2, <1>3, <1>4, MainControl, IsrControl DEF Next

LEMMA ControlCorrect ==
    ASSUME "main" \notin EStopCuts
    PROVE  Spec => []ControlInv
<1>1. TypeOK /\ ControlInv /\ [Next]_vars => ControlInv'
  BY StepControl
<1>. QED BY <1>1, InitControl, TypeCorrect, PTL DEF Spec

(* Once the E-STOP is latched the timebase stands and the drives are off,   *)
(* whatever interrupt it cut into.                                          *)
THEOREM EStopStaysSafe ==
    ASSUME "main" \notin EStopCuts
    PROVE  Spec => []EStopIsSafe
<1>1. ControlInv => EStopIsSafe
  BY DEF ControlInv, EStopIsSafe
<1>. QED BY <1>1, ControlCorrect, PTL

(* Between calls the drives are energised exactly in READY and RUNNING and  *)
(* the timebase runs exactly in RUNNING.                                    *)
THEOREM DrivesAndStateAgree ==
    ASSUME "main" \notin EStopCuts
    PROVE  Spec => []DrivesMatchState
<1>1. ControlInv /\ TypeOK => DrivesMatchState
  BY TypeParts DEF ControlInv, DrivesMatchState, Quiet, IsrIdle, PortTypeOK
<1>. QED BY <1>1, ControlCorrect, TypeCorrect, PTL

(* FAULT ends only by a clear (or an E-STOP).                               *)
THEOREM FaultIsLatched ==
    ASSUME "main" \notin EStopCuts
    PROVE  Spec => FaultLatched
<1>1. ASSUME TypeOK, ControlInv, [Next]_vars
      PROVE  [state = "FAULT" /\ state' # "FAULT" =>
                 mpc = "cleared" \/ state' = "EMERGENCY_STOP"]_vars
  <2> USE DEF ControlInv
  <2>1. CASE Main
    <3> USE DEF MainAt
    <3>1. CASE EnableReady \/ StartRun \/ StopReady \/ ClearEStopDemote \/ ClearIdle
      BY <1>1, <3>1 DEF EnableReady, StartRun, StopReady, ClearEStopDemote, ClearIdle
    <3>2. CASE \/ EnableCheck \/ EnableDrives \/ StartFill0 \/ StartFill1 \/ StartDir
               \/ StartPort \/ MainFillStep
      BY <3>2 DEF EnableCheck, EnableDrives, StartFill0, StartFill1, StartDir, StartPort,
         MainFillStep, facade
    <3>3. CASE Stop \/ StopAbort \/ StopCheck \/ ClearEStopCheck \/ ClearCheck \/ ClearRewind
      BY <3>3 DEF Stop, StopAbort, StopCheck, ClearEStopCheck, ClearCheck, ClearRewind, facade
    <3>4. CASE SubmitCheck \/ SubmitPush \/ SubmitRefused
      BY <3>4 DEF SubmitCheck, SubmitPush, SubmitRefused, facade
    <3>. QED BY <2>1, <3>1, <3>2, <3>3, <3>4 DEF Main
  <2>2. CASE Isr
    BY <2>2 DEF Isr, IsrOverrun, IsrBoundary, IsrPlay, IsrRefill, IsrFillStep, IsrDone,
       IsrFaultCheck, IsrFault, facade
  <2>3. CASE UNCHANGED vars
    BY <2>3
  <2>4. CASE EStop \/ DmaTick \/ DmaFails
    BY <2>4 DEF EStop, DmaTick, DmaFails, facade
  <2>. QED BY <1>1, <2>1, <2>2, <2>3, <2>4 DEF Next
<1>. QED BY <1>1, ControlCorrect, TypeCorrect, PTL DEF Spec, FaultLatched

(* No step leaves a latched E-STOP but the demotion of its own clear.       *)
LEMMA StandsStep ==
    ASSUME [Next]_vars, EStopStands, ~EStopStands'
    PROVE  mpc = "demote" /\ state' = "FAULT"
<1> USE DEF EStopStands, Decided
<1>1. CASE Main
  <2> USE DEF MainAt
  <2>1. CASE EnableCheck \/ EnableDrives \/ EnableReady
    BY <2>1 DEF EnableCheck, EnableDrives, EnableReady
  <2>2. CASE StartFill0 \/ StartFill1 \/ StartDir \/ StartRun \/ StartPort \/ MainFillStep
    BY <2>2 DEF StartFill0, StartFill1, StartDir, StartRun, StartPort, MainFillStep
  <2>3. CASE Stop \/ StopAbort \/ StopCheck \/ StopReady
    BY <2>3 DEF Stop, StopAbort, StopCheck, StopReady, PortStop, facade, portVars, dma
  <2>4. CASE ClearEStopCheck \/ ClearCheck \/ ClearRewind \/ ClearIdle
    BY <2>4 DEF ClearEStopCheck, ClearCheck, ClearRewind, ClearIdle, facade, portVars, dma
  <2>5. CASE ClearEStopDemote
    BY <2>5 DEF ClearEStopDemote
  <2>6. CASE SubmitCheck \/ SubmitPush \/ SubmitRefused
    BY <2>6 DEF SubmitCheck, SubmitPush, SubmitRefused, facade, portVars, dma
  <2>. QED BY <1>1, <2>1, <2>2, <2>3, <2>4, <2>5, <2>6 DEF Main
<1>2. CASE Isr
  <2>1. CASE IsrOverrun \/ IsrBoundary
    BY <2>1 DEF IsrOverrun, IsrBoundary, facade
  <2>2. CASE IsrPlay
    BY <2>2 DEF IsrPlay, PortWriteDir, portVars, dma
  <2>3. CASE IsrRefill
    BY <2>3 DEF IsrRefill, PortEmergencyStop, facade, portVars, dma
  <2>4. CASE IsrFillStep \/ IsrDone \/ IsrFaultCheck \/ IsrFault
    BY <2>4 DEF IsrFillStep, IsrDone, IsrFaultCheck, IsrFault, facade, portVars, dma
  <2>. QED BY <1>2, <2>1, <2>2, <2>3, <2>4 DEF Isr
<1>3. CASE EStop
  BY <1>3 DEF EStop, PortEmergencyStop
<1>4. CASE DmaTick \/ DmaFails
  BY <1>4 DEF DmaTick, DmaFails, PlayWord, DmaError, facade
<1>5. CASE UNCHANGED vars
  BY <1>5 DEF vars, facade, portVars, dma
<1>. QED BY <1>1, <1>2, <1>3, <1>4, <1>5 DEF Next

(* EMERGENCY_STOP latches, drives and timebase off, wherever the E-STOP     *)
(* cuts into calls and interrupts, but at the points Decided names; then    *)
(* only stepgen_clear_emergency_stop() ends it.                             *)
THEOREM EStopIsLatched == Spec => EStopLatched
<1>1. EStop /\ ~Decided => EStopStands'
  BY DEF EStop, PortEmergencyStop, Decided, EStopStands
<1>. QED BY <1>1, StandsStep, PTL DEF Spec, EStopLatched

---------------------------------------------------------------------------
(* From here on the E-STOP cuts into no call and no interrupt.              *)

(* An abort is final.                                                       *)

Newer(q, d) == \A i \in 1 .. Len(q) : q[i].seq > d

(* Every segment on its way is newer than the last abort, ... *)
AllNewer ==
    /\ dropped <= sent
    /\ Newer(queue, dropped) /\ Newer(pending, dropped)
    /\ \A c \in Caller : Newer(frame[c].incoming, dropped)

(* ... and one is between taking and applying only inside a fill. *)
AppliedInFill ==
    /\ frame["isr"].at = "apply" => ipc = "fill"
    /\ frame["main"].at = "apply" => mpc \in {"fill0", "fill1"}

LEMMA NewerParts ==
    /\ \A d : Newer(<<>>, d)
    /\ \A s \in Segment : \A d : s.seq > d => Newer(<<s>>, d)
    /\ \A q \in Seq(Segment) : \A d :
          q # <<>> /\ Newer(q, d) => Head(q).seq > d /\ Newer(Tail(q), d)
    /\ \A q \in Seq(Segment), s \in Segment : \A d :
          Newer(q, d) /\ s.seq > d => Newer(Append(q, s), d)
<1>1. \A q \in Seq(Segment) : \A d :
          q # <<>> /\ Newer(q, d) => Head(q).seq > d /\ Newer(Tail(q), d)
  <2> SUFFICES ASSUME NEW q \in Seq(Segment), NEW d, q # <<>>, Newer(q, d)
               PROVE  Head(q).seq > d /\ Newer(Tail(q), d)
    OBVIOUS
  <2>1. Head(q) = q[1] /\ 1 \in 1 .. Len(q)
    OBVIOUS
  <2>2. \A i \in 1 .. Len(Tail(q)) : Tail(q)[i] = q[i + 1] /\ i + 1 \in 1 .. Len(q)
    OBVIOUS
  <2>. QED BY <2>1, <2>2 DEF Newer
<1>2. \A q \in Seq(Segment), s \in Segment : \A d :
          Newer(q, d) /\ s.seq > d => Newer(Append(q, s), d)
  BY DEF Newer
<1>3. \A s \in Segment : \A d : s.seq > d => Newer(<<s>>, d)
  BY DEF Newer
<1>4. \A d : Newer(<<>>, d)
  BY DEF Newer
<1>. QED BY <1>1, <1>2, <1>3, <1>4

(* The candidate for the next segment is newer too, and so is what is left. *)
LEMMA CandidateNewer ==
    ASSUME CoreTypeOK, Newer(queue, dropped), Newer(pending, dropped), Candidates # <<>>
    PROVE  /\ Head(Candidates).seq > dropped
           /\ Newer(IF pending = <<>> THEN Tail(queue) ELSE queue, dropped)
<1>1. pending \in Seq(Segment) /\ queue \in Seq(Segment)
  BY DEF CoreTypeOK, AtMostOne
<1>2. CASE pending = <<>>
  <2>1. Candidates = queue /\ queue # <<>>
    BY <1>1, <1>2 DEF Candidates
  <2>. QED BY <1>1, <1>2, <2>1, NewerParts
<1>3. CASE pending # <<>>
  <2>1. Head(Candidates) = Head(pending)
    BY <1>1, <1>3 DEF Candidates
  <2>. QED BY <1>1, <1>3, <2>1, NewerParts
<1>. QED BY <1>2, <1>3

(* One step of a fill keeps the segments new, and applies a new one. *)
LEMMA FillNewer ==
    ASSUME TypeOK, AllNewer, NEW c \in Caller, FillStep(c), UNCHANGED <<sent, dropped>>
    PROVE  /\ AllNewer'
           /\ lastSeq' # lastSeq => lastSeq' > dropped
           /\ \A b \in Caller : b # c => frame'[b] = frame[b]
<1> USE DEF AllNewer
<1>0. CoreTypeOK /\ frame \in [Caller -> Frame] /\ frame[c] \in Frame
  BY TypeParts DEF CoreTypeOK
<1>1. CASE FillTake(c)
  <2>1. Head(Candidates) \in Segment /\ Head(Candidates).seq > dropped
    BY <1>0, <1>1, CandidateNewer, CandidatesType DEF FillTake
  <2>2. Newer(queue', dropped) /\ Newer(pending', dropped)
    BY <1>0, <1>1, CandidateNewer, NewerParts DEF FillTake, Take
  <2>3. Newer(<<Head(Candidates)>>, dropped)
    BY <2>1, NewerParts
  <2>4. \A b \in Caller : frame'[b] = IF b = c THEN [frame[c] EXCEPT !.at = "apply",
                                          !.incoming = <<Head(Candidates)>>] ELSE frame[b]
    BY <1>0, <1>1 DEF FillTake
  <2>5. frame'[c].incoming = <<Head(Candidates)>>
    BY <1>0, <2>4 DEF Frame
  <2>6. lastSeq' = lastSeq
    BY <1>1 DEF FillTake
  <2>. QED BY <2>2, <2>3, <2>4, <2>5, <2>6
<1>2. CASE FillHold(c)
  <2>1. Head(Candidates) \in Segment /\ Head(Candidates).seq > dropped
    BY <1>0, <1>2, CandidateNewer, CandidatesType DEF FillHold
  <2>2. Newer(<<>>, dropped) /\ Newer(<<Head(Candidates)>>, dropped)
    BY <2>1, NewerParts
  <2>3. Newer(pending', dropped)
    BY <1>2, <2>2 DEF FillHold
  <2>4. Newer(queue', dropped)
    BY <1>0, <1>2, CandidateNewer DEF FillHold
  <2>5. \A b \in Caller : /\ frame'[b].incoming = frame[b].incoming
                          /\ b # c => frame'[b] = frame[b]
    BY <1>0, <1>2 DEF FillHold, SilenceRest, Frame
  <2>6. lastSeq' = lastSeq
    BY <1>2 DEF FillHold
  <2>. QED BY <2>3, <2>4, <2>5, <2>6
<1>3. CASE FillStarve(c)
  <2>1. \A b \in Caller : /\ frame'[b].incoming = frame[b].incoming
                          /\ b # c => frame'[b] = frame[b]
    BY <1>0, <1>3 DEF FillStarve, SilenceRest, Frame
  <2>. QED BY <1>3, <2>1 DEF FillStarve
<1>4. CASE FillApply(c)
  <2>1. frame[c].incoming \in Seq(Segment) /\ frame[c].incoming # <<>>
    BY <1>0, <1>4 DEF FillApply, Frame, AtMostOne
  <2>2. Head(frame[c].incoming).seq > dropped
    BY <2>1, NewerParts
  <2>3. lastSeq' > dropped
    BY <1>4, <2>2 DEF FillApply
  <2>4. \A b \in Caller : frame'[b] = IF b = c THEN [frame[c] EXCEPT !.at = "loop",
                                          !.incoming = <<>>] ELSE frame[b]
    BY <1>0, <1>4 DEF FillApply
  <2>5. frame'[c].incoming = <<>>
    BY <1>0, <2>4 DEF Frame
  <2>6. \A b \in Caller : Newer(frame'[b].incoming, dropped)
    BY <2>4, <2>5, NewerParts
  <2>. QED BY <1>4, <2>3, <2>4, <2>6 DEF FillApply
<1>5. CASE FillEmit(c)
  <2>1. PICK k \in 1 .. HalfTicks : frame' = [frame EXCEPT ![c].done = @ + k]
    BY <1>5 DEF FillEmit, EmitRun
  <2>2. \A b \in Caller : /\ frame'[b].incoming = frame[b].incoming
                          /\ b # c => frame'[b] = frame[b]
    BY <1>0, <2>1 DEF Frame
  <2>3. UNCHANGED <<queue, pending, lastSeq>>
    BY <1>5 DEF FillEmit
  <2>. QED BY <2>2, <2>3
<1>. QED BY <1>1, <1>2, <1>3, <1>4, <1>5 DEF FillStep

(* An abort that cuts into no fill leaves nothing on its way. *)
LEMMA AbortNewer ==
    ASSUME TypeOK, \A c \in Caller : frame[c].at = "loop", NEW bits, CoreAbort(bits),
           sent' = sent, dropped' = sent
    PROVE  AllNewer' /\ lastSeq' = lastSeq /\ frame' = frame
<1>1. \A c \in Caller : frame[c].incoming = <<>>
  BY TypeParts DEF CoreTypeOK, Frame
<1>2. sent \in Nat
  BY DEF TypeOK
<1>3. queue' = <<>> /\ pending' = <<>> /\ UNCHANGED <<frame, lastSeq>>
  BY DEF CoreAbort
<1>4. Newer(queue', dropped') /\ Newer(pending', dropped')
  BY <1>3, NewerParts
<1>5. \A c \in Caller : Newer(frame'[c].incoming, dropped')
  BY <1>1, <1>3, NewerParts
<1>. QED BY <1>2, <1>3, <1>4, <1>5 DEF AllNewer

(* What the next steps need of the actions that touch no segment. *)
LEMMA StutterNewer ==
    ASSUME AllNewer, UNCHANGED <<queue, pending, sent, dropped>>,
           \A c \in Caller : frame'[c].incoming = frame[c].incoming
    PROVE  AllNewer'
  BY DEF AllNewer

LEMMA MainNewer ==
    ASSUME TypeOK, ControlInv, AllNewer, AppliedInFill, Main
    PROVE  AllNewer' /\ AppliedInFill' /\ (lastSeq' # lastSeq => lastSeq' > dropped)
<1>0. /\ frame \in [Caller -> Frame] /\ Caller = {"main", "isr"}
      /\ \A c \in Caller : frame[c].at \in {"loop", "apply"}
  BY TypeParts DEF CoreTypeOK, Caller, Frame
<1> USE DEF AppliedInFill, MainAt, MainRuns, IsrIdle
<1>1. CASE \/ EnableCheck \/ EnableDrives \/ EnableReady \/ StartRun \/ StartPort
           \/ Stop \/ StopCheck \/ StopReady \/ ClearEStopCheck \/ ClearEStopDemote
           \/ ClearCheck \/ ClearIdle \/ SubmitCheck \/ SubmitRefused
  <2>1. UNCHANGED <<coreVars, ipc, sent, dropped>>
    BY <1>1 DEF EnableCheck, EnableDrives, EnableReady, StartRun, StartPort, Stop, StopCheck,
       StopReady, ClearEStopCheck, ClearEStopDemote, ClearCheck, ClearIdle, SubmitCheck,
       SubmitRefused, history
  <2>2. mpc \notin {"fill0", "fill1"}
    BY <1>1 DEF EnableCheck, EnableDrives, EnableReady, StartRun, StartPort, Stop, StopCheck,
       StopReady, ClearEStopCheck, ClearEStopDemote, ClearCheck, ClearIdle, SubmitCheck,
       SubmitRefused
  <2>3. UNCHANGED <<queue, pending, frame, lastSeq, ipc, sent, dropped>>
    BY <2>1 DEF coreVars, segments
  <2>. QED BY <2>2, <2>3, StutterNewer
<1>2. CASE StartFill0
  <2>1. frame' = [frame EXCEPT !["main"] =
                   [at |-> "loop", half |-> 0, index |-> 0, done |-> 0, incoming |-> <<>>]]
        /\ UNCHANGED <<queue, pending, lastSeq, ipc, sent, dropped>>
    BY <1>2 DEF StartFill0, segments, history
  <2>2. \A c \in Caller : Newer(frame'[c].incoming, dropped)
    BY <1>0, <2>1, NewerParts DEF AllNewer
  <2>. QED BY <1>0, <2>1, <2>2 DEF AllNewer
<1>3. CASE StartFill1
  <2>1. frame' = [frame EXCEPT !["main"] =
                   [at |-> "loop", half |-> 1, index |-> NextHalf(0), done |-> 0,
                    incoming |-> <<>>]]
        /\ UNCHANGED <<queue, pending, lastSeq, ipc, sent, dropped>>
    BY <1>3 DEF StartFill1, BeginFill, segments, history
  <2>2. \A c \in Caller : Newer(frame'[c].incoming, dropped)
    BY <1>0, <2>1, NewerParts DEF AllNewer
  <2>. QED BY <1>0, <2>1, <2>2 DEF AllNewer
<1>4. CASE StartDir
  <2>1. frame["main"].at = "loop" /\ UNCHANGED <<queue, pending, frame, lastSeq, ipc, sent, dropped>>
    BY <1>4 DEF StartDir, Filled, segments, history
  <2>. QED BY <2>1, StutterNewer
<1>5. CASE MainFillStep
  <2>1. FillStep("main") /\ UNCHANGED <<mpc, ipc, sent, dropped>> /\ mpc \in {"fill0", "fill1"}
    BY <1>5 DEF MainFillStep, history
  <2>2. frame'["isr"] = frame["isr"]
    BY <1>0, <2>1, FillNewer
  <2>. QED BY <1>0, <2>1, <2>2, FillNewer
<1>6. CASE StopAbort
  <2>1. \A c \in Caller : frame[c].at = "loop"
    BY <1>0, <1>6 DEF StopAbort
  <2>2. CoreAbort({}) /\ UNCHANGED <<sent, ipc>> /\ dropped' = sent
    BY <1>6 DEF StopAbort
  <2>. QED BY <1>0, <2>1, <2>2, AbortNewer
<1>7. CASE ClearRewind
  <2>1. mpc = "clear" /\ UNCHANGED <<queue, pending, frame, lastSeq, ipc, sent, dropped>>
    BY <1>7 DEF ClearRewind, segments, history
  <2>. QED BY <2>1, StutterNewer
<1>8. CASE SubmitPush
  <2>1. sent \in Nat /\ queue \in Seq(Segment) /\ sent' = sent + 1
    BY <1>8, TypeParts DEF TypeOK, CoreTypeOK, SubmitPush
  <2>2. queue' \in Seq(Segment)
    BY <1>8, SubmitPushType, TypeParts, TypePartsNext DEF TypeOK, CoreTypeOK
  <2>3. PICK kind \in Kinds :
          queue' = Append(queue, [dur |-> kind.dur, rate |-> kind.rate, seq |-> sent + 1])
    BY <1>8 DEF SubmitPush
  <2>4. dropped \in Nat /\ dropped < sent + 1
    BY <2>1 DEF AllNewer, TypeOK
  <2>5. Newer(queue', dropped)
    BY <2>1, <2>3, <2>4 DEF Newer, AllNewer
  <2>6. mpc = "push" /\ UNCHANGED <<pending, frame, lastSeq, ipc, dropped>>
    BY <1>8 DEF SubmitPush
  <2>. QED BY <2>1, <2>4, <2>5, <2>6 DEF AllNewer
<1>. QED
  BY <1>1, <1>2, <1>3, <1>4, <1>5, <1>6, <1>7, <1>8 DEF Main

LEMMA IsrNewer ==
    ASSUME TypeOK, ControlInv, AllNewer, AppliedInFill, Isr
    PROVE  AllNewer' /\ AppliedInFill' /\ (lastSeq' # lastSeq => lastSeq' > dropped)
<1>0. /\ frame \in [Caller -> Frame] /\ Caller = {"main", "isr"}
      /\ \A c \in Caller : frame[c].at \in {"loop", "apply"}
  BY TypeParts DEF CoreTypeOK, Caller, Frame
<1>00. \/ ipc # "idle" \/ flags # {} => frame["main"].at = "loop"
  BY <1>0 DEF AppliedInFill, ControlInv, Alone
<1> USE DEF AppliedInFill
<1>1. CASE IsrOverrun
  <2>1. ipc = "idle" /\ flags # {} /\ CoreAbort({"BUFFER_UNDERRUN"})
        /\ UNCHANGED <<sent, mpc>> /\ dropped' = sent
    BY <1>1 DEF IsrOverrun, Missed
  <2>2. \A c \in Caller : frame[c].at = "loop"
    BY <1>0, <1>00, <2>1
  <2>. QED BY <1>0, <2>1, <2>2, AbortNewer
<1>2. CASE IsrBoundary
  <2>1. /\ ipc = "idle"
        /\ frame' = [frame EXCEPT !["isr"].half = IF "HT" \in flags THEN 0 ELSE 1]
        /\ UNCHANGED <<queue, pending, lastSeq, mpc, sent, dropped>>
    BY <1>2 DEF IsrBoundary, segments, history
  <2>2. \A c \in Caller : frame'[c].incoming = frame[c].incoming /\ frame'[c].at = frame[c].at
    BY <1>0, <2>1 DEF Frame
  <2>. QED BY <1>0, <2>1, <2>2, StutterNewer
<1>3. CASE IsrPlay
  <2>1. ipc = "play" /\ UNCHANGED <<queue, pending, frame, lastSeq, mpc, sent, dropped>>
    BY <1>3 DEF IsrPlay, segments, history
  <2>. QED BY <2>1, StutterNewer
<1>4. CASE IsrRefill
  <2>1. ipc = "refill" /\ UNCHANGED <<sent, mpc>>
    BY <1>4 DEF IsrRefill
  <2>2. \A c \in Caller : frame[c].at = "loop"
    BY <1>0, <1>00, <2>1
  <2>3. CASE ready[1 - frame["isr"].half]
    <3>1. PICK half, index :
            frame' = [frame EXCEPT !["isr"] = [at |-> "loop", half |-> half, index |-> index,
                                               done |-> 0, incoming |-> <<>>]]
      BY <1>4, <2>3 DEF IsrRefill, BeginFill
    <3>2. UNCHANGED <<queue, pending, lastSeq, dropped>>
      BY <1>4, <2>3 DEF IsrRefill, segments
    <3>3. \A c \in Caller : Newer(frame'[c].incoming, dropped) /\ frame'[c].at = "loop"
      BY <1>0, <2>2, <3>1, NewerParts DEF AllNewer
    <3>. QED BY <1>0, <2>1, <3>2, <3>3 DEF AllNewer
  <2>4. CASE ~ready[1 - frame["isr"].half]
    <3>1. CoreAbort({"BUFFER_UNDERRUN"}) /\ dropped' = sent
      BY <1>4, <2>4 DEF IsrRefill
    <3>. QED BY <1>0, <2>1, <2>2, <3>1, AbortNewer
  <2>. QED BY <2>3, <2>4
<1>5. CASE IsrFillStep
  <2>1. FillStep("isr") /\ UNCHANGED <<mpc, ipc, sent, dropped>> /\ ipc = "fill"
    BY <1>5 DEF IsrFillStep, history
  <2>2. frame'["main"] = frame["main"]
    BY <1>0, <2>1, FillNewer
  <2>. QED BY <1>0, <2>1, <2>2, FillNewer
<1>6. CASE IsrDone \/ IsrFaultCheck \/ IsrFault
  <2>1. UNCHANGED <<coreVars, mpc, sent, dropped>> /\ frame["isr"].at = "loop"
    BY <1>0, <1>6 DEF IsrDone, IsrFaultCheck, IsrFault, Filled, history
  <2>2. UNCHANGED <<queue, pending, frame, lastSeq>>
    BY <2>1 DEF coreVars, segments
  <2>. QED BY <2>1, <2>2, StutterNewer
<1>. QED BY <1>1, <1>2, <1>3, <1>4, <1>5, <1>6 DEF Isr

LEMMA StepNewer ==
    ASSUME EStopCuts = {}, TypeOK, ControlInv, AllNewer, AppliedInFill, [Next]_vars
    PROVE  AllNewer' /\ AppliedInFill' /\ (lastSeq' # lastSeq => lastSeq' > dropped)
<1>0. Caller = {"main", "isr"} /\ \A c \in Caller : frame[c].at \in {"loop", "apply"}
  BY TypeParts DEF CoreTypeOK, Caller, Frame
<1>1. CASE EStop
  <2>1. /\ mpc = "idle" /\ ipc = "idle" /\ CoreAbort({})
        /\ UNCHANGED <<mpc, ipc, sent>> /\ dropped' = sent
    BY <1>1 DEF EStop
  <2>2. \A c \in Caller : frame[c].at = "loop"
    BY <1>0, <2>1 DEF AppliedInFill
  <2>. QED BY <1>0, <2>1, <2>2, AbortNewer DEF AppliedInFill
<1>2. CASE DmaTick \/ DmaFails \/ UNCHANGED vars
  <2>1. UNCHANGED <<coreVars, mpc, ipc, sent, dropped>>
    BY <1>2 DEF DmaTick, DmaFails, vars, history
  <2>2. UNCHANGED <<queue, pending, frame, lastSeq>>
    BY <2>1 DEF coreVars, segments
  <2>. QED BY <2>1, <2>2, StutterNewer DEF AppliedInFill
<1>. QED BY <1>1, <1>2, MainNewer, IsrNewer DEF Next

(* No segment accepted before an abort is applied after it, when the E-STOP *)
(* arrives between calls and outside the interrupt: ClaimAbortIsFinal shows *)
(* the segment that survives one that cuts into a refill.                   *)
THEOREM AbortsAreFinal ==
    ASSUME EStopCuts = {}
    PROVE  Spec => AbortIsFinal
<1>1. Init => AllNewer /\ AppliedInFill
  BY NewerParts DEF Init, CoreInit, AllNewer, AppliedInFill, Caller
<1>2. TypeOK /\ ControlInv /\ AllNewer /\ AppliedInFill /\ [Next]_vars
        => AllNewer' /\ AppliedInFill'
  BY StepNewer
<1>3. TypeOK /\ ControlInv /\ AllNewer /\ AppliedInFill /\ [Next]_vars
        => [lastSeq' # lastSeq => lastSeq' > dropped]_vars
  BY StepNewer
<1>4. "main" \notin EStopCuts
  OBVIOUS
<1>. QED BY <1>1, <1>2, <1>3, <1>4, TypeCorrect, ControlCorrect, PTL DEF Spec, AbortIsFinal
=============================================================================
