-------------------------- MODULE StepgenMotion_proofs --------------------------
(***************************************************************************)
(* Proofs about the words of the ring while it plays: they are planned for *)
(* the levels of the DIR lines they will meet, separated by low ticks, and *)
(* counted once.                                                           *)
(***************************************************************************)
EXTENDS StepgenFill_proofs

(* The refill is done before the half it refills plays, and the DIR lines   *)
(* are written while the first words of the half are still silent.          *)
RefillInTime    == MaxFillLag < HalfTicks
InterruptInTime == RefillInTime /\ MaxDirLag <= GuardTicks

---------------------------------------------------------------------------
(* Where the DMA is.                                                       *)

Playing == idx \div HalfTicks

(* The end of a half is out, but its DIR lines are not written yet. *)
Boundary == ipc = "play" \/ "HT" \in flags \/ "TC" \in flags

(* The flags and the interrupt are about the half that was played last. *)
PhysInv == running =>
    /\ ~("HT" \in flags /\ "TC" \in flags)
    /\ "HT" \in flags => Playing = 1
    /\ "TC" \in flags => Playing = 0
    /\ ipc \in {"play", "refill", "fill"} =>
         frame["isr"].half = 1 - Playing /\ flags \subseteq {"ERR"}
    /\ Boundary => Played <= MaxDirLag

LEMMA IdxParts ==
    ASSUME PortTypeOK
    PROVE  /\ Playing \in Half /\ Played \in 0 .. HalfTicks - 1
           /\ idx = Playing * HalfTicks + Played
           /\ idx < HalfTicks => Playing = 0 /\ Played = idx
           /\ idx >= HalfTicks => Playing = 1 /\ Played = idx - HalfTicks
<1>0. HalfTicks \in Nat \ {0} /\ idx \in 0 .. 2 * HalfTicks - 1
  BY HalfTicksAssumption DEF PortTypeOK, RingIx
<1>1. CASE idx < HalfTicks
  <2>1. idx \in 0 .. HalfTicks - 1 /\ HalfTicks * 0 + idx = idx /\ 0 \in Int
    BY <1>0, <1>1
  <2>2. idx % HalfTicks = idx /\ idx \div HalfTicks = 0
    BY <1>0, <2>1, ModUnique
  <2>. QED BY <1>0, <1>1, <2>1, <2>2 DEF Playing, Played, Half
<1>2. CASE idx >= HalfTicks
  <2>1. idx - HalfTicks \in 0 .. HalfTicks - 1 /\ HalfTicks * 1 + (idx - HalfTicks) = idx
        /\ 1 \in Int
    BY <1>0, <1>2
  <2>2. idx % HalfTicks = idx - HalfTicks /\ idx \div HalfTicks = 1
    BY <1>0, <2>1, ModUnique
  <2>. QED BY <1>0, <1>2, <2>1, <2>2 DEF Playing, Played, Half
<1>. QED BY <1>0, <1>1, <1>2

(* A word within a half leaves everything in place; the last word of a half *)
(* finds no interrupt under way and raises the flag of that half.           *)
LEMMA TickPlace ==
    ASSUME RefillInTime, TypeOK, TypeOK', DmaTick
    PROVE  /\ running /\ running' /\ InTime
           /\ \/ /\ Played' = Played + 1 /\ Playing' = Playing /\ flags' = flags
                 /\ Played < HalfTicks - 1
              \/ /\ Played = HalfTicks - 1 /\ Played' = 0 /\ Playing' = 1 - Playing
                 /\ IsrIdle
                 /\ flags' = IF Playing = 0 THEN {"HT"} ELSE {"TC"}
<1>0. /\ PortTypeOK /\ PortTypeOK' /\ HalfTicks \in Nat \ {0} /\ idx \in 0 .. 2 * HalfTicks - 1
      /\ running /\ running' = running /\ InTime
      /\ idx' = IF idx + 1 = 2 * HalfTicks THEN 0 ELSE idx + 1
      /\ flags' = flags \cup (IF idx + 1 = HalfTicks THEN {"HT"}
                              ELSE IF idx + 1 = 2 * HalfTicks THEN {"TC"} ELSE {})
  BY TypeParts, TypePartsNext, HalfTicksAssumption DEF DmaTick, PlayWord, PortTypeOK, RingIx, TypeOK
<1>1. /\ idx < HalfTicks => Playing = 0 /\ Played = idx
      /\ idx >= HalfTicks => Playing = 1 /\ Played = idx - HalfTicks
  BY <1>0, IdxParts
<1>2. /\ idx' < HalfTicks => Playing' = 0 /\ Played' = idx'
      /\ idx' >= HalfTicks => Playing' = 1 /\ Played' = idx' - HalfTicks
  <2>1. (/\ idx < HalfTicks => Playing = 0 /\ Played = idx
         /\ idx >= HalfTicks => Playing = 1 /\ Played = idx - HalfTicks)'
    BY <1>0, IdxParts, PTL
  <2>. QED BY <2>1
<1>3. CASE idx + 1 # HalfTicks /\ idx + 1 # 2 * HalfTicks
  BY <1>0, <1>1, <1>2, <1>3
<1>4. CASE idx + 1 = HalfTicks \/ idx + 1 = 2 * HalfTicks
  <2>1. Played = HalfTicks - 1
    BY <1>0, <1>1, <1>4
  <2>2. IsrIdle
    <3>1. ~IsrIdle => Played < MaxFillLag
      BY <1>0 DEF InTime
    <3>. QED BY <1>0, <2>1, <3>1, LagAssumption DEF RefillInTime
  <2>3. flags = {}
    BY <2>2 DEF IsrIdle
  <2>4. CASE idx + 1 = HalfTicks
    BY <1>0, <1>1, <1>2, <2>1, <2>2, <2>3, <2>4
  <2>5. CASE idx + 1 = 2 * HalfTicks
    BY <1>0, <1>1, <1>2, <2>1, <2>2, <2>3, <2>5
  <2>. QED BY <1>4, <2>4, <2>5
<1>. QED BY <1>3, <1>4, <1>0

LEMMA StepPhys ==
    ASSUME RefillInTime, EStopCuts = {}, TypeOK, TypeOK', ControlInv, PhysInv, [Next]_vars
    PROVE  PhysInv'
<1>0. /\ frame \in [Caller -> Frame] /\ "isr" \in Caller /\ CoreTypeOK
      /\ flags \subseteq {"HT", "TC", "ERR"} /\ MaxDirLag \in Nat
      /\ Playing \in Half /\ Played \in Nat
  BY TypeParts, IdxParts, LagAssumption DEF CoreTypeOK, PortTypeOK, Caller
<1> SUFFICES ASSUME running'
             PROVE  PhysInv'
  BY DEF PhysInv
<1>1. CASE DmaTick
  <2>1. /\ running /\ InTime
        /\ \/ /\ Played' = Played + 1 /\ Playing' = Playing /\ flags' = flags
           \/ /\ Played' = 0 /\ Playing' = 1 - Playing
              /\ IsrIdle /\ flags' = IF Playing = 0 THEN {"HT"} ELSE {"TC"}
    BY <1>1, TickPlace
  <2>2. UNCHANGED <<frame, ipc>>
    BY <1>1 DEF DmaTick, coreVars
  <2>3. CASE Played' = Played + 1 /\ Playing' = Playing /\ flags' = flags
    <3>1. Boundary' => Played < MaxDirLag
      BY <2>1, <2>2, <2>3 DEF Boundary, InTime
    <3>2. Boundary' => Played' <= MaxDirLag
      BY <1>0, <2>3, <3>1
    <3>. QED BY <2>1, <2>2, <2>3, <3>2 DEF PhysInv
  <2>4. CASE /\ Played' = 0 /\ Playing' = 1 - Playing
             /\ IsrIdle /\ flags' = IF Playing = 0 THEN {"HT"} ELSE {"TC"}
    <3>1. Played' <= MaxDirLag /\ Playing \in {0, 1} /\ ipc' = "idle"
      BY <1>0, <2>2, <2>4 DEF IsrIdle, Half
    <3>. QED BY <2>1, <2>4, <3>1 DEF PhysInv
  <2>. QED BY <2>1, <2>3, <2>4
<1>2. CASE StartPort
  <2>1. idx' = 0 /\ flags' = {} /\ ipc' = "idle"
    BY <1>2 DEF StartPort, PortStart, MainAt, MainRuns, IsrIdle
  <2>. QED BY <2>1 DEF PhysInv, Boundary
<1>3. CASE DmaFails
  <2>1. /\ running /\ UNCHANGED <<idx, frame, ipc>> /\ flags' = flags \cup {"ERR"}
    BY <1>3 DEF DmaFails, DmaError, coreVars
  <2>. QED BY <2>1 DEF PhysInv, Boundary, Playing, Played
<1>4. CASE IsrBoundary
  <2>1. /\ running /\ UNCHANGED idx /\ flags' = {} /\ ipc' = "play" /\ flags # {} /\ ~Missed
        /\ frame' = [frame EXCEPT !["isr"].half = IF "HT" \in flags THEN 0 ELSE 1]
    BY <1>4 DEF IsrBoundary
  <2>2. frame'["isr"].half = IF "HT" \in flags THEN 0 ELSE 1
    BY <1>0, <2>1 DEF Frame
  <2>3. "HT" \in flags \/ "TC" \in flags
    BY <1>0, <2>1 DEF Missed
  <2>. QED BY <2>1, <2>2, <2>3 DEF PhysInv, Boundary, Playing, Played
<1>5. CASE IsrPlay
  <2>1. UNCHANGED <<running, idx, flags, frame>> /\ ipc = "play" /\ ipc' = "refill"
    BY <1>5 DEF IsrPlay, PortWriteDir, portVars, dma
  <2>. QED BY <2>1 DEF PhysInv, Boundary, Playing, Played
<1>6. CASE IsrRefill
  <2>1. ready[1 - frame["isr"].half]
    BY <1>6 DEF IsrRefill, PortEmergencyStop
  <2>2. UNCHANGED <<running, idx, flags>> /\ ipc = "refill" /\ ipc' = "fill"
        /\ BeginFill("isr", frame["isr"].half, NextHalf(playHalf))
    BY <1>6, <2>1 DEF IsrRefill, portVars, dma
  <2>3. frame'["isr"].half = frame["isr"].half
    BY <1>0, <2>2 DEF BeginFill
  <2>. QED BY <2>2, <2>3 DEF PhysInv, Boundary, Playing, Played
<1>7. CASE IsrFillStep \/ MainFillStep
  <2>1. PICK c \in Caller : FillStep(c) /\ UNCHANGED <<portVars, facade, mpc, ipc, history>>
    BY <1>7, Fillers
  <2>2. UNCHANGED <<running, idx, flags, ipc>> /\ frame'["isr"].half = frame["isr"].half
    BY <1>0, <2>1, FillFrames DEF portVars, dma
  <2>. QED BY <2>2 DEF PhysInv, Boundary, Playing, Played
<1>8. CASE CallStep \/ StartFill0 \/ StartFill1 \/ StartDir \/ ClearRewind \/ SubmitPush
  <2>1. UNCHANGED <<running, idx, flags, ipc>>
    BY <1>8, CallSteps DEF StartFill0, StartFill1, StartDir, PortWriteDir, ClearRewind, SubmitPush,
       portVars, dma
  <2>2. ipc = "idle"
    BY <1>8, CallSteps DEF StartFill0, StartFill1, StartDir, ClearRewind, SubmitPush, MainAt, MainRuns,
       IsrIdle
  <2>. QED BY <2>1, <2>2 DEF PhysInv, Boundary, Playing, Played
<1>9. CASE FlowStep
  <2>1. UNCHANGED <<running, idx, flags, frame>> /\ ipc' \in {"idle", "faulted"}
        /\ ipc \in {"fill", "fault", "faulted"}
    BY <1>9, FlowSteps DEF portVars, dma, coreVars
  <2>. QED BY <2>1 DEF PhysInv, Boundary, Playing, Played
<1>10. ~Stop /\ ~IsrOverrun /\ ~EStop
  BY DEF Stop, PortStop, IsrOverrun, EStop, PortEmergencyStop
<1>11. ~StopAbort
  BY DEF StopAbort, MainAt, ControlInv, portVars, dma
<1>12. CASE UNCHANGED vars
  <2>1. UNCHANGED <<running, idx, flags, frame, ipc>>
    BY <1>12 DEF vars, coreVars, portVars, dma
  <2>. QED BY <2>1 DEF PhysInv, Boundary, Playing, Played
<1>. QED
  BY <1>1, <1>2, <1>3, <1>4, <1>5, <1>6, <1>7, <1>8, <1>9, <1>10, <1>11, <1>12
     DEF Next, Main, Isr, CallStep, FlowStep

LEMMA PhysCorrect ==
    ASSUME RefillInTime, EStopCuts = {}
    PROVE  Spec => []PhysInv
<1>1. Init => PhysInv
  BY DEF Init, PortInit, PhysInv
<1>2. TypeOK /\ TypeOK' /\ ControlInv /\ PhysInv /\ [Next]_vars => PhysInv'
  BY StepPhys
<1>3. "main" \notin EStopCuts
  OBVIOUS
<1>. QED BY <1>1, <1>2, <1>3, TypeCorrect, ControlCorrect, PTL DEF Spec

---------------------------------------------------------------------------
(* Which words of the ring are planned, and for which half.                *)

(* The ring is in use: it plays, or it is filled for the start. *)
On == running \/ Starting

(* The physical half that holds the logical half playHalf. *)
First == IF running /\ (Boundary <=> Playing = 0) THEN 1 ELSE 0

(* The words of a physical half that are planned for its next playing, or   *)
(* the present one.                                                         *)
FilledIn(h) ==
    CASE mpc = "fill0" -> IF h = 0 THEN frame["main"].done ELSE 0
      [] mpc = "fill1" -> IF h = 0 THEN HalfTicks ELSE frame["main"].done
      [] running /\ ipc = "refill" /\ h # First -> 0
      [] running /\ ipc = "fill" /\ h # First -> frame["isr"].done
      [] OTHER -> HalfTicks

LogicalOf(h) == IF h = First THEN playHalf ELSE NextHalf(playHalf)

(* The word at offset j of physical half h. *)
At(h, j) == h * HalfTicks + j

LEMMA AtWords ==
    ASSUME NEW h \in Half, NEW j \in 0 .. HalfTicks - 1
    PROVE  /\ At(h, j) \in RingIx
           /\ \A g \in Half, i \in 0 .. HalfTicks - 1 : At(g, i) = At(h, j) => g = h /\ i = j
           /\ \A d \in 0 .. HalfTicks : \A i \in d .. HalfTicks :
                 At(h, j) \in At(h, d) .. At(h, d) + i - d - 1 <=> j \in d .. i - 1
           /\ \A g \in Half \ {h}, d \in 0 .. HalfTicks : \A i \in d .. HalfTicks :
                 ~(At(h, j) \in At(g, d) .. At(g, d) + i - d - 1)
<1>1. HalfTicks \in Nat /\ 0 * HalfTicks = 0 /\ 1 * HalfTicks = HalfTicks
  BY HalfTicksAssumption
<1>2. CASE h = 0
  BY <1>1, <1>2 DEF At, RingIx, Half
<1>3. CASE h = 1
  BY <1>1, <1>3 DEF At, RingIx, Half
<1>. QED BY <1>2, <1>3 DEF Half

(* The caller that fills has filled what counts as planned, and the other   *)
(* half is complete, but for the first fill of a start.                     *)
LEMMA FillerPlace ==
    ASSUME TypeOK, ControlInv, FillPlace, PhysInv, NEW c \in Caller, Filler(c), On
    PROVE  /\ frame[c].half \in Half /\ frame[c].index = LogicalOf(frame[c].half)
           /\ frame[c].index = fillHalf /\ frame[c].done \in 0 .. HalfTicks
           /\ FilledIn(frame[c].half) = frame[c].done
           /\ \/ /\ mpc = "fill0" /\ c = "main" /\ frame[c].half = First /\ FilledIn(1 - First) = 0
              \/ /\ mpc # "fill0" /\ frame[c].half = 1 - First /\ FilledIn(First) = HalfTicks
           /\ First \in Half
           /\ running => First = Playing
<1>0. /\ frame[c] \in Frame /\ frame[c].half \in Half /\ frame[c].done \in 0 .. HalfTicks
      /\ Playing \in Half
  BY TypeParts, IdxParts DEF CoreTypeOK, Frame
<1>1. CASE c = "main"
  <2>1. ~running /\ First = 0 /\ mpc \in {"fill0", "fill1"}
    BY <1>1 DEF Filler, First
  <2>2. /\ playHalf = 0 /\ frame["main"].half = IF mpc = "fill0" THEN 0 ELSE 1
        /\ frame["main"].index = fillHalf /\ fillHalf = IF mpc = "fill0" THEN 0 ELSE NextHalf(0)
    BY <2>1 DEF FillPlace, Starting
  <2>. QED BY <1>0, <1>1, <2>1, <2>2 DEF LogicalOf, FilledIn, Half
<1>2. CASE c = "isr"
  <2>1. ipc = "fill" /\ ~Starting /\ running /\ mpc \notin {"fill0", "fill1"}
    BY <1>2 DEF Filler, On, Starting
  <2>2. First = Playing /\ frame["isr"].half = 1 - Playing
    BY <1>0, <2>1 DEF PhysInv, Boundary, First, Half
  <2>3. frame["isr"].index = fillHalf /\ fillHalf = NextHalf(playHalf)
    BY <2>1 DEF FillPlace, Turning
  <2>4. 1 - First # First /\ First \in Half
    BY <1>0, <2>2 DEF Half
  <2>. QED BY <1>0, <1>2, <2>1, <2>2, <2>3, <2>4 DEF LogicalOf, FilledIn
<1>. QED BY <1>1, <1>2 DEF Caller

(* The steps after which the same words are planned for the same halves. *)
Still ==
    \/ Passive \/ StartFill1 \/ SubmitPush \/ IsrBoundary
    \/ (IsrRefill /\ ready[1 - frame["isr"].half])

LEMMA StillPlace ==
    ASSUME RefillInTime, TypeOK, TypeOK', ControlInv, FillPlace, PhysInv, PhysInv', Still, On'
    PROVE  /\ On /\ UNCHANGED <<ring, ax, playHalf, First, pin>>
           /\ \A h \in Half : FilledIn(h)' = FilledIn(h)
           /\ \A h \in Half : LogicalOf(h)' = LogicalOf(h)
<1>0. /\ frame \in [Caller -> Frame] /\ "isr" \in Caller /\ "main" \in Caller
      /\ Playing \in Half /\ CoreTypeOK /\ flags \subseteq {"HT", "TC", "ERR"}
  BY TypeParts, IdxParts DEF CoreTypeOK, PortTypeOK, Caller
<1> SUFFICES /\ On /\ UNCHANGED <<ring, ax, playHalf, First, pin>>
             /\ \A h \in Half : FilledIn(h)' = FilledIn(h)
  BY DEF LogicalOf
<1> USE DEF On, Starting, FilledIn
<1>1. CASE CallStep
  <2>1. UNCHANGED <<ring, ax, playHalf, pin, running, flags, idx, ipc, frame>>
    BY <1>1, CallSteps DEF coreVars, dma
  <2>2. First' = First
    BY <2>1 DEF First, Boundary, Playing
  <2>. QED BY <1>1, <2>1, <2>2, CallSteps
<1>2. CASE FlowStep
  <2>1. UNCHANGED <<ring, ax, playHalf, pin, running, flags, idx, mpc, frame>>
    BY <1>2, FlowSteps DEF coreVars, portVars, dma
  <2>2. First' = First
    BY <1>2, <2>1, FlowSteps DEF First, Boundary, Playing
  <2>3. running => ipc = "fill" /\ ipc' = "idle" /\ frame["isr"].done = HalfTicks
    BY <1>2, FlowSteps DEF ControlInv, Filled
  <2>. QED BY <1>2, <2>1, <2>2, <2>3
<1>3. CASE StartPort
  <2>1. /\ UNCHANGED <<ring, ax, playHalf, pin, frame>> /\ mpc = "port" /\ mpc' = "idle"
        /\ ipc = "idle" /\ ipc' = "idle" /\ running' /\ idx' = 0 /\ flags' = {}
    BY <1>3 DEF StartPort, PortStart, MainAt, MainRuns, IsrIdle, coreVars
  <2>2. ~running
    BY <2>1 DEF ControlInv, Alone
  <2>3. Playing' = 0
    BY <2>1, HalfTicksAssumption DEF Playing
  <2>. QED BY <2>1, <2>2, <2>3 DEF First, Boundary
<1>4. CASE Stop
  BY <1>4 DEF Stop, PortStop
<1>5. CASE DmaTick
  <2>1. /\ UNCHANGED <<ring, ax, playHalf, pin, frame, mpc, ipc>> /\ running /\ running'
        /\ \/ Playing' = Playing /\ flags' = flags
           \/ /\ Playing' = 1 - Playing
              /\ IsrIdle /\ flags' = IF Playing = 0 THEN {"HT"} ELSE {"TC"}
    BY <1>5, TickPlace DEF DmaTick, PlayWord, coreVars
  <2>2. First' = First
    BY <1>0, <2>1 DEF First, Boundary, IsrIdle, Half
  <2>. QED BY <2>1, <2>2
<1>6. CASE DmaFails \/ UNCHANGED vars
  <2>1. UNCHANGED <<ring, ax, playHalf, pin, frame, mpc, ipc, running, idx>>
        /\ (flags' = flags \/ flags' = flags \cup {"ERR"})
    BY <1>6 DEF DmaFails, DmaError, vars, coreVars, portVars, dma
  <2>2. First' = First
    BY <2>1 DEF First, Boundary, Playing
  <2>. QED BY <2>1, <2>2
<1>7. CASE StartFill1
  <2>1. /\ UNCHANGED <<ring, ax, playHalf, pin, running, flags, idx, ipc>>
        /\ mpc = "fill0" /\ mpc' = "fill1" /\ Filled("main")
        /\ BeginFill("main", 1, NextHalf(0))
    BY <1>7 DEF StartFill1, MainAt, portVars, dma
  <2>2. frame'["main"].done = 0 /\ frame["main"].done = HalfTicks
    BY <1>0, <2>1 DEF BeginFill, Filled
  <2>3. First' = First
    BY <2>1 DEF First, Boundary, Playing
  <2>4. ~running
    BY <2>1 DEF ControlInv, Alone
  <2>. QED BY <2>1, <2>2, <2>3, <2>4
<1>8. CASE SubmitPush
  <2>1. /\ UNCHANGED <<ring, ax, playHalf, pin, running, flags, idx, ipc, frame>>
        /\ mpc = "push" /\ mpc' = "idle"
    BY <1>8 DEF SubmitPush, MainAt, portVars, dma
  <2>2. First' = First
    BY <2>1 DEF First, Boundary, Playing
  <2>. QED BY <2>1, <2>2
<1>9. CASE IsrBoundary
  <2>1. /\ UNCHANGED <<ring, ax, playHalf, pin, running, idx, mpc>>
        /\ flags' = {} /\ ipc = "idle" /\ ipc' = "play" /\ flags # {} /\ ~Missed
    BY <1>9 DEF IsrBoundary
  <2>2. mpc \notin {"fill0", "fill1", "run", "port"}
    BY <2>1 DEF ControlInv, Alone
  <2>3. First' = First
    BY <1>0, <2>1 DEF First, Boundary, Playing, Missed
  <2>. QED BY <2>1, <2>2, <2>3
<1>10. CASE IsrRefill /\ ready[1 - frame["isr"].half]
  <2>1. /\ UNCHANGED <<ring, ax, playHalf, pin, running, flags, idx, mpc>>
        /\ ipc = "refill" /\ ipc' = "fill"
        /\ BeginFill("isr", frame["isr"].half, NextHalf(playHalf))
    BY <1>10 DEF IsrRefill, portVars, dma
  <2>2. frame'["isr"].done = 0 /\ frame'["main"] = frame["main"]
    BY <1>0, <2>1 DEF BeginFill
  <2>3. First' = First
    BY <2>1 DEF First, Boundary, Playing
  <2>4. mpc \notin {"fill0", "fill1", "run", "port"}
    BY <2>1 DEF ControlInv, Alone
  <2>. QED BY <2>1, <2>2, <2>3, <2>4
<1>. QED
  BY <1>1, <1>2, <1>3, <1>4, <1>5, <1>6, <1>7, <1>8, <1>9, <1>10 DEF Still, Passive

(* A step of a fill moves the end of its own half only. *)
LEMMA FillerMoves ==
    ASSUME TypeOK, ControlInv, FillPlace, PhysInv, NEW c \in Caller, Filler(c), FillStep(c),
           UNCHANGED <<portVars, facade, mpc, ipc, history>>, On'
    PROVE  /\ On /\ UNCHANGED <<First, playHalf, running, pin, idx, flags, Playing, Played>>
           /\ \A h \in Half : LogicalOf(h)' = LogicalOf(h)
           /\ FilledIn(frame[c].half)' = frame'[c].done
           /\ FilledIn(1 - frame[c].half)' = FilledIn(1 - frame[c].half)
<1>0. /\ CoreTypeOK /\ UNCHANGED <<running, flags, idx, pin, mpc, ipc, playHalf>>
      /\ \A b \in Caller : b # c => frame'[b] = frame[b]
  BY TypeParts, FillFrames DEF portVars, dma
<1>1. On /\ UNCHANGED <<First, Playing, Played>>
  BY <1>0 DEF On, Starting, First, Boundary, Playing, Played
<1>2. /\ frame[c].half \in Half /\ First \in Half
      /\ running => First = Playing
      /\ \/ /\ mpc = "fill0" /\ c = "main" /\ frame[c].half = First
         \/ /\ mpc # "fill0" /\ frame[c].half = 1 - First
  BY <1>1, FillerPlace
<1>3. CASE c = "main"
  <2>1. ~running /\ First = 0 /\ mpc \in {"fill0", "fill1"}
    BY <1>3 DEF Filler, First
  <2>2. frame[c].half = IF mpc = "fill0" THEN 0 ELSE 1
    BY <1>2, <2>1
  <2>3. \A h \in Half : LogicalOf(h)' = LogicalOf(h)
    BY <1>0, <1>1 DEF LogicalOf
  <2>4. CASE mpc = "fill0"
    <3>1. frame[c].half = 0 /\ 1 - frame[c].half = 1
      BY <2>2, <2>4
    <3>2. FilledIn(0)' = frame'["main"].done /\ FilledIn(1)' = 0 /\ FilledIn(1) = 0
      BY <1>0, <2>1, <2>4 DEF FilledIn
    <3>3. FilledIn(frame[c].half)' = FilledIn(0)' /\ FilledIn(1 - frame[c].half)' = FilledIn(1)'
      BY <3>1, FillFrames, TypeParts
    <3>. QED BY <1>0, <1>1, <1>3, <2>3, <3>1, <3>2, <3>3
  <2>5. CASE mpc = "fill1"
    <3>1. frame[c].half = 1 /\ 1 - frame[c].half = 0
      BY <2>2, <2>5
    <3>2. FilledIn(1)' = frame'["main"].done /\ FilledIn(0)' = HalfTicks /\ FilledIn(0) = HalfTicks
      BY <1>0, <2>1, <2>5 DEF FilledIn
    <3>3. FilledIn(frame[c].half)' = FilledIn(1)' /\ FilledIn(1 - frame[c].half)' = FilledIn(0)'
      BY <3>1, FillFrames, TypeParts
    <3>. QED BY <1>0, <1>1, <1>3, <2>3, <3>1, <3>2, <3>3
  <2>. QED BY <2>1, <2>4, <2>5
<1>4. CASE c = "isr"
  <2>1. ipc = "fill" /\ mpc \notin {"fill0", "fill1"} /\ running
    BY <1>1, <1>4 DEF Filler, Starting, On
  <2>2. frame[c].half = 1 - First
    BY <1>2, <2>1
  <2>3. 1 - First # First /\ 1 - (1 - First) = First
    <3>1. First = 0 \/ First = 1
      BY DEF First
    <3>. QED BY <3>1
  <2>4. FilledIn(First) = HalfTicks /\ FilledIn(First)' = HalfTicks
    BY <1>0, <1>1, <2>1 DEF FilledIn
  <2>5. FilledIn(1 - First)' = frame'["isr"].done
    BY <1>0, <1>1, <2>1, <2>3 DEF FilledIn
  <2>6. \A h \in Half : LogicalOf(h)' = LogicalOf(h)
    BY <1>0, <1>1 DEF LogicalOf
  <2>7. FilledIn(frame[c].half)' = FilledIn(1 - First)'
        /\ FilledIn(1 - frame[c].half)' = FilledIn(First)'
    BY <1>0, <1>1, <2>2, <2>3, FillFrames
  <2>. QED BY <1>0, <1>1, <1>4, <2>2, <2>3, <2>4, <2>5, <2>6, <2>7
<1>. QED BY <1>3, <1>4 DEF Caller

(* What a step of a fill writes. *)
Rewrites(c) ==
    \A h \in Half, j \in 0 .. HalfTicks - 1 :
        h # frame[c].half \/ j \notin frame[c].done .. frame'[c].done - 1
            => ring'[At(h, j)] = ring[At(h, j)]
SilentFill(c) ==
    /\ frame'[c].done = HalfTicks /\ UNCHANGED positions
    /\ \A j \in frame[c].done .. HalfTicks - 1, a \in Axes : ring'[At(frame[c].half, j)][a] = 0
    /\ \A a \in Axes : ax'[a].phase = ax[a].phase
SteppedFill(c, k) ==
    /\ frame'[c].done = frame[c].done + k
    /\ \A j \in frame[c].done .. frame'[c].done - 1, a \in Axes :
          ring'[At(frame[c].half, j)][a] =
             IF StepsAt(ax[a].phase, Rate(a, Now(c)), j - frame[c].done) THEN Forward(a) ELSE 0

LEMMA SilenceWords ==
    ASSUME CoreTypeOK, NEW c \in Caller, SilenceRest(c), frame[c].done < HalfTicks
    PROVE  /\ Rewrites(c) /\ frame'[c].done = HalfTicks
           /\ \A j \in frame[c].done .. HalfTicks - 1, a \in Axes :
                 ring'[At(frame[c].half, j)][a] = 0
<1> DEFINE half == frame[c].half
           d == frame[c].done
<1>0. /\ frame \in [Caller -> Frame] /\ half \in Half /\ d \in 0 .. HalfTicks
      /\ HalfTicks \in Nat
  BY HalfTicksAssumption DEF CoreTypeOK, Frame
<1>1. frame'[c].done = HalfTicks
  BY <1>0 DEF SilenceRest, Frame
<1>2. \A i \in RingIx : ring'[i] = IF i \in At(half, d) .. half * HalfTicks + HalfTicks - 1
                                   THEN IdleWord ELSE ring[i]
  BY DEF SilenceRest, At
<1>3. half * HalfTicks + HalfTicks - 1 = At(half, d) + HalfTicks - d - 1
  BY <1>0 DEF At, Half
<1>4. HalfTicks \in d .. HalfTicks
  BY <1>0
<1> HIDE DEF half, d
<1>5. ASSUME NEW h \in Half, NEW j \in 0 .. HalfTicks - 1
      PROVE  ring'[At(h, j)] = IF h = half /\ j \in d .. HalfTicks - 1 THEN IdleWord
                               ELSE ring[At(h, j)]
  <2>1. At(h, j) \in RingIx
    BY AtWords
  <2>2. At(h, j) \in At(half, d) .. At(half, d) + HalfTicks - d - 1
           <=> h = half /\ j \in d .. HalfTicks - 1
    <3>1. CASE h = half
      BY <1>0, <1>4, <3>1, AtWords
    <3>2. CASE h # half
      BY <1>0, <1>4, <3>2, AtWords, ZenonT(60)
    <3>. QED BY <3>1, <3>2
  <2>. QED BY <1>2, <1>3, <2>1, <2>2
<1>6. \A j \in d .. HalfTicks - 1 : j \in 0 .. HalfTicks - 1
  BY <1>0
<1>7. \A j \in d .. HalfTicks - 1, a \in Axes : ring'[At(half, j)][a] = 0
  BY <1>0, <1>5, <1>6 DEF IdleWord
<1>8. Rewrites(c)
  BY <1>1, <1>5 DEF Rewrites, half, d
<1>. QED BY <1>1, <1>7, <1>8 DEF half, d

LEMMA EmitWords ==
    ASSUME CoreTypeOK, NEW c \in Caller, NEW k \in 1 .. HalfTicks, IsRun(c, k), EmitRun(c, k)
    PROVE  Rewrites(c) /\ SteppedFill(c, k) /\ frame[c].done + k <= HalfTicks /\ k <= remaining
<1> DEFINE half == frame[c].half
           d == frame[c].done
           W(i) == [a \in Axes |-> IF StepsAt(ax[a].phase, Rate(a, Now(c)), i)
                                   THEN Forward(a) ELSE 0]
<1>0. /\ frame \in [Caller -> Frame] /\ half \in Half /\ d \in 0 .. HalfTicks
      /\ HalfTicks \in Nat
  BY HalfTicksAssumption DEF CoreTypeOK, Frame
<1>1. k <= HalfTicks - d /\ k <= remaining
  BY DEF IsRun
<1>2. frame'[c].done = d + k /\ d + k \in d .. HalfTicks
  BY <1>0, <1>1 DEF EmitRun, Frame
<1>3. \A i \in RingIx : ring'[i] = IF i \in At(half, d) .. At(half, d) + k - 1
                                   THEN W(i - At(half, d)) ELSE ring[i]
  BY DEF EmitRun, At
<1>4. At(half, d) + k - 1 = At(half, d) + (d + k) - d - 1
  BY <1>0 DEF At, Half
<1>5. \A j \in Nat : At(half, j) - At(half, d) = j - d
  BY <1>0 DEF At, Half
<1> HIDE DEF half, d, W
<1>6. ASSUME NEW h \in Half, NEW j \in 0 .. HalfTicks - 1
      PROVE  ring'[At(h, j)] = IF h = half /\ j \in d .. (d + k) - 1 THEN W(j - d)
                               ELSE ring[At(h, j)]
  <2>1. At(h, j) \in RingIx
    BY AtWords
  <2>2. At(h, j) \in At(half, d) .. At(half, d) + (d + k) - d - 1
           <=> h = half /\ j \in d .. (d + k) - 1
    <3>1. CASE h = half
      BY <1>0, <1>2, <3>1, AtWords
    <3>2. CASE h # half
      BY <1>0, <1>2, <3>2, AtWords, ZenonT(60)
    <3>. QED BY <3>1, <3>2
  <2>3. h = half => At(h, j) - At(half, d) = j - d
    BY <1>5
  <2>. QED BY <1>3, <1>4, <2>1, <2>2, <2>3
<1>7. \A j \in d .. (d + k) - 1 : j \in 0 .. HalfTicks - 1
  BY <1>0, <1>2
<1>8. \A j \in d .. (d + k) - 1, a \in Axes : ring'[At(half, j)][a] = W(j - d)[a]
  BY <1>0, <1>6, <1>7
<1>9. Rewrites(c)
  BY <1>2, <1>6 DEF Rewrites, half, d
<1>10. SteppedFill(c, k)
  BY <1>2, <1>8 DEF SteppedFill, W, half, d
<1>. QED BY <1>0, <1>1, <1>9, <1>10 DEF half, d

LEMMA FillWords ==
    ASSUME CoreTypeOK, NEW c \in Caller, FillStep(c)
    PROVE  /\ Rewrites(c) /\ frame'[c].done \in frame[c].done .. HalfTicks
           /\ \/ (FillTake(c) \/ FillApply(c)) /\ ring' = ring /\ frame'[c].done = frame[c].done
                 /\ UNCHANGED positions /\ \A a \in Axes : ax'[a].phase = ax[a].phase
              \/ (FillHold(c) \/ FillStarve(c)) /\ SilentFill(c) /\ frame[c].done < HalfTicks
              \/ /\ FillEmit(c)
                 /\ \E k \in 1 .. HalfTicks : IsRun(c, k) /\ EmitRun(c, k) /\ SteppedFill(c, k)
<1>0. frame \in [Caller -> Frame] /\ frame[c].done \in 0 .. HalfTicks /\ HalfTicks \in Nat
      /\ \A a \in Axes : ax[a] \in AxisState
  BY HalfTicksAssumption DEF CoreTypeOK, Frame
<1>1. CASE FillTake(c)
  BY <1>0, <1>1 DEF FillTake, Rewrites, Frame
<1>2. CASE FillApply(c)
  <2>1. ASSUME NEW a \in Axes PROVE ax'[a].phase = ax[a].phase
    <3>1. Head(frame[c].incoming).rate[a] \in -RateMax .. RateMax
      BY <1>2, IncomingType DEF FillApply
    <3>2. ax'[a] = Applied(a, Head(frame[c].incoming).rate[a], Now(c))
      BY <1>2 DEF FillApply
    <3>. QED BY <3>1, <3>2, AppliedFields
  <2>2. frame'[c].done = frame[c].done /\ ring' = ring /\ UNCHANGED positions
    BY <1>0, <1>2 DEF FillApply, Frame
  <2>. QED BY <1>0, <1>2, <2>1, <2>2 DEF Rewrites
<1>3. CASE FillHold(c) \/ FillStarve(c)
  <2>1. SilenceRest(c) /\ frame[c].done < HalfTicks /\ UNCHANGED positions
    BY <1>3 DEF FillHold, FillStarve, NeedsSegment
  <2>2. \A a \in Axes : ax'[a].phase = ax[a].phase
    BY <1>0, <1>3 DEF FillHold, FillStarve, AxisState
  <2>. QED BY <1>0, <1>3, <2>1, <2>2, SilenceWords DEF SilentFill
<1>4. CASE FillEmit(c)
  <2>1. PICK k \in 1 .. HalfTicks : IsRun(c, k) /\ EmitRun(c, k)
    BY <1>4 DEF FillEmit
  <2>2. Rewrites(c) /\ SteppedFill(c, k) /\ frame[c].done + k <= HalfTicks
    BY <2>1, EmitWords
  <2>3. frame'[c].done \in frame[c].done .. HalfTicks
    BY <1>0, <2>2 DEF SteppedFill
  <2>. QED BY <1>4, <2>1, <2>2, <2>3
<1>. QED BY <1>1, <1>2, <1>3, <1>4 DEF FillStep

---------------------------------------------------------------------------
(* The direction a word is planned for.                                    *)

(* An armed reversal that the words of a physical half will meet: the one   *)
(* of the logical half it holds, or of the half before it.                  *)
Turned(a, h) ==
    /\ ax[a].armed
    /\ ax[a].armedHalf = LogicalOf(h) \/ (h # First /\ ax[a].armedHalf = playHalf)

(* A step is planned for the level the DIR line will have when it is put    *)
(* out, and after the guard of a reversal that is armed for its half.       *)
WordOk(a, h, j) ==
    ring[At(h, j)][a] # 0 =>
        IF Turned(a, h)
        THEN /\ ring[At(h, j)][a] = MotionOf(a, ax[a].armedLevel)
             /\ ax[a].armedHalf = LogicalOf(h) => j >= GuardTicks
        ELSE ax[a].dirKnown /\ ring[At(h, j)][a] = MotionOf(a, ax[a].dirLevel)

PlannedInv == On => \A h \in Half, a \in Axes : \A j \in 0 .. FilledIn(h) - 1 : WordOk(a, h, j)

(* While the timebase runs, a half that counts as filled is complete.       *)
LEMMA RunningPlace ==
    ASSUME TypeOK, ControlInv, PhysInv, running
    PROVE  /\ mpc \notin {"fill0", "fill1", "run", "port"} /\ First \in Half /\ Playing \in Half
           /\ FilledIn(First) = HalfTicks
           /\ IF Boundary THEN First = 1 - Playing /\ \A h \in Half : FilledIn(h) = HalfTicks
              ELSE First = Playing
<1>0. Playing \in Half
  BY TypeParts, IdxParts
<1>1. mpc \notin {"fill0", "fill1", "run", "port"}
  BY DEF ControlInv, Alone
<1>2. First \in Half /\ IF Boundary THEN First = 1 - Playing ELSE First = Playing
  BY <1>0 DEF First, Half
<1>3. FilledIn(First) = HalfTicks
  BY <1>1 DEF FilledIn
<1>4. Boundary => ipc \notin {"refill", "fill"}
  BY DEF PhysInv, Boundary
<1>5. Boundary => \A h \in Half : FilledIn(h) = HalfTicks
  BY <1>1, <1>4 DEF FilledIn
<1>. QED BY <1>0, <1>1, <1>2, <1>3, <1>5

(* Where the armed half may be, for the words of a caller that fills. *)
LEMMA FilledInType ==
    ASSUME CoreTypeOK, NEW h \in Half
    PROVE  FilledIn(h) \in 0 .. HalfTicks
<1>1. /\ frame["main"].done \in 0 .. HalfTicks /\ frame["isr"].done \in 0 .. HalfTicks
      /\ 0 \in 0 .. HalfTicks /\ HalfTicks \in 0 .. HalfTicks
  BY HalfTicksAssumption DEF CoreTypeOK, Frame, Caller
<1>. QED BY <1>1 DEF FilledIn

LEMMA FillerTurned ==
    ASSUME WideIndices, TypeOK, ControlInv, FillPlace, ArmedPlace, PhysInv,
           NEW c \in Caller, Filler(c), On, frame[c].done < HalfTicks,
           NEW a \in Axes, Rate(a, Now(c)) # 0
    PROVE  /\ ax[a].inc # 0 /\ Rate(a, Now(c)) = ax[a].inc
           /\ ax[a].armed => Turned(a, frame[c].half)
           /\ ax[a].armed /\ ax[a].armedHalf = LogicalOf(frame[c].half) =>
                 frame[c].done >= GuardTicks
<1>00. /\ CoreTypeOK /\ frame[c] \in Frame /\ playHalf \in HalfIx
       /\ HalfTicks \in Nat /\ GuardTicks \in Nat
  BY TypeParts, HalfTicksAssumption, GuardAssumption DEF CoreTypeOK
<1>0. /\ frame[c].done \in 0 .. HalfTicks - 1
      /\ frame[c].index \in HalfIx
  BY <1>00 DEF Frame
<1>1. /\ frame[c].half \in Half /\ frame[c].index = LogicalOf(frame[c].half)
      /\ frame[c].index = fillHalf /\ frame[c].done \in 0 .. HalfTicks
      /\ FilledIn(frame[c].half) = frame[c].done
      /\ \/ /\ mpc = "fill0" /\ c = "main" /\ frame[c].half = First /\ FilledIn(1 - First) = 0
         \/ /\ mpc # "fill0" /\ frame[c].half = 1 - First /\ FilledIn(First) = HalfTicks
      /\ First \in Half
      /\ running => First = Playing
  BY FillerPlace
<1>2. ax[a].inc # 0 /\ Rate(a, Now(c)) = ax[a].inc
  BY DEF Rate, Blocked
<1>3. ASSUME ax[a].armed
      PROVE  /\ ax[a].armedHalf # NextHalf(frame[c].index)
             /\ ax[a].armedHalf = frame[c].index => frame[c].done >= GuardTicks
  <2>1. ax[a].blockUntil = GuardOf(ax[a].armedHalf)
    BY <1>3 DEF ArmedPlace
  <2>. QED BY <1>00, <1>0, <2>1, ArmedIsBlocked
<1>4. ASSUME ax[a].armed
      PROVE  ax[a].armedHalf \in {fillHalf} \cup (IF mpc = "fill0" THEN {} ELSE {playHalf})
  <2>1. CASE c = "main" /\ mpc = "fill0"
    <3>1. ax[a].armedHalf \in {0, NextHalf(0)} /\ fillHalf = 0
      BY <1>4, <2>1 DEF ArmedPlace, FillPlace
    <3>. QED BY <1>1, <1>3, <1>4, <3>1
  <2>2. CASE c = "main" /\ mpc # "fill0"
    <3>1. mpc = "fill1"
      BY <2>2 DEF Filler
    <3>2. ax[a].armedHalf \in {0, NextHalf(0), Next2(0)} /\ fillHalf = NextHalf(0) /\ playHalf = 0
      BY <1>4, <3>1 DEF ArmedPlace, FillPlace, Starting
    <3>. QED BY <1>1, <1>3, <1>4, <2>2, <3>2 DEF Next2
  <2>3. CASE c = "isr"
    <3>1. running /\ ipc = "fill"
      BY <2>3 DEF Filler, On
    <3>2. ax[a].armedHalf \in {NextHalf(playHalf), Next2(playHalf)} /\ fillHalf = NextHalf(playHalf)
      BY <1>4, <3>1 DEF ArmedPlace, FillPlace, Turning
    <3>. QED BY <1>1, <1>3, <1>4, <3>2 DEF Next2
  <2>. QED BY <2>1, <2>2, <2>3 DEF Caller
<1>5. 1 - First # First
  <2>1. First = 0 \/ First = 1
    BY DEF First
  <2>. QED BY <2>1
<1>6. ax[a].armed => Turned(a, frame[c].half)
  BY <1>1, <1>4, <1>5 DEF Turned
<1>. QED BY <1>1, <1>2, <1>3, <1>6

(* A step of a fill plans its words for the level they will meet, and a     *)
(* reversal it arms meets none of the words planned before.                 *)
LEMMA FillPlanned ==
    ASSUME WideIndices, TypeOK, TypeOK', ControlInv, SignInv, ApplyInv, FillPlace, ArmedPlace, PhysInv,
           PlannedInv, NEW c \in Caller, Filler(c), FillStep(c),
           UNCHANGED <<portVars, facade, mpc, ipc, history>>, On'
    PROVE  PlannedInv'
<1> DEFINE half == frame[c].half
           d == frame[c].done
<1>0. /\ CoreTypeOK /\ d \in 0 .. HalfTicks /\ HalfTicks \in Nat /\ half \in Half
      /\ playHalf \in HalfIx
      /\ \A a \in Axes : /\ ax[a].inc \in 0 .. RateMax /\ ax[a].phase \in 0 .. PhaseMod - 1
  BY TypeParts, HalfTicksAssumption DEF CoreTypeOK, AxisState, Frame
<1>1. /\ On /\ UNCHANGED <<First, playHalf>>
      /\ \A h \in Half : LogicalOf(h)' = LogicalOf(h)
      /\ FilledIn(half)' = frame'[c].done
      /\ FilledIn(1 - half)' = FilledIn(1 - half)
  BY FillerMoves
<1>2. /\ half \in Half /\ frame[c].index = LogicalOf(half)
      /\ frame[c].index = fillHalf /\ d \in 0 .. HalfTicks
      /\ FilledIn(half) = d
      /\ \/ /\ mpc = "fill0" /\ c = "main" /\ half = First /\ FilledIn(1 - First) = 0
         \/ /\ mpc # "fill0" /\ half = 1 - First /\ FilledIn(First) = HalfTicks
      /\ First \in Half
      /\ running => First = Playing
  BY <1>1, FillerPlace
<1>3. Rewrites(c) /\ frame'[c].done \in d .. HalfTicks
  BY <1>0, FillWords
<1>6. frame'[c].half = frame[c].half
  BY <1>0, FillFrames
<1>7. ASSUME NEW h \in Half, h # half
      PROVE  h = 1 - half /\ FilledIn(h)' = FilledIn(h)
  <2>1. h = 1 - half
    BY <1>0, <1>7 DEF Half
  <2>. QED BY <1>1, <1>6, <2>1
<1>4. ASSUME NEW h \in Half, NEW a \in Axes, NEW j \in 0 .. FilledIn(h)' - 1,
             h # half \/ j < d
      PROVE  WordOk(a, h, j)'
  <2>1. j \in 0 .. FilledIn(h) - 1 /\ j \in 0 .. HalfTicks - 1
    <3>1. CASE h = half
      BY <1>0, <1>1, <1>2, <1>3, <1>4, <3>1
    <3>2. CASE h # half
      <4>1. FilledIn(h) \in 0 .. HalfTicks
        BY <1>0, FilledInType
      <4>. QED BY <1>0, <1>4, <1>7, <3>2, <4>1
    <3>. QED BY <3>1, <3>2
  <2>2. ring'[At(h, j)] = ring[At(h, j)]
    BY <1>0, <1>3, <1>4, <2>1 DEF Rewrites
  <2>3. WordOk(a, h, j)
    BY <1>1, <2>1 DEF PlannedInv
  <2>4. CASE /\ ax'[a].armed = ax[a].armed /\ ax'[a].armedLevel = ax[a].armedLevel
             /\ ax'[a].armedHalf = ax[a].armedHalf
             /\ ax'[a].dirLevel = ax[a].dirLevel /\ ax'[a].dirKnown = ax[a].dirKnown
    BY <1>1, <2>2, <2>3, <2>4 DEF WordOk, Turned
  <2>5. CASE /\ FillApply(c) /\ ~ax[a].armed /\ ax'[a].armed
             /\ ax'[a].armedHalf = IF d = 0 THEN fillHalf ELSE NextHalf(fillHalf)
             /\ ax'[a].dirLevel = ax[a].dirLevel /\ ax'[a].dirKnown = ax[a].dirKnown
    <3>1. frame'[c].done = d
      BY <1>0, <2>5 DEF FillApply, CoreTypeOK, Frame
    <3>2. NextHalf(playHalf) # playHalf /\ Next2(playHalf) # playHalf
          /\ Next2(playHalf) # NextHalf(playHalf)
      BY <1>0, NextHalves
    <3>3. 1 - First # First /\ 1 - (1 - First) = First
      <4>1. First = 0 \/ First = 1
        BY DEF First
      <4>. QED BY <4>1
    <3>4. h = half => d > 0
      BY <1>0, <1>1, <1>4, <3>1
    <3>5. ~(ax'[a].armedHalf = LogicalOf(h) \/ (h # First /\ ax'[a].armedHalf = playHalf))
      <4>1. CASE half = First /\ FilledIn(1 - First) = 0
        <5>1. h = half
          <6>1. h # half => FilledIn(h)' = 0
            BY <1>7, <4>1
          <6>2. FilledIn(h)' # 0
            BY <1>4
          <6>. QED BY <6>1, <6>2
        <5>2. LogicalOf(h) = playHalf /\ fillHalf = playHalf /\ h = First
          BY <1>2, <4>1, <5>1 DEF LogicalOf
        <5>. QED BY <2>5, <3>2, <3>4, <5>1, <5>2
      <4>2. CASE half = 1 - First
        <5>1. fillHalf = NextHalf(playHalf)
          BY <1>2, <3>3, <4>2 DEF LogicalOf
        <5>2. CASE h = half
          <6>1. LogicalOf(h) = NextHalf(playHalf)
            BY <1>2, <5>1, <5>2
          <6>2. d # 0
            BY <1>0, <3>4, <5>2
          <6>3. ax'[a].armedHalf = Next2(playHalf)
            BY <2>5, <5>1, <6>2 DEF Next2
          <6>. QED BY <3>2, <6>1, <6>3
        <5>3. CASE h # half
          <6>1. h = First
            BY <1>7, <3>3, <4>2, <5>3
          <6>2. LogicalOf(h) = playHalf
            BY <6>1 DEF LogicalOf
          <6>. QED BY <2>5, <3>2, <5>1, <6>1, <6>2 DEF Next2
        <5>. QED BY <5>2, <5>3
      <4>. QED BY <1>2, <4>1, <4>2
    <3>. QED BY <1>1, <2>2, <2>3, <2>5, <3>5 DEF WordOk, Turned
  <2>. QED BY <1>0, <1>2, <2>4, <2>5, FillArms
<1>5. ASSUME NEW a \in Axes, NEW j \in 0 .. FilledIn(half)' - 1, j >= d
      PROVE  WordOk(a, half, j)'
  <2>0. j \in d .. frame'[c].done - 1
    BY <1>0, <1>1, <1>3, <1>5
  <2>1. CASE frame'[c].done = d
    BY <1>0, <2>0, <2>1
  <2>2. CASE SilentFill(c)
    <3>1. ring'[At(half, j)][a] = 0
      BY <1>0, <2>0, <2>2 DEF SilentFill
    <3>. QED BY <1>6, <3>1 DEF WordOk, At
  <2>3. CASE FillEmit(c) /\ \E k \in 1 .. HalfTicks : IsRun(c, k) /\ EmitRun(c, k) /\ SteppedFill(c, k)
    <3>1. PICK k \in 1 .. HalfTicks : IsRun(c, k) /\ EmitRun(c, k) /\ SteppedFill(c, k)
      BY <2>3
    <3>2. ring'[At(half, j)][a] =
             IF StepsAt(ax[a].phase, Rate(a, Now(c)), j - d) THEN Forward(a) ELSE 0
      BY <2>0, <3>1 DEF SteppedFill
    <3>3. ring'[At(half, j)][a] # 0 => Rate(a, Now(c)) # 0
      <4>1. j - d \in Nat /\ 0 \in 0 .. RateMax
        BY <1>0, <2>0, RateAssumption
      <4>2. ~StepsAt(ax[a].phase, 0, j - d)
        BY <1>0, <4>1, RunSteps
      <4>. QED BY <3>2, <4>2
    <3>4. /\ ax'[a].dirLevel = ax[a].dirLevel /\ ax'[a].dirKnown = ax[a].dirKnown
          /\ ax'[a].armed = ax[a].armed /\ ax'[a].armedLevel = ax[a].armedLevel
          /\ ax'[a].armedHalf = ax[a].armedHalf
      BY <1>0, <3>1, EmitFields
    <3>5. ASSUME ring'[At(half, j)][a] # 0
          PROVE  WordOk(a, half, j)'
      <4>1. /\ ax[a].inc # 0
            /\ ax[a].armed => Turned(a, half)
            /\ ax[a].armed /\ ax[a].armedHalf = LogicalOf(half) => d >= GuardTicks
        BY <1>1, <2>3, <3>3, <3>5, FillerTurned DEF FillEmit
      <4>2. ax[a].dirSign = MotionOf(a, Heading(a)) /\ (ax[a].armed \/ ax[a].dirKnown)
        BY <4>1 DEF SignInv
      <4>3. ring'[At(half, j)][a] = MotionOf(a, Heading(a))
        BY <3>2, <3>5, <4>2 DEF Forward, MotionOf
      <4>4. Turned(a, half)' = Turned(a, half) /\ LogicalOf(half)' = LogicalOf(half)
        <5>1. frame'[c].half = frame[c].half
          BY <1>0, FillFrames
        <5>. QED BY <1>0, <1>1, <3>4, <5>1 DEF Turned
      <4>5. j >= d /\ j \in Int /\ d \in Int /\ GuardTicks \in Int
        BY <1>0, <2>0, GuardAssumption
      <4>6. frame'[c].half = frame[c].half
        BY <1>0, FillFrames
      <4>. QED BY <1>0, <3>4, <4>1, <4>2, <4>3, <4>4, <4>5, <4>6 DEF WordOk, Heading, Turned, At
    <3>. QED BY <3>5, <1>6 DEF WordOk, At
  <2>. QED BY <1>0, <2>1, <2>2, <2>3, FillWords
<1> HIDE DEF half, d
<1>8. ASSUME NEW h \in Half, NEW a \in Axes, NEW j \in 0 .. FilledIn(h)' - 1
      PROVE  WordOk(a, h, j)'
  <2>1. CASE h # half \/ j < d
    BY <1>4, <2>1
  <2>2. CASE h = half /\ j >= d
    BY <1>5, <1>6, <2>2 DEF WordOk, At, Turned, half
  <2>. QED BY <1>0, <2>1, <2>2
<1>. QED BY <1>8 DEF PlannedInv

(* The steps that lead to a ring in use. *)
FillingStep(c) ==
    Filler(c) /\ FillStep(c) /\ UNCHANGED <<portVars, facade, mpc, ipc, history>>

LEMMA OnSteps ==
    ASSUME EStopCuts = {}, TypeOK, ControlInv, ReadyInv, [Next]_vars, On'
    PROVE  Still \/ StartFill0 \/ StartDir \/ IsrPlay \/ \E c \in Caller : FillingStep(c)
<1>1. ~StopAbort /\ ~ClearRewind
  BY DEF StopAbort, ClearRewind, MainAt, ControlInv, Alone, portVars, dma, On, Starting
<1>2. ~IsrOverrun
  BY DEF IsrOverrun, Missed, ControlInv, Alone, On, Starting
<1>3. ~EStop
  BY DEF EStop, PortEmergencyStop, On, Starting
<1>4. IsrRefill => ready[1 - frame["isr"].half]
  BY DEF IsrRefill, ReadyInv
<1>5. IsrFillStep \/ MainFillStep => \E c \in Caller : FillingStep(c)
  BY Fillers DEF FillingStep
<1>. QED
  BY <1>1, <1>2, <1>3, <1>4, <1>5 DEF Next, Main, Isr, Still, Passive, CallStep, FlowStep

(* At the start no word is planned yet; ... *)
LEMMA StartPlace ==
    ASSUME TypeOK, StartFill0
    PROVE  \A h \in Half : FilledIn(h)' = 0
<1>1. frame'["main"].done = 0 /\ mpc' = "fill0" /\ ~(ipc' \in {"refill", "fill"})
  BY TypeParts DEF StartFill0, CoreTypeOK, Caller, MainAt, MainRuns, IsrIdle
<1>. QED BY <1>1 DEF FilledIn

(* ... when both halves are filled, all are, ... *)
LEMMA DirPlace ==
    ASSUME TypeOK, ControlInv, FillPlace, StartDir
    PROVE  /\ On /\ UNCHANGED <<ring, First, playHalf, frame, running, positions>> /\ First = 0
           /\ playHalf = 0 /\ ax' = AfterTake(0) /\ mpc = "fill1" /\ mpc' = "run" /\ ~running
           /\ IF TakenFor(0) # {} THEN PortWriteDir(DirWord(AfterTake(0))) ELSE UNCHANGED portVars
           /\ \A h \in Half : FilledIn(h)' = HalfTicks /\ FilledIn(h) = HalfTicks
           /\ \A h \in Half : LogicalOf(h)' = LogicalOf(h)
<1>1. /\ mpc = "fill1" /\ mpc' = "run" /\ ~running /\ Filled("main") /\ ipc = "idle"
      /\ playHalf = 0 /\ playHalf' = 0 /\ UNCHANGED <<ring, running, frame, ipc, positions>>
      /\ ax' = AfterTake(0)
      /\ IF TakenFor(0) # {} THEN PortWriteDir(DirWord(AfterTake(0))) ELSE UNCHANGED portVars
  BY DEF StartDir, MainAt, MainRuns, IsrIdle, ControlInv, Alone, FillPlace, Starting, PortWriteDir,
     portVars, dma
<1>2. First = 0 /\ First' = 0
  BY <1>1 DEF First
<1>3. \A h \in Half : FilledIn(h)' = HalfTicks /\ FilledIn(h) = HalfTicks
  BY <1>1 DEF FilledIn, Filled
<1>. QED BY <1>1, <1>2, <1>3 DEF On, Starting, LogicalOf

(* ... and at a boundary the half that begins to play is complete and the   *)
(* other one empty.                                                         *)
LEMMA PlayPlace ==
    ASSUME TypeOK, TypeOK', ControlInv, PhysInv, IsrPlay, On'
    PROVE  /\ running /\ running' /\ Boundary /\ ~Boundary' /\ UNCHANGED <<ring, Playing, Played>>
           /\ First = 1 - Playing /\ First' = Playing /\ First' = 1 - First
           /\ First \in Half /\ First' \in Half
           /\ playHalf' = NextHalf(playHalf) /\ ax' = AfterTake(NextHalf(playHalf))
           /\ IF TakenFor(NextHalf(playHalf)) # {}
              THEN PortWriteDir(DirWord(AfterTake(NextHalf(playHalf)))) ELSE UNCHANGED portVars
           /\ \A h \in Half : FilledIn(h) = HalfTicks
           /\ FilledIn(First)' = HalfTicks /\ FilledIn(1 - First)' = 0
           /\ LogicalOf(First)' = playHalf' /\ LogicalOf(1 - First) = playHalf'
<1>1. /\ ipc = "play" /\ ipc' = "refill" /\ UNCHANGED <<ring, running, idx, flags, mpc>>
      /\ playHalf' = NextHalf(playHalf) /\ ax' = AfterTake(NextHalf(playHalf))
      /\ IF TakenFor(NextHalf(playHalf)) # {}
         THEN PortWriteDir(DirWord(AfterTake(NextHalf(playHalf)))) ELSE UNCHANGED portVars
  BY DEF IsrPlay, PortWriteDir, portVars, dma
<1>2. running /\ mpc \notin {"fill0", "fill1", "run", "port"}
  BY <1>1 DEF On, Starting, ControlInv, Alone
<1>3. flags \subseteq {"ERR"} /\ Boundary /\ ~Boundary' /\ UNCHANGED <<Playing, Played>>
  BY <1>1, <1>2 DEF PhysInv, Boundary, Playing, Played
<1>4. Playing = 0 \/ Playing = 1
  BY TypeParts, IdxParts DEF Half
<1>5. First = 1 - Playing /\ First' = Playing
  BY <1>1, <1>2, <1>3, <1>4 DEF First
<1>6. First' = 1 - First /\ First \in Half /\ First' \in Half /\ 1 - First # First
  BY <1>4, <1>5 DEF Half
<1>7. /\ \A h \in Half : FilledIn(h) = HalfTicks
      /\ FilledIn(First)' = HalfTicks /\ FilledIn(1 - First)' = 0
  <2>1. \A h \in Half : FilledIn(h) = HalfTicks
    BY <1>1, <1>2 DEF FilledIn
  <2>2. (1 - First)' # First'
    BY <1>4, <1>5
  <2>. QED BY <1>1, <1>2, <2>1, <2>2 DEF FilledIn
<1>8. LogicalOf(First)' = playHalf' /\ LogicalOf(1 - First) = playHalf'
  BY <1>1, <1>6 DEF LogicalOf
<1>. QED BY <1>1, <1>2, <1>3, <1>5, <1>6, <1>7, <1>8

LEMMA StepPlanned ==
    ASSUME RefillInTime, EStopCuts = {}, WideIndices, TypeOK, TypeOK', ControlInv, ReadyInv,
           SignInv, ApplyInv, FillPlace, ArmedPlace, PhysInv, PhysInv', PlannedInv, [Next]_vars
    PROVE  PlannedInv'
<1> SUFFICES ASSUME On'
             PROVE  PlannedInv'
  BY DEF PlannedInv
<1>0. CoreTypeOK /\ playHalf \in HalfIx /\ 0 \in HalfIx /\ 0 \in Half /\ HalfTicks \in Nat
  BY TypeParts, WrapAssumption, HalfTicksAssumption DEF CoreTypeOK, HalfIx, Half
<1>1. CASE Still
  <2>1. /\ On /\ UNCHANGED <<ring, ax, playHalf, First, pin>>
        /\ \A h \in Half : FilledIn(h)' = FilledIn(h)
        /\ \A h \in Half : LogicalOf(h)' = LogicalOf(h)
    BY <1>1, StillPlace
  <2>2. ASSUME NEW h \in Half, NEW a \in Axes, NEW j \in 0 .. FilledIn(h)' - 1
        PROVE  WordOk(a, h, j)'
    <3>1. WordOk(a, h, j)
      BY <2>1 DEF PlannedInv
    <3>. QED BY <2>1, <3>1 DEF WordOk, Turned, At
  <2>. QED BY <2>2 DEF PlannedInv
<1>2. CASE StartFill0
  <2>1. \A h \in Half : 0 .. FilledIn(h)' - 1 = {}
    BY <1>2, StartPlace
  <2>. QED BY <2>1 DEF PlannedInv
<1>3. CASE StartDir
  <2>1. /\ On /\ UNCHANGED <<ring, First, playHalf>> /\ playHalf = 0
        /\ ax' = AfterTake(0)
        /\ \A h \in Half : FilledIn(h)' = HalfTicks /\ FilledIn(h) = HalfTicks
        /\ \A h \in Half : LogicalOf(h)' = LogicalOf(h)
    BY <1>3, DirPlace
  <2>2. ASSUME NEW h \in Half, NEW a \in Axes, NEW j \in 0 .. HalfTicks - 1
        PROVE  WordOk(a, h, j)'
    <3>1. WordOk(a, h, j)
      BY <2>1, <2>2 DEF PlannedInv
    <3>2. /\ ax'[a].armedLevel = ax[a].armedLevel /\ ax'[a].armedHalf = ax[a].armedHalf
          /\ IF ax[a].armed /\ ax[a].armedHalf = 0
             THEN ~ax'[a].armed /\ ax'[a].dirKnown /\ ax'[a].dirLevel = ax[a].armedLevel
             ELSE /\ ax'[a].armed = ax[a].armed /\ ax'[a].dirKnown = ax[a].dirKnown
                  /\ ax'[a].dirLevel = ax[a].dirLevel
      BY <1>0, <2>1, AfterTakeFields
    <3>3. CASE ax[a].armed /\ ax[a].armedHalf = 0
      <4>1. Turned(a, h)
        BY <2>1, <3>3 DEF Turned, LogicalOf
      <4>. QED BY <2>1, <3>1, <3>2, <3>3, <4>1 DEF WordOk, Turned, At
    <3>4. CASE ~(ax[a].armed /\ ax[a].armedHalf = 0)
      BY <2>1, <3>1, <3>2, <3>4 DEF WordOk, Turned, At
    <3>. QED BY <3>3, <3>4
  <2>. QED BY <2>1, <2>2 DEF PlannedInv
<1>4. CASE IsrPlay
  <2>0. /\ running /\ UNCHANGED ring /\ First' = 1 - First /\ First \in Half /\ First' \in Half
        /\ playHalf' = NextHalf(playHalf) /\ ax' = AfterTake(NextHalf(playHalf))
        /\ \A h \in Half : FilledIn(h) = HalfTicks
        /\ FilledIn(First)' = HalfTicks /\ FilledIn(1 - First)' = 0
        /\ LogicalOf(First)' = playHalf' /\ LogicalOf(1 - First) = playHalf'
    BY <1>4, PlayPlace
  <2>1. NextHalf(playHalf) # playHalf /\ Next2(playHalf) # playHalf
        /\ Next2(playHalf) # NextHalf(playHalf)
    BY <1>0, NextHalves
  <2>2. ASSUME NEW a \in Axes, NEW j \in 0 .. HalfTicks - 1
        PROVE  WordOk(a, First, j)'
    <3>1. WordOk(a, First', j)
      BY <2>0, <2>2 DEF PlannedInv, On
    <3>2. LET y == ax'[a]
              x == ax[a]
          IN  /\ y.armedLevel = x.armedLevel /\ y.armedHalf = x.armedHalf
              /\ IF x.armed /\ x.armedHalf = NextHalf(playHalf)
                 THEN ~y.armed /\ y.dirKnown /\ y.dirLevel = x.armedLevel
                 ELSE /\ y.armed = x.armed /\ y.dirKnown = x.dirKnown
                      /\ y.dirLevel = x.dirLevel
      BY <1>0, <2>0, AfterTakeFields
    <3>3. CASE ax[a].armed /\ ax[a].armedHalf = NextHalf(playHalf)
      <4>1. Turned(a, First')
        BY <2>0, <3>3 DEF Turned
      <4>2. ~Turned(a, First)'
        BY <3>2, <3>3 DEF Turned
      <4>. QED BY <2>0, <3>1, <3>2, <3>3, <4>1, <4>2 DEF WordOk, At
    <3>4. CASE ax[a].armed /\ ax[a].armedHalf # NextHalf(playHalf)
      <4>1. ax[a].armedHalf = Next2(playHalf)
        BY <2>0, <3>4 DEF ArmedPlace, Turning
      <4>2. ~Turned(a, First')
        BY <2>0, <2>1, <4>1 DEF Turned
      <4>3. ~Turned(a, First)'
        BY <2>0, <2>1, <3>2, <4>1 DEF Turned
      <4>. QED BY <2>0, <3>1, <3>2, <3>4, <4>2, <4>3 DEF WordOk, At
    <3>5. CASE ~ax[a].armed
      BY <2>0, <3>1, <3>2, <3>5 DEF WordOk, Turned, At
    <3>. QED BY <3>3, <3>4, <3>5
  <2>3. ASSUME NEW h \in Half, NEW a \in Axes, NEW j \in 0 .. FilledIn(h)' - 1
        PROVE  WordOk(a, h, j)'
    <3>1. CASE h = First'
      BY <2>0, <2>2, <3>1 DEF WordOk, Turned, At, LogicalOf
    <3>2. CASE h = 1 - First'
      BY <2>0, <3>2
    <3>. QED BY <2>0, <3>1, <3>2 DEF Half
  <2>. QED BY <2>3 DEF PlannedInv
<1>5. ASSUME NEW c \in Caller, FillingStep(c)
      PROVE  PlannedInv'
  BY <1>5, FillPlanned DEF FillingStep
<1>. QED BY <1>1, <1>2, <1>3, <1>4, <1>5, OnSteps

LEMMA PlannedCorrect ==
    ASSUME RefillInTime, EStopCuts = {}, WideIndices
    PROVE  Spec => []PlannedInv
<1>1. Init => PlannedInv
  BY DEF Init, PortInit, PlannedInv, On, Starting
<1>2. /\ TypeOK /\ TypeOK' /\ ControlInv /\ ReadyInv /\ SignInv /\ ApplyInv /\ FillPlace
      /\ ArmedPlace /\ PhysInv /\ PhysInv' /\ PlannedInv /\ [Next]_vars
      => PlannedInv'
  BY StepPlanned
<1>3. "main" \notin EStopCuts
  OBVIOUS
<1>. QED
  BY <1>1, <1>2, <1>3, TypeCorrect, ControlCorrect, ReadyCorrect, SignsCorrect, FillPlaceCorrect,
     ArmedPlaceCorrect, PhysCorrect, PTL DEF Spec

(* A word about to be put out, in a run of the timebase whose interrupt is  *)
(* in time, is one that was planned for the level of its DIR line.          *)
LEMMA NextWord ==
    ASSUME InterruptInTime, WideIndices, TypeOK, ControlInv, SignInv, ArmedPlace, PhysInv,
           PlannedInv, running, InTime, NEW a \in Axes, ring[idx][a] # 0
    PROVE  /\ idx = At(Playing, Played) /\ Playing \in Half /\ Played \in 0 .. HalfTicks - 1
           /\ MotionOf(a, pin[a]) = ring[idx][a]
           /\ On /\ FilledIn(Playing) = HalfTicks
<1>0. /\ Playing \in Half /\ Played \in 0 .. HalfTicks - 1 /\ idx = At(Playing, Played)
      /\ HalfTicks \in Nat /\ playHalf \in HalfIx /\ GuardTicks \in Nat /\ MaxDirLag \in Nat
  BY TypeParts, IdxParts, HalfTicksAssumption, GuardAssumption, LagAssumption DEF At, CoreTypeOK
<1>1. /\ First \in Half /\ FilledIn(Playing) = HalfTicks
      /\ IF Boundary THEN First = 1 - Playing ELSE First = Playing
  BY <1>0, RunningPlace
<1>2. WordOk(a, Playing, Played) /\ On
  BY <1>0, <1>1 DEF PlannedInv, On
<1>3. /\ NextHalf(playHalf) # playHalf /\ Next2(playHalf) # playHalf
      /\ Next2(playHalf) # NextHalf(playHalf)
  BY <1>0, NextHalves
<1>4. ax[a].armed => ax[a].armedHalf \in {NextHalf(playHalf), Next2(playHalf)}
  BY DEF ArmedPlace, Turning
<1>5. ~Turned(a, Playing)
  <2>1. CASE Boundary
    <3>1. Played < MaxDirLag
      BY <2>1 DEF Boundary, InTime
    <3>2. ~(Played >= GuardTicks)
      BY <1>0, <3>1 DEF InterruptInTime
    <3>3. Turned(a, Playing) => ax[a].armedHalf = LogicalOf(Playing)
      BY <1>3, <1>4 DEF Turned
    <3>. QED BY <1>0, <1>2, <3>2, <3>3 DEF WordOk
  <2>2. CASE ~Boundary
    <3>1. LogicalOf(Playing) = playHalf /\ Playing = First
      BY <1>1, <2>2 DEF LogicalOf
    <3>. QED BY <1>3, <1>4, <3>1 DEF Turned
  <2>. QED BY <2>1, <2>2
<1>6. ax[a].dirKnown /\ ring[idx][a] = MotionOf(a, ax[a].dirLevel)
  BY <1>0, <1>2, <1>5 DEF WordOk
<1>. QED BY <1>0, <1>1, <1>2, <1>6 DEF SignInv

(* No pulse planned in one direction leaves in the other, although the ring *)
(* is filled one or two halves before the DIR line is written: the word the *)
(* DMA fetches next was planned for the level its DIR line has now.         *)
THEOREM DirectionIsCommanded ==
    ASSUME EStopCuts = {}, WideIndices, InterruptInTime
    PROVE  Spec => []CommandedDirection
<1>1. RefillInTime /\ "main" \notin EStopCuts
  BY DEF InterruptInTime
<1>2. /\ TypeOK /\ ControlInv /\ SignInv /\ ArmedPlace /\ PhysInv /\ PlannedInv
      => CommandedDirection
  BY NextWord DEF CommandedDirection
<1>. QED
  BY <1>1, <1>2, TypeCorrect, ControlCorrect, SignsCorrect, ArmedPlaceCorrect, PhysCorrect,
     PlannedCorrect, PTL

---------------------------------------------------------------------------
(* The step counts.                                                        *)

(* The words of a half that its step count covers: until the commit of a    *)
(* boundary, the half that was played is still counted.                     *)
Counted(h) == IF running /\ ipc = "refill" THEN HalfTicks ELSE FilledIn(h)

(* The steps of a half that was played and is not in pos_output yet. *)
Uncommitted(a) ==
    IF Boundary THEN staged[First][a] ELSE IF ipc = "refill" THEN staged[1 - First][a] ELSE 0

(* A step count is the sum of the words it covers, and the motor is where   *)
(* pos_output, the uncommitted half and the words already out put it.       *)
StagedSum == \A a \in Axes, h \in Half : staged[h][a] = StepsIn(ring, a, h, Counted(h))
MotorSum ==
    running => \A a \in Axes :
        motor[a] = origin[a] + posOutput[a] + Uncommitted(a) + StepsIn(ring, a, Playing, Played)
SumInv == On => StagedSum /\ MotorSum

LEMMA SumTypes ==
    ASSUME TypeOK
    PROVE  /\ ring \in [RingIx -> Word] /\ HalfTicks \in Nat
           /\ \A a \in Axes : /\ motor[a] \in Int /\ origin[a] \in Int
                              /\ posOutput[a] \in Int /\ posPlanned[a] \in Int
                              /\ \A h \in Half : staged[h][a] \in Int
           /\ \A a \in Axes, h \in Half : \A n \in 0 .. HalfTicks : StepsIn(ring, a, h, n) \in Int
           /\ Playing \in Half /\ Played \in 0 .. HalfTicks - 1
<1>1. /\ ring \in [RingIx -> Word] /\ HalfTicks \in Nat
      /\ \A a \in Axes : /\ motor[a] \in Int /\ origin[a] \in Int
                         /\ posOutput[a] \in Int /\ posPlanned[a] \in Int
                         /\ \A h \in Half : staged[h][a] \in Int
  BY TypeParts, HalfTicksAssumption DEF CoreTypeOK, PortTypeOK, FacadeTypeOK
<1>2. \A a \in Axes, h \in Half : \A n \in 0 .. HalfTicks : StepsIn(ring, a, h, n) \in Int
  BY <1>1, StepsInRec
<1>. QED BY <1>1, <1>2, TypeParts, IdxParts

(* A step that keeps the words, the counts and what they cover. *)
LEMMA SameSums ==
    ASSUME SumInv, On,
           UNCHANGED <<ring, staged, posOutput, motor, origin, running, Playing, Played>>,
           \A h \in Half : Counted(h)' = Counted(h), UNCHANGED <<First, Boundary>>,
           running => (ipc' = "refill" <=> ipc = "refill")
    PROVE  SumInv'
<1>1. StagedSum'
  BY DEF SumInv, StagedSum
<1>2. ASSUME running', NEW a \in Axes
      PROVE  (motor[a] = origin[a] + posOutput[a] + Uncommitted(a)
                         + StepsIn(ring, a, Playing, Played))'
  <2>1. motor[a] = origin[a] + posOutput[a] + Uncommitted(a) + StepsIn(ring, a, Playing, Played)
    BY <1>2 DEF SumInv, MotorSum
  <2>2. Uncommitted(a)' = Uncommitted(a)
    BY <1>2 DEF Uncommitted
  <2>3. StepsIn(ring, a, Playing, Played)' = StepsIn(ring', a, Playing', Played')
    OBVIOUS
  <2>. QED BY <2>1, <2>2, <2>3
<1>. QED BY <1>1, <1>2 DEF SumInv, MotorSum

(* One word more is out: at the end of a half its count is uncommitted. *)
LEMMA TickSums ==
    ASSUME InterruptInTime, WideIndices, TypeOK, TypeOK', ControlInv, FillPlace, SignInv, ArmedPlace,
           PhysInv, PhysInv', PlannedInv, SumInv, DmaTick, On'
    PROVE  SumInv'
<1>0. RefillInTime /\ Still
  BY DEF InterruptInTime, Still, Passive
<1>1. /\ On /\ UNCHANGED <<ring, First>>
      /\ \A h \in Half : FilledIn(h)' = FilledIn(h)
  BY <1>0, StillPlace
<1>2. /\ UNCHANGED <<staged, posOutput, origin, ipc>> /\ InTime
      /\ motor' = [a \in Axes |-> motor[a] +
                      (IF ring[idx][a] # 0 THEN MotionOf(a, pin[a]) ELSE 0)]
  BY DEF DmaTick, PlayWord, coreVars, positions, history
<1>3. /\ running /\ running'
      /\ \/ /\ Played' = Played + 1 /\ Playing' = Playing /\ flags' = flags
            /\ Played < HalfTicks - 1
         \/ /\ Played = HalfTicks - 1 /\ Played' = 0 /\ Playing' = 1 - Playing
            /\ IsrIdle
            /\ flags' = IF Playing = 0 THEN {"HT"} ELSE {"TC"}
  BY <1>0, TickPlace
<1>4. \A h \in Half : Counted(h)' = Counted(h)
  BY <1>1, <1>2, <1>3 DEF Counted
<1>5. StagedSum'
  BY <1>1, <1>2, <1>4 DEF SumInv, StagedSum
<1>6. ASSUME NEW a \in Axes
      PROVE  /\ motor'[a] = motor[a] + ring[idx][a]
             /\ StepsIn(ring, a, Playing, Played + 1) =
                   StepsIn(ring, a, Playing, Played) + ring[idx][a]
             /\ ring[idx][a] \in Int
  <2>1. ring[idx][a] # 0 => MotionOf(a, pin[a]) = ring[idx][a]
    BY <1>2, <1>3, NextWord
  <2>2. motor'[a] = motor[a] + ring[idx][a]
    BY <1>2, <2>1
  <2>3. idx = Playing * HalfTicks + Played /\ idx \in RingIx
    BY TypeParts, IdxParts DEF PortTypeOK
  <2>4. ring[idx][a] \in Int
    BY <2>3, SumTypes DEF Word, Sign
  <2>. QED BY <2>2, <2>3, <2>4, SumTypes, StepsInRec
<1>7. ASSUME NEW a \in Axes
      PROVE  (motor[a] = origin[a] + posOutput[a] + Uncommitted(a)
                         + StepsIn(ring, a, Playing, Played))'
  <2>0. motor[a] = origin[a] + posOutput[a] + Uncommitted(a) + StepsIn(ring, a, Playing, Played)
    BY <1>1, <1>3 DEF SumInv, MotorSum
  <2>1. /\ motor[a] \in Int /\ origin[a] \in Int /\ posOutput[a] \in Int
        /\ \A h \in Half : staged[h][a] \in Int
        /\ StepsIn(ring, a, Playing, Played) \in Int
        /\ Playing \in Half /\ First \in Half /\ 1 - First \in Half
    <3>1. First \in Half /\ 1 - First \in Half
      <4>1. First = 0 \/ First = 1
        BY DEF First
      <4>. QED BY <4>1 DEF Half
    <3>. QED BY <3>1, SumTypes
  <2>2. Uncommitted(a) \in Int
    BY <2>1 DEF Uncommitted
  <2>3. CASE Played' = Played + 1 /\ Playing' = Playing /\ flags' = flags
    <3>1. Uncommitted(a)' = Uncommitted(a)
      BY <1>1, <1>2, <2>3 DEF Uncommitted, Boundary
    <3>2. StepsIn(ring', a, Playing', Played') = StepsIn(ring, a, Playing, Played) + ring[idx][a]
      BY <1>1, <1>6, <2>3
    <3>. QED BY <1>2, <1>6, <2>0, <2>1, <2>2, <3>1, <3>2
  <2>4. CASE /\ Played = HalfTicks - 1 /\ Played' = 0 /\ Playing' = 1 - Playing
             /\ IsrIdle
             /\ flags' = IF Playing = 0 THEN {"HT"} ELSE {"TC"}
    <3>1. ~Boundary /\ ipc = "idle" /\ Boundary'
      BY <1>2, <2>4 DEF Boundary, IsrIdle
    <3>2. First = Playing
      BY <1>3, <3>1, RunningPlace
    <3>3. Uncommitted(a) = 0 /\ Uncommitted(a)' = staged[Playing][a]
      BY <1>1, <1>2, <3>1, <3>2 DEF Uncommitted
    <3>4. FilledIn(Playing) = HalfTicks /\ Counted(Playing) = HalfTicks
      BY <1>3, <3>1, <3>2, RunningPlace DEF Counted
    <3>5. staged[Playing][a] = StepsIn(ring, a, Playing, HalfTicks)
      BY <1>1, <2>1, <3>4 DEF SumInv, StagedSum
    <3>6. Played + 1 = HalfTicks
      BY <2>4, SumTypes
    <3>7. Playing' \in Half
      BY <2>4, SumTypes DEF Half
    <3>8. StepsIn(ring', a, Playing', Played') = 0
      BY <1>1, <2>4, <3>7, SumTypes, StepsInRec
    <3>. QED BY <1>2, <1>6, <2>0, <2>1, <3>3, <3>5, <3>6, <3>8
  <2>. QED BY <1>3, <2>3, <2>4
<1>. QED BY <1>5, <1>7 DEF SumInv, MotorSum

(* A step of a fill counts the words it writes. *)
LEMMA FillCount ==
    ASSUME TypeOK, TypeOK', NEW c \in Caller, FillStep(c), NEW a \in Axes,
           staged[frame[c].half][a] = StepsIn(ring, a, frame[c].half, frame[c].done)
    PROVE  /\ staged'[frame[c].half][a] = StepsIn(ring', a, frame[c].half, frame'[c].done)
           /\ UNCHANGED posPlanned \/ \E k \in 1 .. HalfTicks : EmitRun(c, k)
<1> DEFINE half == frame[c].half
           d == frame[c].done
<1>0. /\ CoreTypeOK /\ half \in Half /\ d \in 0 .. HalfTicks /\ HalfTicks \in Nat
      /\ ring \in [RingIx -> Word] /\ ring' \in [RingIx -> Word]
      /\ ax[a].phase \in 0 .. PhaseMod - 1 /\ ax[a].inc \in 0 .. RateMax
      /\ staged[half][a] \in Int
  <2>1. CoreTypeOK /\ CoreTypeOK' /\ HalfTicks \in Nat
    BY TypeParts, HalfTicksAssumption DEF TypeOK
  <2>2. frame[c] \in Frame /\ ax[a] \in AxisState /\ staged \in [Half -> [Axes -> Int]]
    BY <2>1 DEF CoreTypeOK
  <2>3. half \in Half /\ d \in 0 .. HalfTicks
    BY <2>2 DEF Frame
  <2>4. ax[a].phase \in 0 .. PhaseMod - 1 /\ ax[a].inc \in 0 .. RateMax
    BY <2>2 DEF AxisState
  <2>5. ring \in [RingIx -> Word] /\ ring' \in [RingIx -> Word]
    BY <2>1 DEF CoreTypeOK
  <2>. QED BY <2>1, <2>2, <2>3, <2>4, <2>5
<1>1. \A j \in 0 .. d - 1 : j \in 0 .. HalfTicks - 1
  BY <1>0
<1>2. Rewrites(c)
  BY <1>0, FillWords
<1>3. \A j \in 0 .. d - 1 : ring'[half * HalfTicks + j][a] = ring[half * HalfTicks + j][a]
  <2>1. \A j \in 0 .. d - 1 : j \notin d .. frame'[c].done - 1
    BY <1>0
  <2>. QED BY <1>0, <1>1, <1>2, <2>1 DEF Rewrites, At
<1>4. CASE ring' = ring /\ frame'[c].done = d /\ UNCHANGED positions
  BY <1>4 DEF positions
<1>5. CASE SilentFill(c) /\ d < HalfTicks
  <2>1. \A j \in d .. HalfTicks - 1 : ring'[half * HalfTicks + j][a] = 0
    BY <1>5 DEF SilentFill, At
  <2>2. StepsIn(ring', a, half, HalfTicks) = StepsIn(ring, a, half, d)
    BY <1>0, <1>3, <2>1, SilentTotal
  <2>. QED BY <1>5, <2>2 DEF SilentFill, positions
<1>6. ASSUME NEW k \in 1 .. HalfTicks, EmitRun(c, k), IsRun(c, k), SteppedFill(c, k)
      PROVE  staged'[half][a] = StepsIn(ring', a, half, frame'[c].done)
  <2>1. d + k <= HalfTicks /\ k \in 0 .. HalfTicks /\ frame'[c].done = d + k
    BY <1>0, <1>6, EmitWords DEF SteppedFill
  <2>2. Rate(a, Now(c)) \in 0 .. RateMax
    BY <1>0, RateAssumption DEF Rate
  <2>3. Forward(a) \in {-1, 1}
    BY DEF Forward
  <2>4. \A j \in 0 .. k - 1 : ring'[half * HalfTicks + (d + j)][a] =
                                IF StepsAt(ax[a].phase, Rate(a, Now(c)), j) THEN Forward(a) ELSE 0
    <3>1. ASSUME NEW j \in 0 .. k - 1
          PROVE  d + j \in d .. frame'[c].done - 1 /\ (d + j) - d = j
      BY <1>0, <2>1
    <3>2. ASSUME NEW j \in 0 .. k - 1
          PROVE  ring'[At(half, d + j)][a] =
                   IF StepsAt(ax[a].phase, Rate(a, Now(c)), (d + j) - d) THEN Forward(a) ELSE 0
      BY <1>6, <3>1 DEF SteppedFill
    <3>. QED BY <3>1, <3>2 DEF At
  <2>5. StepsIn(ring', a, half, d + k) =
           StepsIn(ring, a, half, d) + Forward(a) * ClosedForm(ax[a].phase, Rate(a, Now(c)), k)
    <3> DEFINE p == ax[a].phase
               i == Rate(a, Now(c))
               f == Forward(a)
    <3>1. p \in 0 .. PhaseMod - 1 /\ i \in 0 .. RateMax /\ f \in {-1, 1}
          /\ \A j \in 0 .. k - 1 : ring'[half * HalfTicks + (d + j)][a] =
                                     IF StepsAt(p, i, j) THEN f ELSE 0
      BY <1>0, <2>2, <2>3, <2>4
    <3>2. d + k <= HalfTicks /\ k \in 0 .. HalfTicks
      BY <2>1
    <3> DEFINE w == ring
               o == ring'
    <3>3. /\ w \in [RingIx -> Word] /\ o \in [RingIx -> Word] /\ half \in Half /\ d \in 0 .. HalfTicks
          /\ \A j \in 0 .. d - 1 : o[half * HalfTicks + j][a] = w[half * HalfTicks + j][a]
          /\ \A j \in 0 .. k - 1 : o[half * HalfTicks + (d + j)][a] = IF StepsAt(p, i, j) THEN f ELSE 0
      BY <1>0, <1>3, <3>1
    <3> HIDE DEF p, i, f, half, d, w, o
    <3>4. p \in 0 .. PhaseMod - 1 /\ i \in 0 .. RateMax /\ f \in {-1, 1}
      BY <3>1
    <3>5. StepsIn(o, a, half, d + k) = StepsIn(w, a, half, d) + f * ClosedForm(p, i, k)
      BY <3>2, <3>3, <3>4, RunTotal, SMTT(30)
    <3>. QED BY <3>5 DEF p, i, f, w, o
  <2>6. staged'[half][a] =
           staged[half][a] + Forward(a) * ClosedForm(ax[a].phase, Rate(a, Now(c)), k)
    BY <1>0, <1>6 DEF EmitRun, CoreTypeOK
  <2>. QED BY <2>1, <2>5, <2>6
<1>7. CASE \E k \in 1 .. HalfTicks : IsRun(c, k) /\ EmitRun(c, k) /\ SteppedFill(c, k)
  BY <1>6, <1>7
<1>. QED BY <1>0, <1>4, <1>5, <1>7, FillWords DEF SilentFill, positions

LEMMA FillSums ==
    ASSUME TypeOK, TypeOK', ControlInv, FillPlace, PhysInv, SumInv,
           NEW c \in Caller, FillingStep(c), On'
    PROVE  SumInv'
<1> DEFINE half == frame[c].half
<1>0. /\ CoreTypeOK /\ half \in Half /\ HalfTicks \in Nat
      /\ frame' \in [Caller -> Frame]
      /\ ring \in [RingIx -> Word] /\ ring' \in [RingIx -> Word]
      /\ UNCHANGED <<portVars, facade, mpc, ipc, history>>
      /\ Filler(c) /\ FillStep(c)
  BY TypeParts, HalfTicksAssumption DEF TypeOK, CoreTypeOK, Frame, FillingStep
<1>1. /\ On /\ UNCHANGED <<First, playHalf, running, pin, idx, flags, Playing, Played>>
      /\ FilledIn(half)' = frame'[c].done
      /\ FilledIn(1 - half)' = FilledIn(1 - half)
  BY <1>0, FillerMoves
<1>2. /\ FilledIn(half) = frame[c].done
      /\ \/ /\ mpc = "fill0" /\ c = "main" /\ half = First /\ FilledIn(1 - First) = 0
         \/ /\ mpc # "fill0" /\ half = 1 - First /\ FilledIn(First) = HalfTicks
      /\ First \in Half
      /\ running => First = Playing
  <2>1. /\ half \in Half /\ frame[c].index = LogicalOf(half)
        /\ frame[c].index = fillHalf /\ frame[c].done \in 0 .. HalfTicks
        /\ FilledIn(half) = frame[c].done
        /\ \/ /\ mpc = "fill0" /\ c = "main" /\ half = First /\ FilledIn(1 - First) = 0
           \/ /\ mpc # "fill0" /\ half = 1 - First /\ FilledIn(First) = HalfTicks
        /\ First \in Half
        /\ running => First = Playing
    BY <1>0, <1>1, FillerPlace
  <2>. QED BY <2>1
<1>3. frame'[c].half = half /\ UNCHANGED posOutput
  BY <1>0, FillFrames
<1>4. UNCHANGED <<motor, origin, ipc>> /\ ~(running /\ ipc = "refill")
  BY <1>0, <1>1 DEF portVars, motion, history, Filler
<1>5. 1 - half # half /\ 1 - half \in Half /\ \A h \in Half : h = half \/ h = 1 - half
  BY <1>0 DEF Half
<1>6. /\ Rewrites(c)
      /\ \A j \in 0 .. HalfTicks - 1, a \in Axes :
            ring'[(1 - half) * HalfTicks + j][a] = ring[(1 - half) * HalfTicks + j][a]
  <2>1. Rewrites(c)
    BY <1>0, FillWords
  <2>. QED BY <1>5, <2>1 DEF Rewrites, At
<1>7. \A h \in Half : Counted(h) = FilledIn(h) /\ Counted(h)' = FilledIn(h)'
  BY <1>1, <1>4 DEF Counted
<1>8. ASSUME NEW a \in Axes, NEW n \in 0 .. HalfTicks
      PROVE  StepsIn(ring', a, 1 - half, n) = StepsIn(ring, a, 1 - half, n)
  <2>1. \A j \in 0 .. n - 1 : j \in 0 .. HalfTicks - 1
    BY <1>0
  <2>. QED BY <1>0, <1>5, <1>6, <2>1, StepsInSame
<1>9. staged'[1 - half] = staged[1 - half]
  <2>1. staged' = staged \/ \E k \in 1 .. HalfTicks : EmitRun(c, k)
    BY <1>0 DEF FillStep, FillTake, FillHold, FillStarve, FillApply, FillEmit, positions
  <2>2. ASSUME NEW k \in 1 .. HalfTicks, EmitRun(c, k)
        PROVE  staged'[1 - half] = staged[1 - half]
    BY <1>0, <1>5, <2>2 DEF EmitRun, CoreTypeOK
  <2>. QED BY <2>1, <2>2
<1>10. ASSUME NEW a \in Axes, NEW h \in Half
       PROVE  staged'[h][a] = StepsIn(ring', a, h, FilledIn(h)')
  <2>0. staged[h][a] = StepsIn(ring, a, h, FilledIn(h))
    BY <1>1, <1>7 DEF SumInv, StagedSum
  <2>1. CASE h = half
    <3>1. staged[half][a] = StepsIn(ring, a, half, frame[c].done)
      BY <1>2, <2>0, <2>1
    <3>2. staged'[half][a] = StepsIn(ring', a, half, frame'[c].done)
      BY <1>0, <3>1, FillCount
    <3>3. FilledIn(h)' = frame'[c].done
      BY <1>1, <1>3, <2>1
    <3>. QED BY <2>1, <3>2, <3>3
  <2>2. CASE h = 1 - half
    <3>1. FilledIn(h) \in 0 .. HalfTicks
      BY <1>0, FilledInType
    <3>2. FilledIn(h)' = FilledIn(h)
      BY <1>1, <1>3, <2>2
    <3>. QED BY <1>8, <1>9, <2>0, <2>2, <3>1, <3>2
  <2>. QED BY <1>5, <2>1, <2>2
<1>11. StagedSum'
  BY <1>7, <1>10 DEF StagedSum
<1>12. ASSUME running', NEW a \in Axes
       PROVE  (motor[a] = origin[a] + posOutput[a] + Uncommitted(a)
                          + StepsIn(ring, a, Playing, Played))'
  <2>1. running /\ ipc = "fill"
    BY <1>0, <1>1, <1>12 DEF Filler
  <2>2. ~Boundary /\ ~Boundary'
    BY <1>1, <1>4, <2>1 DEF PhysInv, Boundary
  <2>3. Uncommitted(a) = 0 /\ Uncommitted(a)' = 0
    BY <1>4, <2>1, <2>2 DEF Uncommitted
  <2>4. Playing = 1 - half
    <3>1. mpc # "fill0"
      BY <2>1 DEF ControlInv, Alone
    <3>2. half = 1 - First
      BY <1>2, <3>1
    <3>3. First = Playing
      BY <1>2, <2>1
    <3>. QED BY <3>2, <3>3, SumTypes DEF Half
  <2>5. Played \in 0 .. HalfTicks
    BY SumTypes
  <2>6. StepsIn(ring', a, Playing', Played') = StepsIn(ring, a, Playing, Played)
    BY <1>1, <1>8, <2>4, <2>5
  <2>. QED BY <1>1, <1>3, <1>4, <1>12, <2>3, <2>6 DEF SumInv, MotorSum
<1>. QED BY <1>11, <1>12 DEF SumInv, MotorSum

LEMMA NoWords ==
    ASSUME TypeOK, NEW a \in Axes, NEW h \in Half
    PROVE  StepsIn(ring, a, h, 0) = 0
  BY SumTypes, StepsInRec

(* The start of the timebase: nothing is out yet. *)
LEMMA PortSums ==
    ASSUME RefillInTime, TypeOK, TypeOK', ControlInv, FillPlace, PhysInv, PhysInv', SumInv,
           StartPort, On'
    PROVE  SumInv'
<1>1. /\ On /\ UNCHANGED <<ring, First>>
      /\ \A h \in Half : FilledIn(h)' = FilledIn(h)
  BY StillPlace DEF Still, Passive
<1>2. /\ UNCHANGED <<staged, posOutput, motor, frame>> /\ ipc = "idle" /\ ipc' = "idle" /\ flags' = {}
      /\ idx' = 0 /\ origin' = [a \in Axes |-> motor[a] - posOutput[a]]
  BY DEF StartPort, PortStart, MainAt, MainRuns, IsrIdle, coreVars, positions
<1>3. \A h \in Half : Counted(h)' = Counted(h)
  BY <1>1, <1>2 DEF Counted
<1>4. StagedSum'
  BY <1>1, <1>2, <1>3 DEF SumInv, StagedSum
<1>5. ASSUME NEW a \in Axes
      PROVE  (motor[a] = origin[a] + posOutput[a] + Uncommitted(a)
                         + StepsIn(ring, a, Playing, Played))'
  <2>1. Uncommitted(a)' = 0
    BY <1>2 DEF Uncommitted, Boundary
  <2>2. Playing' \in Half /\ Played' = 0 /\ motor[a] \in Int /\ posOutput[a] \in Int
    <3>1. Playing' = 0 /\ Played' = 0
      BY <1>2, HalfTicksAssumption DEF Playing, Played
    <3>. QED BY <3>1, SumTypes DEF Half
  <2>3. StepsIn(ring', a, Playing', Played') = 0
    BY <1>1, <2>2, SumTypes, StepsInRec
  <2>. QED BY <1>2, <2>1, <2>2, <2>3
<1>. QED BY <1>4, <1>5 DEF SumInv, MotorSum

(* The commit of a boundary: the half that was played starts over. *)
LEMMA RefillSums ==
    ASSUME RefillInTime, TypeOK, TypeOK', ControlInv, ReadyInv, FillPlace, PhysInv, PhysInv', SumInv,
           IsrRefill, On'
    PROVE  SumInv'
<1> DEFINE half == frame["isr"].half
<1>0. ready[1 - half]
  BY DEF IsrRefill, ReadyInv
<1>1. /\ On /\ UNCHANGED <<ring, First>>
      /\ \A h \in Half : FilledIn(h)' = FilledIn(h)
  BY <1>0, StillPlace DEF Still
<1>2. /\ ipc = "refill" /\ ipc' = "fill" /\ posOutput' = Committed(half)
      /\ staged' = [staged EXCEPT ![half] = [a \in Axes |-> 0]]
      /\ UNCHANGED <<motor, origin, running, idx, flags, mpc>>
      /\ frame'["isr"].done = 0
  BY <1>0, TypeParts DEF IsrRefill, BeginFill, portVars, dma, motion, CoreTypeOK, Caller
<1>3. running
  BY <1>2 DEF On, Starting, ControlInv, Alone
<1>4. ~Boundary /\ ~Boundary' /\ UNCHANGED <<Playing, Played>> /\ half = 1 - Playing
  BY <1>2, <1>3 DEF PhysInv, Boundary, Playing, Played
<1>5. /\ First = Playing /\ First \in Half /\ Playing \in Half
  BY <1>3, <1>4, RunningPlace
<1>6. half \in Half /\ half = 1 - First /\ half # First /\ \A h \in Half : h = half \/ h = First
  BY <1>4, <1>5 DEF Half
<1>7. /\ Counted(half) = HalfTicks /\ Counted(half)' = 0
      /\ Counted(First) = HalfTicks /\ Counted(First)' = HalfTicks
  <2>1. mpc \notin {"fill0", "fill1"}
    BY <1>3 DEF ControlInv, Alone
  <2>2. FilledIn(First) = HalfTicks /\ FilledIn(half) = 0
    BY <1>2, <1>3, <1>6, <2>1 DEF FilledIn
  <2>3. FilledIn(First)' = HalfTicks
    BY <1>1, <1>5, <2>2
  <2>4. First' = First /\ (1 - First)' = 1 - First
    BY <1>1
  <2>5. FilledIn(1 - First)' = 0
    BY <1>1, <1>6, <2>2
  <2>6. frame'["isr"].half = half
    BY <1>0, TypeParts DEF IsrRefill, BeginFill, CoreTypeOK, Caller
  <2>7. FilledIn(half)' = 0
    BY <1>6, <2>4, <2>5, <2>6
  <2>8. Counted(half)' = FilledIn(half)' /\ Counted(First)' = FilledIn(First)'
    BY <1>2 DEF Counted
  <2>. QED BY <1>2, <1>3, <2>3, <2>7, <2>8 DEF Counted
<1>8. frame'["isr"].half = half
  BY <1>0, TypeParts DEF IsrRefill, BeginFill, CoreTypeOK, Caller
<1> HIDE DEF half
<1>9. /\ \A a \in Axes : staged'[half][a] = 0
      /\ staged'[First] = staged[First]
  BY <1>2, <1>5, <1>6, TypeParts DEF CoreTypeOK
<1>10. ASSUME NEW a \in Axes, NEW h \in Half
       PROVE  (staged[h][a] = StepsIn(ring, a, h, Counted(h)))'
  <2>1. CASE h = half
    <3>1. StepsIn(ring', a, half, 0) = 0
      BY <1>1, <1>6, NoWords
    <3>2. Counted(h)' = 0
      BY <1>7, <1>8, <2>1 DEF half
    <3>. QED BY <1>9, <2>1, <3>1, <3>2
  <2>2. CASE h = First
    <3>1. staged[h][a] = StepsIn(ring, a, h, HalfTicks)
      BY <1>1, <1>7, <2>2 DEF SumInv, StagedSum
    <3>2. Counted(h)' = HalfTicks
      BY <1>1, <1>7, <2>2
    <3>. QED BY <1>1, <1>9, <2>2, <3>1, <3>2
  <2>. QED BY <1>6, <2>1, <2>2
<1>11. ASSUME NEW a \in Axes
       PROVE  (motor[a] = origin[a] + posOutput[a] + Uncommitted(a)
                          + StepsIn(ring, a, Playing, Played))'
  <2>1. motor[a] = origin[a] + posOutput[a] + Uncommitted(a) + StepsIn(ring, a, Playing, Played)
    BY <1>1, <1>3 DEF SumInv, MotorSum
  <2>2. Uncommitted(a) = staged[half][a] /\ Uncommitted(a)' = 0
    BY <1>2, <1>4, <1>6 DEF Uncommitted
  <2>3. posOutput'[a] = posOutput[a] + staged[half][a]
    BY <1>2 DEF Committed
  <2>4. StepsIn(ring', a, Playing', Played') = StepsIn(ring, a, Playing, Played)
    BY <1>1, <1>4
  <2>5. StepsIn(ring, a, Playing, Played) \in Int
    <3>1. Played \in 0 .. HalfTicks
      BY SumTypes
    <3>. QED BY <3>1, SumTypes
  <2>. QED BY <1>2, <1>6, <2>1, <2>2, <2>3, <2>4, <2>5, SumTypes
<1>. QED BY <1>10, <1>11 DEF SumInv, StagedSum, MotorSum

LEMMA StepSums ==
    ASSUME InterruptInTime, EStopCuts = {}, WideIndices, TypeOK, TypeOK', ControlInv, ReadyInv,
           SignInv, ArmedPlace, FillPlace, PhysInv, PhysInv', PlannedInv, SumInv, [Next]_vars
    PROVE  SumInv'
<1> SUFFICES ASSUME On'
             PROVE  SumInv'
  BY DEF SumInv
<1>0. RefillInTime
  BY DEF InterruptInTime
<1>1. CASE DmaTick
  BY <1>1, TickSums
<1>2. CASE StartPort
  BY <1>0, <1>2, PortSums
<1>3. CASE IsrRefill
  BY <1>0, <1>3, RefillSums
<1>4. ASSUME NEW c \in Caller, FillingStep(c)
      PROVE  SumInv'
  BY <1>4, FillSums
<1>5. CASE CallStep \/ FlowStep \/ DmaFails \/ UNCHANGED vars \/ SubmitPush \/ IsrBoundary
  <2>1. /\ On /\ UNCHANGED <<ring, First>>
        /\ \A h \in Half : FilledIn(h)' = FilledIn(h)
    BY <1>0, <1>5, StillPlace DEF Still, Passive
  <2>2. /\ UNCHANGED <<staged, posOutput, motor, origin, running, idx>>
        /\ ipc' = "refill" <=> ipc = "refill"
    BY <1>5, CallSteps, FlowSteps
       DEF DmaFails, DmaError, SubmitPush, IsrBoundary, vars, coreVars, positions, portVars, dma,
           motion, history
  <2>3. UNCHANGED <<Playing, Played>>
    BY <2>2 DEF Playing, Played
  <2>4. \A h \in Half : Counted(h)' = Counted(h)
    BY <2>1, <2>2 DEF Counted
  <2>5. CASE ~running
    <3>1. StagedSum' /\ MotorSum'
      BY <2>1, <2>2, <2>4, <2>5 DEF SumInv, StagedSum, MotorSum
    <3>. QED BY <3>1 DEF SumInv
  <2>6. CASE running
    <3>1. UNCHANGED Boundary
      <4>1. CASE CallStep \/ SubmitPush \/ UNCHANGED vars
        <5>1. UNCHANGED <<ipc, flags>>
          BY <4>1, CallSteps DEF SubmitPush, vars, portVars, dma
        <5>. QED BY <5>1 DEF Boundary
      <4>2. CASE DmaFails
        <5>1. UNCHANGED ipc /\ flags' = flags \cup {"ERR"}
          BY <4>2 DEF DmaFails, DmaError
        <5>. QED BY <5>1 DEF Boundary
      <4>3. CASE FlowStep
        <5>1. ipc = "fill" /\ ipc' = "idle" /\ flags' = flags
          BY <2>6, <4>3, FlowSteps DEF ControlInv, portVars, dma
        <5>. QED BY <2>6, <5>1 DEF Boundary, PhysInv
      <4>4. CASE IsrBoundary
        <5>1. flags \subseteq {"HT", "TC", "ERR"}
          BY TypeParts DEF PortTypeOK
        <5>. QED BY <4>4, <5>1 DEF IsrBoundary, Missed, Boundary
      <4>. QED BY <1>5, <4>1, <4>2, <4>3, <4>4
    <3>. QED BY <2>1, <2>2, <2>3, <2>4, <3>1, SameSums
  <2>. QED BY <2>5, <2>6
<1>6. CASE StartFill1
  <2>1. /\ On /\ UNCHANGED <<ring, First>>
        /\ \A h \in Half : FilledIn(h)' = FilledIn(h)
    BY <1>0, <1>6, StillPlace DEF Still
  <2>2. /\ staged' = [staged EXCEPT ![1] = [a \in Axes |-> 0]] /\ UNCHANGED running
        /\ mpc = "fill0"
    BY <1>6 DEF StartFill1, BeginFill, MainAt, portVars, dma
  <2>3. ~running
    BY <2>2 DEF ControlInv, Alone
  <2>4. ASSUME NEW a \in Axes, NEW h \in Half
        PROVE  (staged[h][a] = StepsIn(ring, a, h, Counted(h)))'
    <3>1. Counted(h) = FilledIn(h) /\ Counted(h)' = FilledIn(h)
      BY <2>1, <2>2, <2>3 DEF Counted
    <3>2. CASE h = 0
      <4>1. staged'[h] = staged[h]
        BY <2>2, <3>2, TypeParts DEF CoreTypeOK, Half
      <4>. QED BY <2>1, <3>1, <4>1 DEF SumInv, StagedSum
    <3>3. CASE h = 1
      <4>1. staged'[h][a] = 0
        BY <2>2, <3>3, TypeParts DEF CoreTypeOK, Half
      <4>2. FilledIn(h) = 0
        BY <2>2, <2>3, <3>3 DEF FilledIn
      <4>. QED BY <2>1, <3>1, <4>1, <4>2, NoWords
    <3>. QED BY <3>2, <3>3 DEF Half
  <2>. QED BY <2>2, <2>3, <2>4 DEF SumInv, StagedSum, MotorSum
<1>7. CASE StartFill0
  <2>1. /\ \A h \in Half : FilledIn(h)' = 0
        /\ staged' = NoSteps /\ UNCHANGED running /\ mpc' = "fill0"
    BY <1>7, StartPlace DEF StartFill0, portVars, dma
  <2>2. ~running'
    <3>1. state = "READY"
      BY <1>7 DEF StartFill0
    <3>. QED BY <2>1, <3>1 DEF ControlInv
  <2>3. ASSUME NEW a \in Axes, NEW h \in Half
        PROVE  (staged[h][a] = StepsIn(ring, a, h, Counted(h)))'
    <3>1. StepsIn(ring, a, h, 0)' = 0
      <4>1. ring' \in [RingIx -> Word]
        BY DEF TypeOK, CoreTypeOK
      <4>. QED BY <4>1, StepsInRec
    <3>. QED BY <2>1, <2>2, <3>1 DEF NoSteps, Counted
  <2>. QED BY <2>2, <2>3 DEF SumInv, StagedSum, MotorSum
<1>8. CASE StartDir
  <2>1. /\ On /\ UNCHANGED <<ring, running, staged>> /\ ~running
        /\ \A h \in Half : FilledIn(h)' = HalfTicks /\ FilledIn(h) = HalfTicks
    BY <1>8, DirPlace DEF positions
  <2>2. StagedSum'
    BY <2>1 DEF SumInv, StagedSum, Counted
  <2>. QED BY <2>1, <2>2 DEF SumInv, MotorSum
<1>9. CASE IsrPlay
  <2>1. /\ running /\ running' /\ Boundary /\ ~Boundary' /\ UNCHANGED <<ring, Playing, Played>>
        /\ First' = 1 - First /\ First \in Half /\ First' \in Half
        /\ \A h \in Half : FilledIn(h) = HalfTicks
    BY <1>9, PlayPlace
  <2>2. ipc = "play" /\ ipc' = "refill" /\ UNCHANGED <<staged, posOutput, motor, origin>>
    BY <1>9 DEF IsrPlay, PortWriteDir, positions, portVars, motion, history
  <2>3. \A h \in Half : Counted(h) = HalfTicks /\ Counted(h)' = HalfTicks
    BY <2>1, <2>2 DEF Counted
  <2>4. StagedSum'
    BY <2>1, <2>2, <2>3 DEF SumInv, StagedSum, On
  <2>5. ASSUME NEW a \in Axes
        PROVE  (motor[a] = origin[a] + posOutput[a] + Uncommitted(a)
                           + StepsIn(ring, a, Playing, Played))'
    <3>1. motor[a] = origin[a] + posOutput[a] + Uncommitted(a) + StepsIn(ring, a, Playing, Played)
      BY <2>1 DEF SumInv, MotorSum, On
    <3>2. 1 - First' = First
      BY <2>1 DEF Half
    <3>3. Uncommitted(a)' = Uncommitted(a)
      BY <2>1, <2>2, <3>2 DEF Uncommitted
    <3>4. StepsIn(ring', a, Playing', Played') = StepsIn(ring, a, Playing, Played)
      BY <2>1
    <3>. QED BY <2>2, <3>1, <3>3, <3>4
  <2>. QED BY <2>4, <2>5 DEF SumInv, MotorSum
<1>10. ~Stop
  BY DEF Stop, PortStop, MainAt, On, Starting
<1>. QED
  BY <1>1, <1>2, <1>3, <1>4, <1>5, <1>6, <1>7, <1>8, <1>9, <1>10, OnSteps DEF Still, Passive

LEMMA SumCorrect ==
    ASSUME InterruptInTime, EStopCuts = {}, WideIndices
    PROVE  Spec => []SumInv
<1>1. Init => SumInv
  BY DEF Init, PortInit, SumInv, On, Starting
<1>2. /\ TypeOK /\ TypeOK' /\ ControlInv /\ ReadyInv /\ SignInv /\ FillPlace
      /\ ArmedPlace /\ PhysInv /\ PhysInv' /\ PlannedInv /\ SumInv /\ [Next]_vars
      => SumInv'
  BY StepSums
<1>3. "main" \notin EStopCuts /\ RefillInTime
  BY DEF InterruptInTime
<1>. QED
  BY <1>1, <1>2, <1>3, TypeCorrect, ControlCorrect, ReadyCorrect, SignsCorrect, FillPlaceCorrect,
     ArmedPlaceCorrect, PhysCorrect, PlannedCorrect, PTL DEF Spec

(* While the timebase runs and no boundary is being served, every motor is  *)
(* where pos_output and the words already out of the current half say: no   *)
(* step of the ring is counted twice, forgotten or counted for the wrong    *)
(* half, whatever was stopped or cleared before.                            *)
THEOREM PositionIsFaithful ==
    ASSUME EStopCuts = {}, WideIndices, InterruptInTime
    PROVE  Spec => []PositionFidelity
<1>1. TypeOK /\ SumInv => PositionFidelity
  <2> SUFFICES ASSUME TypeOK, SumInv, running, IsrIdle, NEW a \in Axes
               PROVE  motor[a] = origin[a] + posOutput[a]
                                 + StepsIn(ring, a, idx \div HalfTicks, Played)
    BY DEF PositionFidelity
  <2>1. Uncommitted(a) = 0
    BY DEF Uncommitted, Boundary, IsrIdle
  <2>2. motor[a] = origin[a] + posOutput[a] + Uncommitted(a) + StepsIn(ring, a, Playing, Played)
    BY DEF SumInv, MotorSum, On
  <2>. QED BY <2>1, <2>2, SumTypes DEF Playing
<1>. QED BY <1>1, TypeCorrect, SumCorrect, PTL

---------------------------------------------------------------------------
(* The two sides of the ring.                                              *)

(* Nobody stops the motion to start another; a stop forgets the steps that  *)
(* were planned and not put out, in one of the two counters only.           *)
NeverRestarted == "stop" \notin Calls /\ "clear" \notin Calls

(* Nothing has been planned before the start, and during the start the      *)
(* second half counts nothing until it is filled.                           *)
NotStarted ==
    /\ mpc \notin {"abort", "stop", "stopped", "demote", "recheck", "clear", "cleared"}
    /\ state \in {"SAFE_IDLE", "READY"} =>
         /\ IsrIdle /\ ~running
         /\ mpc # "run" => sinceDir = [a \in Axes |-> FarPast]
         /\ mpc \notin {"fill0", "fill1", "run"} => posPlanned = posOutput
    /\ mpc = "fill0" => \A a \in Axes : staged[1][a] = 0

PlanInv ==
    /\ NotStarted
    /\ state \in {"SAFE_IDLE", "READY"} \/ running \/ mpc = "port" =>
         \A a \in Axes : posPlanned[a] = posOutput[a] + staged[0][a] + staged[1][a]

(* What is planned stays the sum of what is put out and what is staged. *)
LEMMA FillPlan ==
    ASSUME TypeOK, NEW c \in Caller, FillStep(c), NEW a \in Axes,
           posPlanned[a] = posOutput[a] + staged[0][a] + staged[1][a]
    PROVE  /\ posPlanned'[a] = posOutput'[a] + staged'[0][a] + staged'[1][a]
           /\ \A h \in Half : h # frame[c].half => staged'[h] = staged[h]
<1>0. /\ frame[c].half \in Half /\ staged \in [Half -> [Axes -> Int]]
      /\ posPlanned \in [Axes -> Int] /\ posOutput \in [Axes -> Int]
      /\ frame[c].done \in 0 .. HalfTicks
  BY TypeParts DEF CoreTypeOK, Frame
<1>1. CASE UNCHANGED positions
  BY <1>1 DEF positions
<1>2. ASSUME NEW k \in 1 .. HalfTicks, EmitRun(c, k), posOutput' = posOutput
      PROVE  /\ posPlanned'[a] = posOutput'[a] + staged'[0][a] + staged'[1][a]
             /\ \A h \in Half : h # frame[c].half => staged'[h] = staged[h]
  <2> DEFINE gain == Forward(a) * ClosedForm(ax[a].phase, Rate(a, Now(c)), k)
  <2>1. gain \in Int
    <3>1. ax[a].phase \in 0 .. PhaseMod - 1 /\ Rate(a, Now(c)) \in 0 .. RateMax
      BY TypeParts, RateAssumption, SMTT(30) DEF CoreTypeOK, AxisState, Rate
    <3>2. ClosedForm(ax[a].phase, Rate(a, Now(c)), k) \in Int
      BY <3>1, RunSteps
    <3>3. Forward(a) \in {-1, 1}
      BY DEF Forward
    <3>. QED BY <3>2, <3>3
  <2>2. /\ posPlanned'[a] = posPlanned[a] + gain
        /\ staged'[frame[c].half][a] = staged[frame[c].half][a] + gain
        /\ \A h \in Half : h # frame[c].half => staged'[h] = staged[h]
    BY <1>0, <1>2 DEF EmitRun
  <2> HIDE DEF gain
  <2>3. staged[0][a] \in Int /\ staged[1][a] \in Int /\ posOutput[a] \in Int
    BY <1>0 DEF Half
  <2>4. CASE frame[c].half = 0
    <3>1. staged'[1] = staged[1]
      BY <2>2, <2>4 DEF Half
    <3>. QED BY <1>2, <2>1, <2>2, <2>3, <2>4, <3>1
  <2>5. CASE frame[c].half = 1
    <3>1. staged'[0] = staged[0]
      BY <2>2, <2>5 DEF Half
    <3>. QED BY <1>2, <2>1, <2>2, <2>3, <2>5, <3>1
  <2>. QED BY <1>0, <2>4, <2>5 DEF Half
<1>. QED
  BY <1>1, <1>2 DEF FillStep, FillTake, FillHold, FillStarve, FillApply, FillEmit

LEMMA StepPlan ==
    ASSUME NeverRestarted, EStopCuts = {}, TypeOK, TypeOK', ControlInv, ReadyInv, FillPlace, PlanInv,
           [Next]_vars
    PROVE  PlanInv'
<1> DEFINE Planned == state \in {"SAFE_IDLE", "READY"} \/ running \/ mpc = "port"
           Even == \A a \in Axes : posPlanned[a] = posOutput[a] + staged[0][a] + staged[1][a]
<1>0. /\ staged \in [Half -> [Axes -> Int]] /\ posPlanned \in [Axes -> Int]
      /\ posOutput \in [Axes -> Int] /\ 0 \in Half /\ 1 \in Half
  BY TypeParts DEF CoreTypeOK, Half
<1>1. CASE CallStep
  <2>1. /\ UNCHANGED <<positions, dma, pin, motion, ipc>> /\ IsrIdle
        /\ UNCHANGED <<staged, posPlanned, posOutput, running, sinceDir, flags>>
    BY <1>1, CallSteps DEF coreVars, positions, dma, motion
  <2>2. /\ mpc' \notin {"abort", "stop", "stopped", "demote", "recheck", "clear", "cleared"}
        /\ state' \in {"SAFE_IDLE", "READY"} =>
             /\ state \in {"SAFE_IDLE", "READY"} /\ mpc' \notin {"fill0", "fill1", "run"}
             /\ mpc \notin {"fill0", "fill1", "run"}
        /\ mpc' = "port" => state = "READY"
        /\ mpc' # "fill0"
    BY <1>1 DEF CallStep, EnableCheck, EnableDrives, EnableReady, StartRun, StopCheck, StopReady,
       ClearEStopCheck, ClearEStopDemote, ClearCheck, ClearIdle, SubmitCheck, SubmitRefused,
       PlanInv, NotStarted, ControlInv, MainAt, NeverRestarted, facade
  <2>3. Planned' => Planned
    BY <2>1, <2>2
  <2>4. NotStarted'
    BY <2>1, <2>2 DEF PlanInv, NotStarted, IsrIdle
  <2>. QED BY <2>1, <2>3, <2>4 DEF PlanInv
<1>2. CASE FlowStep
  <2>1. /\ UNCHANGED <<staged, posPlanned, posOutput, running, sinceDir, flags, mpc>>
        /\ ipc \in {"fill", "fault", "faulted"}
        /\ state' = state \/ state' = "FAULT"
    BY <1>2, FlowSteps DEF coreVars, positions, portVars, dma, motion
  <2>2. state' \notin {"SAFE_IDLE", "READY"}
    BY <2>1 DEF PlanInv, NotStarted, IsrIdle
  <2>. QED BY <2>1, <2>2 DEF PlanInv, NotStarted
<1>3. CASE StartPort \/ DmaTick \/ DmaFails \/ UNCHANGED vars
  <2>1. /\ UNCHANGED <<staged, posPlanned, posOutput, state>>
        /\ (mpc' = "idle" /\ mpc = "port") \/ mpc' = mpc
        /\ running \/ mpc = "port" \/ UNCHANGED <<running, mpc, sinceDir, flags, ipc>>
    BY <1>3 DEF StartPort, DmaTick, PlayWord, DmaFails, DmaError, MainAt, vars, coreVars, positions,
       portVars, dma, motion, facade
  <2>2. running \/ mpc = "port" => state' \notin {"SAFE_IDLE", "READY"}
    BY <2>1 DEF ControlInv
  <2>3. Planned' => Planned
    BY <2>1
  <2>. QED BY <2>1, <2>2, <2>3 DEF PlanInv, NotStarted, IsrIdle
<1>4. CASE SubmitPush
  <2>1. /\ UNCHANGED <<staged, posPlanned, posOutput, state, running, sinceDir, flags, ipc>>
        /\ mpc' = "idle" /\ mpc = "push"
    BY <1>4 DEF SubmitPush, MainAt, positions, portVars, dma, motion, facade
  <2>. QED BY <2>1 DEF PlanInv, NotStarted, IsrIdle
<1>5. CASE StartFill0
  <2>1. /\ UNCHANGED <<posPlanned, posOutput, state, running, sinceDir, flags, ipc>>
        /\ staged' = NoSteps /\ mpc = "idle" /\ mpc' = "fill0" /\ state = "READY"
    BY <1>5 DEF StartFill0, MainAt, portVars, dma, motion, facade
  <2>2. posPlanned = posOutput
    BY <2>1 DEF PlanInv, NotStarted
  <2>3. Even'
    BY <1>0, <2>1, <2>2 DEF NoSteps
  <2>4. \A a \in Axes : staged'[1][a] = 0
    BY <1>0, <2>1 DEF NoSteps
  <2>5. NotStarted'
    BY <2>1, <2>4 DEF PlanInv, NotStarted, IsrIdle
  <2>. QED BY <2>3, <2>5 DEF PlanInv
<1>6. CASE StartFill1
  <2>1. /\ UNCHANGED <<posPlanned, posOutput, state, running, sinceDir, flags, ipc>>
        /\ staged' = [staged EXCEPT ![1] = [a \in Axes |-> 0]] /\ mpc = "fill0" /\ mpc' = "fill1"
        /\ state = "READY"
    BY <1>6 DEF StartFill1, BeginFill, MainAt, portVars, dma, motion, facade, ControlInv
  <2>2. \A a \in Axes : staged[1][a] = 0 /\ staged'[1][a] = 0 /\ staged'[0] = staged[0]
    BY <1>0, <2>1 DEF PlanInv, NotStarted
  <2>3. Even'
    BY <1>0, <2>1, <2>2 DEF PlanInv
  <2>. QED BY <2>1, <2>3 DEF PlanInv, NotStarted, IsrIdle
<1>7. CASE StartDir
  <2>1. /\ UNCHANGED <<staged, posPlanned, posOutput, state, running, flags, ipc>>
        /\ mpc = "fill1" /\ mpc' = "run"
    BY <1>7 DEF StartDir, PortWriteDir, MainAt, positions, portVars, dma
  <2>. QED BY <2>1 DEF PlanInv, NotStarted, IsrIdle
<1>8. CASE IsrBoundary \/ IsrPlay
  <2>1. /\ UNCHANGED <<staged, posPlanned, posOutput, state, running, mpc>> /\ ~IsrIdle
    BY <1>8 DEF IsrBoundary, IsrPlay, PortWriteDir, positions, portVars, dma, facade, IsrIdle
  <2>2. state \notin {"SAFE_IDLE", "READY"}
    BY <2>1 DEF PlanInv, NotStarted
  <2>. QED BY <2>1, <2>2 DEF PlanInv, NotStarted
<1>9. CASE IsrRefill
  <2> DEFINE half == frame["isr"].half
  <2>1. ready[1 - half] /\ half \in Half
    BY <1>9, TypeParts DEF IsrRefill, ReadyInv, CoreTypeOK, Caller, Frame
  <2>2. /\ staged' = [staged EXCEPT ![half] = [a \in Axes |-> 0]]
        /\ posOutput' = Committed(half) /\ posPlanned' = posPlanned
        /\ UNCHANGED <<state, mpc, running>> /\ ipc = "refill"
    BY <1>9, <2>1 DEF IsrRefill, BeginFill, facade, portVars, dma
  <2> HIDE DEF half
  <2>3. state \notin {"SAFE_IDLE", "READY"}
    BY <2>2 DEF PlanInv, NotStarted, IsrIdle
  <2>4. mpc # "fill0"
    BY <2>2 DEF ControlInv, Alone
  <2>5. Even => Even'
    <3> SUFFICES ASSUME Even, NEW a \in Axes
                 PROVE  posPlanned'[a] = posOutput'[a] + staged'[0][a] + staged'[1][a]
      OBVIOUS
    <3>1. /\ posOutput'[a] = posOutput[a] + staged[half][a] /\ staged'[half][a] = 0
          /\ \A h \in Half : h # half => staged'[h] = staged[h]
      BY <1>0, <2>1, <2>2 DEF Committed
    <3>2. staged[0][a] \in Int /\ staged[1][a] \in Int /\ posOutput[a] \in Int
      BY <1>0
    <3>3. CASE half = 0
      <4>1. staged'[1] = staged[1]
        BY <3>1, <3>3 DEF Half
      <4>. QED BY <2>2, <3>1, <3>2, <3>3, <4>1
    <3>4. CASE half = 1
      <4>1. staged'[0] = staged[0]
        BY <3>1, <3>4 DEF Half
      <4>. QED BY <2>2, <3>1, <3>2, <3>4, <4>1
    <3>. QED BY <2>1, <3>3, <3>4 DEF Half
  <2>. QED BY <2>2, <2>3, <2>4, <2>5 DEF PlanInv, NotStarted
<1>10. ASSUME NEW c \in Caller, FillingStep(c)
       PROVE  PlanInv'
  <2>1. /\ Filler(c) /\ FillStep(c) /\ UNCHANGED <<state, mpc, ipc, running, flags, sinceDir>>
    BY <1>10 DEF FillingStep, portVars, dma, motion, facade
  <2>2. Even => Even'
    BY <2>1, FillPlan
  <2>3. mpc = "fill0" => frame[c].half = 0
    BY <2>1 DEF Filler, Starting, FillPlace
  <2>4. mpc = "fill0" => \A a \in Axes : staged'[1][a] = staged[1][a]
    <3> SUFFICES ASSUME mpc = "fill0", NEW a \in Axes
                 PROVE  staged'[1][a] = staged[1][a]
      OBVIOUS
    <3>1. Planned
      BY DEF ControlInv
    <3>. QED BY <1>0, <2>1, <2>3, <3>1, FillPlan DEF PlanInv
  <2>5. state \in {"SAFE_IDLE", "READY"} => mpc \in {"fill0", "fill1"}
    BY <2>1 DEF Filler, PlanInv, NotStarted, IsrIdle
  <2>6. NotStarted'
    BY <2>1, <2>4, <2>5 DEF PlanInv, NotStarted, IsrIdle
  <2>. QED BY <2>1, <2>2, <2>6 DEF PlanInv
<1>11. CASE IsrFillStep \/ MainFillStep
  <2>1. PICK c \in Caller : FillingStep(c)
    BY <1>11, Fillers DEF FillingStep
  <2>. QED BY <1>10, <2>1
<1>12. CASE IsrOverrun \/ EStop
  <2>1. /\ ~running' /\ mpc' = mpc /\ mpc \notin {"port", "fill0"}
        /\ state' \notin {"SAFE_IDLE", "READY"}
    BY <1>12 DEF IsrOverrun, EStop, PortEmergencyStop, Missed, ControlInv, Alone, PlanInv, NotStarted,
       IsrIdle, facade
  <2>. QED BY <2>1 DEF PlanInv, NotStarted
<1>13. ~Stop /\ ~StopAbort /\ ~ClearRewind
  BY DEF Stop, NeverRestarted, StopAbort, ClearRewind, MainAt, PlanInv, NotStarted
<1>. QED
  BY <1>1, <1>2, <1>3, <1>4, <1>5, <1>6, <1>7, <1>8, <1>9, <1>11, <1>12, <1>13
     DEF Next, Main, Isr, CallStep, FlowStep

LEMMA PlanCorrect ==
    ASSUME NeverRestarted, EStopCuts = {}
    PROVE  Spec => []PlanInv
<1>1. Init => PlanInv
  BY DEF Init, PortInit, CoreInit, NoSteps, PlanInv, NotStarted, IsrIdle, Half
<1>2. TypeOK /\ TypeOK' /\ ControlInv /\ ReadyInv /\ FillPlace /\ PlanInv /\ [Next]_vars => PlanInv'
  BY StepPlan
<1>3. "main" \notin EStopCuts
  OBVIOUS
<1>. QED
  BY <1>1, <1>2, <1>3, TypeCorrect, ControlCorrect, ReadyCorrect, FillPlaceCorrect, PTL DEF Spec

(* In a run that is not restarted after a stop, what was planned and is not *)
(* in pos_output yet is staged in one of the two halves, so that the two    *)
(* counters meet when the ring runs empty.                                  *)
THEOREM PlanIsStaged ==
    ASSUME EStopCuts = {}, NeverRestarted
    PROVE  Spec => []PlannedIsStaged
<1>1. PlanInv => PlannedIsStaged
  BY DEF PlanInv, PlannedIsStaged
<1>. QED BY <1>1, PlanCorrect, PTL

---------------------------------------------------------------------------
(* The segments on their way.                                              *)

(* No stop, no E-STOP, and a stream that reports no error. *)
Undisturbed == "stop" \notin Calls /\ "estop" \notin Calls /\ ~DmaErrors

(* Nothing is aborted then. *)
CalmInv ==
    /\ ~running => flags = {}
    /\ "ERR" \notin flags
    /\ ipc \notin {"fault", "faulted"}
    /\ state \notin {"FAULT", "EMERGENCY_STOP"}
    /\ mpc \notin {"abort", "stop", "stopped", "demote", "recheck", "clear", "cleared"}

LEMMA NoAborts ==
    ASSUME Undisturbed, ReadyInv, PhysInv, CalmInv
    PROVE  ~AbortStep /\ ~Stop /\ ~ClearRewind
<1>1. ~Missed
  BY DEF Missed, PhysInv, CalmInv
<1>2. ~IsrOverrun /\ ~EStop /\ ~Stop /\ ~StopAbort /\ ~ClearRewind
  BY <1>1 DEF IsrOverrun, EStop, Stop, StopAbort, ClearRewind, MainAt, Undisturbed, CalmInv
<1>3. ~(IsrRefill /\ ~ready[1 - frame["isr"].half])
  BY DEF IsrRefill, ReadyInv
<1>. QED BY <1>2, <1>3 DEF AbortStep

LEMMA StepCalm ==
    ASSUME Undisturbed, TypeOK, ControlInv, ReadyInv, PhysInv, CalmInv, [Next]_vars
    PROVE  CalmInv'
<1>0. ~AbortStep /\ ~Stop /\ ~ClearRewind
  BY NoAborts
<1>1. CASE CallStep
  <2>1. UNCHANGED <<running, flags, ipc>>
    BY <1>1, CallSteps DEF dma
  <2>2. /\ mpc' \notin {"abort", "stop", "stopped", "demote", "recheck", "clear", "cleared"}
        /\ state' \notin {"FAULT", "EMERGENCY_STOP"}
    BY <1>1 DEF CallStep, EnableCheck, EnableDrives, EnableReady, StartRun, StopCheck, StopReady,
       ClearEStopCheck, ClearEStopDemote, ClearCheck, ClearIdle, SubmitCheck, SubmitRefused,
       CalmInv, MainAt, facade
  <2>. QED BY <2>1, <2>2 DEF CalmInv
<1>2. CASE FlowStep
  <2>1. /\ UNCHANGED <<running, flags, mpc, state>> /\ ipc' \in {"idle", "faulted"}
        /\ ipc' = "faulted" => ipc = "fault"
    BY <1>2, FlowSteps DEF portVars, dma, CalmInv
  <2>. QED BY <2>1 DEF CalmInv
<1>3. CASE StartPort
  BY <1>3 DEF StartPort, PortStart, MainAt, facade, CalmInv
<1>4. CASE DmaTick
  BY <1>4 DEF DmaTick, PlayWord, facade, CalmInv
<1>5. ~DmaFails
  BY DEF DmaFails, DmaError, Undisturbed
<1>6. CASE StartFill0 \/ StartFill1 \/ StartDir \/ SubmitPush
  BY <1>6 DEF StartFill0, StartFill1, StartDir, SubmitPush, PortWriteDir, MainAt, facade, portVars,
     dma, CalmInv
<1>7. CASE IsrBoundary \/ IsrPlay
  BY <1>7 DEF IsrBoundary, IsrPlay, PortWriteDir, portVars, dma, facade, CalmInv
<1>8. CASE IsrRefill
  <2>1. UNCHANGED <<running, flags, mpc, state>> /\ ipc' = "fill"
    BY <1>0, <1>8 DEF IsrRefill, AbortStep, facade, portVars, dma
  <2>. QED BY <2>1 DEF CalmInv
<1>9. CASE IsrFillStep \/ MainFillStep
  BY <1>9 DEF IsrFillStep, MainFillStep, facade, portVars, dma, CalmInv
<1>10. CASE UNCHANGED vars
  BY <1>10 DEF vars, facade, portVars, dma, CalmInv
<1>. QED
  BY <1>0, <1>1, <1>2, <1>3, <1>4, <1>5, <1>6, <1>7, <1>8, <1>9, <1>10
     DEF Next, Main, Isr, CallStep, FlowStep, AbortStep

(* Segments numbered from n + 1. *)
Numbered(q, n) == \A i \in 1 .. Len(q) : q[i].seq = n + i

LEMMA NumberedConcat ==
    ASSUME NEW p \in Seq(Segment), NEW q \in Seq(Segment), NEW n \in Nat
    PROVE  /\ p \o q \in Seq(Segment) /\ Len(p \o q) = Len(p) + Len(q)
           /\ Numbered(p \o q, n) <=> Numbered(p, n) /\ Numbered(q, n + Len(p))
<1>1. /\ p \o q \in Seq(Segment) /\ Len(p \o q) = Len(p) + Len(q)
      /\ Len(p) \in Nat /\ Len(q) \in Nat
      /\ \A i \in 1 .. Len(p) + Len(q) :
            (p \o q)[i] = IF i <= Len(p) THEN p[i] ELSE q[i - Len(p)]
  OBVIOUS
<1> DEFINE l == Len(p)
           m == Len(q)
           s == p \o q
<1> HIDE DEF l, m, s
<1>2. /\ l \in Nat /\ m \in Nat
      /\ \A i \in 1 .. l + m : s[i] = IF i <= l THEN p[i] ELSE q[i - l]
  BY <1>1 DEF l, m, s
<1>3. ASSUME \A i \in 1 .. l + m : s[i].seq = n + i
      PROVE  /\ \A i \in 1 .. l : p[i].seq = n + i
             /\ \A i \in 1 .. m : q[i].seq = n + l + i
  <2>1. ASSUME NEW i \in 1 .. l PROVE p[i].seq = n + i
    <3>1. i \in 1 .. l + m /\ i <= l
      BY <1>2
    <3>. QED BY <1>2, <1>3, <3>1
  <2>2. ASSUME NEW i \in 1 .. m PROVE q[i].seq = n + l + i
    <3>1. i + l \in 1 .. l + m /\ ~(i + l <= l) /\ i + l - l = i
      BY <1>2
    <3>2. s[i + l] = q[i] /\ s[i + l].seq = n + (i + l)
      BY <1>2, <1>3, <3>1
    <3>. QED BY <1>2, <3>2
  <2>. QED BY <2>1, <2>2
<1>4. ASSUME \A i \in 1 .. l : p[i].seq = n + i, \A i \in 1 .. m : q[i].seq = n + l + i,
             NEW i \in 1 .. l + m
      PROVE  s[i].seq = n + i
  <2>1. CASE i <= l
    BY <1>2, <1>4, <2>1
  <2>2. CASE ~(i <= l)
    <3>1. i - l \in 1 .. m /\ n + l + (i - l) = n + i
      BY <1>2, <2>2
    <3>. QED BY <1>2, <1>4, <2>2, <3>1
  <2>. QED BY <2>1, <2>2
<1>5. (\A i \in 1 .. l + m : s[i].seq = n + i) <=>
        (\A i \in 1 .. l : p[i].seq = n + i) /\ (\A i \in 1 .. m : q[i].seq = n + l + i)
  BY <1>3, <1>4
<1>6. Numbered(s, n) <=> \A i \in 1 .. l + m : s[i].seq = n + i
  BY <1>1 DEF Numbered, l, m, s
<1>. QED BY <1>1, <1>5, <1>6 DEF Numbered, l, m, s

(* The four places a segment may be in, one after the other. *)
LEMMA FlightParts ==
    ASSUME CoreTypeOK
    PROVE  LET m == frame["main"].incoming
               s == frame["isr"].incoming
           IN  NoneLost <=>
                 /\ lastSeq + Len(m) + Len(s) + Len(pending) + Len(queue) = sent
                 /\ Numbered(m, lastSeq) /\ Numbered(s, lastSeq + Len(m))
                 /\ Numbered(pending, lastSeq + Len(m) + Len(s))
                 /\ Numbered(queue, lastSeq + Len(m) + Len(s) + Len(pending))
<1> DEFINE m == frame["main"].incoming
           s == frame["isr"].incoming
<1>1. /\ m \in Seq(Segment) /\ s \in Seq(Segment) /\ pending \in Seq(Segment)
      /\ queue \in Seq(Segment) /\ lastSeq \in Nat
      /\ Len(m) \in Nat /\ Len(s) \in Nat /\ Len(pending) \in Nat /\ Len(queue) \in Nat
  BY DEF CoreTypeOK, Frame, AtMostOne, Caller
<1>2. InFlight = ((m \o s) \o pending) \o queue
  BY DEF InFlight
<1> HIDE DEF m, s
<1>3. /\ m \o s \in Seq(Segment) /\ Len(m \o s) = Len(m) + Len(s)
      /\ Numbered(m \o s, lastSeq) <=> Numbered(m, lastSeq) /\ Numbered(s, lastSeq + Len(m))
  BY <1>1, NumberedConcat
<1> DEFINE ms == m \o s
<1> HIDE DEF ms
<1>4. /\ ms \in Seq(Segment) /\ Len(ms) = Len(m) + Len(s)
      /\ Numbered(ms, lastSeq) <=> Numbered(m, lastSeq) /\ Numbered(s, lastSeq + Len(m))
  BY <1>3 DEF ms
<1>5. /\ ms \o pending \in Seq(Segment) /\ Len(ms \o pending) = Len(ms) + Len(pending)
      /\ Numbered(ms \o pending, lastSeq) <=>
            Numbered(ms, lastSeq) /\ Numbered(pending, lastSeq + Len(ms))
  BY <1>1, <1>4, NumberedConcat
<1> DEFINE msp == ms \o pending
<1> HIDE DEF msp
<1>6. /\ msp \in Seq(Segment) /\ Len(msp) = Len(ms) + Len(pending)
      /\ Numbered(msp, lastSeq) <=> Numbered(ms, lastSeq) /\ Numbered(pending, lastSeq + Len(ms))
  BY <1>5 DEF msp
<1>7. /\ Len(msp \o queue) = Len(msp) + Len(queue)
      /\ Numbered(msp \o queue, lastSeq) <=>
            Numbered(msp, lastSeq) /\ Numbered(queue, lastSeq + Len(msp))
  BY <1>1, <1>6, NumberedConcat
<1>8. InFlight = msp \o queue
  BY <1>2 DEF msp, ms
<1>9. NoneLost <=> lastSeq + Len(msp \o queue) = sent /\ Numbered(msp \o queue, lastSeq)
  BY <1>8 DEF NoneLost, Numbered
<1>10. /\ lastSeq + (Len(m) + Len(s)) = lastSeq + Len(m) + Len(s)
       /\ lastSeq + ((Len(m) + Len(s)) + Len(pending)) = lastSeq + Len(m) + Len(s) + Len(pending)
       /\ lastSeq + (((Len(m) + Len(s)) + Len(pending)) + Len(queue))
             = lastSeq + Len(m) + Len(s) + Len(pending) + Len(queue)
  BY <1>1
<1>. QED BY <1>4, <1>6, <1>7, <1>9, <1>10 DEF m, s

(* At most one caller holds a segment. *)
OnlyIncoming(c) == \A b \in Caller : b # c => frame[b].incoming = <<>>
FlightIn(c) ==
    LET i == frame[c].incoming
    IN  /\ lastSeq + Len(i) + Len(pending) + Len(queue) = sent
        /\ Numbered(i, lastSeq) /\ Numbered(pending, lastSeq + Len(i))
        /\ Numbered(queue, lastSeq + Len(i) + Len(pending))

OneInFlight ==
    CoreTypeOK => \A c \in Caller : OnlyIncoming(c) => (NoneLost <=> FlightIn(c))

LEMMA FlightOf == OneInFlight
<1> SUFFICES ASSUME CoreTypeOK, NEW c \in Caller, OnlyIncoming(c)
             PROVE  NoneLost <=> FlightIn(c)
  BY DEF OneInFlight
<1> USE DEF OnlyIncoming, FlightIn
<1> DEFINE m == frame["main"].incoming
           s == frame["isr"].incoming
<1>1. NoneLost <=>
        /\ lastSeq + Len(m) + Len(s) + Len(pending) + Len(queue) = sent
        /\ Numbered(m, lastSeq) /\ Numbered(s, lastSeq + Len(m))
        /\ Numbered(pending, lastSeq + Len(m) + Len(s))
        /\ Numbered(queue, lastSeq + Len(m) + Len(s) + Len(pending))
  BY FlightParts
<1>2. /\ lastSeq \in Nat /\ Len(m) \in Nat /\ Len(s) \in Nat /\ Len(pending) \in Nat
      /\ Len(queue) \in Nat
  BY DEF CoreTypeOK, Frame, AtMostOne, Caller
<1>3. Len(<<>>) = 0 /\ \A n : Numbered(<<>>, n)
  BY DEF Numbered
<1>4. CASE c = "main"
  <2>1. s = <<>>
    BY <1>4 DEF Caller
  <2> HIDE DEF m, s
  <2>2. Len(s) = 0 /\ \A n : Numbered(s, n)
    BY <1>3, <2>1
  <2>3. lastSeq + Len(m) + Len(s) = lastSeq + Len(m)
    BY <1>2, <2>2
  <2>. QED BY <1>1, <1>4, <2>2, <2>3 DEF m
<1>5. CASE c = "isr"
  <2>1. m = <<>>
    BY <1>5 DEF Caller
  <2> HIDE DEF m, s
  <2>2. Len(m) = 0 /\ \A n : Numbered(m, n)
    BY <1>3, <2>1
  <2>3. lastSeq + Len(m) = lastSeq
    BY <1>2, <2>2
  <2>. QED BY <1>1, <1>5, <2>2, <2>3 DEF s
<1>. QED BY <1>4, <1>5 DEF Caller

(* Taking the head off a numbered sequence. *)
LEMMA NumberedHead ==
    ASSUME NEW q \in Seq(Segment), q # <<>>, NEW n \in Nat, Numbered(q, n)
    PROVE  /\ Head(q).seq = n + 1 /\ Tail(q) \in Seq(Segment) /\ Len(Tail(q)) = Len(q) - 1
           /\ Len(q) \in Nat \ {0} /\ Numbered(Tail(q), n + 1)
<1>1. /\ Tail(q) \in Seq(Segment) /\ Len(Tail(q)) = Len(q) - 1 /\ Len(q) \in Nat \ {0}
      /\ Head(q) = q[1] /\ \A i \in 1 .. Len(q) - 1 : Tail(q)[i] = q[i + 1]
  OBVIOUS
<1> DEFINE l == Len(q)
           t == Tail(q)
<1> HIDE DEF l, t
<1>2. l \in Nat \ {0} /\ Len(t) = l - 1 /\ Head(q) = q[1] /\ \A i \in 1 .. l - 1 : t[i] = q[i + 1]
  BY <1>1 DEF l, t
<1>3. \A i \in 1 .. l : q[i].seq = n + i
  BY DEF Numbered, l
<1>4. q[1].seq = n + 1
  BY <1>2, <1>3
<1>5. ASSUME NEW i \in 1 .. l - 1
      PROVE  t[i].seq = (n + 1) + i
  <2>1. i + 1 \in 1 .. l /\ n + (i + 1) = (n + 1) + i
    BY <1>2
  <2>. QED BY <1>2, <1>3, <2>1
<1>6. Numbered(t, n + 1)
  BY <1>2, <1>5 DEF Numbered
<1>. QED BY <1>1, <1>2, <1>4, <1>6 DEF t

LEMMA NumberedOne ==
    ASSUME NEW s, NEW n \in Nat
    PROVE  Len(<<s>>) = 1 /\ (Numbered(<<s>>, n) <=> s.seq = n + 1)
<1>1. Len(<<s>>) = 1 /\ <<s>>[1] = s
  OBVIOUS
<1>. QED BY <1>1 DEF Numbered

LEMMA NumberedAppend ==
    ASSUME NEW q \in Seq(Segment), NEW s \in Segment, NEW n \in Nat, Numbered(q, n),
           s.seq = n + Len(q) + 1
    PROVE  Numbered(Append(q, s), n) /\ Len(Append(q, s)) = Len(q) + 1
<1>1. /\ Len(Append(q, s)) = Len(q) + 1 /\ Len(q) \in Nat
      /\ \A i \in 1 .. Len(q) : Append(q, s)[i] = q[i]
      /\ Append(q, s)[Len(q) + 1] = s
  OBVIOUS
<1> DEFINE l == Len(q)
           r == Append(q, s)
<1> HIDE DEF l, r
<1>2. /\ Len(r) = l + 1 /\ l \in Nat /\ r[l + 1] = s
      /\ \A i \in 1 .. l : r[i] = q[i] /\ q[i].seq = n + i
  BY <1>1 DEF Numbered, l, r
<1>3. s.seq = n + (l + 1)
  BY <1>1 DEF l
<1>4. ASSUME NEW i \in 1 .. l + 1
      PROVE  r[i].seq = n + i
  <2>1. i \in 1 .. l \/ i = l + 1
    BY <1>2
  <2>. QED BY <1>2, <1>3, <2>1
<1>. QED BY <1>1, <1>2, <1>4 DEF Numbered, r

LEMMA OneOrNone ==
    ASSUME NEW q \in Seq(Segment), Len(q) <= 1
    PROVE  q = <<>> \/ (Len(q) = 1 /\ q # <<>>)
<1>1. Len(q) \in Nat /\ (Len(q) = 0 => q = <<>>) /\ (q = <<>> => Len(q) = 0)
  OBVIOUS
<1> DEFINE n == Len(q)
<1> HIDE DEF n
<1>2. n \in Nat /\ n <= 1 /\ (n = 0 => q = <<>>) /\ (q = <<>> => n = 0)
  BY <1>1 DEF n
<1>. QED BY <1>2 DEF n

(* A fill takes segments in order and applies the one it took. *)
LEMMA FillFlight ==
    ASSUME TypeOK, TypeOK', ControlInv, AppliedInFill, NoneLost, NEW c \in Caller, FillingStep(c)
    PROVE  NoneLost'
<1> DEFINE i == frame[c].incoming
<1>0. /\ CoreTypeOK /\ CoreTypeOK' /\ frame \in [Caller -> Frame] /\ frame' \in [Caller -> Frame]
      /\ FillStep(c) /\ Filler(c) /\ sent' = sent
      /\ pending \in Seq(Segment) /\ Len(pending) <= 1 /\ queue \in Seq(Segment)
      /\ i \in Seq(Segment) /\ Len(i) <= 1 /\ lastSeq \in Nat
  BY TypeParts DEF TypeOK, CoreTypeOK, FillingStep, history, AtMostOne, Frame
<1>1. ASSUME NEW b \in Caller, b # c
      PROVE  frame[b].incoming = <<>> /\ frame'[b].incoming = <<>>
  <2>1. frame[b].at = "loop"
    <3>1. frame[b].at \in {"loop", "apply"}
      BY <1>0 DEF Frame
    <3>2. frame[b].at # "apply"
      BY <1>0, <1>1 DEF Filler, AppliedInFill, Starting, Caller
    <3>. QED BY <3>1, <3>2
  <2>2. frame[b].incoming = <<>>
    BY <1>0, <2>1 DEF Frame
  <2>. QED BY <1>0, <1>1, <2>2, FillFrames
<1>2. /\ lastSeq + Len(i) + Len(pending) + Len(queue) = sent
      /\ Numbered(i, lastSeq) /\ Numbered(pending, lastSeq + Len(i))
      /\ Numbered(queue, lastSeq + Len(i) + Len(pending))
  BY <1>0, <1>1, FlightOf DEF OneInFlight, OnlyIncoming, FlightIn
<1>3. SUFFICES /\ lastSeq' + Len(i') + Len(pending') + Len(queue') = sent'
               /\ Numbered(i', lastSeq') /\ Numbered(pending', lastSeq' + Len(i'))
               /\ Numbered(queue', lastSeq' + Len(i') + Len(pending'))
  <2>1. OneInFlight'
    BY FlightOf, PTL
  <2>. QED BY <1>0, <1>1, <2>1 DEF OneInFlight, OnlyIncoming, FlightIn
<1>4. Len(<<>>) = 0 /\ \A n : Numbered(<<>>, n)
  BY DEF Numbered
<1>5. CASE i' = i /\ UNCHANGED <<lastSeq, pending, queue>>
  BY <1>0, <1>2, <1>5
<1>6. frame[c].at = "loop" => i = <<>>
  BY <1>0 DEF Frame
<1>7. pending = <<>> \/ (Len(pending) = 1 /\ pending # <<>>)
  BY <1>0, OneOrNone
<1>8. CASE FillTake(c) \/ FillHold(c)
  <2> DEFINE h == Head(Candidates)
  <2>1. /\ Candidates # <<>> /\ frame[c].at = "loop" /\ lastSeq' = lastSeq
        /\ queue' = IF pending = <<>> THEN Tail(queue) ELSE queue
        /\ \/ pending' = <<>> /\ frame' = [frame EXCEPT ![c].at = "apply", ![c].incoming = <<h>>]
           \/ /\ pending' = IF ValidSegment(h) THEN <<h>> ELSE <<>>
              /\ frame' = [frame EXCEPT ![c].done = HalfTicks]
    BY <1>8 DEF FillTake, FillHold, Take, NeedsSegment, SilenceRest
  <2>2. ValidSegment(h)
    BY <1>0, <2>1, CandidateType
  <2>3. i = <<>> /\ Len(i) = 0
    BY <1>4, <1>6, <2>1
  <2>4. \/ pending' = <<>> /\ i' = <<h>>
        \/ pending' = <<h>> /\ i' = <<>>
    <3> HIDE DEF h
    <3>1. CASE pending' = <<>> /\ frame' = [frame EXCEPT ![c].at = "apply", ![c].incoming = <<h>>]
      BY <1>0, <3>1 DEF Frame
    <3>2. CASE /\ pending' = IF ValidSegment(h) THEN <<h>> ELSE <<>>
               /\ frame' = [frame EXCEPT ![c].done = HalfTicks]
      BY <1>0, <2>2, <2>3, <3>2 DEF Frame
    <3>. QED BY <2>1, <3>1, <3>2
  <2>5. /\ h.seq = lastSeq + 1 /\ queue' \in Seq(Segment) /\ Len(queue') \in Nat
        /\ Numbered(queue', lastSeq + 1) /\ lastSeq + 1 + Len(queue') = sent
    <3>1. CASE pending = <<>>
      <4>1. Candidates = queue
        BY <1>0, <3>1 DEF Candidates
      <4>2. Numbered(queue, lastSeq) /\ lastSeq + Len(queue) = sent
        BY <1>0, <1>2, <1>4, <2>3, <3>1
      <4>3. queue # <<>> /\ queue' = Tail(queue) /\ h = Head(queue)
        BY <2>1, <3>1, <4>1
      <4>. QED BY <1>0, <4>2, <4>3, NumberedHead
    <3>2. CASE pending # <<>>
      <4>1. h = pending[1] /\ Len(pending) = 1
        BY <1>0, <1>7, <3>2 DEF Candidates
      <4>2. Numbered(pending, lastSeq) /\ Numbered(queue, lastSeq + 1)
            /\ lastSeq + 1 + Len(queue) = sent
        BY <1>0, <1>2, <2>3, <4>1
      <4>3. pending[1].seq = lastSeq + 1
        BY <4>1, <4>2 DEF Numbered
      <4>. QED BY <1>0, <2>1, <3>2, <4>1, <4>2, <4>3
    <3>. QED BY <3>1, <3>2
  <2> HIDE DEF h, i
  <2>6. Len(<<h>>) = 1 /\ Numbered(<<h>>, lastSeq)
    BY <1>0, <2>5, NumberedOne
  <2>7. \/ /\ Len(pending') = 0 /\ Len(i') = 1 /\ Numbered(i', lastSeq)
           /\ \A n : Numbered(pending', n)
        \/ /\ Len(pending') = 1 /\ Len(i') = 0 /\ Numbered(pending', lastSeq)
           /\ \A n : Numbered(i', n)
    BY <1>4, <2>4, <2>6
  <2>8. /\ lastSeq + 1 + 0 = lastSeq + 1 /\ lastSeq + 0 + 1 = lastSeq + 1 /\ lastSeq + 0 = lastSeq
        /\ lastSeq' = lastSeq /\ sent' = sent
    BY <1>0, <2>1
  <2>. QED BY <2>5, <2>7, <2>8
<1>9. CASE FillApply(c)
  <2>1. /\ lastSeq' = Head(i).seq /\ i # <<>> /\ UNCHANGED <<pending, queue>>
        /\ frame' = [frame EXCEPT ![c].at = "loop", ![c].incoming = <<>>]
    BY <1>0, <1>9 DEF FillApply, Frame
  <2>2. i' = <<>>
    BY <1>0, <2>1
  <2>3. Len(i) = 1
    BY <1>0, <2>1, OneOrNone
  <2>4. lastSeq' = lastSeq + 1
    BY <1>0, <1>2, <2>1, NumberedHead
  <2> HIDE DEF i
  <2>5. /\ lastSeq' + Len(i') = lastSeq + Len(i) /\ Len(pending) \in Nat /\ Len(queue) \in Nat
    BY <1>0, <1>4, <2>2, <2>3, <2>4
  <2>. QED BY <1>0, <1>2, <1>4, <2>1, <2>2, <2>5
<1>10. CASE FillStarve(c) \/ FillEmit(c)
  <2>1. /\ UNCHANGED <<lastSeq, pending, queue>>
        /\ \E x : frame' = [frame EXCEPT ![c].done = x]
    <3>1. CASE FillStarve(c)
      BY <3>1 DEF FillStarve, SilenceRest
    <3>2. CASE FillEmit(c)
      BY <3>2 DEF FillEmit, EmitRun
    <3>. QED BY <1>10, <3>1, <3>2
  <2>2. frame'[c].incoming = frame[c].incoming
    BY <1>0, <2>1 DEF Frame
  <2>. QED BY <1>5, <2>1, <2>2
<1>. QED BY <1>0, <1>8, <1>9, <1>10 DEF FillStep

LEMMA StepFlight ==
    ASSUME Undisturbed, EStopCuts = {}, TypeOK, TypeOK', ControlInv, ReadyInv, AppliedInFill, PhysInv,
           CalmInv, NoneLost, [Next]_vars
    PROVE  NoneLost'
<1>0. /\ ~AbortStep /\ ~Stop /\ ~ClearRewind /\ CoreTypeOK /\ CoreTypeOK'
      /\ frame \in [Caller -> Frame]
  BY NoAborts, TypeParts DEF TypeOK, CoreTypeOK
<1>1. ASSUME UNCHANGED <<lastSeq, pending, queue, sent>>,
             \A c \in Caller : frame'[c].incoming = frame[c].incoming
      PROVE  NoneLost'
  BY <1>1 DEF NoneLost, InFlight, Caller
<1>2. CASE Passive
  <2>1. UNCHANGED <<lastSeq, pending, queue, frame>>
    BY <1>2, PassiveSteps
  <2>2. UNCHANGED sent
    BY <1>2, CallSteps, FlowSteps
       DEF Passive, StartPort, Stop, DmaTick, DmaFails, vars, history
  <2>. QED BY <1>1, <2>1, <2>2
<1>3. CASE StartDir \/ IsrBoundary \/ IsrPlay
  <2>1. UNCHANGED <<lastSeq, pending, queue, sent>>
        /\ (frame' = frame \/ \E h \in Half : frame' = [frame EXCEPT !["isr"].half = h])
    BY <1>3 DEF StartDir, IsrBoundary, IsrPlay, segments, history, Half
  <2>2. \A c \in Caller : frame'[c].incoming = frame[c].incoming
    BY <1>0, <2>1 DEF Frame
  <2>. QED BY <1>1, <2>1, <2>2
<1>4. CASE StartFill0 \/ StartFill1 \/ IsrRefill
  <2>1. /\ UNCHANGED <<lastSeq, pending, queue, sent>>
        /\ \E c \in Caller : /\ frame[c].at = "loop"
                             /\ \E h, x : frame' = [frame EXCEPT ![c] =
                                   [at |-> "loop", half |-> h, index |-> x, done |-> 0,
                                    incoming |-> <<>>]]
    <3>1. CASE StartFill0
      <4>1. frame["main"].at # "apply"
        BY <3>1 DEF StartFill0, MainAt, AppliedInFill
      <4>2. frame["main"].at = "loop"
        BY <1>0, <4>1 DEF Frame, Caller
      <4>. QED BY <3>1, <4>2 DEF StartFill0, segments, history, Caller
    <3>2. CASE StartFill1
      BY <3>2 DEF StartFill1, Filled, BeginFill, segments, history, Caller
    <3>3. CASE IsrRefill
      <4>1. frame["isr"].at # "apply"
        BY <3>3 DEF IsrRefill, AppliedInFill
      <4>2. frame["isr"].at = "loop"
        BY <1>0, <4>1 DEF Frame, Caller
      <4>3. ready[1 - frame["isr"].half]
        BY <1>0, <3>3 DEF AbortStep
      <4>. QED BY <3>3, <4>2, <4>3 DEF IsrRefill, BeginFill, segments, history, Caller
    <3>. QED BY <1>4, <3>1, <3>2, <3>3
  <2>2. PICK c \in Caller : /\ frame[c].at = "loop"
                            /\ \E h, x : frame' = [frame EXCEPT ![c] =
                                  [at |-> "loop", half |-> h, index |-> x, done |-> 0,
                                   incoming |-> <<>>]]
    BY <2>1
  <2>3. frame[c].incoming = <<>>
    BY <1>0, <2>2 DEF Frame
  <2>4. \A b \in Caller : frame'[b].incoming = frame[b].incoming
    BY <1>0, <2>2, <2>3
  <2>. QED BY <1>1, <2>1, <2>4
<1>5. CASE SubmitPush
  <2> DEFINE m == frame["main"].incoming
             s == frame["isr"].incoming
             n == lastSeq + Len(m) + Len(s) + Len(pending)
  <2>1. PICK kind \in Kinds : /\ ValidSegment(kind)
                              /\ queue' = Append(queue, [dur |-> kind.dur, rate |-> kind.rate,
                                                         seq |-> sent + 1])
    BY <1>5 DEF SubmitPush
  <2>2. sent' = sent + 1 /\ UNCHANGED <<lastSeq, pending, frame>>
    BY <1>5 DEF SubmitPush
  <2> DEFINE seg == [dur |-> kind.dur, rate |-> kind.rate, seq |-> sent + 1]
  <2>3. seg \in Segment /\ seg.seq = sent + 1
    <3>1. sent \in Nat
      BY DEF TypeOK
    <3>. QED BY <2>1, <3>1, KindsAssumption, BoundAssumption, RateAssumption
         DEF Segment, ValidSegment
  <2>4. /\ n + Len(queue) = sent /\ Numbered(m, lastSeq) /\ Numbered(s, lastSeq + Len(m))
        /\ Numbered(pending, lastSeq + Len(m) + Len(s)) /\ Numbered(queue, n)
    BY <1>0, FlightParts
  <2>5. n \in Nat /\ queue \in Seq(Segment)
    <3>1. /\ lastSeq \in Nat /\ Len(m) \in Nat /\ Len(s) \in Nat /\ Len(pending) \in Nat
          /\ queue \in Seq(Segment)
      BY <1>0, SMTT(30) DEF CoreTypeOK, Frame, AtMostOne, Caller
    <3> DEFINE lm == Len(m)
               ls == Len(s)
               lp == Len(pending)
    <3> HIDE DEF lm, ls, lp
    <3>2. lastSeq \in Nat /\ lm \in Nat /\ ls \in Nat /\ lp \in Nat
      BY <3>1 DEF lm, ls, lp
    <3>3. lastSeq + lm + ls + lp \in Nat
      BY <3>2
    <3>. QED BY <3>1, <3>3 DEF n, lm, ls, lp
  <2> HIDE DEF n, seg
  <2>6. Numbered(queue', n) /\ Len(queue') = Len(queue) + 1
    BY <2>1, <2>3, <2>4, <2>5, NumberedAppend DEF seg
  <2>7. n + Len(queue') = sent' /\ n' = n /\ m' = m /\ s' = s
    BY <2>2, <2>4, <2>5, <2>6 DEF n
  <2>8. (LET u == frame["main"].incoming
             v == frame["isr"].incoming
         IN  NoneLost <=>
               /\ lastSeq + Len(u) + Len(v) + Len(pending) + Len(queue) = sent
               /\ Numbered(u, lastSeq) /\ Numbered(v, lastSeq + Len(u))
               /\ Numbered(pending, lastSeq + Len(u) + Len(v))
               /\ Numbered(queue, lastSeq + Len(u) + Len(v) + Len(pending)))'
    BY <1>0, FlightParts, PTL
  <2>. QED BY <2>2, <2>4, <2>6, <2>7, <2>8 DEF n
<1>6. CASE IsrFillStep \/ MainFillStep
  BY <1>6, Fillers, FillFlight DEF FillingStep
<1>. QED
  BY <1>0, <1>2, <1>3, <1>4, <1>5, <1>6
     DEF Next, Main, Isr, AbortStep, Passive, CallStep, FlowStep

(* As long as nothing is stopped and the stream reports no error, segments  *)
(* leave in the order of submission and none disappears: the one applied    *)
(* last, the one taken, the one held back by a reversal and the queue are   *)
(* consecutive.  The hypotheses are those under which nothing is aborted,   *)
(* and the proof shows that nothing else aborts: with the interrupt in time *)
(* no half is ever missed.                                                  *)
THEOREM NoSegmentIsLost ==
    ASSUME EStopCuts = {}, RefillInTime, Undisturbed
    PROVE  Spec => []NoneLost
<1>1. Init => CalmInv /\ NoneLost
  <2> SUFFICES ASSUME Init
               PROVE  CalmInv /\ NoneLost
    OBVIOUS
  <2>1. CalmInv
    BY DEF Init, PortInit, CalmInv
  <2>2. InFlight = <<>> /\ lastSeq = 0 /\ sent = 0
    BY DEF Init, CoreInit, InFlight, Caller
  <2>. QED BY <2>1, <2>2 DEF NoneLost
<1>2. TypeOK /\ ControlInv /\ ReadyInv /\ PhysInv /\ CalmInv /\ [Next]_vars => CalmInv'
  BY StepCalm
<1>3. /\ TypeOK /\ TypeOK' /\ ControlInv /\ ReadyInv /\ AppliedInFill /\ PhysInv /\ CalmInv
      /\ NoneLost /\ [Next]_vars
      => NoneLost'
  BY StepFlight
<1>4. "main" \notin EStopCuts
  OBVIOUS
<1>. QED
  BY <1>1, <1>2, <1>3, <1>4, TypeCorrect, ControlCorrect, ReadyCorrect, NewerCorrect, PhysCorrect,
     PTL DEF Spec


---------------------------------------------------------------------------
(* What the drives see.                                                     *)

Pulsed(h, j, a) == ring[At(h, j)][a] # 0

(* No two words planned for an axis in a row have a step, within a half or  *)
(* where the halves meet; ...                                               *)
Apart(a) ==
    \A h \in Half, j \in 0 .. HalfTicks - 2 :
        j + 1 < FilledIn(h) => ~(Pulsed(h, j, a) /\ Pulsed(h, j + 1, a))
Joined(a) ==
    FilledIn(1 - First) > 0 => ~(Pulsed(First, HalfTicks - 1, a) /\ Pulsed(1 - First, 0, a))

(* ... for that, the accumulator has just wrapped when the word planned     *)
(* last has a step, and one rate, at most half its range, cannot wrap it    *)
(* again.                                                                   *)
LastPulsed(a) ==
    \/ FilledIn(1 - First) > 0 /\ Pulsed(1 - First, FilledIn(1 - First) - 1, a)
    \/ FilledIn(1 - First) = 0 /\ FilledIn(First) > 0 /\ Pulsed(First, FilledIn(First) - 1, a)
Rested(a) == LastPulsed(a) => ax[a].phase < RateMax

GapInv == On => \A a \in Axes : Apart(a) /\ Joined(a) /\ Rested(a)

(* The words a step of a fill writes in half h, from d to e, and the phases of the     *)
(* axis before and after: what was written stays, no two new words in a row pulse, the *)
(* first one pulses only from a phase that was due, and the last one leaves none due.  *)
WritesApart(a, h, d, e) ==
    /\ e \in d .. HalfTicks
    /\ \A j \in 0 .. HalfTicks - 1 : j < d => Pulsed(h, j, a)' = Pulsed(h, j, a)
    /\ \A j \in 0 .. HalfTicks - 1, f \in Half : f # h => Pulsed(f, j, a)' = Pulsed(f, j, a)
    /\ \A j \in d .. e - 2 : ~(Pulsed(h, j, a)' /\ Pulsed(h, j + 1, a)')
    /\ d < e /\ Pulsed(h, d, a)' => ax[a].phase >= RateMax
    /\ d < e /\ Pulsed(h, e - 1, a)' => ax'[a].phase < RateMax
    /\ d = e => ax'[a].phase = ax[a].phase

LEMMA FillGaps ==
    ASSUME TypeOK, TypeOK', NEW c \in Caller, FillStep(c), NEW a \in Axes,
           NEW h \in Half, h = frame[c].half,
           NEW d \in 0 .. HalfTicks, d = frame[c].done, NEW e \in Int, e = frame'[c].done
    PROVE  WritesApart(a, h, d, e)
<1>0. /\ CoreTypeOK /\ HalfTicks \in Nat \ {0} /\ RateMax \in Nat
      /\ ax[a].phase \in 0 .. PhaseMod - 1 /\ ax[a].inc \in 0 .. RateMax
  <2>1. CoreTypeOK /\ HalfTicks \in Nat \ {0} /\ RateMax \in Nat
    BY TypeParts, HalfTicksAssumption, RateAssumption
  <2>2. ax[a] \in AxisState
    BY <2>1 DEF CoreTypeOK
  <2>. QED BY <2>1, <2>2 DEF AxisState
<1>1. Rewrites(c) /\ e \in d .. HalfTicks
  BY <1>0, FillWords
<1>2. ASSUME NEW j \in 0 .. HalfTicks - 1, NEW g \in Half, g # h \/ j < d
      PROVE  Pulsed(g, j, a)' = Pulsed(g, j, a)
  BY <1>0, <1>1, <1>2 DEF Rewrites, Pulsed, At
<1> SUFFICES /\ \A j \in d .. e - 2 : ~(Pulsed(h, j, a)' /\ Pulsed(h, j + 1, a)')
             /\ d < e /\ Pulsed(h, d, a)' => ax[a].phase >= RateMax
             /\ d < e /\ Pulsed(h, e - 1, a)' => ax'[a].phase < RateMax
             /\ d = e => ax'[a].phase = ax[a].phase
  BY <1>1, <1>2 DEF WritesApart
<1>3. CASE e = d /\ ax'[a].phase = ax[a].phase
  BY <1>0, <1>3
<1>4. CASE SilentFill(c)
  <2>1. e = HalfTicks /\ ax'[a].phase = ax[a].phase
        /\ \A j \in d .. HalfTicks - 1 : ~Pulsed(h, j, a)'
    BY <1>4 DEF SilentFill, Pulsed, At
  <2>2. \A j \in d .. e - 2 : j \in d .. HalfTicks - 1
    BY <1>0, <2>1
  <2>3. d < e => d \in d .. HalfTicks - 1 /\ e - 1 \in d .. HalfTicks - 1
    BY <1>0, <2>1
  <2>. QED BY <2>1, <2>2, <2>3
<1>5. ASSUME NEW k \in 1 .. HalfTicks, EmitRun(c, k), SteppedFill(c, k)
      PROVE  /\ \A j \in d .. e - 2 : ~(Pulsed(h, j, a)' /\ Pulsed(h, j + 1, a)')
             /\ d < e /\ Pulsed(h, d, a)' => ax[a].phase >= RateMax
             /\ d < e /\ Pulsed(h, e - 1, a)' => ax'[a].phase < RateMax
             /\ d = e => ax'[a].phase = ax[a].phase
  <2> DEFINE p == ax[a].phase
             i == Rate(a, Now(c))
             f == Forward(a)
  <2>1. i \in 0 .. RateMax /\ p \in 0 .. PhaseMod - 1 /\ f # 0
    BY <1>0 DEF Rate, Forward
  <2>2. e = d + k /\ ax'[a].phase = (p + i * k) % PhaseMod
    BY <1>0, <1>5, EmitFields, ZenonT(60) DEF SteppedFill
  <2>3. \A j \in d .. e - 1 : ring'[At(h, j)][a] = IF StepsAt(p, i, j - d) THEN f ELSE 0
    BY <1>5 DEF SteppedFill
  <2> HIDE DEF p, i, f
  <2>4. \A j \in d .. e - 1 : Pulsed(h, j, a)' <=> StepsAt(p, i, j - d)
    BY <2>1, <2>3 DEF Pulsed, At
  <2>5. /\ \A j \in Nat : StepsAt(p, i, j) => ~StepsAt(p, i, j + 1)
        /\ StepsAt(p, i, 0) => p >= RateMax
        /\ \A j \in Nat : StepsAt(p, i, j) => (p + i * (j + 1)) % PhaseMod < RateMax
    BY <2>1, RunSteps
  <2>6. ASSUME NEW j \in d .. e - 2, Pulsed(h, j, a)', Pulsed(h, j + 1, a)'
        PROVE  FALSE
    <3>1. /\ j \in d .. e - 1 /\ j + 1 \in d .. e - 1 /\ j - d \in Nat
          /\ (j + 1) - d = (j - d) + 1
      BY <1>0, <2>2
    <3>. QED BY <2>4, <2>5, <2>6, <3>1
  <2>7. d \in d .. e - 1 /\ d - d = 0
    BY <1>0, <2>2
  <2>8. Pulsed(h, d, a)' => p >= RateMax
    BY <2>4, <2>5, <2>7
  <2>9. e - 1 \in d .. e - 1 /\ (e - 1) - d = k - 1 /\ k - 1 \in Nat /\ (k - 1) + 1 = k
    BY <1>0, <2>2
  <2>10. Pulsed(h, e - 1, a)' => ax'[a].phase < RateMax
    BY <2>2, <2>4, <2>5, <2>9
  <2>11. d # e
    BY <1>0, <2>2
  <2>. QED BY <2>6, <2>8, <2>10, <2>11 DEF p
<1>. QED BY <1>0, <1>3, <1>4, <1>5, FillWords

LEMMA FillGap ==
    ASSUME TypeOK, TypeOK', ControlInv, FillPlace, PhysInv, GapInv, NEW c \in Caller,
           FillingStep(c), On'
    PROVE  GapInv'
<1>0. CoreTypeOK /\ HalfTicks \in Nat \ {0} /\ Filler(c) /\ FillStep(c)
  BY TypeParts, HalfTicksAssumption DEF FillingStep
<1>1. /\ On /\ First' = First
      /\ FilledIn(frame[c].half)' = frame'[c].done
      /\ FilledIn(1 - frame[c].half)' = FilledIn(1 - frame[c].half)
  BY FillerMoves DEF FillingStep
<1>2. /\ frame[c].half \in Half /\ frame[c].done \in 0 .. HalfTicks
      /\ FilledIn(frame[c].half) = frame[c].done
      /\ \/ frame[c].half = First /\ FilledIn(1 - First) = 0
         \/ frame[c].half = 1 - First /\ FilledIn(First) = HalfTicks
      /\ First \in Half
  BY <1>0, <1>1, FillerPlace
<1>3. frame'[c].half = frame[c].half /\ frame'[c].done \in 0 .. HalfTicks
  <2>1. frame'[c].done \in frame[c].done .. HalfTicks
    BY <1>0, FillWords
  <2>. QED BY <1>0, <1>2, <2>1, FillFrames
<1> SUFFICES ASSUME NEW a \in Axes,
                    NEW h \in Half, h = frame[c].half, NEW g \in Half, g = First,
                    NEW d \in 0 .. HalfTicks, d = frame[c].done,
                    NEW e \in 0 .. HalfTicks, e = frame'[c].done
             PROVE  Apart(a)' /\ Joined(a)' /\ Rested(a)'
  BY <1>2, <1>3 DEF GapInv
<1>4. /\ e \in d .. HalfTicks
      /\ \A j \in 0 .. HalfTicks - 1 : j < d => Pulsed(h, j, a)' = Pulsed(h, j, a)
      /\ \A j \in 0 .. HalfTicks - 1, f \in Half : f # h => Pulsed(f, j, a)' = Pulsed(f, j, a)
      /\ \A j \in d .. e - 2 : ~(Pulsed(h, j, a)' /\ Pulsed(h, j + 1, a)')
      /\ d < e /\ Pulsed(h, d, a)' => ax[a].phase >= RateMax
      /\ d < e /\ Pulsed(h, e - 1, a)' => ax'[a].phase < RateMax
      /\ d = e => ax'[a].phase = ax[a].phase
  <2>1. e \in Int
    BY <1>0
  <2>2. WritesApart(a, h, d, e)
    BY <1>0, <2>1, FillGaps
  <2>. QED BY <2>2 DEF WritesApart
<1>5. Apart(a) /\ Joined(a) /\ Rested(a)
  BY <1>1 DEF GapInv
<1>6. /\ FilledIn(h) = d /\ FilledIn(h)' = e
      /\ FilledIn(1 - h)' = FilledIn(1 - h) /\ First' = g /\ First = g
      /\ 1 - h \in Half /\ 1 - h # h /\ 1 - g # g /\ \A f \in Half : f # h => f = 1 - h
      /\ \/ h = g /\ FilledIn(1 - h) = 0
         \/ h = 1 - g /\ g = 1 - h /\ FilledIn(1 - h) = HalfTicks
  <2>1. FilledIn(h) = d /\ FilledIn(h)' = e /\ FilledIn(1 - h)' = FilledIn(1 - h)
    BY <1>1, <1>2, <1>3
  <2>. QED BY <1>1, <1>2, <2>1 DEF Half
<1>7. ax[a].phase \in Nat /\ ax'[a].phase \in Nat /\ RateMax \in Nat
  <2>1. ax[a] \in AxisState /\ ax'[a] \in AxisState
    BY TypeParts DEF TypeOK, CoreTypeOK
  <2>. QED BY <2>1, RateAssumption DEF AxisState, PhaseMod
<1>8. LastPulsed(a) <=> IF d > 0 THEN Pulsed(h, d - 1, a)
                        ELSE h = 1 - g /\ Pulsed(g, HalfTicks - 1, a)
  <2>1. CASE h = g /\ FilledIn(1 - h) = 0
    BY <1>0, <1>6, <2>1 DEF LastPulsed
  <2>2. CASE h = 1 - g /\ g = 1 - h /\ FilledIn(1 - h) = HalfTicks
    <3>1. FilledIn(1 - g) = d /\ FilledIn(g) = HalfTicks
      BY <1>6, <2>2
    <3>. QED BY <1>0, <1>6, <2>2, <3>1 DEF LastPulsed
  <2>. QED BY <1>6, <2>1, <2>2
<1>9. LastPulsed(a)' <=> IF e > 0 THEN Pulsed(h, e - 1, a)'
                         ELSE h = 1 - g /\ Pulsed(g, HalfTicks - 1, a)'
  <2>1. LastPulsed(a)' <=>
          \/ FilledIn(1 - g)' > 0 /\ ring'[At(1 - g, FilledIn(1 - g)' - 1)][a] # 0
          \/ FilledIn(1 - g)' = 0 /\ FilledIn(g)' > 0 /\ ring'[At(g, FilledIn(g)' - 1)][a] # 0
    BY <1>6 DEF LastPulsed, Pulsed, At
  <2>2. CASE h = g /\ FilledIn(1 - h) = 0
    BY <1>0, <1>6, <2>1, <2>2 DEF Pulsed, At
  <2>3. CASE h = 1 - g /\ g = 1 - h /\ FilledIn(1 - h) = HalfTicks
    <3>1. FilledIn(1 - g)' = e /\ FilledIn(g)' = HalfTicks
      BY <1>6, <2>3
    <3>. QED BY <1>0, <1>6, <2>1, <2>3, <3>1 DEF Pulsed, At
  <2>. QED BY <1>6, <2>2, <2>3
<1>10. Apart(a)'
  <2> SUFFICES ASSUME NEW f \in Half, NEW j \in 0 .. HalfTicks - 2, j + 1 < FilledIn(f)',
                      Pulsed(f, j, a)', Pulsed(f, j + 1, a)'
               PROVE  FALSE
    BY DEF Apart
  <2>1. /\ j \in 0 .. HalfTicks - 1 /\ j + 1 \in 0 .. HalfTicks - 1
        /\ j + 1 < FilledIn(f) => ~(Pulsed(f, j, a) /\ Pulsed(f, j + 1, a))
    BY <1>0, <1>5 DEF Apart
  <2>2. CASE f # h
    BY <1>4, <1>6, <2>1, <2>2
  <2>3. CASE f = h /\ j + 1 < d
    BY <1>0, <1>4, <1>6, <2>1, <2>3
  <2>4. CASE f = h /\ j + 1 = d
    <3>1. d < e /\ d > 0 /\ j < d /\ d - 1 = j
      BY <1>6, <2>4
    <3>2. Pulsed(h, d - 1, a)
      BY <1>4, <2>1, <2>4, <3>1
    <3>3. ax[a].phase < RateMax
      BY <1>5, <1>8, <3>1, <3>2 DEF Rested
    <3>4. ax[a].phase >= RateMax
      BY <1>4, <2>4, <3>1
    <3>. QED BY <1>7, <3>3, <3>4
  <2>5. CASE f = h /\ j >= d
    <3>1. j \in d .. e - 2
      BY <1>0, <1>6, <2>5
    <3>. QED BY <1>4, <2>5, <3>1
  <2>. QED BY <1>0, <2>2, <2>3, <2>4, <2>5
<1>11. Joined(a)'
  <2> SUFFICES ASSUME FilledIn(1 - g)' > 0, Pulsed(g, HalfTicks - 1, a)', Pulsed(1 - g, 0, a)'
               PROVE  FALSE
    BY <1>6 DEF Joined, Pulsed, At
  <2>1. h = 1 - g /\ g = 1 - h /\ FilledIn(1 - h) = HalfTicks /\ g # h /\ e > 0
    BY <1>0, <1>6
  <2>2. HalfTicks - 1 \in 0 .. HalfTicks - 1 /\ 0 \in 0 .. HalfTicks - 1
    BY <1>0
  <2>3. Pulsed(g, HalfTicks - 1, a)
    BY <1>4, <2>1, <2>2
  <2>4. CASE d > 0
    <3>1. Pulsed(h, 0, a)
      BY <1>4, <2>1, <2>2, <2>4
    <3>. QED BY <1>5, <1>6, <2>1, <2>3, <2>4, <3>1 DEF Joined
  <2>5. CASE d = 0
    <3>1. ax[a].phase < RateMax
      BY <1>5, <1>8, <2>1, <2>3, <2>5 DEF Rested
    <3>2. ax[a].phase >= RateMax
      BY <1>4, <2>1, <2>5
    <3>. QED BY <1>7, <3>1, <3>2
  <2>. QED BY <2>4, <2>5
<1>12. Rested(a)'
  <2> SUFFICES ASSUME LastPulsed(a)'
               PROVE  ax'[a].phase < RateMax
    BY DEF Rested
  <2>1. CASE d < e
    BY <1>4, <1>9, <2>1
  <2>2. CASE d = e /\ d > 0
    <3>1. d - 1 \in 0 .. HalfTicks - 1 /\ d - 1 < d
      BY <1>0, <2>2
    <3>. QED BY <1>4, <1>5, <1>8, <1>9, <2>2, <3>1 DEF Rested
  <2>3. CASE d = e /\ d = 0
    <3>1. HalfTicks - 1 \in 0 .. HalfTicks - 1
      BY <1>0
    <3>. QED BY <1>4, <1>5, <1>6, <1>8, <1>9, <2>3, <3>1 DEF Rested
  <2>. QED BY <1>4, <2>1, <2>2, <2>3
<1>. QED BY <1>10, <1>11, <1>12


LEMMA StepGap ==
    ASSUME RefillInTime, EStopCuts = {}, TypeOK, TypeOK', ControlInv, ReadyInv, FillPlace, PhysInv,
           PhysInv', GapInv, [Next]_vars
    PROVE  GapInv'
<1> SUFFICES ASSUME On'
             PROVE  GapInv'
  BY DEF GapInv
<1>0. CoreTypeOK /\ HalfTicks \in Nat \ {0}
  BY TypeParts, HalfTicksAssumption
<1>1. CASE Still
  <2>1. /\ On /\ UNCHANGED <<ring, ax, First>>
        /\ \A h \in Half : FilledIn(h)' = FilledIn(h)
    BY <1>1, StillPlace
  <2>2. First \in Half /\ 1 - First \in Half
    BY DEF First, Half
  <2> SUFFICES ASSUME NEW a \in Axes, NEW g \in Half, g = First, 1 - g \in Half
               PROVE  Apart(a)' /\ Joined(a)' /\ Rested(a)'
    BY <2>2 DEF GapInv
  <2>3. Apart(a) /\ Joined(a) /\ Rested(a)
    BY <2>1 DEF GapInv
  <2>4. FilledIn(g)' = FilledIn(g) /\ FilledIn(1 - g)' = FilledIn(1 - g) /\ First' = g
    BY <2>1
  <2>5. Apart(a)'
    BY <2>1, <2>3 DEF Apart, Pulsed, At
  <2>6. Joined(a)'
    BY <2>1, <2>3, <2>4 DEF Joined, Pulsed, At
  <2>7. LastPulsed(a)' <=> LastPulsed(a)
    BY <2>1, <2>4 DEF LastPulsed, Pulsed, At
  <2>8. Rested(a)'
    BY <2>1, <2>3, <2>7 DEF Rested
  <2>. QED BY <2>5, <2>6, <2>8
<1>2. CASE StartFill0
  <2>1. \A h \in Half : FilledIn(h)' = 0
    BY <1>2, StartPlace
  <2>2. First' \in Half /\ (1 - First)' \in Half
    BY DEF First, Half
  <2>. QED BY <1>0, <2>1, <2>2 DEF GapInv, Apart, Joined, Rested, LastPulsed
<1>3. CASE StartDir
  <2>1. /\ On /\ UNCHANGED <<ring, First>> /\ First = 0 /\ ax' = AfterTake(0)
        /\ \A h \in Half : FilledIn(h)' = HalfTicks /\ FilledIn(h) = HalfTicks
    BY <1>3, DirPlace
  <2> SUFFICES ASSUME NEW a \in Axes
               PROVE  Apart(a)' /\ Joined(a)' /\ Rested(a)'
    BY DEF GapInv
  <2>2. Apart(a) /\ Joined(a) /\ Rested(a)
    BY <2>1 DEF GapInv
  <2>3. ax'[a].phase = ax[a].phase
    BY <1>0, <2>1, AfterTakeFields
  <2>4. /\ FilledIn(0)' = FilledIn(0) /\ FilledIn(1)' = FilledIn(1)
        /\ First = 0 /\ First' = 0 /\ 1 - 0 = 1
    BY <2>1 DEF Half
  <2>5. Apart(a)' /\ Joined(a)'
    BY <2>1, <2>2, <2>4 DEF Apart, Joined, Pulsed, At
  <2>6. LastPulsed(a)' <=> LastPulsed(a)
    BY <2>1, <2>4 DEF LastPulsed, Pulsed, At
  <2>. QED BY <2>2, <2>3, <2>5, <2>6 DEF Rested
<1>4. CASE IsrPlay
  <2>1. /\ running /\ UNCHANGED ring /\ First' = 1 - First /\ First \in Half /\ First' \in Half
        /\ ax' = AfterTake(NextHalf(playHalf))
        /\ \A h \in Half : FilledIn(h) = HalfTicks
        /\ FilledIn(First)' = HalfTicks /\ FilledIn(1 - First)' = 0
    BY <1>4, PlayPlace
  <2> SUFFICES ASSUME NEW a \in Axes, NEW g \in Half, g = First
               PROVE  Apart(a)' /\ Joined(a)' /\ Rested(a)'
    BY <2>1 DEF GapInv
  <2>2. Apart(a) /\ Joined(a) /\ Rested(a)
    BY <2>1 DEF GapInv, On
  <2>3. ax'[a].phase = ax[a].phase
    BY <1>0, <2>1, AfterTakeFields
  <2>4. /\ First' = 1 - g /\ 1 - (1 - g) = g /\ 1 - g \in Half /\ (1 - First)' = g
        /\ \A h \in Half : h = g \/ h = 1 - g
    BY <2>1 DEF Half
  <2>5. FilledIn(1 - g)' = HalfTicks /\ FilledIn(g)' = 0 /\ FilledIn(1 - g) = HalfTicks
    BY <2>1, <2>4
  <2>6. Apart(a)'
    <3> SUFFICES ASSUME NEW h \in Half, NEW j \in 0 .. HalfTicks - 2, j + 1 < FilledIn(h)'
                 PROVE  ~(Pulsed(h, j, a) /\ Pulsed(h, j + 1, a))'
      BY DEF Apart
    <3>1. ~(Pulsed(h, j, a) /\ Pulsed(h, j + 1, a))
      BY <1>0, <2>1, <2>2 DEF Apart
    <3>. QED BY <2>1, <3>1 DEF Pulsed, At
  <2>7. Joined(a)'
    BY <1>0, <2>4, <2>5 DEF Joined
  <2>8. LastPulsed(a)' => Pulsed(1 - g, HalfTicks - 1, a)'
    BY <1>0, <2>4, <2>5 DEF LastPulsed, Pulsed, At
  <2>9. Pulsed(1 - g, HalfTicks - 1, a)' => LastPulsed(a)
    BY <1>0, <2>1, <2>5 DEF LastPulsed, Pulsed, At
  <2>. QED BY <2>2, <2>3, <2>6, <2>7, <2>8, <2>9 DEF Rested
<1>5. ASSUME NEW c \in Caller, FillingStep(c)
      PROVE  GapInv'
  BY <1>5, FillGap
<1>. QED BY <1>1, <1>2, <1>3, <1>4, <1>5, OnSteps

(* A word follows a low one: while the STEP line of an axis is high, the    *)
(* word the DMA fetches next has no step for it.                            *)
LowInv == running => \A a \in Axes : sinceStep[a] = 0 => ring[idx][a] = 0

LEMMA StepLow ==
    ASSUME RefillInTime, EStopCuts = {}, TypeOK, TypeOK', ControlInv, ReadyInv, FillPlace, PhysInv,
           PhysInv', GapInv, LowInv, [Next]_vars
    PROVE  LowInv'
<1> SUFFICES ASSUME running', On', NEW a \in Axes, sinceStep'[a] = 0
             PROVE  ring'[idx'][a] = 0
  BY DEF LowInv, On
<1>0. /\ CoreTypeOK /\ HalfTicks \in Nat \ {0} /\ Playing \in Half /\ Played \in 0 .. HalfTicks - 1
      /\ idx = At(Playing, Played) /\ idx' = At(Playing', Played') /\ sinceStep[a] \in Nat
  <2>1. PortTypeOK'
    BY TypeParts DEF TypeOK
  <2>2. (idx = Playing * HalfTicks + Played)'
    BY <2>1, IdxParts, PTL
  <2>. QED BY TypeParts, IdxParts, HalfTicksAssumption, <2>2 DEF At, PortTypeOK, FarPast
<1>1. CASE UNCHANGED <<ring, idx, running, sinceStep>>
  BY <1>1 DEF LowInv
<1>2. CASE DmaTick
  <2>1. /\ running /\ UNCHANGED ring
        /\ sinceStep'[a] = IF ring[idx][a] # 0 THEN 0 ELSE Later(sinceStep[a])
    BY <1>2 DEF DmaTick, PlayWord, coreVars
  <2>2. ring[idx][a] # 0
    BY <1>0, <2>1 DEF Later, FarPast
  <2>3. Pulsed(Playing, Played, a)
    BY <1>0, <2>2 DEF Pulsed
  <2>4. GapInv /\ On
    BY <2>1 DEF On
  <2>5. Apart(a) /\ Joined(a)
    BY <2>4 DEF GapInv
  <2>6. FilledIn(Playing) = HalfTicks /\ (~Boundary => First = Playing)
        /\ (Boundary => First = 1 - Playing)
    BY <1>0, <2>1, RunningPlace
  <2>7. CASE Played' = Played + 1 /\ Playing' = Playing /\ Played < HalfTicks - 1
    <3>1. Played \in 0 .. HalfTicks - 2 /\ Played + 1 < FilledIn(Playing)
      BY <1>0, <2>6, <2>7
    <3>2. ~Pulsed(Playing, Played + 1, a)
      BY <1>0, <2>3, <2>5, <3>1 DEF Apart
    <3>. QED BY <1>0, <2>1, <2>7, <3>2 DEF Pulsed
  <2>8. CASE Played = HalfTicks - 1 /\ Played' = 0 /\ Playing' = 1 - Playing /\ IsrIdle
    <3>1. ~Boundary /\ First = Playing /\ ~(ipc \in {"refill", "fill"})
      BY <2>6, <2>8 DEF IsrIdle, Boundary
    <3>2. FilledIn(1 - First) = HalfTicks
      BY <2>1, <3>1, RunningPlace DEF FilledIn
    <3>3. ~Pulsed(1 - First, 0, a)
      BY <1>0, <2>3, <2>5, <2>8, <3>1, <3>2 DEF Joined
    <3>. QED BY <1>0, <2>1, <2>8, <3>1, <3>3 DEF Pulsed
  <2>. QED BY <1>2, <2>7, <2>8, TickPlace
<1>3. CASE StartPort
  BY <1>0, <1>3 DEF StartPort, PortStart, FarPast
<1>4. ASSUME NEW c \in Caller, FillingStep(c)
      PROVE  ring'[idx'][a] = 0
  <2>1. On /\ UNCHANGED <<running, idx, sinceStep>> /\ running
    BY <1>4, FillerMoves DEF FillingStep, portVars, motion, dma
  <2>2. (First = Playing /\ frame[c].half = 1 - First) \/ mpc = "fill0"
    BY <1>0, <1>4, <2>1, FillerPlace DEF FillingStep
  <2>3. frame[c].half # Playing
    BY <1>0, <2>1, <2>2, RunningPlace DEF Half
  <2>4. ring'[At(Playing, Played)] = ring[At(Playing, Played)]
    BY <1>0, <1>4, <2>3, FillWords DEF Rewrites, FillingStep
  <2>. QED BY <1>0, <2>1, <2>4 DEF LowInv
<1>5. CASE Still /\ ~DmaTick /\ ~StartPort
  <2>1. ring' = ring
    BY <1>5, StillPlace
  <2>2. UNCHANGED <<idx, running, sinceStep>>
    <3>1. CASE CallStep
      BY <3>1, CallSteps DEF dma, motion
    <3>2. CASE FlowStep
      BY <3>2, FlowSteps DEF portVars, dma, motion
    <3>3. CASE Stop
      BY <3>3 DEF Stop, PortStop
    <3>4. CASE DmaFails \/ UNCHANGED vars \/ StartFill1 \/ SubmitPush
      BY <3>4 DEF DmaFails, DmaError, vars, portVars, dma, motion, StartFill1, SubmitPush
    <3>5. CASE IsrBoundary
      BY <3>5 DEF IsrBoundary, motion
    <3>6. CASE IsrRefill /\ ready[1 - frame["isr"].half]
      BY <3>6 DEF IsrRefill, portVars, dma, motion
    <3>. QED BY <1>5, <3>1, <3>2, <3>3, <3>4, <3>5, <3>6 DEF Still, Passive
  <2>. QED BY <1>1, <2>1, <2>2
<1>6. CASE StartFill0
  BY <1>1, <1>6 DEF StartFill0, portVars, dma, motion
<1>7. CASE StartDir \/ IsrPlay
  BY <1>1, <1>7 DEF StartDir, IsrPlay, PortWriteDir, portVars, dma, motion
<1>. QED BY <1>2, <1>3, <1>4, <1>5, <1>6, <1>7, OnSteps


(* Under its contract a drive wants the DIR line stable for GuardTicks -    *)
(* MaxDirLag ticks.  A line that has changed more recently was written no   *)
(* later than MaxDirLag words into the half now playing, and the guard      *)
(* words of that half have no step for its axis.                            *)
Setup == GuardTicks - MaxDirLag
Guarded(h, a) == \A j \in 0 .. GuardTicks - 1 : ~Pulsed(h, j, a)
Settling(a) == Guarded(First, a) /\ (running => sinceDir[a] + MaxDirLag >= Played)

AgeInv ==
    /\ mpc \in {"run", "port"} \/ (running /\ ~Boundary) =>
          \A a \in Axes : sinceDir[a] >= Setup \/ Settling(a)
    /\ running /\ Boundary => \A a \in Axes : sinceDir[a] >= Setup

(* An axis whose DIR line is about to change has no step in the guard words *)
(* of the half it changes for.                                              *)
LEMMA TurnIsGuarded ==
    ASSUME WideIndices, TypeOK, SignInv, PlannedInv, On, NEW a \in Axes, NEW h \in Half,
           FilledIn(h) = HalfTicks,
           ax[a].armed => ax[a].armedHalf # playHalf \/ h = First,
           TakenFor(LogicalOf(h)) # {}, DirWord(AfterTake(LogicalOf(h)))[a] # pin[a]
    PROVE  Guarded(h, a)
<1>0. CoreTypeOK /\ HalfTicks \in Nat \ {0} /\ GuardTicks \in Nat /\ GuardTicks < HalfTicks
  BY TypeParts, HalfTicksAssumption, GuardAssumption
<1> DEFINE l == LogicalOf(h)
<1>1. LET y == AfterTake(l)[a]
          x == ax[a]
      IN  IF x.armed /\ x.armedHalf = l
          THEN ~y.armed /\ y.dirKnown /\ y.dirLevel = x.armedLevel
          ELSE y.armed = x.armed /\ y.dirKnown = x.dirKnown /\ y.dirLevel = x.dirLevel
  BY <1>0, AfterTakeFields
<1>2. AfterTake(l)[a].dirLevel # pin[a]
  BY DEF DirWord
<1> SUFFICES ASSUME NEW j \in 0 .. GuardTicks - 1, Pulsed(h, j, a)
             PROVE  FALSE
  BY DEF Guarded
<1>3. WordOk(a, h, j)
  <2>1. j \in 0 .. FilledIn(h) - 1
    BY <1>0
  <2>. QED BY <2>1 DEF PlannedInv
<1>4. ~(j >= GuardTicks)
  BY <1>0
<1>5. CASE ax[a].armed /\ ax[a].armedHalf = l
  BY <1>3, <1>4, <1>5 DEF WordOk, Turned, Pulsed
<1>6. CASE ~(ax[a].armed /\ ax[a].armedHalf = l)
  <2>1. ~Turned(a, h)
    BY <1>6 DEF Turned
  <2>2. ax[a].dirKnown
    BY <1>3, <2>1 DEF WordOk, Pulsed
  <2>3. pin[a] = ax[a].dirLevel
    BY <2>2 DEF SignInv
  <2>. QED BY <1>1, <1>2, <1>6, <2>3
<1>. QED BY <1>5, <1>6

LEMMA TickAge ==
    ASSUME InterruptInTime, TypeOK, TypeOK', ControlInv, PhysInv, AgeInv, DmaTick
    PROVE  AgeInv'
<1>0. /\ HalfTicks \in Nat \ {0} /\ Playing \in Half /\ Played \in 0 .. HalfTicks - 1
      /\ GuardTicks \in Nat /\ GuardTicks < HalfTicks /\ MaxDirLag \in Nat
      /\ MaxDirLag <= GuardTicks /\ sinceDir \in [Axes -> 0 .. HalfTicks]
  BY TypeParts, IdxParts, HalfTicksAssumption, GuardAssumption, LagAssumption
     DEF PortTypeOK, FarPast, InterruptInTime
<1>1. /\ running /\ running' /\ UNCHANGED <<ring, ipc, mpc>> /\ InTime
      /\ sinceDir' = [a \in Axes |-> Later(sinceDir[a])]
  BY DEF DmaTick, PlayWord, coreVars
<1>2. mpc \notin {"fill0", "fill1", "run", "port"} /\ First \in Half
      /\ IF Boundary THEN First = 1 - Playing ELSE First = Playing
  BY <1>1, RunningPlace
<1>3. \A a \in Axes : /\ sinceDir'[a] = IF sinceDir[a] < HalfTicks THEN sinceDir[a] + 1
                                        ELSE sinceDir[a]
                      /\ sinceDir[a] \in 0 .. HalfTicks
  BY <1>0, <1>1 DEF Later, FarPast
<1>4. \A a \in Axes : sinceDir[a] >= Setup => sinceDir'[a] >= Setup
  BY <1>0, <1>3 DEF Setup
<1>5. CASE Boundary
  <2>1. \A a \in Axes : sinceDir'[a] >= Setup
    BY <1>1, <1>4, <1>5 DEF AgeInv
  <2>. QED BY <2>1 DEF AgeInv
<1>6. CASE ~Boundary
  <2>1. \A a \in Axes : sinceDir[a] >= Setup \/ Settling(a)
    BY <1>1, <1>6 DEF AgeInv
  <2>2. ASSUME NEW a \in Axes, Settling(a)
        PROVE  sinceDir[a] + MaxDirLag >= Played /\ Guarded(Playing, a)
    BY <1>1, <1>2, <1>6, <2>2 DEF Settling
  <2>3. CASE Played' = Played + 1 /\ Playing' = Playing /\ flags' = flags
    <3>1. ~Boundary' /\ First' = First
      BY <1>1, <1>6, <2>3 DEF Boundary, First
    <3>2. ASSUME NEW a \in Axes, Settling(a)
          PROVE  Settling(a)'
      <4>1. sinceDir'[a] + MaxDirLag >= Played'
        BY <1>0, <1>3, <2>2, <2>3, <3>2
      <4>2. Guarded(First, a)' <=> Guarded(First, a)
        BY <1>1, <3>1 DEF Guarded, Pulsed, At
      <4>. QED BY <3>2, <4>1, <4>2 DEF Settling
    <3>. QED BY <1>1, <1>2, <1>4, <2>1, <3>1, <3>2 DEF AgeInv
  <2>4. CASE Played = HalfTicks - 1
    <3>1. ASSUME NEW a \in Axes
          PROVE  sinceDir'[a] >= Setup
      <4>1. CASE sinceDir[a] >= Setup
        BY <1>4, <4>1
      <4>2. CASE Settling(a)
        <5>1. sinceDir[a] + MaxDirLag >= HalfTicks - 1
          BY <2>2, <2>4, <4>2
        <5>. QED BY <1>0, <1>3, <5>1 DEF Setup
      <4>. QED BY <2>1, <4>1, <4>2
    <3>. QED BY <3>1 DEF AgeInv
  <2>. QED BY <1>1, <2>3, <2>4, TickPlace DEF InterruptInTime
<1>. QED BY <1>5, <1>6


LEMMA StepAge ==
    ASSUME InterruptInTime, EStopCuts = {}, WideIndices, TypeOK, TypeOK', ControlInv, ReadyInv, SignInv,
           FillPlace, ArmedPlace, PhysInv, PhysInv', PlannedInv, NotStarted, AgeInv, [Next]_vars
    PROVE  AgeInv'
<1> SUFFICES ASSUME On'
             PROVE  AgeInv'
  BY DEF AgeInv, On, Starting
<1>0. /\ CoreTypeOK /\ HalfTicks \in Nat \ {0} /\ Playing \in Half /\ Played \in 0 .. HalfTicks - 1
      /\ GuardTicks \in Nat /\ GuardTicks < HalfTicks /\ MaxDirLag \in Nat
      /\ MaxDirLag <= GuardTicks /\ sinceDir \in [Axes -> 0 .. HalfTicks] /\ Setup \in 0 .. HalfTicks
      /\ playHalf \in HalfIx /\ pin \in [Axes -> BOOLEAN]
  BY TypeParts, IdxParts, HalfTicksAssumption, GuardAssumption, LagAssumption
     DEF PortTypeOK, CoreTypeOK, FarPast, InterruptInTime, Setup
<1>1. ASSUME UNCHANGED <<ring, sinceDir, running, First, Boundary, Played>>,
             mpc' \in {"run", "port"} => mpc \in {"run", "port"}
      PROVE  AgeInv'
  <2>1. \A a \in Axes : Settling(a)' <=> Settling(a)
    BY <1>1 DEF Settling, Guarded, Pulsed, At
  <2>. QED BY <1>1, <2>1 DEF AgeInv
<1>2. CASE DmaTick
  BY <1>2, TickAge
<1>3. CASE StartPort
  <2>1. /\ UNCHANGED <<ring, sinceDir>> /\ mpc = "port" /\ mpc' = "idle" /\ idx' = 0
        /\ ipc' = "idle" /\ flags' = {}
    BY <1>3 DEF StartPort, PortStart, MainAt, MainRuns, IsrIdle, coreVars
  <2>2. ~running
    BY <2>1 DEF ControlInv, Alone
  <2>3. Playing' = 0 /\ Played' = 0 /\ ~Boundary' /\ First' = 0 /\ First = 0
    BY <2>1, <2>2, HalfTicksAssumption DEF Playing, Played, Boundary, First
  <2>4. ASSUME NEW a \in Axes
        PROVE  sinceDir[a] >= Setup \/ Settling(a)
    BY <2>1 DEF AgeInv
  <2>5. ASSUME NEW a \in Axes, Settling(a)
        PROVE  Settling(a)'
    <3>1. Guarded(First, a)' <=> Guarded(First, a)
      BY <2>1, <2>3 DEF Guarded, Pulsed, At
    <3>2. sinceDir'[a] + MaxDirLag >= Played'
      BY <1>0, <2>1, <2>3
    <3>. QED BY <2>5, <3>1, <3>2 DEF Settling
  <2>. QED BY <2>1, <2>3, <2>4, <2>5 DEF AgeInv
<1>4. ASSUME NEW c \in Caller, FillingStep(c)
      PROVE  AgeInv'
  <2>1. /\ On /\ UNCHANGED <<First, running, flags, ipc, mpc, Playing, Played, sinceDir>>
    BY <1>4, FillerMoves DEF FillingStep, portVars, motion
  <2>2. mpc \notin {"run", "port"}
    BY <1>4 DEF FillingStep, Filler, ControlInv, Alone
  <2>3. Boundary' = Boundary
    BY <2>1 DEF Boundary
  <2>4. ASSUME NEW a \in Axes, running, ~Boundary, Settling(a)
        PROVE  Settling(a)'
    <3>1. First = Playing /\ mpc # "fill0"
      BY <2>4, RunningPlace
    <3>2. frame[c].half = 1 - First
      BY <1>4, <2>1, <3>1, FillerPlace DEF FillingStep
    <3>3. frame[c].half # Playing
      BY <1>0, <3>1, <3>2 DEF Half
    <3>4. \A j \in 0 .. HalfTicks - 1 : ring'[At(Playing, j)] = ring[At(Playing, j)]
      BY <1>0, <1>4, <3>3, FillWords DEF Rewrites, FillingStep
    <3>5. ASSUME NEW j \in 0 .. GuardTicks - 1
          PROVE  j \in 0 .. HalfTicks - 1
      BY <1>0
    <3>6. Guarded(First, a)' <=> Guarded(First, a)
      BY <2>1, <3>1, <3>4, <3>5 DEF Guarded, Pulsed, At
    <3>. QED BY <2>1, <2>4, <3>6 DEF Settling
  <2>. QED BY <2>1, <2>2, <2>3, <2>4 DEF AgeInv
<1>5. CASE StartDir
  <2>1. /\ On /\ UNCHANGED <<ring, First>> /\ First = 0 /\ playHalf = 0 /\ ~running /\ ~running'
        /\ mpc = "fill1" /\ mpc' = "run"
        /\ IF TakenFor(0) # {} THEN PortWriteDir(DirWord(AfterTake(0))) ELSE UNCHANGED portVars
        /\ \A h \in Half : FilledIn(h) = HalfTicks
    BY <1>5, DirPlace
  <2>2. sinceDir = [a \in Axes |-> HalfTicks]
    BY <1>5, <2>1 DEF NotStarted, ControlInv, Alone, FarPast
  <2>3. LogicalOf(0) = 0 /\ 0 \in Half
    BY <2>1 DEF LogicalOf, Half
  <2> SUFFICES ASSUME NEW a \in Axes
               PROVE  sinceDir'[a] >= Setup \/ Settling(a)'
    BY <2>1 DEF AgeInv
  <2>4. CASE sinceDir'[a] = sinceDir[a]
    BY <1>0, <2>2, <2>4
  <2>5. CASE sinceDir'[a] # sinceDir[a]
    <3>1. TakenFor(0) # {} /\ DirWord(AfterTake(0))[a] # pin[a]
      BY <2>1, <2>5 DEF PortWriteDir, portVars, motion
    <3>2. Guarded(0, a)
      BY <2>1, <2>3, <3>1, TurnIsGuarded
    <3>. QED BY <2>1, <3>2 DEF Settling, Guarded, Pulsed, At
  <2>. QED BY <2>4, <2>5
<1>6. CASE IsrPlay
  <2>1. /\ running /\ running' /\ Boundary /\ ~Boundary' /\ UNCHANGED <<ring, Playing, Played>>
        /\ First = 1 - Playing /\ First' = Playing
        /\ IF TakenFor(NextHalf(playHalf)) # {}
           THEN PortWriteDir(DirWord(AfterTake(NextHalf(playHalf)))) ELSE UNCHANGED portVars
        /\ \A h \in Half : FilledIn(h) = HalfTicks
    BY <1>6, PlayPlace
  <2>2. mpc' = mpc /\ mpc \notin {"run", "port"}
    BY <1>6, <2>1, RunningPlace DEF IsrPlay
  <2>3. LogicalOf(Playing) = NextHalf(playHalf) /\ Playing # First
    BY <1>0, <2>1 DEF LogicalOf, Half
  <2> SUFFICES ASSUME NEW a \in Axes
               PROVE  sinceDir'[a] >= Setup \/ Settling(a)'
    BY <2>1, <2>2 DEF AgeInv
  <2>4. CASE sinceDir'[a] = sinceDir[a]
    BY <1>0, <2>1, <2>4 DEF AgeInv
  <2>5. CASE sinceDir'[a] # sinceDir[a]
    <3>1. /\ TakenFor(NextHalf(playHalf)) # {} /\ DirWord(AfterTake(NextHalf(playHalf)))[a] # pin[a]
          /\ sinceDir'[a] = 0
      BY <2>1, <2>5 DEF PortWriteDir, portVars, motion
    <3>2. ax[a].armed => ax[a].armedHalf # playHalf
      <4>1. ax[a].armed => ax[a].armedHalf \in {NextHalf(playHalf), Next2(playHalf)}
        BY <2>1 DEF ArmedPlace, Turning
      <4>. QED BY <1>0, <4>1, NextHalves
    <3>3. Guarded(Playing, a)
      BY <1>0, <2>1, <2>3, <3>1, <3>2, TurnIsGuarded DEF On
    <3>4. Played <= MaxDirLag
      BY <2>1 DEF PhysInv
    <3>5. Guarded(First, a)' <=> Guarded(Playing, a)
      BY <2>1 DEF Guarded, Pulsed, At
    <3>. QED BY <1>0, <2>1, <3>1, <3>3, <3>4, <3>5 DEF Settling
  <2>. QED BY <2>4, <2>5
<1>7. CASE StartFill0
  <2>1. mpc' = "fill0"
    BY <1>7 DEF StartFill0
  <2>2. ~running'
    BY <1>7 DEF StartFill0, NotStarted, portVars, dma, MainAt
  <2>. QED BY <2>1, <2>2 DEF AgeInv
<1>8. CASE Still /\ ~DmaTick /\ ~StartPort
  <2>1. UNCHANGED <<ring, First>>
    BY <1>8, StillPlace DEF InterruptInTime
  <2>2. UNCHANGED <<sinceDir, running, idx>> /\ (mpc' \in {"run", "port"} => mpc \in {"run", "port"})
    <3>1. CASE CallStep
      BY <3>1, CallSteps DEF dma, motion
    <3>2. CASE FlowStep
      BY <3>2, FlowSteps DEF portVars, dma, motion
    <3>3. CASE Stop
      BY <3>3 DEF Stop, PortStop, On, Starting
    <3>4. CASE DmaFails \/ UNCHANGED vars \/ StartFill1 \/ SubmitPush
      BY <3>4 DEF DmaFails, DmaError, vars, portVars, dma, motion, StartFill1, SubmitPush
    <3>5. CASE IsrBoundary
      BY <3>5 DEF IsrBoundary, motion
    <3>6. CASE IsrRefill /\ ready[1 - frame["isr"].half]
      BY <3>6 DEF IsrRefill, portVars, dma, motion
    <3>. QED BY <1>8, <3>1, <3>2, <3>3, <3>4, <3>5, <3>6 DEF Still, Passive
  <2>3. running /\ running' => (Boundary' <=> Boundary)
    <3> SUFFICES ASSUME running, running'
                 PROVE  Boundary' <=> Boundary
      OBVIOUS
    <3>1. Playing' = Playing
      BY <2>2 DEF Playing
    <3>2. (First = 1 <=> (Boundary <=> Playing = 0)) /\ (First' = 1 <=> (Boundary' <=> Playing' = 0))
      BY DEF First
    <3>. QED BY <2>1, <3>1, <3>2
  <2>4. \A a \in Axes : Settling(a)' <=> Settling(a)
    BY <2>1, <2>2 DEF Settling, Guarded, Pulsed, At, Played
  <2>. QED BY <2>2, <2>3, <2>4 DEF AgeInv
<1>. QED BY <1>2, <1>3, <1>4, <1>5, <1>6, <1>7, <1>8, OnSteps

LEMMA DriveCorrect ==
    ASSUME InterruptInTime, EStopCuts = {}, WideIndices, NeverRestarted
    PROVE  Spec => [](GapInv /\ LowInv /\ AgeInv)
<1>1. Init => GapInv /\ LowInv /\ AgeInv
  BY DEF Init, PortInit, GapInv, LowInv, AgeInv, On, Starting
<1>2. /\ TypeOK /\ TypeOK' /\ ControlInv /\ ReadyInv /\ FillPlace /\ PhysInv /\ PhysInv'
      /\ GapInv /\ LowInv /\ [Next]_vars
      => GapInv' /\ LowInv'
  BY StepGap, StepLow DEF InterruptInTime
<1>3. /\ TypeOK /\ TypeOK' /\ ControlInv /\ ReadyInv /\ SignInv /\ FillPlace /\ ArmedPlace
      /\ PhysInv /\ PhysInv' /\ PlannedInv /\ PlanInv /\ AgeInv /\ [Next]_vars
      => AgeInv'
  BY StepAge DEF PlanInv
<1>4. "main" \notin EStopCuts /\ RefillInTime
  BY DEF InterruptInTime
<1>. QED
  BY <1>1, <1>2, <1>3, <1>4, TypeCorrect, ControlCorrect, ReadyCorrect, SignsCorrect,
     FillPlaceCorrect, ArmedPlaceCorrect, PhysCorrect, PlannedCorrect, PlanCorrect, PTL DEF Spec

LEMMA DriveSteps ==
    ASSUME InterruptInTime, WideIndices, TypeOK, TypeOK', ControlInv, SignInv, ArmedPlace, PhysInv,
           PlannedInv, LowInv, AgeInv, [Next]_vars
    PROVE  [Drives!Next]_Drives!vars
<1> USE DEF Drives!Next, Drives!vars
<1>0. /\ GuardTicks \in Nat /\ MaxDirLag \in Nat /\ MaxDirLag <= GuardTicks
      /\ HalfTicks \in Nat \ {0} /\ pin \in [Axes -> BOOLEAN] /\ pin' \in [Axes -> BOOLEAN]
      /\ sinceStep \in [Axes -> 0 .. HalfTicks] /\ sinceDir \in [Axes -> 0 .. HalfTicks]
      /\ motor \in [Axes -> Int]
  BY TypeParts, GuardAssumption, LagAssumption, HalfTicksAssumption
     DEF InterruptInTime, TypeOK, PortTypeOK, FarPast
<1>1. CASE DmaTick
  <2> DEFINE S == {a \in Axes : ring[idx][a] # 0}
  <2>1. /\ running /\ InTime /\ pin' = pin
        /\ motor' = [a \in Axes |-> motor[a] +
                       (IF ring[idx][a] # 0 THEN MotionOf(a, pin[a]) ELSE 0)]
        /\ sinceStep' = [a \in Axes |-> IF ring[idx][a] # 0 THEN 0 ELSE Later(sinceStep[a])]
        /\ sinceDir' = [a \in Axes |-> Later(sinceDir[a])]
    BY <1>1 DEF DmaTick, PlayWord
  <2>2. ASSUME NEW a \in S
        PROVE  sinceDir[a] >= Setup /\ sinceStep[a] >= 1
    <3>1. idx = At(Playing, Played) /\ Playing \in Half /\ Played \in 0 .. HalfTicks - 1
      BY <2>1, NextWord
    <3>2. sinceStep[a] # 0
      BY <2>1 DEF LowInv
    <3>3. CASE Boundary
      BY <1>0, <2>1, <3>2, <3>3 DEF AgeInv
    <3>4. CASE ~Boundary /\ Settling(a)
      <4>1. First = Playing
        BY <2>1, <3>4, RunningPlace
      <4>2. Pulsed(First, Played, a)
        BY <3>1, <4>1 DEF Pulsed
      <4>3. Played >= GuardTicks
        BY <1>0, <3>1, <3>4, <4>2 DEF Settling, Guarded
      <4>. QED BY <1>0, <2>1, <3>1, <3>2, <3>4, <4>3 DEF Settling, Setup
    <3>5. CASE ~Boundary /\ sinceDir[a] >= Setup
      BY <1>0, <3>2, <3>5
    <3>. QED BY <2>1, <3>3, <3>4, <3>5 DEF AgeInv
  <2>3. motor' = [a \in Axes |->
                    IF a \notin S THEN motor[a]
                    ELSE IF pin[a] = [b \in Axes |-> ~DirInvert[b]][a] THEN motor[a] + 1
                    ELSE motor[a] - 1]
    <3>1. ASSUME NEW a \in Axes
          PROVE  MotionOf(a, pin[a]) = IF pin[a] = ~DirInvert[a] THEN 1 ELSE -1
      BY <1>0, InvertAssumption DEF MotionOf
    <3>. QED BY <1>0, <2>1, <3>1
  <2>4. sinceDir' = [a \in Axes |-> Drives!Aged(sinceDir[a])]
        /\ sinceStep' = [a \in Axes |-> IF a \in S THEN 0 ELSE Drives!Aged(sinceStep[a])]
    BY <2>1 DEF Drives!Aged, Later
  <2>5. Drives!Pulse(S) /\ S \in SUBSET Axes
    BY <2>1, <2>2, <2>3, <2>4 DEF Drives!Pulse, Setup
  <2>. QED BY <2>5
<1>2. ASSUME NEW levels, PortWriteDir(levels)
      PROVE  \E lines \in [Axes -> BOOLEAN] : Drives!Turn(lines)
  <2>1. levels \in [Axes -> BOOLEAN]
    BY <1>0, <1>2 DEF PortWriteDir
  <2>2. Drives!Turn(levels)
    BY <1>2 DEF PortWriteDir, Drives!Turn
  <2>. QED BY <2>1, <2>2
<1>3. CASE StartDir
  BY <1>2, <1>3 DEF StartDir, portVars, motion
<1>4. CASE IsrPlay
  BY <1>2, <1>4 DEF IsrPlay, portVars, motion
<1>5. CASE StartPort
  <2>1. Drives!Restart
    BY <1>5 DEF StartPort, PortStart, Drives!Restart
  <2>. QED BY <2>1
<1>6. CASE UNCHANGED <<pin, motion>>
  BY <1>6 DEF motion
<1>7. CASE Passive /\ ~DmaTick /\ ~StartPort
  <2>1. CASE CallStep
    BY <1>6, <2>1, CallSteps
  <2>2. CASE FlowStep
    BY <1>6, <2>2, FlowSteps DEF portVars
  <2>3. CASE Stop \/ DmaFails \/ UNCHANGED vars
    BY <1>6, <2>3 DEF Stop, PortStop, DmaFails, DmaError, vars, portVars
  <2>. QED BY <1>7, <2>1, <2>2, <2>3 DEF Passive
<1>8. CASE AbortStep
  BY <1>6, <1>8, AbortSteps
<1>9. CASE IsrFillStep \/ MainFillStep
  BY <1>6, <1>9 DEF IsrFillStep, MainFillStep, portVars
<1>10. CASE StartFill0 \/ StartFill1 \/ SubmitPush \/ IsrBoundary \/ ClearRewind
  BY <1>6, <1>10 DEF StartFill0, StartFill1, SubmitPush, IsrBoundary, ClearRewind, portVars
<1>11. CASE IsrRefill /\ ~AbortStep
  BY <1>6, <1>11 DEF IsrRefill, AbortStep, portVars
<1>. QED
  BY <1>1, <1>3, <1>4, <1>5, <1>7, <1>8, <1>9, <1>10, <1>11
     DEF Next, Main, Isr, AbortStep, Passive, CallStep, FlowStep

(* In a run of the timebase from its first start to its stop, whose         *)
(* interrupt is in time, the engine with its port keeps the contract of the *)
(* stepper drives: every pulse follows a low tick and finds its DIR line    *)
(* stable for the guard less the lateness of the interrupt, and moves the   *)
(* motor by one in the direction of that line.                              *)
THEOREM DrivesAreServed ==
    ASSUME EStopCuts = {}, WideIndices, InterruptInTime, NeverRestarted
    PROVE  Spec => ImplementsDriverInputs
<1>1. Init => Drives!Init
  BY DEF Init, PortInit, Drives!Init
<1>2. /\ TypeOK /\ TypeOK' /\ ControlInv /\ SignInv /\ ArmedPlace /\ PhysInv /\ PlannedInv
      /\ LowInv /\ AgeInv /\ [Next]_vars
      => [Drives!Next]_Drives!vars
  BY DriveSteps
<1>3. "main" \notin EStopCuts /\ RefillInTime
  BY DEF InterruptInTime
<1>. QED
  BY <1>1, <1>2, <1>3, TypeCorrect, ControlCorrect, SignsCorrect, ArmedPlaceCorrect, PhysCorrect,
     PlannedCorrect, DriveCorrect, PTL DEF Spec, ImplementsDriverInputs, Drives!Spec
=============================================================================
