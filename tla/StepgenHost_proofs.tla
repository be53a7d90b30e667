------------------------- MODULE StepgenHost_proofs -------------------------
(***************************************************************************)
(* Proofs about StepgenHost, for any stimulus and any length of the        *)
(* self-test: what the self-test leaves alone, that an E-STOP latches and  *)
(* holds whatever the program does next, and what a status says.           *)
(***************************************************************************)
EXTENDS StepgenHost, StepgenFill_proofs

(* The self-test moves the timebase and the STEP lines without the facade.  *)
TestPulse ==
    /\ motor' = [a \in Axes |-> motor[a] + MotionOf(a, pin[a])]
    /\ sinceStep' = [a \in Axes |-> 0]
    /\ UNCHANGED <<dma, enable, pin, sinceDir>>

PortCall ==
    /\ PortStart \/ PortStop \/ PortEmergencyStop \/ TestPulse
    /\ UNCHANGED <<coreVars, facade, mpc, ipc, history>>

LEMMA PortCallType == ASSUME TypeOK, PortCall PROVE TypeOK'
<1>1. PortTypeOK'
  <2>1. CASE TestPulse
    BY <2>1, TypeParts, HalfTicksAssumption DEF PortTypeOK, TestPulse, dma, MotionOf, FarPast
  <2>. QED
    BY <2>1, TypeParts, PortStartType, PortStopType, PortEmergencyStopType DEF PortCall
<1>2. CoreTypeOK' /\ FacadeTypeOK'
  BY TypeParts, CoreTypeStutter DEF PortCall, FacadeTypeOK, facade, history
<1>. QED BY <1>1, <1>2, TypePartsNext

SelfTest == Hv01 \/ Hv00Start \/ Hv00Stop \/ Hv05Start \/ Hv05Stop

(* Every other step of the program is one of the engine's, or none.         *)
LEMMA HostSteps ==
    ASSUME [HostNext]_allVars
    PROVE  \/ [Next]_vars
           \/ PortCall /\ hpc \in Testing
<1>1. CASE SelfTest
  BY <1>1 DEF SelfTest, Hv01, Hv00Start, Hv00Stop, Hv05Start, Hv05Stop, At, PortCall, TestPulse,
     Testing
<1>2. CASE StatusState \/ StatusFaults \/ StatusOutput \/ StatusPlanned
  BY <1>2 DEF StatusState, StatusFaults, StatusOutput, StatusPlanned, Read
<1>3. CASE StimEnable \/ StimEnabled \/ StimStart \/ StimStarted \/ StimFails
  BY <1>3 DEF StimEnable, StimEnabled, StimStart, StimStarted, StimFails, Next, Main
<1>4. CASE StimWait \/ StimBusy \/ StimOffer \/ StimRefused \/ StimPush \/ StimEnds
  BY <1>4 DEF StimWait, StimBusy, StimOffer, StimRefused, StimPush, StimEnds, Next, Main, allVars
<1>5. CASE InCall
  BY <1>5 DEF InCall, Next, Main
<1>6. CASE Interrupt \/ EStopped \/ WordGoes \/ WordFails
  BY <1>6 DEF Interrupt, EStopped, WordGoes, SpinWord, WordFails, Next
<1>7. CASE UNCHANGED allVars
  BY <1>7 DEF allVars
<1>. QED BY <1>1, <1>2, <1>3, <1>4, <1>5, <1>6, <1>7 DEF HostNext, Program, SelfTest

(* What HostTypeOK says of the program alone. *)
ProgramTypeOK ==
    /\ hpc \in Testing \cup Watching \cup
               {"enable", "enabling", "start", "starting", "feed", "offer", "push"}
    /\ spun \in 0 .. SpinTicks
    /\ stim \in {"constant", "reversal"} /\ second \in BOOLEAN
    /\ left \in 0 .. StimTicks
    /\ snap.at \in {"state", "faults", "output", "planned"}

LEMMA ProgramSteps ==
    ASSUME ProgramTypeOK, [HostNext]_allVars
    PROVE  ProgramTypeOK'
<1> USE DEF ProgramTypeOK, Testing, Watching
<1>1. CASE Hv01 \/ Hv00Start \/ Hv05Start \/ Hv05Stop
  BY <1>1 DEF Hv01, Hv00Start, Hv05Start, Hv05Stop, GoTo
<1>2. CASE Hv00Stop \/ SpinWord
  BY <1>2, HostAssumption DEF Hv00Stop, SpinWord
<1>3. CASE StatusState \/ StatusFaults \/ StatusOutput \/ StatusPlanned
  <2>1. UNCHANGED <<spun, stim, second, left>> /\ (hpc' = hpc \/ hpc' = "enable")
    BY <1>3 DEF StatusState, StatusFaults, StatusOutput, StatusPlanned, Read
  <2>2. snap'.at \in {"state", "faults", "output", "planned"}
    BY <1>3 DEF StatusState, StatusFaults, StatusOutput, StatusPlanned, Read, Status
  <2>. QED BY <2>1, <2>2
<1>4. CASE StimEnable \/ StimEnabled \/ StimStart \/ StimStarted \/ StimFails
  BY <1>4 DEF StimEnable, StimEnabled, StimStart, StimStarted, StimFails, GoTo
<1>5. CASE StimWait \/ StimBusy \/ StimOffer \/ StimEnds
  BY <1>5 DEF StimWait, StimBusy, StimOffer, StimEnds, GoTo, allVars, hostVars
<1>6. CASE StimRefused
  BY <1>6 DEF StimRefused
<1>7. CASE StimPush
  <2>1. left' \in 0 .. StimTicks
    <3>1. Segments * Duration \in Nat
      BY HalfTicksAssumption DEF Segments, Duration
    <3> DEFINE used == Segments * Duration
    <3>2. left' = left \/ left' = IF left > used THEN left - used ELSE 0
      BY <1>7 DEF StimPush
    <3> HIDE DEF used
    <3>. QED BY <3>1, <3>2, HostAssumption DEF used
  <2>. QED BY <1>7, <2>1 DEF StimPush
<1>8. CASE InCall \/ Interrupt \/ EStopped \/ WordFails \/ UNCHANGED hostVars
  BY <1>8 DEF InCall, Interrupt, EStopped, WordFails, hostVars
<1>. QED
  BY <1>1, <1>2, <1>3, <1>4, <1>5, <1>6, <1>7, <1>8 DEF HostNext, Program, WordGoes, allVars

(* The program and the engine keep their types, self-test included.         *)
THEOREM HostTypeCorrect == HostSpec => []HostTypeOK
<1>1. HostTypeOK <=> TypeOK /\ ProgramTypeOK
  BY DEF HostTypeOK, ProgramTypeOK
<1>2. HostInit => TypeOK /\ ProgramTypeOK
  <2> SUFFICES ASSUME HostInit PROVE TypeOK /\ ProgramTypeOK
    OBVIOUS
  <2>1. TypeOK
    BY InitType DEF HostInit
  <2>2. snap.at = "state"
    BY DEF HostInit, Status
  <2>3. spun \in 0 .. SpinTicks /\ left \in 0 .. StimTicks
    BY HostAssumption DEF HostInit
  <2>. QED BY <2>1, <2>2, <2>3 DEF HostInit, ProgramTypeOK, Testing, Watching
<1>3. TypeOK /\ ProgramTypeOK /\ [HostNext]_allVars => TypeOK' /\ ProgramTypeOK'
  BY HostSteps, ProgramSteps, StepType, PortCallType
<1>. QED BY <1>1, <1>2, <1>3, PTL DEF HostSpec

---------------------------------------------------------------------------
(* Before the first start: the calls have not begun, the drives are off and *)
(* there is nothing to plan, whatever the ring plays and however it stops.  *)
BeforeUse == hpc \in Testing \cup {"hv04", "enable"}

Untouched ==
    /\ mpc = "idle" /\ state \notin {"READY", "RUNNING"} /\ ~enable
    /\ Blanked /\ queue = <<>>

Edges == \A a \in Axes : motor[a] = TestEdge(a)

UseInv ==
    /\ BeforeUse => Untouched /\ Edges
    /\ hpc \in {"hv01", "hv05", "hv04", "enable"} => ~running
    /\ hpc = "hv01" => SelfTestAtBoot

(* From the end of the self-test on, the engine is where a boot or a series *)
(* of calls leaves it.                                                      *)
TestedInv == hpc \notin Testing => ControlInv

LEMMA InitHost == ASSUME HostInit PROVE UseInv /\ TestedInv
<1>1. Init /\ hpc = IF SelfTestAtBoot THEN "hv01" ELSE "enable"
  BY DEF HostInit
<1>2. Blanked /\ ControlInv
  BY <1>1, InitClean, InitControl DEF CleanInv, AtRest, Starting, Init, PortInit
<1>3. Untouched /\ ~running /\ Edges
  BY <1>1, <1>2 DEF Init, CoreInit, PortInit, Untouched, Edges, TestEdge
<1>. QED BY <1>1, <1>2, <1>3 DEF UseInv, TestedInv, BeforeUse, Testing

(* The self-test's own calls. *)
LEMMA PortCallUntouched ==
    ASSUME Untouched, PortCall
    PROVE  Untouched'
<1>1. ~enable'
  BY DEF PortCall, PortStart, PortStop, PortEmergencyStop, TestPulse, Untouched
<1>2. UNCHANGED <<coreVars, state, mpc>>
  BY DEF PortCall, facade
<1>. QED BY <1>1, <1>2 DEF Untouched, Blanked, coreVars, positions, segments

(* The interrupt, the E-STOP and the timer.                                 *)
LEMMA HardwareUntouched ==
    ASSUME TypeOK, Untouched, Isr \/ EStop \/ DmaTick \/ DmaFails
    PROVE  Untouched' /\ (running' => running) /\ UNCHANGED <<motor, pin>>
<1>0. CoreTypeOK
  BY TypeParts
<1>1. CASE IsrOverrun \/ EStop \/ (IsrRefill /\ ~ready[1 - frame["isr"].half])
  <2>1. \E bits : CoreAbort(bits)
    BY <1>1 DEF IsrOverrun, EStop, IsrRefill
  <2>2. Blanked' /\ queue' = <<>>
    BY <2>1, AbortBlanks DEF Untouched, Blanked
  <2>3. /\ UNCHANGED <<mpc, motor, pin>> /\ ~enable' /\ ~running'
        /\ state' \in {state, "EMERGENCY_STOP"}
    BY <1>1 DEF IsrOverrun, EStop, IsrRefill, PortEmergencyStop, motion, facade
  <2>. QED BY <2>2, <2>3 DEF Untouched
<1>2. CASE IsrBoundary \/ IsrPlay \/ (IsrRefill /\ ready[1 - frame["isr"].half])
  <2>1. Blanked' /\ UNCHANGED <<queue, motor, running, enable>>
    BY <1>0, <1>2, BoundaryAtRest DEF Untouched
  <2>2. UNCHANGED <<mpc, state>>
    BY <1>2 DEF IsrBoundary, IsrPlay, IsrRefill, facade
  <2>3. pin' = pin
    <3>1. TakenFor(NextHalf(playHalf)) = {}
      BY DEF TakenFor, Untouched, Blanked
    <3>. QED BY <1>2, <3>1 DEF IsrBoundary, IsrPlay, IsrRefill, portVars
  <2>. QED BY <2>1, <2>2, <2>3 DEF Untouched
<1>3. CASE IsrFillStep
  <2>1. FillStep("isr") /\ UNCHANGED <<portVars, facade, mpc>> /\ "isr" \in Caller
    BY <1>3 DEF IsrFillStep, Caller
  <2>2. Blanked' /\ queue' = <<>>
    BY <1>0, <2>1, FillAtRest DEF Untouched
  <2>. QED BY <2>1, <2>2 DEF Untouched, portVars, dma, motion, facade
<1>4. CASE FlowStep
  <2>1. UNCHANGED <<coreVars, portVars, mpc>> /\ state' \in {state, "FAULT"}
    BY <1>4, FlowSteps
  <2>. QED BY <2>1 DEF Untouched, Blanked, coreVars, positions, segments, portVars, dma, motion
<1>5. CASE DmaTick \/ DmaFails
  <2>1. UNCHANGED <<coreVars, state, mpc, running, enable, pin>>
    BY <1>5 DEF DmaTick, DmaFails, PlayWord, DmaError, facade
  <2>2. motor' = motor
    <3>1. CASE DmaTick
      <4>1. PlayWord /\ idx \in RingIx /\ ring = Blank
        BY <3>1, TypeParts DEF DmaTick, PortTypeOK, Untouched, Blanked
      <4>2. \A a \in Axes : ring[idx][a] = 0
        BY <4>1 DEF Blank, IdleWord
      <4>3. motor' = [a \in Axes |-> motor[a] + 0] /\ motor \in [Axes -> Int]
        BY <4>1, <4>2, TypeParts DEF PlayWord, PortTypeOK
      <4>. QED BY <4>3
    <3>2. CASE DmaFails
      BY <3>2 DEF DmaFails, DmaError, motion
    <3>. QED BY <1>5, <3>1, <3>2
  <2>. QED BY <2>1, <2>2 DEF Untouched, Blanked, coreVars, positions, segments
<1>. QED BY <1>1, <1>2, <1>3, <1>4, <1>5 DEF Isr, FlowStep

(* The program before its first start: it reads, and then enables.          *)
LEMMA ProgramUntouched ==
    ASSUME BeforeUse => Untouched, BeforeUse', Program \/ UNCHANGED allVars, ~SelfTest
    PROVE  /\ BeforeUse /\ UNCHANGED vars
           /\ hpc' = hpc \/ (hpc = "hv04" /\ hpc' = "enable")
<1> USE DEF BeforeUse, Testing
<1>2. CASE StatusState \/ StatusFaults \/ StatusOutput \/ StatusPlanned
  BY <1>2 DEF StatusState, StatusFaults, StatusOutput, StatusPlanned, Read, Watching
<1>3. CASE StimEnable \/ StimEnabled \/ StimStart \/ StimStarted \/ StimFails
  BY <1>3 DEF StimEnable, StimEnabled, StimStart, StimStarted, StimFails, GoTo
<1>4. CASE \/ StimWait \/ StimBusy \/ StimOffer \/ StimRefused \/ StimPush \/ StimEnds
  BY <1>4 DEF StimWait, StimBusy, StimOffer, StimRefused, StimPush, StimEnds, GoTo, At,
     allVars, hostVars
<1>5. CASE InCall
  BY <1>5 DEF InCall, hostVars, Untouched, EnableDrives, StartFill1, StartDir, StartRun, MainFillStep, MainAt
<1>6. CASE UNCHANGED allVars
  BY <1>6 DEF allVars, hostVars
<1>. QED BY <1>2, <1>3, <1>4, <1>5, <1>6 DEF Program, SelfTest


LEMMA StepUse ==
    ASSUME TypeOK, UseInv, [HostNext]_allVars
    PROVE  UseInv'
<1> SUFFICES ASSUME BeforeUse'
             PROVE  /\ Untouched' /\ Edges'
                    /\ hpc' \in {"hv01", "hv05", "hv04", "enable"} => ~running'
                    /\ hpc' = "hv01" => SelfTestAtBoot
  BY DEF UseInv, BeforeUse, Testing
<1>1. CASE SelfTest
  <2>1. PortCall /\ hpc \in Testing
    BY <1>1 DEF SelfTest, Hv01, Hv00Start, Hv00Stop, Hv05Start, Hv05Stop, PortCall, TestPulse,
       At, Testing
  <2>2. Untouched'
    BY <2>1, PortCallUntouched DEF UseInv, BeforeUse
  <2>3. hpc' # "hv01" /\ (hpc' \in {"hv05", "hv04", "enable"} => ~running')
    BY <1>1 DEF SelfTest, Hv01, Hv00Start, Hv00Stop, Hv05Start, Hv05Stop, GoTo, PortStop,
       PortEmergencyStop
  <2>4. pin' = pin
    BY <1>1 DEF SelfTest, Hv01, Hv00Start, Hv00Stop, Hv05Start, Hv05Stop, PortStart, PortStop,
       PortEmergencyStop
  <2>5. \A a \in Axes : motor[a] = TestEdge(a)
    BY <2>1 DEF UseInv, BeforeUse, Edges
  <2>6. CASE Hv01
    <3>1. SelfTestAtBoot /\ \A a \in Axes : motor[a] = 0
      BY <2>5, <2>6 DEF Hv01, At, UseInv, TestEdge
    <3>2. \A a \in Axes : motor'[a] = 0 + MotionOf(a, pin[a])
      BY <2>6, <3>1 DEF Hv01
    <3>3. \A a \in Axes : motor'[a] = MotionOf(a, pin[a])
      BY <3>2 DEF MotionOf
    <3>. QED BY <2>2, <2>3, <2>4, <3>1, <3>3 DEF Edges, TestEdge
  <2>7. CASE ~Hv01
    <3>1. motor' = motor /\ hpc # "hv01"
      BY <1>1, <2>7 DEF SelfTest, Hv00Start, Hv00Stop, Hv05Start, Hv05Stop, At, PortStart, PortStop,
         PortEmergencyStop, motion
    <3>. QED BY <2>2, <2>3, <2>4, <2>5, <3>1 DEF Edges, TestEdge
  <2>. QED BY <2>6, <2>7
<1>2. CASE (Program \/ UNCHANGED allVars) /\ ~SelfTest
  <2>1. /\ BeforeUse /\ UNCHANGED vars
        /\ hpc' = hpc \/ (hpc = "hv04" /\ hpc' = "enable")
    BY <1>2, ProgramUntouched DEF UseInv
  <2>2. UNCHANGED <<running, motor, pin>>
    BY <2>1 DEF vars, portVars, dma, motion
  <2>3. Untouched'
    BY <2>1 DEF UseInv, Untouched, Blanked, vars, coreVars, positions, segments, portVars, motion,
       facade
  <2>. QED BY <2>1, <2>2, <2>3 DEF UseInv, Edges, TestEdge
<1>3. CASE Interrupt \/ EStopped \/ WordGoes \/ WordFails
  <2>1. hpc' = hpc /\ (Isr \/ EStop \/ DmaTick \/ DmaFails)
    BY <1>3 DEF Interrupt, EStopped, WordGoes, SpinWord, WordFails, hostVars
  <2>2. Untouched' /\ (running' => running) /\ UNCHANGED <<motor, pin>>
    BY <2>1, HardwareUntouched DEF UseInv, BeforeUse
  <2>. QED BY <2>1, <2>2 DEF UseInv, BeforeUse, Edges, TestEdge
<1>. QED BY <1>1, <1>2, <1>3 DEF HostNext

(* The last step of the self-test leaves the timebase and the drives off;   *)
(* from then on every step is the engine's.                                 *)
LEMMA StepTested ==
    ASSUME "main" \notin EStopCuts, TypeOK, UseInv, TestedInv, [HostNext]_allVars
    PROVE  TestedInv'
<1> SUFFICES ASSUME hpc' \notin Testing
             PROVE  ControlInv'
  BY DEF TestedInv
<1>1. CASE hpc \in Testing
  <2>1. Hv05Stop
    <3> USE DEF Testing
    <3>1. ~(StatusState \/ StatusFaults \/ StatusOutput \/ StatusPlanned)
      BY <1>1 DEF StatusState, StatusFaults, StatusOutput, StatusPlanned, Read, Watching
    <3>2. ~(StimEnable \/ StimEnabled \/ StimStart \/ StimStarted \/ StimFails)
      BY <1>1 DEF StimEnable, StimEnabled, StimStart, StimStarted, StimFails, At
    <3>3. ~(StimWait \/ StimBusy \/ StimOffer \/ StimRefused \/ StimPush \/ StimEnds)
      BY <1>1 DEF StimWait, StimBusy, StimOffer, StimRefused, StimPush, StimEnds, At
    <3>4. ~(InCall \/ Interrupt \/ EStopped \/ WordGoes \/ WordFails \/ UNCHANGED allVars)
      BY <1>1 DEF InCall, Interrupt, EStopped, WordGoes, SpinWord, WordFails, hostVars, allVars
    <3>5. ~(Hv01 \/ Hv00Start \/ Hv00Stop \/ Hv05Start)
      BY <1>1 DEF Hv01, Hv00Start, Hv00Stop, Hv05Start, GoTo
    <3>. QED BY <3>1, <3>2, <3>3, <3>4, <3>5 DEF HostNext, Program, SelfTest
  <2>2. PortCall
    BY <2>1 DEF Hv05Stop, PortCall
  <2>3. Untouched'
    BY <1>1, <2>2, PortCallUntouched DEF UseInv, BeforeUse
  <2>4. ~running'
    BY <2>1 DEF Hv05Stop, PortEmergencyStop
  <2>. QED BY <2>3, <2>4 DEF Untouched, ControlInv, Alone
<1>2. CASE hpc \notin Testing
  BY <1>2, HostSteps, StepControl DEF TestedInv
<1>. QED BY <1>1, <1>2

(* Whatever the ring plays in the self-test, with an E-STOP or a stream     *)
(* error at any moment, the drives stay off, no step is put out but the     *)
(* edge of HV-01 on each STEP line, and the timebase is stopped between the *)
(* tests (hv01_bsrr_priority(), hv00_dma_path(), hv05_estop_latency()).     *)
THEOREM SelfTestIsStill == HostSpec => []SelfTestMovesNothing
<1>1. HostInit => UseInv
  BY InitHost
<1>2. HostTypeOK /\ UseInv /\ [HostNext]_allVars => UseInv'
  BY StepUse DEF HostTypeOK
<1>3. UseInv => SelfTestMovesNothing
  BY DEF UseInv, BeforeUse, Untouched, Blanked, Edges, SelfTestMovesNothing, Testing
<1>. QED BY <1>1, <1>2, <1>3, HostTypeCorrect, PTL DEF HostSpec

(* An E-STOP that does not cut into a call of the main loop leaves timebase *)
(* and drives off, wherever in the interrupt it strikes and whatever the    *)
(* program does next (stepgen_emergency_stop_isr()).                        *)
THEOREM EStopIsFinal ==
    ASSUME "main" \notin EStopCuts
    PROVE  HostSpec => []EStopHolds
<1>1. HostInit => UseInv /\ TestedInv
  BY InitHost
<1>2. /\ HostTypeOK /\ UseInv /\ TestedInv /\ [HostNext]_allVars
      => UseInv' /\ TestedInv'
  BY StepUse, StepTested DEF HostTypeOK
<1>3. TestedInv => EStopHolds
  BY DEF TestedInv, ControlInv, EStopHolds
<1>. QED BY <1>1, <1>2, <1>3, HostTypeCorrect, PTL DEF HostSpec

(* The host calls no clear, so that no step of its ends a latched E-STOP.   *)
LEMMA StaysStep ==
    ASSUME [HostNext]_allVars, EStopStands, hpc \notin Testing
    PROVE  EStopStands'
<1> SUFFICES ASSUME mpc = "demote", state' = "FAULT" PROVE FALSE
  BY HostSteps, StandsStep
<1> USE DEF EStopStands
<1>1. CASE SelfTest
  BY <1>1 DEF SelfTest, Hv01, Hv00Start, Hv00Stop, Hv05Start, Hv05Stop, facade
<1>2. CASE StatusState \/ StatusFaults \/ StatusOutput \/ StatusPlanned
  BY <1>2 DEF StatusState, StatusFaults, StatusOutput, StatusPlanned, Read, vars, facade
<1>3. CASE StimEnable \/ StimEnabled \/ StimStart \/ StimStarted \/ StimFails
  BY <1>3 DEF StimEnable, EnableCheck, StimEnabled, EnableReady, StimStart, StartFill0,
     StimStarted, StartPort, StimFails, MainAt, vars, facade
<1>4. CASE StimWait \/ StimBusy \/ StimOffer \/ StimRefused \/ StimPush \/ StimEnds
  BY <1>4 DEF StimWait, StimBusy, StimOffer, SubmitCheck, StimRefused, StimPush, SubmitPush,
     StimEnds, MainAt, allVars, vars, facade
<1>5. CASE InCall
  BY <1>5 DEF InCall, EnableDrives, StartFill1, StartDir, StartRun, MainFillStep, MainAt
<1>6. CASE Interrupt
  BY <1>6 DEF Interrupt, Isr, IsrOverrun, IsrBoundary, IsrPlay, IsrRefill, IsrFillStep, IsrDone,
     IsrFaultCheck, IsrFault, Decided, facade
<1>7. CASE EStopped \/ WordGoes \/ WordFails \/ UNCHANGED allVars
  BY <1>7 DEF EStopped, EStop, WordGoes, SpinWord, DmaTick, WordFails, DmaFails, allVars, vars,
     facade
<1>. QED BY <1>1, <1>2, <1>3, <1>4, <1>5, <1>6, <1>7 DEF HostNext, Program, SelfTest

(* An E-STOP latches wherever it cuts in, but at the points Decided names;  *)
(* and after the self-test neither the program nor an interrupt ends it     *)
(* (stepgen_emergency_stop(), enter_fault()).                               *)
THEOREM EStopIsKept == HostSpec => EStopStays
<1>1. EStop /\ ~Decided => EStopStands'
  BY DEF EStop, PortEmergencyStop, Decided, EStopStands
<1>. QED BY <1>1, StaysStep, PTL DEF HostSpec, EStopStays


---------------------------------------------------------------------------
(* What a status says.                                                      *)

(* No program calls a clear: once there is a fault, there is one.           *)
FaultInv ==
    \/ state = "FAULT" \/ ipc \in {"fault", "faulted"}
    \/ snap.at = "faults" /\ snap.state = "FAULT"
    => faults # {}

(* The steps of the host, by what they do to the core. *)
Quiescent ==
    /\ UNCHANGED <<ax, staged, posPlanned, posOutput, queue, pending, frame, faults>>
Begins ==
    \/ StartFill0 \/ StartFill1 \/ StartDir \/ IsrBoundary \/ IsrPlay
    \/ IsrRefill /\ ready[1 - frame["isr"].half]

LEMMA HostCore ==
    ASSUME [HostNext]_allVars
    PROVE  \/ Quiescent
           \/ StimPush
           \/ Begins
           \/ MainFillStep \/ IsrFillStep
           \/ IsrOverrun \/ EStop \/ (IsrRefill /\ ~ready[1 - frame["isr"].half])
<1>1. UNCHANGED coreVars => Quiescent
  BY DEF coreVars, positions, segments, Quiescent
<1>2. CASE SelfTest
  BY <1>1, <1>2 DEF SelfTest, Hv01, Hv00Start, Hv00Stop, Hv05Start, Hv05Stop
<1>3. CASE StatusState \/ StatusFaults \/ StatusOutput \/ StatusPlanned
  BY <1>1, <1>3 DEF StatusState, StatusFaults, StatusOutput, StatusPlanned, Read, vars
<1>4. CASE StimEnable \/ StimEnabled \/ StimStart \/ StimStarted \/ StimFails
  BY <1>1, <1>4 DEF StimEnable, EnableCheck, StimEnabled, EnableReady, StimStart, StimStarted,
     StartPort, StimFails, vars, Begins
<1>5. CASE StimWait \/ StimBusy \/ StimOffer \/ StimRefused \/ StimPush \/ StimEnds
  BY <1>1, <1>5 DEF StimWait, StimBusy, StimOffer, SubmitCheck, StimRefused, StimEnds, allVars,
     vars
<1>6. CASE InCall
  BY <1>1, <1>6 DEF InCall, EnableDrives, StartRun, Begins
<1>7. CASE Interrupt
  BY <1>1, <1>7 DEF Interrupt, Isr, IsrDone, IsrFaultCheck, IsrFault, Begins
<1>8. CASE EStopped \/ WordGoes \/ WordFails \/ UNCHANGED allVars
  BY <1>1, <1>8 DEF EStopped, WordGoes, SpinWord, DmaTick, WordFails, DmaFails, allVars, vars
<1>. QED BY <1>2, <1>3, <1>4, <1>5, <1>6, <1>7, <1>8 DEF HostNext, Program, SelfTest

LEMMA FaultsStay ==
    ASSUME [HostNext]_allVars
    PROVE  /\ faults \subseteq faults'
           /\ IsrOverrun \/ (IsrRefill /\ ~ready[1 - frame["isr"].half]) => faults' # {}
<1>1. ASSUME NEW c \in Caller, FillStep(c) PROVE faults \subseteq faults'
  BY <1>1 DEF FillStep, FillTake, FillHold, FillStarve, FillApply, FillEmit
<1>2. ASSUME NEW bits, CoreAbort(bits) PROVE faults' = faults \cup bits
  BY <1>2 DEF CoreAbort
<1>3. IsrOverrun \/ (IsrRefill /\ ~ready[1 - frame["isr"].half]) =>
        CoreAbort({"BUFFER_UNDERRUN"})
  BY DEF IsrOverrun, IsrRefill
<1>4. EStop => CoreAbort({})
  BY DEF EStop
<1>5. StimPush \/ Begins => faults' = faults
  BY DEF StimPush, SubmitPush, Begins, StartFill0, StartFill1, StartDir, IsrBoundary, IsrPlay,
     IsrRefill
<1>6. MainFillStep \/ IsrFillStep => \E c \in Caller : FillStep(c)
  BY DEF MainFillStep, IsrFillStep, Caller
<1>7. Quiescent => faults' = faults
  BY DEF Quiescent
<1>. QED BY <1>1, <1>2, <1>3, <1>4, <1>5, <1>6, <1>7, HostCore

(* How FAULT is reached, in the engine and in the copy read. *)
LEMMA FaultComes ==
    ASSUME [HostNext]_allVars
    PROVE  /\ state' = "FAULT" => state = "FAULT" \/ ipc = "faulted"
           /\ ipc' \in {"fault", "faulted"} =>
                \/ ipc \in {"fault", "faulted"}
                \/ IsrOverrun \/ (IsrRefill /\ ~ready[1 - frame["isr"].half])
           /\ snap'.at = "faults" /\ snap'.state = "FAULT" =>
                \/ state = "FAULT" \/ (snap.at = "faults" /\ snap.state = "FAULT")
<1>1. CASE SelfTest
  BY <1>1 DEF SelfTest, Hv01, Hv00Start, Hv00Stop, Hv05Start, Hv05Stop, GoTo, facade
<1>2. CASE StatusState \/ StatusFaults \/ StatusOutput \/ StatusPlanned
  <2>1. UNCHANGED <<state, ipc>>
    BY <1>2 DEF StatusState, StatusFaults, StatusOutput, StatusPlanned, Read, vars, facade
  <2>2. snap'.at = "faults" => snap' = [Status("faults") EXCEPT !.state = state]
    BY <1>2 DEF StatusState, StatusFaults, StatusOutput, StatusPlanned, Read, Status
  <2>3. [Status("faults") EXCEPT !.state = state].state = state
    BY DEF Status
  <2>. QED BY <2>1, <2>2, <2>3
<1>3. CASE StimEnable \/ StimEnabled \/ StimStart \/ StimStarted \/ StimFails
  BY <1>3 DEF StimEnable, EnableCheck, StimEnabled, EnableReady, StimStart, StartFill0,
     StimStarted, StartPort, StimFails, vars, facade, GoTo
<1>4. CASE StimWait \/ StimBusy \/ StimOffer \/ StimRefused \/ StimPush \/ StimEnds
  BY <1>4 DEF StimWait, StimBusy, StimOffer, SubmitCheck, StimRefused, StimPush, SubmitPush,
     StimEnds, allVars, vars, facade, GoTo, hostVars
<1>5. CASE InCall
  BY <1>5 DEF InCall, EnableDrives, StartFill1, StartDir, StartRun, MainFillStep, facade, hostVars
<1>6. CASE Interrupt
  <2>1. snap' = snap
    BY <1>6 DEF Interrupt, hostVars
  <2>2. CASE IsrOverrun \/ IsrBoundary \/ IsrPlay \/ IsrRefill
    BY <2>1, <2>2 DEF IsrOverrun, IsrBoundary, IsrPlay, IsrRefill, facade
  <2>3. CASE IsrFillStep \/ IsrDone \/ IsrFaultCheck \/ IsrFault
    BY <2>1, <2>3 DEF IsrFillStep, IsrDone, IsrFaultCheck, IsrFault, facade
  <2>. QED BY <1>6, <2>2, <2>3 DEF Interrupt, Isr
<1>7. CASE EStopped \/ WordGoes \/ WordFails \/ UNCHANGED allVars
  BY <1>7 DEF EStopped, EStop, WordGoes, SpinWord, DmaTick, WordFails, DmaFails, allVars, vars,
     facade, hostVars
<1>. QED BY <1>1, <1>2, <1>3, <1>4, <1>5, <1>6, <1>7 DEF HostNext, Program, SelfTest

LEMMA StepFaults ==
    ASSUME FaultInv, [HostNext]_allVars
    PROVE  FaultInv'
BY FaultsStay, FaultComes DEF FaultInv


(* The constant stimulus of the runs, like any other that asks for motion   *)
(* in the positive direction only.                                          *)
ForwardStimulus == \A a \in Axes : FwdRate[a] \in Nat

Onward(q) == \A i \in 1 .. Len(q) : \A a \in Axes : q[i].rate[a] >= 0

(* A stream of forward motion has no backward step anywhere on its way, and *)
(* no more steps are committed and staged than planned.                     *)
ForwardInv ==
    /\ Onward(queue) /\ Onward(pending)
    /\ \A c \in Caller : Onward(frame[c].incoming)
    /\ \A a \in Axes :
        /\ ax[a].dirSign >= 0
        /\ staged[0][a] >= 0 /\ staged[1][a] >= 0
        /\ posPlanned[a] >= posOutput[a] + staged[0][a] + staged[1][a]

OutputInv ==
    /\ second => stim = "reversal"
    /\ stim = "constant" =>
        /\ ForwardInv
        /\ snap.at = "planned" =>
              \A a \in Axes : snap.output[a] \in Int /\ snap.output[a] <= posPlanned[a]

LEMMA OnwardParts ==
    /\ Onward(<<>>)
    /\ \A s : (\A a \in Axes : s.rate[a] >= 0) => Onward(<<s>>)
    /\ \A q \in Seq(Segment) : q # <<>> /\ Onward(q) =>
          /\ \A a \in Axes : Head(q).rate[a] >= 0
          /\ Onward(Tail(q))
<1>1. \A q \in Seq(Segment) : q # <<>> /\ Onward(q) =>
          (\A a \in Axes : Head(q).rate[a] >= 0) /\ Onward(Tail(q))
  <2> SUFFICES ASSUME NEW q \in Seq(Segment), q # <<>>, Onward(q)
               PROVE  (\A a \in Axes : Head(q).rate[a] >= 0) /\ Onward(Tail(q))
    OBVIOUS
  <2>1. Head(q) = q[1] /\ 1 \in 1 .. Len(q)
    OBVIOUS
  <2>2. \A i \in 1 .. Len(Tail(q)) : Tail(q)[i] = q[i + 1] /\ i + 1 \in 1 .. Len(q)
    OBVIOUS
  <2>. QED BY <2>1, <2>2 DEF Onward
<1>2. \A s : (\A a \in Axes : s.rate[a] >= 0) => Onward(<<s>>)
  BY DEF Onward
<1>3. Onward(<<>>)
  BY DEF Onward
<1>. QED BY <1>1, <1>2, <1>3

LEMMA CandidateOnward ==
    ASSUME CoreTypeOK, Onward(queue), Onward(pending), Candidates # <<>>
    PROVE  /\ \A a \in Axes : Head(Candidates).rate[a] >= 0
           /\ Onward(IF pending = <<>> THEN Tail(queue) ELSE queue)
<1>1. pending \in Seq(Segment) /\ queue \in Seq(Segment)
  BY DEF CoreTypeOK, AtMostOne
<1>2. CASE pending = <<>>
  <2>1. Candidates = queue /\ queue # <<>>
    BY <1>1, <1>2 DEF Candidates
  <2>. QED BY <1>1, <1>2, <2>1, OnwardParts
<1>3. CASE pending # <<>>
  <2>1. Head(Candidates) = Head(pending)
    BY <1>1, <1>3 DEF Candidates
  <2>. QED BY <1>1, <1>3, <2>1, OnwardParts
<1>. QED BY <1>2, <1>3

(* What a forward run adds, to the plan and to its half. *)
LEMMA EmitForward ==
    ASSUME CoreTypeOK, ForwardInv, NEW c \in Caller, NEW k \in 1 .. HalfTicks, EmitRun(c, k),
           NEW a \in Axes
    PROVE  \E n \in Nat :
              /\ posPlanned'[a] = posPlanned[a] + n
              /\ \A h \in Half : staged'[h][a] = staged[h][a]
                                    + IF h = frame[c].half THEN n ELSE 0
<1> DEFINE i == Rate(a, Now(c))
           p == ax[a].phase
           n == ClosedForm(p, i, k)
<1>1. ax[a] \in AxisState /\ frame[c].half \in Half
  BY DEF CoreTypeOK, Frame
<1>2. p \in Nat /\ i \in Nat
  BY <1>1, RateAssumption DEF AxisState, Rate
<1>3. k \in Nat /\ PhaseMod \in Nat \ {0}
  BY HalfTicksAssumption, RateAssumption DEF PhaseMod
<1>4. Forward(a) = 1
  BY <1>1 DEF Forward, ForwardInv, AxisState, Sign
<1> HIDE DEF i, p
<1>5. n \in Nat
  <2> DEFINE t == p + i * k
  <2>1. t \in Nat
    BY <1>2, <1>3
  <2> HIDE DEF t
  <2>2. t \div PhaseMod \in Nat
    BY <1>3, <2>1
  <2>. QED BY <2>2 DEF t, ClosedForm
<1>6. posPlanned'[a] = posPlanned[a] + Forward(a) * n
  BY DEF EmitRun, i, p
<1>7. \A h \in Half : staged'[h][a] = IF h = frame[c].half
                                      THEN staged[h][a] + Forward(a) * n ELSE staged[h][a]
  BY <1>1 DEF EmitRun, i, p, CoreTypeOK
<1>8. \A h \in Half : staged[h][a] \in Int
  BY DEF CoreTypeOK
<1> HIDE DEF n
<1>9. Forward(a) * n = n
  BY <1>4, <1>5
<1>. QED BY <1>5, <1>6, <1>7, <1>8, <1>9

(* One step of a fill. *)
LEMMA FillForward ==
    ASSUME CoreTypeOK, ForwardInv, NEW c \in Caller, FillStep(c)
    PROVE  ForwardInv' /\ \A a \in Axes : posPlanned'[a] >= posPlanned[a]
<1>0. /\ frame \in [Caller -> Frame] /\ frame[c] \in Frame
      /\ posPlanned \in [Axes -> Int] /\ posOutput \in [Axes -> Int]
      /\ \A h \in Half, a \in Axes : staged[h][a] \in Int
  BY DEF CoreTypeOK
<1>1. CASE FillTake(c)
  <2>1. Onward(queue') /\ Onward(pending')
    BY <1>1, CandidateOnward, OnwardParts DEF FillTake, Take, ForwardInv
  <2>2. Onward(<<Head(Candidates)>>)
    BY <1>1, CandidateOnward, OnwardParts DEF FillTake, ForwardInv
  <2>3. \A b \in Caller : frame'[b].incoming = IF b = c THEN <<Head(Candidates)>>
                                               ELSE frame[b].incoming
    BY <1>0, <1>1 DEF FillTake, Frame
  <2>4. UNCHANGED <<ax, staged, posPlanned, posOutput>>
    BY <1>1 DEF FillTake, positions
  <2>. QED BY <1>0, <2>1, <2>2, <2>3, <2>4 DEF ForwardInv
<1>2. CASE FillHold(c)
  <2>1. Onward(queue') /\ Onward(pending')
    BY <1>2, CandidateOnward, OnwardParts DEF FillHold, ForwardInv
  <2>2. \A b \in Caller : frame'[b].incoming = frame[b].incoming
    BY <1>0, <1>2 DEF FillHold, SilenceRest, Frame
  <2>3. UNCHANGED <<ax, staged, posPlanned, posOutput>>
    BY <1>2 DEF FillHold, positions
  <2>. QED BY <1>0, <2>1, <2>2, <2>3 DEF ForwardInv
<1>3. CASE FillStarve(c)
  <2>1. \A b \in Caller : frame'[b].incoming = frame[b].incoming
    BY <1>0, <1>3 DEF FillStarve, SilenceRest, Frame
  <2>2. \A a \in Axes : ax'[a].dirSign = 0
    BY <1>3 DEF FillStarve, CoreTypeOK, AxisState
  <2>3. UNCHANGED <<queue, pending, staged, posPlanned, posOutput>>
    BY <1>3 DEF FillStarve, positions
  <2>. QED BY <1>0, <2>1, <2>2, <2>3 DEF ForwardInv
<1>4. CASE FillApply(c)
  <2>1. \A b \in Caller : frame'[b].incoming = IF b = c THEN <<>> ELSE frame[b].incoming
    BY <1>0, <1>4 DEF FillApply, Frame
  <2>2. ASSUME NEW a \in Axes PROVE ax'[a].dirSign >= 0
    <3> DEFINE r == Head(frame[c].incoming).rate[a]
    <3>1. r \in -RateMax .. RateMax
      BY <1>4, IncomingType DEF FillApply
    <3>2. r >= 0
      <4>1. frame[c].incoming \in Seq(Segment) /\ frame[c].incoming # <<>>
        BY <1>0, <1>4 DEF FillApply, Frame, AtMostOne
      <4>. QED BY <4>1, OnwardParts DEF ForwardInv
    <3>3. ax'[a] = Applied(a, r, Now(c))
      BY <1>4 DEF FillApply
    <3> HIDE DEF r
    <3>4. ax'[a].dirSign = SignOf(r)
      BY <3>1, <3>3, AppliedFields
    <3>. QED BY <3>1, <3>2, <3>4, RateAssumption DEF SignOf
  <2>3. UNCHANGED <<queue, pending, staged, posPlanned, posOutput>>
    BY <1>4 DEF FillApply, positions
  <2>. QED BY <1>0, <2>1, <2>2, <2>3, OnwardParts DEF ForwardInv
<1>5. CASE FillEmit(c)
  <2>1. PICK k \in 1 .. HalfTicks : EmitRun(c, k)
    BY <1>5 DEF FillEmit
  <2>2. \A b \in Caller : frame'[b].incoming = frame[b].incoming
    BY <1>0, <2>1 DEF EmitRun, Frame
  <2>3. UNCHANGED <<queue, pending, posOutput>>
    BY <1>5 DEF FillEmit
  <2>4. ASSUME NEW a \in Axes
        PROVE  /\ ax'[a].dirSign >= 0 /\ staged'[0][a] >= 0 /\ staged'[1][a] >= 0
               /\ posPlanned'[a] >= posOutput[a] + staged'[0][a] + staged'[1][a]
               /\ posPlanned'[a] >= posPlanned[a]
    <3>1. ax'[a].dirSign >= 0
      BY <2>1, EmitFields DEF ForwardInv
    <3>2. PICK n \in Nat :
              /\ posPlanned'[a] = posPlanned[a] + n
              /\ \A h \in Half : staged'[h][a] = staged[h][a]
                                    + IF h = frame[c].half THEN n ELSE 0
      BY <2>1, EmitForward
    <3>3. frame[c].half \in {0, 1}
      BY <1>0 DEF Frame, Half
    <3>4. /\ staged[0][a] \in Int /\ staged[1][a] \in Int
          /\ posPlanned[a] \in Int /\ posOutput[a] \in Int
      BY <1>0 DEF Half
    <3>5. \/ staged'[0][a] = staged[0][a] + n /\ staged'[1][a] = staged[1][a]
          \/ staged'[0][a] = staged[0][a] /\ staged'[1][a] = staged[1][a] + n
      BY <3>2, <3>3, <3>4 DEF Half
    <3>. QED BY <3>1, <3>2, <3>4, <3>5 DEF ForwardInv
  <2>. QED BY <2>2, <2>3, <2>4 DEF ForwardInv
<1>6. CASE ~FillEmit(c)
  <2>1. posPlanned' = posPlanned
    BY <1>6 DEF FillStep, FillTake, FillHold, FillStarve, FillApply, positions
  <2>. QED BY <1>0, <1>1, <1>2, <1>3, <1>4, <1>6, <2>1 DEF FillStep
<1>. QED BY <1>5, <1>6


(* The start and the boundary: counts are cleared, or moved to pos_output.  *)
LEMMA BeginForward ==
    ASSUME CoreTypeOK, ForwardInv, Begins
    PROVE  ForwardInv' /\ posPlanned' = posPlanned
<1>0. /\ frame \in [Caller -> Frame] /\ Caller = {"main", "isr"} /\ Half = {0, 1}
      /\ posPlanned \in [Axes -> Int] /\ posOutput \in [Axes -> Int]
      /\ staged \in [Half -> [Axes -> Int]]
      /\ \A h \in Half, a \in Axes : staged[h][a] \in Int
  BY DEF CoreTypeOK, Caller, Half
<1>1. CASE StartFill0
  <2>1. \A b \in Caller : Onward(frame'[b].incoming)
    BY <1>0, <1>1, OnwardParts DEF StartFill0, ForwardInv
  <2>2. \A a \in Axes : ax'[a].dirSign = ax[a].dirSign
    BY <1>1 DEF StartFill0, Rewound, CoreTypeOK, AxisState
  <2>3. /\ UNCHANGED <<queue, pending, posPlanned, posOutput>>
        /\ \A a \in Axes : staged'[0][a] = 0 /\ staged'[1][a] = 0
    BY <1>1 DEF StartFill0, NoSteps, segments, Half
  <2>. QED BY <1>0, <2>1, <2>2, <2>3 DEF ForwardInv
<1>2. CASE StartFill1
  <2>1. \A b \in Caller : Onward(frame'[b].incoming)
    BY <1>0, <1>2, OnwardParts DEF StartFill1, BeginFill, ForwardInv
  <2>2. /\ UNCHANGED <<ax, queue, pending, posPlanned, posOutput>>
        /\ \A a \in Axes : staged'[0][a] = staged[0][a] /\ staged'[1][a] = 0
    BY <1>0, <1>2 DEF StartFill1, BeginFill, segments
  <2>. QED BY <1>0, <2>1, <2>2 DEF ForwardInv
<1>3. CASE StartDir \/ IsrPlay
  <2>1. PICK h : ax' = AfterTake(h)
    BY <1>3 DEF StartDir, IsrPlay
  <2>2. \A a \in Axes : ax'[a].dirSign = ax[a].dirSign
    BY <2>1, AfterTakeFields
  <2>3. UNCHANGED <<queue, pending, frame, staged, posPlanned, posOutput>>
    BY <1>3 DEF StartDir, IsrPlay, positions, segments
  <2>. QED BY <2>2, <2>3 DEF ForwardInv
<1>4. CASE IsrBoundary
  <2>1. \A b \in Caller : frame'[b].incoming = frame[b].incoming
    BY <1>0, <1>4 DEF IsrBoundary, Frame
  <2>2. UNCHANGED <<ax, queue, pending, staged, posPlanned, posOutput>>
    BY <1>4 DEF IsrBoundary, positions, segments
  <2>. QED BY <2>1, <2>2 DEF ForwardInv
<1>5. CASE IsrRefill /\ ready[1 - frame["isr"].half]
  <2> DEFINE half == frame["isr"].half
  <2>0. half \in Half
    BY <1>0 DEF Frame
  <2>1. \A b \in Caller : Onward(frame'[b].incoming)
    BY <1>0, <1>5, OnwardParts DEF IsrRefill, BeginFill, ForwardInv
  <2>2. /\ UNCHANGED <<ax, queue, pending, posPlanned>>
        /\ posOutput' = Committed(half)
        /\ staged' = [staged EXCEPT ![half] = [a \in Axes |-> 0]]
    BY <1>5 DEF IsrRefill, BeginFill, segments
  <2> HIDE DEF half
  <2>3. ASSUME NEW a \in Axes
        PROVE  /\ staged'[0][a] >= 0 /\ staged'[1][a] >= 0
               /\ posPlanned[a] >= posOutput'[a] + staged'[0][a] + staged'[1][a]
    <3>1. posOutput'[a] = posOutput[a] + staged[half][a]
      BY <2>2 DEF Committed
    <3>2. /\ staged'[0][a] = IF half = 0 THEN 0 ELSE staged[0][a]
          /\ staged'[1][a] = IF half = 1 THEN 0 ELSE staged[1][a]
      BY <1>0, <2>2
    <3>3. /\ staged[0][a] \in Int /\ staged[1][a] \in Int
          /\ posPlanned[a] \in Int /\ posOutput[a] \in Int
      BY <1>0
    <3>4. half = 0 \/ half = 1
      BY <1>0, <2>0
    <3>5. CASE half = 0
      BY <3>1, <3>2, <3>3, <3>5 DEF ForwardInv
    <3>6. CASE half = 1
      BY <3>1, <3>2, <3>3, <3>6 DEF ForwardInv
    <3>. QED BY <3>4, <3>5, <3>6
  <2>. QED BY <2>1, <2>2, <2>3 DEF ForwardInv
<1>. QED BY <1>1, <1>2, <1>3, <1>4, <1>5 DEF Begins, positions

LEMMA AbortForward ==
    ASSUME CoreTypeOK, ForwardInv, NEW bits, CoreAbort(bits)
    PROVE  ForwardInv' /\ posPlanned' = posPlanned
<1>1. \A a \in Axes : ax'[a].dirSign = 0
  BY DEF CoreAbort, CoreTypeOK, AxisState
<1>2. \A a \in Axes : staged'[0][a] = 0 /\ staged'[1][a] = 0
  BY DEF CoreAbort, NoSteps, Half
<1>3. /\ UNCHANGED <<frame, posPlanned, posOutput>>
      /\ Onward(queue') /\ Onward(pending')
  BY OnwardParts DEF CoreAbort
<1>4. /\ posPlanned \in [Axes -> Int] /\ posOutput \in [Axes -> Int]
      /\ \A a \in Axes : staged[0][a] \in Int /\ staged[1][a] \in Int
  BY DEF CoreTypeOK, Half
<1>. QED BY <1>1, <1>2, <1>3, <1>4 DEF ForwardInv

(* The constant stimulus submits its rates, never those of a reversal. *)
LEMMA PushForward ==
    ASSUME TypeOK, TypeOK', ForwardStimulus, ForwardInv, ~second, StimPush
    PROVE  ForwardInv' /\ posPlanned' = posPlanned
<1>1. /\ queue'[Len(queue')].rate = FwdRate
      /\ UNCHANGED <<ax, staged, posPlanned, posOutput, pending, frame>>
  BY DEF StimPush, SubmitPush, positions
<1>2. PICK s : queue' = Append(queue, s)
  BY DEF StimPush, SubmitPush
<1>3. queue \in Seq(Segment)
  BY TypeParts DEF CoreTypeOK
<1>4. queue' \in Seq(Segment)
  BY DEF TypeOK, CoreTypeOK
<1>5. \A i \in 1 .. Len(queue') :
         (i \in 1 .. Len(queue) /\ queue'[i] = queue[i]) \/ i = Len(queue')
  BY <1>2, <1>3
<1>6. Onward(queue')
  BY <1>1, <1>5 DEF Onward, ForwardInv, ForwardStimulus
<1>. QED BY <1>1, <1>6 DEF ForwardInv

LEMMA StepForward ==
    ASSUME TypeOK, TypeOK', ForwardStimulus, ForwardInv, ~second, [HostNext]_allVars
    PROVE  ForwardInv' /\ \A a \in Axes : posPlanned'[a] >= posPlanned[a]
<1>0. CoreTypeOK /\ \A a \in Axes : posPlanned[a] \in Int
  BY TypeParts DEF CoreTypeOK
<1>1. CASE Quiescent
  BY <1>0, <1>1 DEF Quiescent, ForwardInv
<1>2. CASE StimPush
  BY <1>0, <1>2, PushForward
<1>3. CASE Begins
  BY <1>0, <1>3, BeginForward
<1>4. CASE MainFillStep \/ IsrFillStep
  <2>1. \E c \in Caller : FillStep(c)
    BY <1>4 DEF MainFillStep, IsrFillStep, Caller
  <2>. QED BY <1>0, <2>1, FillForward
<1>5. CASE IsrOverrun \/ EStop \/ (IsrRefill /\ ~ready[1 - frame["isr"].half])
  <2>1. \E bits : CoreAbort(bits)
    BY <1>5 DEF IsrOverrun, EStop, IsrRefill
  <2>. QED BY <1>0, <2>1, AbortForward
<1>. QED BY <1>1, <1>2, <1>3, <1>4, <1>5, HostCore

(* The program keeps to its stimulus, and reads positions one way. *)
LEMMA StimSteps ==
    ASSUME ProgramTypeOK, [HostNext]_allVars
    PROVE  /\ stim' = stim
           /\ second' => second \/ stim = "reversal"
           /\ snap'.at = "planned" =>
                \/ snap' = snap
                \/ snap'.output = posOutput /\ UNCHANGED vars
<1>1. CASE SelfTest
  BY <1>1 DEF SelfTest, Hv01, Hv00Start, Hv00Stop, Hv05Start, Hv05Stop, GoTo
<1>2. CASE StatusState \/ StatusFaults \/ StatusOutput \/ StatusPlanned
  <2>1. UNCHANGED <<vars, stim, second>>
    BY <1>2 DEF StatusState, StatusFaults, StatusOutput, StatusPlanned, Read
  <2>2. snap'.at = "planned" => snap' = [Status("planned") EXCEPT !.output = posOutput]
    BY <1>2 DEF StatusState, StatusFaults, StatusOutput, StatusPlanned, Read, Status
  <2>3. [Status("planned") EXCEPT !.output = posOutput].output = posOutput
    BY DEF Status
  <2>. QED BY <2>1, <2>2, <2>3
<1>3. CASE StimEnable \/ StimEnabled \/ StimStart \/ StimStarted \/ StimFails
  BY <1>3 DEF StimEnable, StimEnabled, StimStart, StimStarted, StimFails, GoTo
<1>4. CASE StimWait \/ StimBusy \/ StimOffer \/ StimRefused \/ StimEnds
  BY <1>4 DEF StimWait, StimBusy, StimOffer, StimRefused, StimEnds, GoTo, allVars, hostVars
<1>5. CASE StimPush
  BY <1>5 DEF StimPush
<1>6. CASE InCall \/ Interrupt \/ EStopped \/ WordGoes \/ WordFails \/ UNCHANGED allVars
  BY <1>6 DEF InCall, Interrupt, EStopped, WordGoes, SpinWord, WordFails, allVars, hostVars
<1>. QED BY <1>1, <1>2, <1>3, <1>4, <1>5, <1>6 DEF HostNext, Program, SelfTest

LEMMA StepOutput ==
    ASSUME TypeOK, TypeOK', ProgramTypeOK, ForwardStimulus, OutputInv, [HostNext]_allVars
    PROVE  OutputInv'
<1>1. second' => stim' = "reversal"
  BY StimSteps DEF OutputInv
<1>2. ASSUME stim = "constant"
      PROVE  /\ ForwardInv'
             /\ snap'.at = "planned" =>
                  \A a \in Axes : snap'.output[a] \in Int /\ snap'.output[a] <= posPlanned'[a]
  <2>1. ForwardInv /\ ~second
    BY <1>2 DEF OutputInv
  <2>2. ForwardInv' /\ \A a \in Axes : posPlanned'[a] >= posPlanned[a]
    BY <2>1, StepForward
  <2>3. /\ posPlanned \in [Axes -> Int] /\ posPlanned' \in [Axes -> Int]
        /\ posOutput \in [Axes -> Int]
        /\ \A a \in Axes : staged[0][a] \in Int /\ staged[1][a] \in Int
    BY DEF TypeOK, CoreTypeOK, Half
  <2>4. ASSUME snap'.at = "planned", NEW a \in Axes
        PROVE  snap'.output[a] \in Int /\ snap'.output[a] <= posPlanned'[a]
    <3>1. CASE snap' = snap
      BY <1>2, <2>2, <2>3, <2>4, <3>1 DEF OutputInv
    <3>2. CASE snap'.output = posOutput
      BY <2>1, <2>2, <2>3, <3>2 DEF ForwardInv
    <3>. QED BY <2>4, <3>1, <3>2, StimSteps
  <2>. QED BY <2>2, <2>4
<1>. QED BY <1>1, <1>2, StimSteps DEF OutputInv

(* A status is assembled field by field while interrupts and E-STOPs change *)
(* the fields: one that says FAULT says why, and under forward motion it    *)
(* never shows more steps put out than planned (stepgen_get_status()).      *)
THEOREM StatusIsTruthful ==
    ASSUME ForwardStimulus
    PROVE  HostSpec => StatusTellsWhy
<1>1. HostInit => FaultInv /\ OutputInv
  <2> SUFFICES ASSUME HostInit PROVE FaultInv /\ OutputInv
    OBVIOUS
  <2>1. state = "SAFE_IDLE" /\ ipc = "idle" /\ snap.at = "state" /\ ~second
    BY DEF HostInit, Init, Status
  <2>2. ForwardInv
    <3>1. CoreInit
      BY DEF HostInit, Init
    <3>. QED BY <3>1, OnwardParts DEF CoreInit, ForwardInv, NoSteps, Half
  <2>. QED BY <2>1, <2>2 DEF FaultInv, OutputInv
<1>2. /\ HostTypeOK /\ HostTypeOK' /\ FaultInv /\ OutputInv /\ [HostNext]_allVars
      => FaultInv' /\ OutputInv'
  <2>1. HostTypeOK <=> TypeOK /\ ProgramTypeOK
    BY DEF HostTypeOK, ProgramTypeOK
  <2>2. HostTypeOK' => TypeOK'
    BY DEF HostTypeOK
  <2>. QED BY <2>1, <2>2, StepFaults, StepOutput
<1>3. FaultInv /\ OutputInv =>
        /\ StatusFaults /\ snap.state = "FAULT" => faults # {}
        /\ StatusPlanned /\ stim = "constant" => \A a \in Axes : snap.output[a] <= posPlanned[a]
  BY DEF FaultInv, OutputInv, StatusFaults, StatusPlanned, Read
<1>. QED BY <1>1, <1>2, <1>3, HostTypeCorrect, PTL DEF HostSpec, StatusTellsWhy
=============================================================================
