----------------------------- MODULE StepgenHost -----------------------------
(***************************************************************************)
(* The programs that drive the STEP generator from the main loop           *)
(* (Firmware/Platform/STM32F407/Src/stepgen_selftest_stm32f4.c): the       *)
(* self-test at boot, the stimulus loops that stream segments for the      *)
(* instruments, and the readers of stepgen_get_status().                   *)
(*                                                                         *)
(* A program calls the engine of Stepgen; while a call is under way mpc    *)
(* says where, and hpc where the program is.  HV-02 and HV-03 look at a    *)
(* register and an address and change nothing.                             *)
(***************************************************************************)
EXTENDS StepgenProps

CONSTANTS
    SelfTestAtBoot, \* CNC_RUN_SELFTEST_AT_BOOT
    SpinTicks,      \* HV-00: words the stream should move while it spins
    FwdRate,        \* the rates of a constant stimulus and of fwd
    RevRate,        \* the rates of rev
    StimTicks       \* tick_hz * seconds

ASSUME HostAssumption ==
    SelfTestAtBoot \in BOOLEAN /\ SpinTicks \in Nat /\ StimTicks \in Nat \ {0}

VARIABLES
    hpc,        \* where the program is
    spun,       \* HV-00: words moved while it spins
    stim,       \* the stimulus
    second,     \* of a pair of segments, the second is due
    left,       \* remaining ticks of the stimulus
    snap        \* the status being read: what comes next, and what is kept

hostVars == <<hpc, spun, stim, second, left, snap>>
allVars  == <<vars, hostVars>>

Testing == {"hv01", "hv00", "spin", "hv05", "hv05stop"}
Watching == {"hv04", "done", "failed"}

HostTypeOK ==
    /\ TypeOK
    /\ hpc \in Testing \cup Watching \cup
               {"enable", "enabling", "start", "starting", "feed", "offer", "push"}
    /\ spun \in 0 .. SpinTicks
    /\ stim \in {"constant", "reversal"} /\ second \in BOOLEAN
    /\ left \in 0 .. StimTicks
    /\ snap.at \in {"state", "faults", "output", "planned"}

Status(at) == [at |-> at, state |-> "SAFE_IDLE", output |-> [a \in Axes |-> 0]]

HostInit ==
    /\ Init
    /\ pin = [a \in Axes |-> FALSE]     \* as MX_GPIO_Init() leaves the lines
    /\ hpc = IF SelfTestAtBoot THEN "hv01" ELSE "enable"
    /\ spun = 0
    /\ stim \in {"constant", "reversal"} /\ second = FALSE
    /\ left = StimTicks
    /\ snap = Status("state")

Halted == state \in {"FAULT", "EMERGENCY_STOP"}

At(h) == MainAt("idle") /\ hpc = h
GoTo(h) == hpc' = h /\ UNCHANGED <<spun, stim, second, left, snap>>

---------------------------------------------------------------------------
(* hv01_bsrr_priority(): every STEP line high, and low again; software puts *)
(* out one edge per axis, the way its DIR line happens to say.              *)
Hv01 ==
    /\ At("hv01")
    /\ motor' = [a \in Axes |-> motor[a] + MotionOf(a, pin[a])]
    /\ sinceStep' = [a \in Axes |-> 0]
    /\ GoTo("hv00")
    /\ UNCHANGED <<dma, enable, pin, sinceDir>>
    /\ UNCHANGED <<coreVars, facade, mpc, ipc, history>>

(* hv00_dma_path(): start the port in SAFE_IDLE, spin while the stream moves *)
(* words, and stop it.  What NDTR says of the words moved is not modelled.  *)
Hv00Start ==
    /\ At("hv00")
    /\ PortStart
    /\ GoTo("spin")
    /\ UNCHANGED <<coreVars, facade, mpc, ipc, history>>

SpinWord ==
    /\ hpc = "spin" /\ spun < SpinTicks
    /\ DmaTick
    /\ spun' = spun + 1
    /\ UNCHANGED <<hpc, stim, second, left, snap>>

Hv00Stop ==
    /\ At("spin")
    /\ spun = SpinTicks \/ ~running
    /\ PortStop
    /\ spun' = 0
    /\ hpc' = "hv05"
    /\ UNCHANGED <<stim, second, left, snap>>
    /\ UNCHANGED <<coreVars, facade, mpc, ipc, history>>

(* hv05_estop_latency(): start it again and stop it the other way.          *)
Hv05Start ==
    /\ At("hv05")
    /\ PortStart
    /\ GoTo("hv05stop")
    /\ UNCHANGED <<coreVars, facade, mpc, ipc, history>>

Hv05Skip ==     \* mutant: the port is left running
    /\ At("hv05stop")
    /\ GoTo("hv04")
    /\ UNCHANGED vars
Hv05Stop ==
    /\ At("hv05stop")
    /\ PortEmergencyStop
    /\ GoTo("hv04")
    /\ UNCHANGED <<coreVars, facade, mpc, ipc, history>>

---------------------------------------------------------------------------
(* stepgen_get_status(), field by field: the state, the faults, the         *)
(* positions put out and last the positions planned.  snap keeps a field    *)
(* until the one read after it stands beside it.  The code takes output and *)
(* planned axis by axis and a position in two words; the properties compare *)
(* the two of one axis, and a position torn between its words is left out.  *)
Read(at, next) ==
    /\ MainAt("idle") /\ hpc \in Watching
    /\ snap.at = at
    /\ snap' = next
    /\ UNCHANGED <<vars, spun, stim, second, left>>

StatusState  == Read("state", [Status("faults") EXCEPT !.state = state])
                /\ UNCHANGED hpc
StatusFaults == Read("faults", Status("output"))
                /\ UNCHANGED hpc
StatusOutput == Read("output", [Status("planned") EXCEPT !.output = posOutput])
                /\ UNCHANGED hpc
StatusPlanned ==
    /\ Read("planned", Status("state"))
    /\ hpc' = IF hpc = "hv04" THEN "enable" ELSE hpc

---------------------------------------------------------------------------
(* queue_constant() and stepgen_stim_dir_reversal(): enable and start, or   *)
(* return false,                                                            *)
StimEnable   == hpc = "enable"   /\ EnableCheck /\ GoTo("enabling")
StimEnabled  == hpc = "enabling" /\ EnableReady /\ GoTo("start")
StimStart    == hpc = "start"    /\ StartFill0  /\ GoTo("starting")
StimStarted  == hpc = "starting" /\ StartPort   /\ GoTo("feed")
StimFails ==
    /\ \/ At("enable") /\ state # "SAFE_IDLE"
       \/ At("start") /\ state # "READY"
    /\ GoTo("failed")
    /\ UNCHANGED vars

Segments == IF stim = "constant" THEN 1 ELSE 2
Duration ==
    IF stim = "reversal" THEN 4 * HalfTicks
    ELSE IF left > HalfTicks THEN HalfTicks ELSE left

(* then loop until all is submitted: wait for free slots, submit, and count *)
(* down what was accepted.  Nobody else submits, so the slots stay free.    *)
StimWait ==
    /\ At("feed") /\ left > 0
    /\ QueueDepth - Len(queue) >= Segments
    /\ GoTo("offer")
    /\ UNCHANGED vars

StimBusy ==
    /\ At("feed") /\ left > 0
    /\ QueueDepth - Len(queue) < Segments
    /\ UNCHANGED allVars

StimOffer == hpc = "offer" /\ SubmitCheck /\ GoTo("push")

StimRefused ==
    /\ At("offer") /\ state \notin {"READY", "RUNNING"}
    /\ hpc' = "feed" /\ second' = FALSE
    /\ UNCHANGED <<vars, spun, stim, left, snap>>

StimPush ==
    /\ hpc = "push"
    /\ SubmitPush
    /\ queue'[Len(queue')].dur = Duration
    /\ queue'[Len(queue')].rate = IF second THEN RevRate ELSE FwdRate
    /\ IF stim = "reversal" /\ ~second
       THEN second' = TRUE /\ hpc' = "offer" /\ left' = left
       ELSE LET used == Segments * Duration IN
            /\ left' = IF left > used THEN left - used ELSE 0
            /\ second' = FALSE /\ hpc' = "feed"
    /\ UNCHANGED <<spun, stim, snap>>

StimEnds ==
    /\ At("feed") /\ left = 0
    /\ GoTo("done")
    /\ UNCHANGED vars

---------------------------------------------------------------------------
(* The steps inside the calls, as Stepgen has them.                         *)
InCall ==
    /\ EnableDrives \/ StartFill1 \/ StartDir \/ StartRun \/ MainFillStep
    /\ UNCHANGED hostVars

Program ==
    \/ Hv01 \/ Hv00Start \/ Hv00Stop \/ Hv05Start \/ Hv05Stop
    \/ StatusState \/ StatusFaults \/ StatusOutput \/ StatusPlanned
    \/ StimEnable \/ StimEnabled \/ StimStart \/ StimStarted \/ StimFails
    \/ StimWait \/ StimBusy \/ StimOffer \/ StimRefused \/ StimPush \/ StimEnds
    \/ InCall

Interrupt == Isr /\ UNCHANGED hostVars
EStopped  == EStop /\ UNCHANGED hostVars
WordGoes  == SpinWord \/ (hpc # "spin" /\ DmaTick /\ UNCHANGED hostVars)
WordFails == DmaFails /\ UNCHANGED hostVars

HostNext == Program \/ Interrupt \/ EStopped \/ WordGoes \/ WordFails

(* The interrupt and the timer go on.  The program has the processor only    *)
(* while no interrupt wants it, but again and again: a refill ends before   *)
(* its half does (MaxFillLag).                                              *)
HostSpec ==
    /\ HostInit /\ [][HostNext]_allVars
    /\ SF_allVars(Program) /\ WF_allVars(Interrupt) /\ WF_allVars(WordGoes)

---------------------------------------------------------------------------
(* Where the edge of HV-01, the way of the DIR line, takes a motor. *)
TestEdge(a) ==
    IF SelfTestAtBoot /\ hpc # "hv01" THEN MotionOf(a, pin[a]) ELSE 0

(* The self-test plays the ring outside RUNNING, interrupts and refills     *)
(* included, with an E-STOP or a stream error at any moment.  It never      *)
(* energises the drives; each STEP line has the one edge of HV-01, put out  *)
(* while the timebase stands, and none from the streams of HV-00 and HV-05; *)
(* between the tests and after them the timebase stands (main.c:125).       *)
SelfTestMovesNothing ==
    hpc \in Testing \cup {"hv04", "enable"} =>
        /\ ~enable /\ ring = Blank
        /\ \A a \in Axes : motor[a] = TestEdge(a)
        /\ hpc \in {"hv01", "hv05", "hv04", "enable"} => ~running

(* A stimulus that is not halted by a fault or an E-STOP submits all its    *)
(* segments, and the engine plays them to the end: the waiting loops end    *)
(* and no held-back reversal or missed free slot stops the stream           *)
(* (queue_constant(), stepgen_stim_dir_reversal()).                         *)
StimulusIsPlayed ==
    <>[](\/ Halted
         \/ /\ hpc = "done"
            /\ lastSeq = sent /\ remaining = 0 /\ posOutput = posPlanned)

(* Status is read while interrupts change it; still, one that says FAULT    *)
(* says why, and one of forward motion never shows more steps put out than  *)
(* planned (stepgen_get_status(), enter_fault()).                           *)
StatusTellsWhy ==
    [][ /\ StatusFaults /\ snap.state = "FAULT" => faults # {}
        /\ StatusPlanned /\ stim = "constant" =>
               \A a \in Axes : snap.output[a] <= posPlanned[a] ]_allVars

(* An E-STOP that cuts into the interrupt at any step, an overrun's or a    *)
(* refill's, leaves drives and timebase off whatever the program does next. *)
EStopHolds ==
    state = "EMERGENCY_STOP" /\ hpc \notin Testing => ~running /\ ~enable

(* An E-STOP that cuts into an interrupt latches, unless it strikes between *)
(* the test and the assignment of enter_fault() (stepgen.c:79-80); after    *)
(* the self-test no program and no interrupt leaves it again.               *)
EStopStays ==
    [][ /\ EStop /\ ~Decided => EStopStands'
        /\ EStopStands /\ hpc \notin Testing => EStopStands' ]_allVars
=============================================================================
