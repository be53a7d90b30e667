------------------------------- MODULE Stepgen -------------------------------
(***************************************************************************)
(* The STEP generator: the facade of Firmware/Motion/Src/stepgen.c over    *)
(* the core (StepCore) and the port (StepPort), and the three contexts     *)
(* that run it on one processor.                                           *)
(*                                                                         *)
(*   the main loop      calls the lifecycle functions, one at a time       *)
(*   the DMA interrupt  (priority 2) stepgen_dma_isr() and, under it,      *)
(*                      stepgen_on_boundary() or stepgen_on_overrun()      *)
(*   the E-STOP         (priority 0) stepgen_emergency_stop()              *)
(*                                                                         *)
(* A context runs only while no higher one has work, and is preempted      *)
(* between any two steps; the DMA plays words next to all of them.  The    *)
(* E-STOP runs to completion, so it is a single step.  g_state is written  *)
(* by all three, and every test of it and every assignment to it is a step *)
(* of its own.                                                             *)
(***************************************************************************)
EXTENDS StepCore, StepPort

CONSTANTS
    Kinds,          \* the segments the host may submit: duration and rates
    Calls,          \* the optional calls the environment makes
    EStopCuts,      \* what the E-STOP may cut into: "main" calls, the "isr"
    MaxDirLag,      \* words of a half that may be out before its DIR write
    MaxFillLag      \* words of a half that may be out before the refill is done

ASSUME CallsAssumption == Calls \subseteq {"stop", "clear", "estop"}
ASSUME EStopAssumption == EStopCuts \subseteq {"main", "isr"}
ASSUME LagAssumption == MaxDirLag \in Nat /\ MaxFillLag \in Nat
ASSUME KindsAssumption == \A kind \in Kinds :
    kind.dur \in 0 .. MaxDuration /\ kind.rate \in [Axes -> Int]

VARIABLES
    state,      \* g_state
    ready,      \* g_half_ready[]
    mpc,        \* where the main loop is in its call
    ipc,        \* where the DMA interrupt is
    \* history
    sent,       \* segments accepted by the queue
    dropped,    \* the last of them accepted when the core was last aborted
    origin      \* motor position less pos_output when the timebase was started

facade  == <<state, ready>>
history == <<sent, dropped, origin>>
vars == <<coreVars, portVars, facade, mpc, ipc, history>>

MainPC == {"idle", "enable", "enabled",                     \* stepgen_enable_drives
           "fill0", "fill1", "run", "port",                 \* stepgen_start
           "abort", "stop", "stopped",                             \* stepgen_stop
           "demote", "recheck", "clear", "cleared",         \* the two clears
           "push"}                                          \* stepgen_submit_segment
IsrPC == {"idle", "play", "refill", "fill", "fault", "faulted"}
States == {"SAFE_IDLE", "READY", "RUNNING", "FAULT", "EMERGENCY_STOP"}

TypeOK ==
    /\ CoreTypeOK /\ PortTypeOK
    /\ state \in States
    /\ ready \in [Half -> BOOLEAN]
    /\ mpc \in MainPC /\ ipc \in IsrPC
    /\ sent \in Nat /\ dropped \in Nat
    /\ origin \in [Axes -> Int]

(* The state stepgen_init() leaves when the port initialises, as at boot. *)
Init ==
    /\ CoreInit /\ PortInit
    /\ state = "SAFE_IDLE"
    /\ ready = [h \in Half |-> TRUE]
    /\ mpc = "idle" /\ ipc = "idle"
    /\ sent = 0 /\ dropped = 0 /\ origin = [a \in Axes |-> 0]

IsrIdle  == ipc = "idle" /\ flags = {}
MainRuns == IsrIdle
MainAt(at) == MainRuns /\ mpc = at

---------------------------------------------------------------------------
(* Mutant: no test of the state. *)
EnableCheckAny ==
    /\ MainAt("idle")
    /\ mpc' = "enable"
    /\ UNCHANGED <<coreVars, portVars, facade, ipc, history>>

(* stepgen_enable_drives() *)
EnableCheck ==
    /\ MainAt("idle") /\ state = "SAFE_IDLE"
    /\ mpc' = "enable"
    /\ UNCHANGED <<coreVars, portVars, facade, ipc, history>>

EnableDrives ==
    /\ MainAt("enable")
    /\ enable' = TRUE
    /\ mpc' = "enabled"
    /\ UNCHANGED <<coreVars, dma, pin, motion, facade, ipc, history>>

EnableReady ==
    /\ MainAt("enabled")
    /\ state' = "READY"
    /\ mpc' = "idle"
    /\ UNCHANGED <<coreVars, portVars, ready, ipc, history>>

(* stepgen_start(): rewind, fill logical halves 0 and 1, *)
StartFill0 ==
    /\ MainAt("idle") /\ state = "READY"
    /\ ax' = Rewound
    /\ playHalf' = 0 /\ fillHalf' = 0
    /\ staged' = NoSteps
    /\ frame' = [frame EXCEPT !["main"] =
                   [at |-> "loop", half |-> 0, index |-> 0, done |-> 0, incoming |-> <<>>]]
    /\ mpc' = "fill0"
    /\ UNCHANGED <<ring, posPlanned, posOutput, segments, faults, stalled,
                   portVars, facade, ipc, history>>

StartFill1 ==
    /\ MainAt("fill0") /\ Filled("main")
    /\ BeginFill("main", 1, NextHalf(0))
    /\ mpc' = "fill1"
    /\ UNCHANGED <<ax, ring, posPlanned, posOutput, segments, faults, playHalf, stalled,
                   portVars, facade, ipc, history>>

(* Mutant: the boundary interrupt is left to write the DIR lines. *)
StartDirUnwritten ==
    /\ MainAt("fill1") /\ Filled("main")
    /\ ax' = AfterTake(0)
    /\ playHalf' = 0
    /\ ready' = [h \in Half |-> TRUE]
    /\ mpc' = "run"
    /\ UNCHANGED <<portVars, ring, positions, segments, faults, fillHalf, frame, stalled,
                   state, ipc, history>>

(* write the DIR lines of half 0 before it plays, *)
StartDir ==
    /\ MainAt("fill1") /\ Filled("main")
    /\ ax' = AfterTake(0)
    /\ IF TakenFor(0) # {} THEN PortWriteDir(DirWord(AfterTake(0))) ELSE UNCHANGED portVars
    /\ playHalf' = 0
    /\ ready' = [h \in Half |-> TRUE]
    /\ mpc' = "run"
    /\ UNCHANGED <<ring, positions, segments, faults, fillHalf, frame, stalled,
                   state, ipc, history>>

(* and start the timebase. *)
StartRun ==
    /\ MainAt("run")
    /\ state' = "RUNNING"
    /\ mpc' = "port"
    /\ UNCHANGED <<coreVars, portVars, ready, ipc, history>>

StartPort ==
    /\ MainAt("port")
    /\ PortStart
    /\ origin' = [a \in Axes |-> motor[a] - posOutput[a]]
    /\ mpc' = "idle"
    /\ UNCHANGED <<coreVars, facade, ipc, sent, dropped>>

(* stepgen_stop(): the port, then the core, then the state. *)
Stop ==
    /\ "stop" \in Calls
    /\ MainAt("idle")
    /\ PortStop
    /\ mpc' = "abort"
    /\ UNCHANGED <<coreVars, facade, ipc, history>>

StopAbort ==
    /\ MainAt("abort")
    /\ CoreAbort({})
    /\ mpc' = "stop"
    /\ dropped' = sent
    /\ UNCHANGED <<portVars, facade, ipc, sent, origin>>

(* Mutant: READY from any state. *)
StopCheckAny ==
    /\ MainAt("stop")
    /\ mpc' = "stopped"
    /\ UNCHANGED <<coreVars, portVars, facade, ipc, history>>

StopCheck ==
    /\ MainAt("stop")
    /\ mpc' = IF state = "RUNNING" THEN "stopped" ELSE "idle"
    /\ UNCHANGED <<coreVars, portVars, facade, ipc, history>>

StopReady ==
    /\ MainAt("stopped")
    /\ state' = "READY"
    /\ mpc' = "idle"
    /\ UNCHANGED <<coreVars, portVars, ready, ipc, history>>

(* stepgen_clear_emergency_stop(): demote to FAULT, then clear that. *)
ClearEStopCheck ==
    /\ "clear" \in Calls
    /\ MainAt("idle") /\ state = "EMERGENCY_STOP"
    /\ mpc' = "demote"
    /\ UNCHANGED <<coreVars, portVars, facade, ipc, history>>

ClearEStopDemote ==
    /\ MainAt("demote")
    /\ state' = "FAULT"
    /\ mpc' = "recheck"
    /\ UNCHANGED <<coreVars, portVars, ready, ipc, history>>

(* Mutant: the generic clear accepts the E-STOP too. *)
ClearCheckAny ==
    /\ "clear" \in Calls
    /\ MainAt("recheck") \/ (MainAt("idle") /\ state \in {"FAULT", "EMERGENCY_STOP"})
    /\ mpc' = IF state \in {"FAULT", "EMERGENCY_STOP"} THEN "clear" ELSE "idle"
    /\ UNCHANGED <<coreVars, portVars, facade, ipc, history>>

(* stepgen_clear_fault() *)
ClearCheck ==
    /\ "clear" \in Calls
    /\ MainAt("recheck") \/ (MainAt("idle") /\ state = "FAULT")
    /\ mpc' = IF state = "FAULT" THEN "clear" ELSE "idle"
    /\ UNCHANGED <<coreVars, portVars, facade, ipc, history>>

ClearRewind ==
    /\ MainAt("clear")
    /\ faults' = {}
    /\ ring' = Blank
    /\ ax' = Rewound
    /\ staged' = NoSteps
    /\ fillHalf' = 0 /\ playHalf' = 0
    /\ ready' = [h \in Half |-> TRUE]
    /\ enable' = FALSE
    /\ mpc' = "cleared"
    /\ UNCHANGED <<posPlanned, posOutput, segments, frame, stalled, dma, pin,
                   motion, state, ipc, history>>

ClearIdle ==
    /\ MainAt("cleared")
    /\ state' = "SAFE_IDLE"
    /\ mpc' = "idle"
    /\ UNCHANGED <<coreVars, portVars, ready, ipc, history>>

(* stepgen_submit_segment(): the state is tested first, the push comes later. *)
SubmitCheck ==
    /\ MainAt("idle") /\ state \in {"READY", "RUNNING"}
    /\ sent < MaxSegments
    /\ mpc' = "push"
    /\ UNCHANGED <<coreVars, portVars, facade, ipc, history>>

SubmitPush ==
    /\ MainAt("push")
    /\ Len(queue) < QueueDepth
    /\ \E kind \in Kinds :
        /\ ValidSegment(kind)
        /\ queue' = Append(queue, [dur |-> kind.dur, rate |-> kind.rate, seq |-> sent + 1])
    /\ sent' = sent + 1
    /\ mpc' = "idle"
    /\ UNCHANGED <<ax, ring, positions, pending, segValid, remaining, lastSeq, moving,
                   faults, fillHalf, playHalf, frame, stalled, portVars, facade, ipc,
                   dropped, origin>>

SubmitRefused ==
    /\ MainAt("push")
    /\ \/ Len(queue) >= QueueDepth
       \/ \E kind \in Kinds : ~ValidSegment(kind)
    /\ mpc' = "idle"
    /\ UNCHANGED <<coreVars, portVars, facade, ipc, history>>

---------------------------------------------------------------------------
(* stepgen_dma_isr(): both flags pending, or an error, is a missed refill;  *)
(* the port is stopped, the core aborted and FAULT entered.  The code's     *)
(* third case, entered with no flag, does not arise: only this interrupt    *)
(* and a start of the port clear flags, and it preempts the start.          *)
Missed == "ERR" \in flags \/ {"HT", "TC"} \subseteq flags

IsrOverrun ==
    /\ ipc = "idle" /\ Missed
    /\ running' = FALSE /\ enable' = FALSE /\ flags' = FlagsOfStop
    /\ CoreAbort({"BUFFER_UNDERRUN"})
    /\ ipc' = "fault"
    /\ dropped' = sent
    /\ UNCHANGED <<idx, pin, motion, facade, mpc, sent, origin>>

(* One flag: the half it names has been played. *)
IsrBoundary ==
    /\ ipc = "idle" /\ flags # {} /\ ~Missed
    /\ flags' = {}
    /\ frame' = [frame EXCEPT !["isr"].half = IF "HT" \in flags THEN 0 ELSE 1]
    /\ ipc' = "play"
    /\ UNCHANGED <<ax, ring, positions, segments, faults, fillHalf, playHalf, stalled,
                   running, idx, enable, pin, motion, facade, mpc, history>>

(* stepgen_on_boundary(): first the DIR lines of the half now playing, *)
IsrPlay ==
    /\ ipc = "play"
    /\ LET playing == NextHalf(playHalf) IN
        /\ ax' = AfterTake(playing)
        /\ IF TakenFor(playing) # {} THEN PortWriteDir(DirWord(AfterTake(playing)))
           ELSE UNCHANGED portVars
        /\ playHalf' = playing
    /\ ready' = [ready EXCEPT ![frame["isr"].half] = FALSE]
    /\ ipc' = "refill"
    /\ UNCHANGED <<ring, positions, segments, faults, fillHalf, frame, stalled,
                   state, mpc, history>>

(* then the check that this half was filled, the commit of the half that    *)
(* was played and its refill as the half after next.                        *)
IsrRefill ==
    /\ ipc = "refill"
    /\ LET half == frame["isr"].half IN
        IF ready[1 - half]
        THEN /\ posOutput' = Committed(half)
             /\ BeginFill("isr", half, NextHalf(playHalf))
             /\ ipc' = "fill"
             /\ UNCHANGED <<ax, ring, posPlanned, segments, faults, playHalf, stalled,
                            portVars, dropped>>
        ELSE /\ PortEmergencyStop
             /\ CoreAbort({"BUFFER_UNDERRUN"})
             /\ dropped' = sent
             /\ ipc' = "fault"
    /\ UNCHANGED <<facade, mpc, sent, origin>>

IsrDone ==
    /\ ipc = "fill" /\ Filled("isr")
    /\ ready' = [ready EXCEPT ![frame["isr"].half] = TRUE]
    /\ ipc' = "idle"
    /\ UNCHANGED <<coreVars, portVars, state, mpc, history>>

(* Mutant: FAULT whatever the state. *)
IsrFaultAlways ==
    /\ ipc = "fault"
    /\ ipc' = "faulted"
    /\ UNCHANGED <<coreVars, portVars, facade, mpc, history>>

(* enter_fault(), after the abort: FAULT unless the E-STOP is latched. *)
IsrFaultCheck ==
    /\ ipc = "fault"
    /\ ipc' = IF state # "EMERGENCY_STOP" THEN "faulted" ELSE "idle"
    /\ UNCHANGED <<coreVars, portVars, facade, mpc, history>>

IsrFault ==
    /\ ipc = "faulted"
    /\ state' = "FAULT"
    /\ ipc' = "idle"
    /\ UNCHANGED <<coreVars, portVars, ready, mpc, history>>

---------------------------------------------------------------------------
(* stepgen_emergency_stop() *)
EStop ==
    /\ "estop" \in Calls
    /\ mpc = "idle" \/ "main" \in EStopCuts
    /\ ipc = "idle" \/ "isr" \in EStopCuts
    /\ PortEmergencyStop
    /\ state' = "EMERGENCY_STOP"
    /\ CoreAbort({})
    /\ dropped' = sent
    /\ UNCHANGED <<ready, mpc, ipc, sent, origin>>

(* The fill loops, in the interrupt and in stepgen_start(). *)
IsrFillStep  == ipc = "fill" /\ FillStep("isr") /\ UNCHANGED <<portVars, facade, mpc,
                                                               ipc, history>>
MainFillStep ==
    /\ MainAt("fill0") \/ MainAt("fill1")
    /\ FillStep("main")
    /\ UNCHANGED <<portVars, facade, mpc, ipc, history>>

(* How late the interrupt may be with the DIR write and with the refill. *)
InTime ==
    /\ flags # {} \/ ipc = "play" => Played < MaxDirLag
    /\ ~IsrIdle => Played < MaxFillLag

DmaTick  == InTime /\ PlayWord /\ UNCHANGED <<coreVars, facade, mpc, ipc, history>>
DmaFails == DmaError /\ UNCHANGED <<coreVars, facade, mpc, ipc, history>>

Main ==
    \/ EnableCheck \/ EnableDrives \/ EnableReady
    \/ StartFill0 \/ StartFill1 \/ StartDir \/ StartRun \/ StartPort \/ MainFillStep
    \/ Stop \/ StopAbort \/ StopCheck \/ StopReady
    \/ ClearEStopCheck \/ ClearEStopDemote \/ ClearCheck \/ ClearRewind \/ ClearIdle
    \/ SubmitCheck \/ SubmitPush \/ SubmitRefused

Isr ==
    \/ IsrOverrun \/ IsrBoundary \/ IsrPlay \/ IsrRefill \/ IsrFillStep \/ IsrDone
    \/ IsrFaultCheck \/ IsrFault

Next == Main \/ Isr \/ EStop \/ DmaTick \/ DmaFails

Spec == Init /\ [][Next]_vars

(* The interrupt is served and the timer counts; what the host has begun,   *)
(* the processor carries on with.  Nothing obliges the host to call.        *)
MainGoesOn ==
    \/ EnableDrives \/ EnableReady
    \/ StartFill1 \/ StartDir \/ StartRun \/ StartPort \/ MainFillStep
    \/ StopAbort \/ StopCheck \/ StopReady
    \/ ClearEStopDemote \/ ClearRewind \/ ClearIdle
    \/ SubmitPush \/ SubmitRefused
FairSpec == Spec /\ WF_vars(Isr) /\ WF_vars(DmaTick) /\ WF_vars(MainGoesOn)
=============================================================================
