----------------------------- MODULE StepgenProps -----------------------------
(***************************************************************************)
(* What the STEP generator promises: to the drives, to the host that       *)
(* streams segments to it, and to the operator who stops it.               *)
(***************************************************************************)
EXTENDS Stepgen

(* No call and no interrupt is under way. *)
Quiet == IsrIdle /\ mpc = "idle"

Next2(h) == NextHalf(NextHalf(h))

---------------------------------------------------------------------------
(* To the drives.                                                           *)

(* Every STEP edge the DMA puts out finds its DIR line set up for long      *)
(* enough, follows a low tick, and moves the motor by one: the engine with  *)
(* its port implements DriverInputs (ADR-006 and the pulse shape of         *)
(* emit_run()).                                                             *)
Drives == INSTANCE DriverInputs WITH
    Positive <- [a \in Axes |-> ~DirInvert[a]], Setup <- GuardTicks - MaxDirLag,
    Far <- FarPast, dir <- pin, position <- motor,
    sinceTurn <- sinceDir, sincePulse <- sinceStep
ImplementsDriverInputs == Drives!Spec

(* The word the DMA fetches next was planned for the level its DIR line has *)
(* now: no pulse planned in one direction leaves in the other, although the *)
(* ring is filled a half or two before the line is written                  *)
(* (stepgen_core_fill_half(), stepgen_core_take_dir_write()).               *)
CommandedDirection ==
    running /\ InTime =>
        \A a \in Axes : ring[idx][a] # 0 => MotionOf(a, pin[a]) = ring[idx][a]

(* While the timebase runs, the motors are where pos_output and the words   *)
(* already out of the current half say (stepgen_core_commit_half()): no     *)
(* step is counted twice, forgotten, or counted for the wrong half.         *)
PositionFidelity ==
    running /\ IsrIdle =>
        \A a \in Axes :
            motor[a] = origin[a] + posOutput[a]
                       + StepsIn(ring, a, idx \div HalfTicks, Played)

(* The counters of the two sides of the ring agree: what was planned and is *)
(* not yet in pos_output is staged in one of the two halves.                *)
PlannedIsStaged ==
    running /\ IsrIdle =>
        \A a \in Axes : posPlanned[a] = posOutput[a] + staged[0][a] + staged[1][a]

---------------------------------------------------------------------------
(* To the host.                                                             *)

InFlight == frame["main"].incoming \o frame["isr"].incoming \o pending \o queue

(* Segments leave in the order of submission and none disappears: the one   *)
(* applied last, the one taken, the one held back by a reversal and the     *)
(* queue are consecutive (next_segment()).                                  *)
NoneLost ==
    /\ lastSeq + Len(InFlight) = sent
    /\ \A i \in 1 .. Len(InFlight) : InFlight[i].seq = lastSeq + i

(* An armed reversal is for the half that plays next or the one after it:   *)
(* the boundary that writes its DIR line is still to come.  One armed for a *)
(* half that has passed would hold every later segment back for good.       *)
ReversalReachable ==
    running /\ IsrIdle =>
        \A a \in Axes : ax[a].armed => ax[a].armedHalf \in {NextHalf(playHalf), Next2(playHalf)}

(* The segment behind an armed reversal is held for less than a whole ring; *)
(* one half-period, as stepgen_core.c:294-295 has it, is not always enough. *)
StallWithinRing == stalled < 2 * HalfTicks

---------------------------------------------------------------------------
(* To the operator.                                                         *)

(* Between calls, drives and timebase agree with the state: energised       *)
(* exactly in READY and RUNNING, playing exactly in RUNNING.                *)
DrivesMatchState ==
    Quiet => /\ enable <=> state \in {"READY", "RUNNING"}
             /\ running <=> state = "RUNNING"

(* SAFE_IDLE, however it was reached, holds nothing that would move a motor *)
(* at the next start, but for a segment that was on its way into the queue. *)
SafeIdleClean ==
    Quiet /\ state = "SAFE_IDLE" =>
        /\ ring = Blank /\ staged = NoSteps
        /\ ~segValid /\ pending = <<>> /\ frame["isr"].incoming = <<>>
        /\ Len(queue) <= 1
        /\ \A a \in Axes : ~ax[a].armed /\ ax[a].inc = 0

(* FAULT ends only by a clear, never by start, stop, enable or an interrupt *)
(* (ADR-010: recovery is never automatic).                                  *)
FaultLatched ==
    [][state = "FAULT" /\ state' # "FAULT" => mpc = "cleared" \/ state' = "EMERGENCY_STOP"]_vars

(* A call, or the fault path, has tested g_state and has still to act on    *)
(* the drives or the timebase, or to assign the state.                      *)
Decided ==
    \/ mpc \in {"enable", "enabled", "fill0", "fill1", "run", "port", "stopped",
                "clear", "cleared"}
    \/ ipc = "faulted"

(* The E-STOP is latched and nothing under way undoes it. *)
EStopStands == state = "EMERGENCY_STOP" /\ ~enable /\ ~running /\ ~Decided

(* An E-STOP latches, with timebase and drives off, and is left only by     *)
(* stepgen_clear_emergency_stop(), unless it strikes where a call or the    *)
(* fault path has Decided: its assignment, as FAULT at stepgen.c:80 after   *)
(* the test at 79, then replaces EMERGENCY_STOP.  Those points, and no      *)
(* others, keep it from being the "Interrupt-safe latching emergency stop"  *)
(* of stepgen.h:52.                                                         *)
EStopLatched ==
    [][ /\ EStop /\ ~Decided => EStopStands'
        /\ EStopStands /\ ~EStopStands' => mpc = "demote" /\ state' = "FAULT" ]_vars

(* An abort is final: no segment accepted before it is applied after it     *)
(* ("Immediate stop: drop the queue", stepgen_core.h:125).                  *)
AbortIsFinal ==
    [][lastSeq' # lastSeq => lastSeq' > dropped]_vars

(* Once the E-STOP is latched the timebase stands and the drives are off.   *)
EStopIsSafe == state = "EMERGENCY_STOP" => ~running /\ ~enable
---------------------------------------------------------------------------
(* What a comment or a document says and the code does not keep; each is    *)
(* checked alone and found violated (see the README).                       *)

(* tick_ge() is wrap-safe (stepgen_core.c:31): a guard that silences an     *)
(* axis ends within a ring and its gap.  One that ended half the tick range *)
(* ago counts as still to come.                                             *)
GuardIsAhead ==
    \A c \in Caller : \A a \in Axes :
        frame[c].done < HalfTicks /\ Blocked(a, Now(c)) =>
            GuardLeft(a, Now(c)) <= 2 * HalfTicks + GuardTicks

(* pos_output counts the steps the DMA has emitted (stepgen_core.h:51) and  *)
(* agrees exactly with the edges (HARDWARE-VALIDATION.md:167-168).  A stop  *)
(* in mid-half forgets the part of the half already played.                 *)
OutputIsMotor ==
    Quiet /\ ~running => \A a \in Axes : motor[a] = posOutput[a]

=============================================================================
