------------------------------ MODULE StepCore ------------------------------
(***************************************************************************)
(* The hardware-independent core of the STEP generator,                    *)
(* Firmware/Motion/Src/stepgen_core.c: it takes segments off the queue,    *)
(* arms direction reversals and fills halves of the ring with pulses.      *)
(*                                                                         *)
(* stepgen_core_fill_half() is called from the main loop (stepgen_start)   *)
(* and from the ring-boundary interrupt; each caller has a frame with its  *)
(* local variables, and one pass through the loop is one or two steps, so  *)
(* that interrupts of higher priority can come between them.               *)
(* The queue is the one SegmentQueue implements, here a sequence.          *)
(***************************************************************************)
EXTENDS StepTypes

CONSTANT QueueDepth     \* MOTION_SEGMENT_QUEUE_DEPTH

ASSUME QueueDepthAssumption == QueueDepth \in Nat \ {0}

VARIABLES
    ax,             \* stepgen_axis_t of every axis, the step counts apart
    staged,         \* steps_in_half[] of every axis
    posPlanned,     \* pos_planned of every axis
    posOutput,      \* pos_output of every axis
    queue,          \* the segment queue
    pending,        \* seg_pending, <<>> while it is not valid
    segValid, remaining,    \* seg_valid, seg_remaining
    lastSeq,        \* last_seq
    moving,         \* moving
    faults,         \* faults
    fillHalf,       \* fill_half_index
    playHalf,       \* play_half_index
    frame,          \* the calls of stepgen_core_fill_half()
    \* history
    stalled         \* ticks silenced so far behind an armed reversal

positions == <<staged, posPlanned, posOutput>>
segments  == <<queue, pending, segValid, remaining, lastSeq, moving>>
coreVars  == <<ax, positions, segments, faults, fillHalf, playHalf, frame,
               stalled, ring>>

Caller == {"main", "isr"}
AtMostOne == {q \in Seq(Segment) : Len(q) <= 1}

AxisState ==
    [phase : 0 .. PhaseMod - 1, inc : 0 .. RateMax, dirSign : Sign,
     dirLevel : BOOLEAN, dirKnown : BOOLEAN,
     armed : BOOLEAN, armedLevel : BOOLEAN, armedHalf : HalfIx,
     blockUntil : Tick]

(* at: in the loop, or between taking a segment, incoming, and applying it; *)
(* half, index: the arguments; done: the words filled.                      *)
Frame ==
    {f \in [at : {"loop", "apply"}, half : Half, index : HalfIx,
            done : 0 .. HalfTicks, incoming : AtMostOne] :
        f.at = "apply" <=> f.incoming # <<>>}

CoreTypeOK ==
    /\ ring \in [RingIx -> Word]
    /\ ax \in [Axes -> AxisState]
    /\ staged \in [Half -> [Axes -> Int]]
    /\ posPlanned \in [Axes -> Int] /\ posOutput \in [Axes -> Int]
    /\ queue \in Seq(Segment)
    /\ pending \in AtMostOne
    /\ segValid \in BOOLEAN /\ remaining \in 0 .. MaxDuration
    /\ lastSeq \in Nat /\ moving \in BOOLEAN
    /\ faults \subseteq {"BUFFER_UNDERRUN", "SEGMENT_STARVED", "BAD_SEGMENT"}
    /\ fillHalf \in HalfIx /\ playHalf \in HalfIx
    /\ frame \in [Caller -> Frame]
    /\ stalled \in 0 .. 2 * HalfTicks

NoSteps == [h \in Half |-> [a \in Axes |-> 0]]

(* stepgen_core_init() and msq_init(); the DIR level is only assumed. *)
CoreInit ==
    /\ ring = Blank
    /\ ax = [a \in Axes |->
                [phase |-> 0, inc |-> 0, dirSign |-> 0,
                 dirLevel |-> DirInvert[a], dirKnown |-> FALSE,
                 armed |-> FALSE, armedLevel |-> FALSE, armedHalf |-> 0,
                 blockUntil |-> 0]]
    /\ staged = NoSteps
    /\ posPlanned = [a \in Axes |-> 0] /\ posOutput = [a \in Axes |-> 0]
    /\ queue = <<>> /\ pending = <<>>
    /\ segValid = FALSE /\ remaining = 0 /\ lastSeq = 0 /\ moving = FALSE
    /\ faults = {}
    /\ fillHalf = 0 /\ playHalf = 0
    /\ frame = [c \in Caller |-> [at |-> "loop", half |-> 0, index |-> 0,
                                  done |-> HalfTicks, incoming |-> <<>>]]
    /\ stalled = 0

---------------------------------------------------------------------------
(* stepgen_core_rewind(): the half counters start over. *)
Rewound == [a \in Axes |-> [ax[a] EXCEPT !.blockUntil = 0, !.armed = FALSE]]

(* Mutant: the queue is not flushed. *)
CoreAbortNoFlush(bits) ==
    /\ ax' = [a \in Axes |-> [ax[a] EXCEPT !.inc = 0, !.dirSign = 0, !.armed = FALSE]]
    /\ staged' = NoSteps
    /\ segValid' = FALSE /\ pending' = <<>> /\ remaining' = 0 /\ moving' = FALSE
    /\ faults' = faults \cup bits
    /\ ring' = Blank
    /\ stalled' = 0
    /\ UNCHANGED <<queue, posPlanned, posOutput, lastSeq, fillHalf, playHalf, frame>>

(* stepgen_core_abort(): drop the queue, zero all rates, blank the ring. *)
CoreAbort(bits) ==
    /\ ax' = [a \in Axes |-> [ax[a] EXCEPT !.inc = 0, !.dirSign = 0, !.armed = FALSE]]
    /\ staged' = NoSteps
    /\ segValid' = FALSE /\ pending' = <<>> /\ remaining' = 0 /\ moving' = FALSE
    /\ faults' = faults \cup bits
    /\ queue' = <<>>
    /\ ring' = Blank
    /\ stalled' = 0
    /\ UNCHANGED <<posPlanned, posOutput, lastSeq, fillHalf, playHalf, frame>>

(* stepgen_core_take_dir_write(): realise what is armed for half h.  The    *)
(* levels it leaves are the word that goes to the DIR lines.                *)
TakenLate(h) == {a \in Axes : ax[a].armed /\ NextHalf(ax[a].armedHalf) = h}   \* mutant
TakenFor(h) == {a \in Axes : ax[a].armed /\ ax[a].armedHalf = h}
AfterTakeArmed(h) ==        \* mutant: the axis stays armed
    [a \in Axes |->
        IF a \in TakenFor(h)
        THEN [ax[a] EXCEPT !.dirLevel = ax[a].armedLevel, !.dirKnown = TRUE]
        ELSE ax[a]]
AfterTake(h) ==
    [a \in Axes |->
        IF a \in TakenFor(h)
        THEN [ax[a] EXCEPT !.dirLevel = ax[a].armedLevel, !.dirKnown = TRUE,
                           !.armed = FALSE]
        ELSE ax[a]]
DirWord(axes) == [a \in Axes |-> axes[a].dirLevel]

(* stepgen_core_commit_half() *)
CommittedOther(half) == [a \in Axes |-> posOutput[a] + staged[1 - half][a]]  \* mutant
Committed(half) == [a \in Axes |-> posOutput[a] + staged[half][a]]

---------------------------------------------------------------------------
(* Mutant: steps_in_half[] is not cleared. *)
BeginFillAdding(c, half, index) ==
    /\ frame' = [frame EXCEPT ![c] = [at |-> "loop", half |-> half, index |-> index,
                                      done |-> 0, incoming |-> <<>>]]
    /\ fillHalf' = index
    /\ UNCHANGED staged

(* Entry of stepgen_core_fill_half(half, index). *)
BeginFill(c, half, index) ==
    /\ frame' = [frame EXCEPT ![c] = [at |-> "loop", half |-> half, index |-> index,
                                      done |-> 0, incoming |-> <<>>]]
    /\ fillHalf' = index
    /\ staged' = [staged EXCEPT ![half] = [a \in Axes |-> 0]]

Filled(c) == frame[c].at = "loop" /\ frame[c].done = HalfTicks

(* The tick a caller has filled up to, t0 in the code. *)
Now(c) == (HalfStart(frame[c].index) + frame[c].done) % TickMod

NeedsSegment(c) ==
    /\ frame[c].at = "loop" /\ frame[c].done < HalfTicks
    /\ ~segValid \/ remaining = 0

(* next_segment() prefers the segment held back to the queue. *)
QueueFirst == queue \o pending      \* mutant: the segment held back comes last
Candidates == pending \o queue
TakeAgain ==                        \* mutant: seg_pending_valid is not cleared
    /\ pending' = pending
    /\ queue' = IF pending = <<>> THEN Tail(queue) ELSE queue
Take ==
    /\ pending' = <<>>
    /\ queue' = IF pending = <<>> THEN Tail(queue) ELSE queue

(* conflicts_with_armed(): s needs a level other than the one armed. *)
NeverConflicts(s) == FALSE      \* mutant: a second reversal overwrites the first
Conflicts(s) ==
    \E a \in Axes : /\ ax[a].armed
                    /\ s.rate[a] # 0
                    /\ LevelFor(a, s.rate[a]) # ax[a].armedLevel

(* The words a caller still has to fill are idle for every axis. *)
SilenceRest(c) ==
    LET from == frame[c].half * HalfTicks + frame[c].done
        last == frame[c].half * HalfTicks + HalfTicks - 1
    IN  /\ ring' = [i \in RingIx |-> IF i \in from .. last THEN IdleWord ELSE ring[i]]
        /\ frame' = [frame EXCEPT ![c].done = HalfTicks]

(* next_segment() takes a segment that can be applied. *)
FillTake(c) ==
    /\ NeedsSegment(c)
    /\ Candidates # <<>>
    /\ ValidSegment(Head(Candidates)) /\ ~Conflicts(Head(Candidates))
    /\ Take
    /\ frame' = [frame EXCEPT ![c].at = "apply", ![c].incoming = <<Head(Candidates)>>]
    /\ UNCHANGED <<ring, ax, positions, segValid, remaining, lastSeq, moving, faults,
                   fillHalf, playHalf, stalled>>

(* next_segment() holds a segment back behind an armed reversal, or throws  *)
(* away one that does not validate; the rest of the half is silent.         *)
FillHold(c) ==
    /\ NeedsSegment(c)
    /\ Candidates # <<>>
    /\ LET s == Head(Candidates) IN
        /\ ValidSegment(s) => Conflicts(s)
        /\ pending' = IF ValidSegment(s) THEN <<s>> ELSE <<>>
        /\ faults' = IF ValidSegment(s) THEN faults ELSE faults \cup {"BAD_SEGMENT"}
    /\ queue' = IF pending = <<>> THEN Tail(queue) ELSE queue
    /\ SilenceRest(c)
    /\ stalled' = IF stalled + HalfTicks - frame[c].done > 2 * HalfTicks
                  THEN 2 * HalfTicks ELSE stalled + HalfTicks - frame[c].done
    /\ UNCHANGED <<ax, positions, segValid, remaining, lastSeq, moving,
                   fillHalf, playHalf>>

(* next_segment() finds the queue empty: starvation if something moved. *)
FillStarve(c) ==
    /\ NeedsSegment(c)
    /\ Candidates = <<>>
    /\ faults' = IF moving THEN faults \cup {"SEGMENT_STARVED"} ELSE faults
    /\ moving' = FALSE /\ segValid' = FALSE
    /\ ax' = [a \in Axes |-> [ax[a] EXCEPT !.inc = 0, !.dirSign = 0]]
    /\ SilenceRest(c)
    /\ UNCHANGED <<positions, queue, pending, remaining, lastSeq,
                   fillHalf, playHalf, stalled>>

(* apply_segment() for one axis at tick now: the new rate, and a reversal   *)
(* armed if the DIR line is not known to be right already.                  *)
Applied(a, r, now) ==
    LET x      == [ax[a] EXCEPT !.inc = Magnitude(r), !.dirSign = SignOf(r)]
        want   == LevelFor(a, r)
        target == IF now # HalfStart(fillHalf) \/ x.armed THEN NextHalf(fillHalf)
                  ELSE fillHalf
    IN  IF \/ r = 0
           \/ x.dirKnown /\ want = x.dirLevel /\ ~x.armed
           \/ x.armed /\ x.armedLevel = want
        THEN x
        ELSE [x EXCEPT !.armed = TRUE, !.armedLevel = want, !.armedHalf = target,
                       !.blockUntil = (HalfStart(target) + GuardTicks) % TickMod]

(* next_segment() makes the segment it took current. *)
FillApply(c) ==
    /\ frame[c].at = "apply"
    /\ LET s == Head(frame[c].incoming) IN
        /\ remaining' = s.dur
        /\ lastSeq' = s.seq
        /\ ax' = [a \in Axes |-> Applied(a, s.rate[a], Now(c))]
        /\ moving' = \E a \in Axes : s.rate[a] # 0
    /\ segValid' = TRUE
    /\ frame' = [frame EXCEPT ![c].at = "loop", ![c].incoming = <<>>]
    /\ stalled' = 0
    /\ UNCHANGED <<ring, positions, queue, pending, faults, fillHalf, playHalf>>

---------------------------------------------------------------------------
(* An axis may not step before its guard is over. *)
BlockedNever(a, now) == FALSE       \* mutant: no guard
Blocked(a, now)  == ax[a].inc # 0 /\ TickGE(ax[a].blockUntil, (now + 1) % TickMod)
GuardLeft(a, now) == (ax[a].blockUntil - now) % TickMod
Rate(a, now)     == IF Blocked(a, now) THEN 0 ELSE ax[a].inc

(* A run ends with the half, the segment or the first guard to expire. *)
IsRun(c, k) ==
    LET cuts == {HalfTicks - frame[c].done, remaining}
                  \cup {GuardLeft(a, Now(c)) : a \in {b \in Axes : Blocked(b, Now(c))}}
    IN  k \in cuts /\ \A cut \in cuts : k <= cut

(* emit_run(), as DdaEmit shows it to work: word j of a run of rate i       *)
(* started at phase p steps when the accumulator wraps there, and the run   *)
(* makes ClosedForm steps in all.                                           *)
StepsAtEqual(p, i, j) == (p + i * (j + 1)) % PhaseMod <= i      \* mutant: q <= inc
StepsAt(p, i, j)    == (p + i * (j + 1)) % PhaseMod < i
ClosedForm(p, i, k) == (p + i * k) \div PhaseMod
Forward(a)          == IF ax[a].dirSign < 0 THEN -1 ELSE 1

EmitRun(c, k) ==
    LET now     == Now(c)
        from    == frame[c].half * HalfTicks + frame[c].done
        gain(a) == Forward(a) * ClosedForm(ax[a].phase, Rate(a, now), k)
    IN  /\ ring' = [i \in RingIx |->
                      IF i \in from .. from + k - 1
                      THEN [a \in Axes |->
                              IF StepsAt(ax[a].phase, Rate(a, now), i - from)
                              THEN Forward(a) ELSE 0]
                      ELSE ring[i]]
        /\ ax' = [a \in Axes |->
                    [ax[a] EXCEPT !.phase = (ax[a].phase + Rate(a, now) * k) % PhaseMod]]
        /\ staged' = [staged EXCEPT ![frame[c].half] =
                        [a \in Axes |-> staged[frame[c].half][a] + gain(a)]]
        /\ posPlanned' = [a \in Axes |-> posPlanned[a] + gain(a)]
        /\ remaining' = remaining - k
        /\ frame' = [frame EXCEPT ![c].done = @ + k]

(* One run: the words up to the next cut, in one step.  An E-STOP comes     *)
(* before a run or after it; the words a run it cuts into would still write *)
(* are left out.                                                            *)
FillEmit(c) ==
    /\ frame[c].at = "loop" /\ frame[c].done < HalfTicks
    /\ segValid /\ remaining > 0
    /\ \E k \in 1 .. HalfTicks : IsRun(c, k) /\ EmitRun(c, k)
    /\ UNCHANGED <<posOutput, queue, pending, segValid, lastSeq, moving, faults,
                   fillHalf, playHalf, stalled>>

FillStep(c) ==
    \/ FillTake(c) \/ FillHold(c) \/ FillStarve(c) \/ FillApply(c) \/ FillEmit(c)
=============================================================================
