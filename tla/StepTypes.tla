------------------------------ MODULE StepTypes ------------------------------
(***************************************************************************)
(* The vocabulary of the STEP generator: its configuration                 *)
(* (Firmware/Core/Inc/cnc_motion_config.h), its motion segments            *)
(* (Firmware/Motion/Inc/motion_types.h) and the ring of GPIO words that    *)
(* the engine fills and the DMA plays.                                     *)
(*                                                                         *)
(* A word of the ring holds, for every axis, the step it was planned to    *)
(* make: 0, or the sign of the motion.  The BSRR word of the code has only *)
(* the STEP bit, nonzero here; the sign is kept to state what the motor    *)
(* was meant to do.                                                        *)
(***************************************************************************)
EXTENDS Integers, Sequences, FiniteSetsExt

CONSTANTS
    Axes,           \* the axes, X Y Z A B in the code
    HalfTicks,      \* STEPGEN_HALF_TICKS: words in one half of the ring
    GuardTicks,     \* STEPGEN_DIR_GUARD_TICKS: silent words before a new direction
    RateMax,        \* STEPGEN_RATE_MAX_Q32, half of the phase accumulator
    HalfMod,        \* where the logical half indices wrap
    TickMod,        \* where the absolute tick numbers wrap, 2^32 in the code
    DirInvert,      \* per axis: positive motion is the LOW level
    MaxDuration,    \* bound: longest segment
    MaxSegments     \* bound: segments submitted in a behaviour

ASSUME HalfTicksAssumption == HalfTicks \in Nat \ {0}
ASSUME GuardAssumption == GuardTicks \in Nat /\ GuardTicks < HalfTicks
ASSUME RateAssumption == RateMax \in Nat \ {0}
ASSUME WrapAssumption ==
    /\ HalfMod \in Nat \ {0} /\ TickMod \in Nat \ {0}
    /\ (HalfMod * HalfTicks) % TickMod = 0
ASSUME InvertAssumption == DirInvert \in [Axes -> BOOLEAN]
ASSUME BoundAssumption == MaxDuration \in Nat /\ MaxSegments \in Nat

VARIABLE ring       \* g_step_buf

Half     == {0, 1}                      \* the physical halves
HalfIx   == 0 .. HalfMod - 1            \* logical half indices
Tick     == 0 .. TickMod - 1            \* absolute ticks
RingIx   == 0 .. 2 * HalfTicks - 1
PhaseMod == 2 * RateMax
Sign     == {-1, 0, 1}

Word     == [Axes -> Sign]
IdleWord == [a \in Axes |-> 0]
Blank    == [i \in RingIx |-> IdleWord]     \* stepgen_core_blank()

(* A motion segment: duration_ticks, rate[], seq.  This is what a segment   *)
(* that passed stepgen_core_validate_segment() looks like.                  *)
Segment == [dur : 1 .. MaxDuration, rate : [Axes -> -RateMax .. RateMax], seq : Nat]

(* stepgen_core_validate_segment() *)
ValidSegment(s) ==
    /\ s.dur # 0
    /\ \A a \in Axes : s.rate[a] <= RateMax /\ s.rate[a] >= -RateMax

(* The successor of a half index, the first tick of a half, and the         *)
(* wrap-safe comparison of tick_ge().                                       *)
NextHalf(h)  == (h + 1) % HalfMod
HalfStart(h) == (h * HalfTicks) % TickMod
TickGE(s, t) == (s - t) % TickMod < TickMod \div 2

SignedMagnitude(r) == r          \* mutant: no absolute value
Magnitude(r) == IF r < 0 THEN -r ELSE r
SignOf(r)    == IF r > 0 THEN 1 ELSE IF r < 0 THEN -1 ELSE 0

(* The DIR level of a motion, and the motion a DIR level produces. *)
LevelUninverted(a, r) == r > 0      \* mutant: dir_invert ignored
LevelFor(a, r)  == IF DirInvert[a] THEN r < 0 ELSE r > 0
MotionOf(a, lv) == IF lv # DirInvert[a] THEN 1 ELSE -1

(* The steps of one axis in the first n words of a half of the ring. *)
StepsIn(words, a, half, n) ==
    LET sum[i \in 0 .. HalfTicks] ==
            IF i = 0 THEN 0 ELSE sum[i - 1] + words[half * HalfTicks + i - 1][a]
    IN  sum[n]
=============================================================================
