------------------------------ MODULE DdaEmit ------------------------------
(***************************************************************************)
(* The STEP pulse synthesis of one axis: emit_run() of                     *)
(* Firmware/Motion/Src/stepgen_core.c, one iteration of its loop at a time.*)
(*                                                                         *)
(* An axis is a phase accumulator of PhaseMod units (2^32 in the code).    *)
(* Each tick adds the effective rate of the run; a wrap of the accumulator *)
(* raises the axis's STEP bit in that tick's BSRR word.  The loop does not *)
(* count the steps it emits: the count is taken afterwards, in closed      *)
(* form, from the phase at the start of the run.  The caller chooses the   *)
(* rate and length of every run; a run is cut by the end of a segment, of  *)
(* a half or of a DIR guard, and nothing relates one run to the next but   *)
(* the accumulator.                                                        *)
(***************************************************************************)
EXTENDS Integers

CONSTANTS
    RateMax,    \* STEPGEN_RATE_MAX_Q32, the largest rate: half the accumulator
    MaxRun,     \* longest run, one half of the ring
    MaxTicks    \* bound of the exploration: ticks emitted in a behaviour

ASSUME RateMaxAssumption == RateMax \in Nat \ {0}
ASSUME MaxRunAssumption == MaxRun \in Nat \ {0}
ASSUME MaxTicksAssumption == MaxTicks \in Nat

PhaseMod == 2 * RateMax

VARIABLES
    phase,      \* ax->phase
    eff,        \* eff[a]: the rate of the run, 0 while the axis is silenced
    sign,       \* ax->dir_sign
    n,          \* length of the run
    k,          \* the loop index
    s0,         \* phase at the start of the run
    busy,       \* inside emit_run()
    bit,        \* the STEP bit of the last word written
    prevBit,    \* and of the word before it
    pos,        \* ax->pos_planned
    \* history
    carries,    \* STEP bits written in this run
    pulses,     \* STEP bits written since boot
    travel,     \* sum of the effective rate over all ticks since boot
    walked,     \* STEP bits written since boot, signed by the direction
    ticks       \* ticks emitted since boot

run  == <<eff, sign, n, s0>>
hist == <<carries, pulses, travel, walked, ticks>>
vars == <<phase, run, k, busy, bit, prevBit, pos, hist>>

TypeOK ==
    /\ phase \in 0 .. PhaseMod - 1
    /\ eff \in 0 .. RateMax
    /\ sign \in {-1, 0, 1}
    /\ n \in 0 .. MaxRun
    /\ k \in 0 .. MaxRun
    /\ k <= n
    /\ s0 \in 0 .. PhaseMod - 1
    /\ busy \in BOOLEAN
    /\ bit \in BOOLEAN
    /\ prevBit \in BOOLEAN
    /\ pos \in Int
    /\ carries \in Nat
    /\ pulses \in Nat
    /\ travel \in Nat
    /\ walked \in Int
    /\ ticks \in Nat

Init ==
    /\ phase = 0 /\ eff = 0 /\ sign = 0 /\ n = 0 /\ k = 0 /\ s0 = 0
    /\ busy = FALSE /\ bit = FALSE /\ prevBit = FALSE /\ pos = 0
    /\ carries = 0 /\ pulses = 0 /\ travel = 0 /\ walked = 0 /\ ticks = 0

---------------------------------------------------------------------------
(* Mutants: no wrap; a wrap that drops the remainder. *)
AccumulateWide(p, i)  == p + i
AccumulateReset(p, i) == IF p + i >= PhaseMod THEN 0 ELSE p + i

(* q = p + i in 32 bits, and the carry out of it, which is q < p. *)
Accumulate(p, i) == IF p + i >= PhaseMod THEN p + i - PhaseMod ELSE p + i
CarryAtEqual(p, i) == Accumulate(p, i) <= p     \* mutant: q <= p
Carry(p, i) == Accumulate(p, i) < p

(* Mutant: the phase at the start is left out. *)
ClosedFormOfRun(p, i, len) == (i * len) \div PhaseMod

(* The high word of phase_at_start + inc * n. *)
ClosedForm(p, i, len) == (p + i * len) \div PhaseMod

Signed(steps, dir) == IF dir < 0 THEN -steps ELSE steps

(* emit_run() is entered with a rate the segment validation let through and *)
(* the sign apply_segment() derived from it; a sign of 0 means rate 0.      *)
BeginRun(rate, dir, len) ==
    /\ ~busy
    /\ ticks + len <= MaxTicks
    /\ dir = 0 => rate = 0
    /\ busy' = TRUE
    /\ eff' = rate /\ sign' = dir /\ n' = len /\ s0' = phase
    /\ k' = 0 /\ carries' = 0
    /\ UNCHANGED <<phase, bit, prevBit, pos, pulses, travel, walked, ticks>>

(* One iteration of the loop: one word of the ring. *)
EmitWord ==
    /\ busy /\ k < n
    /\ phase' = Accumulate(phase, eff)
    /\ bit' = Carry(phase, eff)
    /\ prevBit' = bit
    /\ k' = k + 1
    /\ carries' = IF Carry(phase, eff) THEN carries + 1 ELSE carries
    /\ pulses' = IF Carry(phase, eff) THEN pulses + 1 ELSE pulses
    /\ travel' = travel + eff
    /\ walked' = IF Carry(phase, eff) THEN walked + Signed(1, sign) ELSE walked
    /\ ticks' = ticks + 1
    /\ UNCHANGED <<run, busy, pos>>

(* After the loop: the step count in closed form, signed, into the position. *)
EndRun ==
    /\ busy /\ k = n
    /\ busy' = FALSE
    /\ pos' = pos + Signed(ClosedForm(s0, eff, n), sign)
    /\ UNCHANGED <<phase, run, k, bit, prevBit, hist>>

Next ==
    \/ \E rate \in 0 .. RateMax, dir \in {-1, 0, 1}, len \in 1 .. MaxRun :
          BeginRun(rate, dir, len)
    \/ EmitWord
    \/ EndRun

Spec == Init /\ [][Next]_vars

---------------------------------------------------------------------------
(* Two words in a row never both carry a STEP edge, whatever the rates of   *)
(* the runs they belong to: the one-tick pulse always has a one-tick gap.   *)
(* It is what the clamp of the rate to half the accumulator is for          *)
(* (motion_types.h), and it has to survive every change of rate.            *)
PulseGap == ~(bit /\ prevBit)

(* Between runs the position, which counts in closed form, is where the     *)
(* STEP bits that the loop wrote have taken the axis, each in the direction *)
(* of its run: the position cannot drift from the waveform.                 *)
CountMatchesWave == ~busy => pos = walked

(* However the motion is cut into runs, the pulses put out are the whole    *)
(* steps of the distance travelled, and the accumulator is the remainder:   *)
(* cutting a segment at a half, a guard or another segment loses nothing.   *)
RemainderKept == travel = PhaseMod * pulses + phase
=============================================================================
