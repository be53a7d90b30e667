--------------------------- MODULE DdaEmit_proofs ---------------------------
(***************************************************************************)
(* The pulse synthesis of DdaEmit is correct for every accumulator width,  *)
(* every rate up to the clamp and every way of cutting motion into runs.   *)
(***************************************************************************)
EXTENDS DdaEmit, TLAPS

(* A step leaves less than half the accumulator behind, and the invariant  *)
(* of the loop of emit_run(): the distance of the run so far is its steps  *)
(* and the phase.  The position is behind the wave by the run under way.    *)
AfterStep == bit => phase < RateMax
LoopInv   == busy => s0 + eff * k = phase + PhaseMod * carries
PosInv    == walked = pos + (IF busy THEN Signed(carries, sign) ELSE 0)

IInv == TypeOK /\ AfterStep /\ PulseGap /\ LoopInv /\ RemainderKept /\ PosInv

-----------------------------------------------------------------------------
(* The high word of c units of the accumulator and a remainder is c: the    *)
(* arithmetic behind the closed-form count of emit_run().                   *)
LEMMA HighWord ==
    ASSUME NEW D \in Nat \ {0}, NEW c \in Nat, NEW p \in 0 .. D - 1
    PROVE  (p + D * c) \div D = c
<1> DEFINE q == (p + D * c) \div D
           r == (p + D * c) % D
<1>1. D * c \in Nat
    OBVIOUS
<1>2. q \in Int /\ r \in 0 .. D - 1 /\ p + D * c = D * q + r
    BY <1>1
<1> HIDE DEF q, r
<1>3. D * (q - c) = p - r
    BY <1>2
<1>4. ASSUME q - c >= 1 PROVE FALSE
    <2>1. D * (q - c) >= D
        BY <1>4, <1>2
    <2> QED
        BY <2>1, <1>2, <1>3
<1>5. ASSUME c - q >= 1 PROVE FALSE
    <2>1. D * (c - q) >= D
        BY <1>5, <1>2
    <2>2. D * (c - q) = r - p
        BY <1>2
    <2> QED
        BY <2>1, <2>2, <1>2
<1>6. q = c
    BY <1>2, <1>4, <1>5
<1> QED
    BY <1>6 DEF q

(* One addition of a legal rate: the accumulator stays in range, the carry  *)
(* is worth exactly one revolution, needs the upper half of the range to    *)
(* happen and lands in the lower half.                                      *)
LEMMA OneTick ==
    ASSUME NEW p \in 0 .. PhaseMod - 1, NEW i \in 0 .. RateMax
    PROVE  /\ Accumulate(p, i) \in 0 .. PhaseMod - 1
           /\ Carry(p, i) \in BOOLEAN
           /\ Carry(p, i) => /\ Accumulate(p, i) = p + i - PhaseMod
                             /\ Accumulate(p, i) < RateMax
                             /\ p >= RateMax
           /\ ~Carry(p, i) => Accumulate(p, i) = p + i
BY RateMaxAssumption DEF Accumulate, Carry, PhaseMod

LEMMA Widths == PhaseMod \in Nat \ {0} /\ PhaseMod = RateMax + RateMax
BY RateMaxAssumption DEF PhaseMod

LEMMA InitIInv == Init => IInv
<1> SUFFICES ASSUME Init PROVE IInv
    OBVIOUS
<1>1. TypeOK
    <2>1. 0 \in 0 .. PhaseMod - 1 /\ 0 \in 0 .. RateMax /\ 0 \in 0 .. MaxRun
        BY Widths, RateMaxAssumption, MaxRunAssumption
    <2>2. busy \in BOOLEAN /\ bit \in BOOLEAN /\ prevBit \in BOOLEAN
        BY DEF Init
    <2>3. 0 <= 0 /\ 0 \in Nat /\ 0 \in Int /\ 0 \in {-1, 0, 1}
        OBVIOUS
    <2> QED
        BY <2>1, <2>2, <2>3, Zenon DEF Init, TypeOK
<1>2. AfterStep /\ PulseGap /\ LoopInv
    BY DEF Init, AfterStep, PulseGap, LoopInv
<1>3. RemainderKept
    BY Widths DEF Init, RemainderKept
<1>4. PosInv
    BY DEF Init, PosInv
<1> QED
    BY <1>1, <1>2, <1>3, <1>4 DEF IInv

(* Entering a run changes neither the accumulator nor the wave. *)
LEMMA BeginRunIInv ==
    ASSUME IInv, NEW rate \in 0 .. RateMax, NEW dir \in {-1, 0, 1},
           NEW len \in 1 .. MaxRun, BeginRun(rate, dir, len)
    PROVE  IInv'
<1>1. TypeOK'
    BY RateMaxAssumption, MaxRunAssumption DEF IInv, TypeOK, BeginRun
<1>2. AfterStep' /\ PulseGap' /\ RemainderKept'
    BY DEF IInv, AfterStep, PulseGap, RemainderKept, BeginRun
<1>3. LoopInv'
    BY RateMaxAssumption DEF IInv, TypeOK, LoopInv, BeginRun, PhaseMod
<1>4. PosInv'
    BY DEF IInv, TypeOK, PosInv, BeginRun, Signed
<1> QED
    BY <1>1, <1>2, <1>3, <1>4 DEF IInv

(* One word: the only step that moves the accumulator. *)
LEMMA EmitWordIInv == IInv /\ EmitWord => IInv'
<1> SUFFICES ASSUME IInv, EmitWord PROVE IInv'
    OBVIOUS
<1>0. phase \in 0 .. PhaseMod - 1 /\ eff \in 0 .. RateMax
    BY DEF IInv, TypeOK
<1>1. /\ phase' \in 0 .. PhaseMod - 1
      /\ bit' \in BOOLEAN
      /\ bit' => phase' = phase + eff - PhaseMod /\ phase' < RateMax /\ phase >= RateMax
      /\ ~bit' => phase' = phase + eff
    BY <1>0, OneTick DEF EmitWord
<1>2. /\ carries' = IF bit' THEN carries + 1 ELSE carries
      /\ pulses' = IF bit' THEN pulses + 1 ELSE pulses
    BY DEF EmitWord
<1>3. TypeOK'
    BY <1>0, <1>1, <1>2, RateMaxAssumption, MaxRunAssumption
    DEF IInv, TypeOK, EmitWord, run, Signed
<1>4. AfterStep'
    BY <1>1 DEF AfterStep
<1>5. PulseGap'
    BY <1>0, <1>1, RateMaxAssumption DEF IInv, AfterStep, PulseGap, EmitWord
<1>6. LoopInv'
    <2>1. eff' = eff /\ s0' = s0 /\ busy /\ k' = k + 1 /\ k \in Nat
        BY MaxRunAssumption DEF EmitWord, run, IInv, TypeOK
    <2>2. eff * (k + 1) = eff * k + eff
        BY <2>1, <1>0
    <2>3. PhaseMod * (carries + 1) = PhaseMod * carries + PhaseMod
        BY RateMaxAssumption DEF IInv, TypeOK, PhaseMod
    <2>4. s0 + eff * k = phase + PhaseMod * carries
        BY <2>1 DEF IInv, LoopInv
    <2>5. eff * k \in Int /\ PhaseMod * carries \in Int /\ s0 \in Int /\ PhaseMod \in Int
        BY <2>1, <1>0, RateMaxAssumption DEF IInv, TypeOK, PhaseMod
    <2>6. s0 + eff * (k + 1) = phase' + PhaseMod * carries'
        <3>1. CASE bit'
            BY <3>1, <1>0, <1>1, <1>2, <2>2, <2>3, <2>4, <2>5
        <3>2. CASE ~bit'
            BY <3>2, <1>0, <1>1, <1>2, <2>2, <2>4, <2>5
        <3> QED
            BY <3>1, <3>2
    <2> QED
        BY <2>1, <2>6 DEF LoopInv, PhaseMod
<1>7. RemainderKept'
    <2>1. PhaseMod * (pulses + 1) = PhaseMod * pulses + PhaseMod
        BY RateMaxAssumption DEF IInv, TypeOK, PhaseMod
    <2>2. PhaseMod * pulses \in Int /\ travel \in Int /\ PhaseMod \in Int
        BY RateMaxAssumption DEF IInv, TypeOK, PhaseMod
    <2>3. travel' = travel + eff /\ travel = PhaseMod * pulses + phase
        BY DEF EmitWord, IInv, RemainderKept
    <2>4. travel' = PhaseMod * pulses' + phase'
        <3>1. CASE bit'
            BY <3>1, <1>0, <1>1, <1>2, <2>1, <2>2, <2>3
        <3>2. CASE ~bit'
            BY <3>2, <1>0, <1>1, <1>2, <2>2, <2>3
        <3> QED
            BY <3>1, <3>2
    <2> QED
        BY <2>4 DEF RemainderKept, PhaseMod
<1>8. PosInv'
    <2>1. /\ walked' = IF bit' THEN walked + Signed(1, sign) ELSE walked
          /\ pos' = pos /\ sign' = sign /\ busy /\ busy' = busy
        BY DEF EmitWord, run
    <2>2. walked = pos + Signed(carries, sign)
        BY <2>1 DEF IInv, PosInv
    <2>3. Signed(carries + 1, sign) = Signed(carries, sign) + Signed(1, sign)
        BY DEF IInv, TypeOK, Signed
    <2>4. pos \in Int /\ Signed(carries, sign) \in Int /\ Signed(1, sign) \in Int
        BY DEF IInv, TypeOK, Signed
    <2> QED
        BY <1>2, <2>1, <2>2, <2>3, <2>4 DEF PosInv
<1> QED
    BY <1>3, <1>4, <1>5, <1>6, <1>7, <1>8 DEF IInv

(* At the end of the loop the closed form is the number of steps it wrote. *)
LEMMA CountAtEnd ==
    ASSUME IInv, busy, k = n
    PROVE  ClosedForm(s0, eff, n) = carries
<1>1. s0 + eff * n = phase + PhaseMod * carries
    BY DEF IInv, LoopInv
<1>2. PhaseMod \in Nat \ {0} /\ carries \in Nat /\ phase \in 0 .. PhaseMod - 1
    BY RateMaxAssumption DEF IInv, TypeOK, PhaseMod
<1> QED
    BY <1>1, <1>2, HighWord DEF ClosedForm

(* Leaving a run only moves the position. *)
LEMMA EndRunIInv == IInv /\ EndRun => IInv'
<1> SUFFICES ASSUME IInv, EndRun PROVE IInv'
    OBVIOUS
<1>1. eff * n \in Int /\ PhaseMod \in Nat \ {0} /\ s0 \in Int
    BY RateMaxAssumption, MaxRunAssumption DEF IInv, TypeOK, PhaseMod
<1>2. ClosedForm(s0, eff, n) \in Int
    BY <1>1 DEF ClosedForm
<1>3. TypeOK'
    <2>1. pos' \in Int
        BY <1>2 DEF IInv, TypeOK, EndRun, Signed
    <2> QED
        BY <2>1 DEF IInv, TypeOK, EndRun, run, hist
<1>4. AfterStep' /\ PulseGap' /\ LoopInv' /\ RemainderKept'
    BY DEF IInv, AfterStep, PulseGap, LoopInv, RemainderKept, EndRun, hist
<1>5. PosInv'
    <2>1. pos' = pos + Signed(carries, sign) /\ walked' = walked /\ ~busy' /\ busy
        BY CountAtEnd DEF EndRun, hist
    <2>2. pos' \in Int /\ walked = pos + Signed(carries, sign)
        BY <1>3, <2>1 DEF IInv, PosInv, TypeOK
    <2> QED
        BY <2>1, <2>2 DEF PosInv
<1> QED
    BY <1>3, <1>4, <1>5 DEF IInv

LEMMA StutterIInv == IInv /\ UNCHANGED vars => IInv'
BY DEF IInv, TypeOK, AfterStep, PulseGap, LoopInv, RemainderKept, PosInv, vars, run, hist

LEMMA StepIInv == IInv /\ [Next]_vars => IInv'
<1> SUFFICES ASSUME IInv, [Next]_vars PROVE IInv'
    OBVIOUS
<1>1. ASSUME NEW rate \in 0 .. RateMax, NEW dir \in {-1, 0, 1},
             NEW len \in 1 .. MaxRun, BeginRun(rate, dir, len)
      PROVE  IInv'
    BY <1>1, BeginRunIInv
<1>2. CASE EmitWord
    BY <1>2, EmitWordIInv
<1>3. CASE EndRun
    BY <1>3, EndRunIInv
<1>4. CASE UNCHANGED vars
    BY <1>4, StutterIInv
<1> QED
    BY <1>1, <1>2, <1>3, <1>4 DEF Next

(* The strengthened invariant holds in every state of emit_run(). *)
THEOREM Invariance == Spec => []IInv
BY InitIInv, StepIInv, PTL DEF Spec

-----------------------------------------------------------------------------
(* emit_run() writes well-typed state. *)
THEOREM TypeCorrect == Spec => []TypeOK
<1>1. IInv => TypeOK
    BY DEF IInv
<1> QED
    BY Invariance, <1>1, PTL

(* No rate profile makes two consecutive words step the same axis: every    *)
(* pulse of emit_run() is followed by a low tick.                           *)
THEOREM PulsesNeverMerge == Spec => []PulseGap
<1>1. IInv => PulseGap
    BY DEF IInv
<1> QED
    BY Invariance, <1>1, PTL

(* The position emit_run() counts in closed form is the one its pulses      *)
(* reach.                                                                   *)
THEOREM CountIsExact == Spec => []CountMatchesWave
<1>1. IInv => CountMatchesWave
    BY DEF IInv, PosInv, TypeOK, CountMatchesWave
<1> QED
    BY Invariance, <1>1, PTL

(* The pulses put out are the whole steps of the distance travelled,        *)
(* however it was cut into runs.                                            *)
THEOREM NoStepLostInRuns == Spec => []RemainderKept
<1>1. IInv => RemainderKept
    BY DEF IInv
<1> QED
    BY Invariance, <1>1, PTL
=============================================================================
