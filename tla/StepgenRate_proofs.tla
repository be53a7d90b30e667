------------------------- MODULE StepgenRate_proofs -------------------------
(***************************************************************************)
(* Proofs about StepgenRate, for any clock, any ceiling and any requests:  *)
(* the tick stays one the timer can make, rates are converted to the       *)
(* nearest increment, and every segment plays at the tick it was accepted  *)
(* for.                                                                    *)
(*                                                                         *)
(* The maximum rate is no input of the engine: every behaviour of RateSpec *)
(* is one of Spec, so what is proved of the engine holds at any tick.      *)
(***************************************************************************)
EXTENDS StepgenRate, StepgenFill_proofs

LEMMA EngineSteps == RateNext => [Next]_vars
  BY DEF RateNext, EngineStep, ConfigureMaxRate

(* With the maximum rate configured at any time, the engine does what it    *)
(* does without: stepgen_configure_max_rate() touches nothing of it.        *)
LEMMA RateImplementsEngine == RateSpec => Spec
<1>1. RateInit => Init
  BY DEF RateInit
<1>2. [RateNext]_rateVars => [Next]_vars
  BY EngineSteps DEF rateVars
<1>. QED BY <1>1, <1>2, PTL DEF RateSpec, Spec

(* The base tick is twice a rate within the ceiling and divides the timer's *)
(* clock exactly, whatever is requested and refused (RateTypeOK:            *)
(* stepgen_configure_max_rate(), stepgen_port_set_tick_hz()).               *)
THEOREM RateTypeCorrect == RateSpec => []RateTypeOK
<1>1. RateInit => RateTypeOK
  <2> SUFFICES ASSUME RateInit PROVE RateTypeOK
    OBVIOUS
  <2>1. TypeOK
    BY InitType DEF RateInit
  <2>2. tick \in Ticks /\ Divides(tick)
    BY TickAssumption, ClockAssumption DEF RateInit, Ticks
  <2>3. acceptedAt \in Seq(Ticks \cup {Late})
    BY DEF RateInit
  <2>. QED BY <2>1, <2>2, <2>3 DEF RateTypeOK
<1>2. RateTypeOK /\ [RateNext]_rateVars => RateTypeOK'
  <2> SUFFICES ASSUME RateTypeOK, [RateNext]_rateVars PROVE RateTypeOK'
    OBVIOUS
  <2> USE DEF RateTypeOK
  <2>1. CASE EngineStep
    <3>1. TypeOK' /\ tick' = tick
      BY <2>1, StepType DEF EngineStep
    <3>2. Accepted \in Seq(Ticks \cup {Late})
      BY DEF Accepted
    <3>. QED BY <2>1, <3>1, <3>2 DEF EngineStep, Divides
  <2>2. ASSUME NEW hz \in Requests, ConfigureMaxRate(hz) PROVE RateTypeOK'
    <3>1. TypeOK'
      BY <2>2, StepType DEF ConfigureMaxRate
    <3>2. tick' \in Ticks /\ Divides(tick')
      BY <2>2 DEF ConfigureMaxRate, Ticks
    <3>. QED BY <2>2, <3>1, <3>2 DEF ConfigureMaxRate, Divides
  <2>3. CASE UNCHANGED rateVars
    BY <2>3, StepType DEF rateVars, Divides
  <2>. QED BY <2>1, <2>2, <2>3 DEF RateNext
<1>. QED BY <1>1, <1>2, PTL DEF RateSpec

---------------------------------------------------------------------------
(* The conversion.                                                          *)

LEMMA ProductOrder ==
    ASSUME NEW x \in Int, NEW y \in Int, NEW t \in Nat \ {0}, x * t < y * t
    PROVE  x < y
<1> SUFFICES ASSUME y <= x PROVE y * t <= x * t
  OBVIOUS
<1>1. x = y + (x - y) /\ x - y \in Nat
  OBVIOUS
<1> DEFINE d == x - y
<1>2. (y + d) * t = y * t + d * t /\ d * t >= 0
  BY <1>1
<1> HIDE DEF d
<1>. QED BY <1>1, <1>2 DEF d

(* Adding half the divisor and dividing rounds to the nearest. *)
LEMMA Rounded ==
    ASSUME NEW n \in Nat, NEW t \in Nat \ {0}, NEW q, q = (2 * n + t) \div (2 * t)
    PROVE  q \in Nat /\ 2 * (q * t) <= 2 * n + t /\ 2 * n - t < 2 * (q * t)
<1> DEFINE u == 2 * t
           x == 2 * n + t
           r == x % u
<1>1. x \in Nat /\ u \in Nat \ {0}
  OBVIOUS
<1>2. x = u * q + r /\ r \in 0 .. u - 1 /\ q \in Nat
  <2>1. q = x \div u
    OBVIOUS
  <2> HIDE DEF x, u
  <2>2. x \div u \in Int /\ x % u \in 0 .. u - 1 /\ x = u * (x \div u) + (x % u)
    BY <1>1, ModSplit
  <2>3. x \div u \in Nat
    BY <1>1
  <2>. QED BY <2>1, <2>2, <2>3
<1>3. u * q = 2 * (q * t)
  BY <1>2
<1>. QED
  <2>1. x = 2 * (q * t) + r
    BY <1>2, <1>3
  <2> DEFINE w == q * t
  <2>2. w \in Nat
    BY <1>2
  <2> HIDE DEF w, r
  <2>. QED BY <1>2, <2>1, <2>2 DEF w

(* At every tick the engine can be configured for, a rate converted is one  *)
(* the engine accepts, of the sign commanded, off by at most half an        *)
(* increment up to the configured maximum and equal to it above             *)
(* (RateIsNearest: stepgen_rate_from_hz()).                                 *)
THEOREM RatesAreNearest == RateSpec => []RateIsNearest
<1>1. RateTypeOK => RateIsNearest
  <2> SUFFICES ASSUME RateTypeOK, NEW hz \in Requests \cup {-f : f \in Requests}
               PROVE  LET r == RateFromHz(hz) IN
                      /\ ValidSegment([dur |-> 1, rate |-> [a \in Axes |-> r]])
                      /\ r * hz >= 0
                      /\ IF 2 * Magnitude(hz) <= tick
                         THEN 2 * Magnitude(r * tick - hz * PhaseMod) <= tick
                         ELSE Magnitude(r) * tick = tick * RateMax
    BY DEF RateIsNearest
  <2>1. tick \in Nat \ {0} /\ RateMax \in Nat \ {0} /\ PhaseMod = 2 * RateMax
    BY RateAssumption, ClockAssumption DEF RateTypeOK, Ticks, PhaseMod
  <2>2. hz \in Int
    BY ClockAssumption
  <2> DEFINE m == Magnitude(hz)
             n == m * PhaseMod
             top == RateMax * tick
             q == (2 * m * PhaseMod + tick) \div (2 * tick)
             v == IF n > top THEN RateMax ELSE q
             r == RateFromHz(hz)
  <2>3. m \in Nat /\ (hz < 0 => hz = -m /\ m > 0) /\ (hz >= 0 => hz = m)
    BY <2>2 DEF Magnitude
  <2>4. n \in Nat /\ top \in Nat /\ n = 2 * (m * RateMax) /\ m * RateMax \in Nat
    BY <2>1, <2>3
  <2>5. q \in Nat /\ 2 * (q * tick) <= 2 * n + tick /\ 2 * n - tick < 2 * (q * tick)
    <3>1. 2 * m * PhaseMod = 2 * n
      BY <2>1, <2>3
    <3>2. q = (2 * n + tick) \div (2 * tick)
      BY <3>1
    <3> HIDE DEF n, q
    <3>. QED BY <2>1, <2>4, <3>2, Rounded
  <2>6. r = IF hz < 0 THEN -v ELSE v
    BY DEF RateFromHz
  <2> HIDE DEF q, r, m, n
  (* Above the ceiling or not. *)
  <2>7. n > top => 2 * m > tick
    <3>1. n > top => tick * RateMax < (2 * m) * RateMax
      BY <2>1, <2>3, <2>4
    <3>. QED BY <2>1, <2>3, <3>1, ProductOrder
  <2>8. n <= top => q <= RateMax /\ 2 * m <= tick
    <3> SUFFICES ASSUME n <= top PROVE q <= RateMax /\ 2 * m <= tick
      OBVIOUS
    <3>1. q <= RateMax
      <4> DEFINE w == q * tick
      <4>1. w \in Nat /\ 2 * w < 2 * (top + tick)
        BY <2>1, <2>4, <2>5
      <4>2. (RateMax + 1) * tick = top + tick
        BY <2>1
      <4>3. q * tick < (RateMax + 1) * tick
        <5> DEFINE z == (RateMax + 1) * tick
        <5> HIDE DEF w, top, z
        <5>1. w < z
          BY <2>1, <2>4, <4>1, <4>2 DEF z
        <5>. QED BY <5>1 DEF w, z
      <4>4. q < RateMax + 1
        BY <2>1, <2>5, <4>3, ProductOrder
      <4>. QED BY <2>1, <2>5, <4>4
    <3>2. 2 * m <= tick
      <4> SUFFICES ASSUME tick < 2 * m PROVE FALSE
        BY <2>1, <2>3
      <4>1. RateMax * tick < RateMax * (2 * m)
        BY <2>1, <2>3
      <4>. QED BY <2>1, <2>3, <2>4, <4>1
    <3>. QED BY <3>1, <3>2
  <2>9. v \in 0 .. RateMax
    BY <2>1, <2>4, <2>5, <2>8
  <2>10. r \in -RateMax .. RateMax /\ Magnitude(r) = v
    BY <2>1, <2>6, <2>9 DEF Magnitude
  <2>11. ValidSegment([dur |-> 1, rate |-> [a \in Axes |-> r]])
    BY <2>1, <2>10 DEF ValidSegment
  <2>12. r * hz >= 0
    <3> HIDE DEF v
    <3>1. r * hz = v * m
      <4>1. CASE hz < 0
        <5>1. r = -v /\ hz = -m /\ v \in Int /\ m \in Int
          BY <2>1, <2>3, <2>6, <2>9, <4>1
        <5>2. (-v) * (-m) = v * m
          BY <5>1
        <5>. QED BY <5>1, <5>2
      <4>2. CASE hz >= 0
        BY <2>2, <2>3, <2>6, <4>2
      <4>. QED BY <2>2, <4>1, <4>2
    <3>2. v * m >= 0
      BY <2>1, <2>3, <2>9
    <3>. QED BY <3>1, <3>2
  <2>13. CASE 2 * m <= tick
    <3>1. v = q
      BY <2>1, <2>3, <2>4, <2>7, <2>13
    <3> HIDE DEF v
    <3>2. r * tick = (IF hz < 0 THEN -(q * tick) ELSE q * tick) /\ q * tick \in Nat
      BY <2>1, <2>5, <2>6, <3>1
    <3>3. hz * PhaseMod = IF hz < 0 THEN -n ELSE n
      <4>1. (-m) * PhaseMod = -(m * PhaseMod)
        BY <2>1, <2>3
      <4>. QED BY <2>2, <2>3, <4>1 DEF n
    <3> DEFINE w == q * tick
               s == r * tick
               p == hz * PhaseMod
    <3>4. w \in Nat /\ 2 * w <= 2 * n + tick /\ 2 * n - tick < 2 * w
          /\ s = (IF hz < 0 THEN -w ELSE w) /\ p = (IF hz < 0 THEN -n ELSE n)
      BY <2>5, <3>2, <3>3
    <3> HIDE DEF w, s, p
    <3>5. 2 * Magnitude(s - p) <= tick
      BY <2>1, <2>4, <3>4 DEF Magnitude
    <3>. QED BY <2>11, <2>12, <2>13, <3>5 DEF s, p, r, m
  <2>14. CASE ~(2 * m <= tick)
    <3>1. v = RateMax
      BY <2>1, <2>3, <2>4, <2>8, <2>14
    <3> HIDE DEF v
    <3>2. Magnitude(r) * tick = tick * RateMax
      BY <2>1, <2>10, <3>1
    <3>. QED BY <2>11, <2>12, <2>14, <3>2 DEF r, m
  <2>. QED BY <2>13, <2>14
<1>. QED BY <1>1, RateTypeCorrect, PTL

---------------------------------------------------------------------------
(* The tick a segment plays at.                                             *)

SeqsOf(q) == {q[i].seq : i \in 1 .. Len(q)}

(* The segments that still play or are playing: queued, held back, in the   *)
(* hands of a fill, or current.                                             *)
Aboard ==
    SeqsOf(queue) \cup SeqsOf(pending)
      \cup SeqsOf(frame["main"].incoming) \cup SeqsOf(frame["isr"].incoming)
      \cup (IF segValid THEN {lastSeq} ELSE {})

LEMMA SeqsParts ==
    /\ SeqsOf(<<>>) = {}
    /\ \A s \in Segment : SeqsOf(<<s>>) = {s.seq}
    /\ \A q \in Seq(Segment) : q # <<>> =>
          Head(q).seq \in SeqsOf(q) /\ SeqsOf(Tail(q)) \subseteq SeqsOf(q)
    /\ \A q \in Seq(Segment), s \in Segment : SeqsOf(Append(q, s)) \subseteq SeqsOf(q) \cup {s.seq}
<1>1. SeqsOf(<<>>) = {}
  BY DEF SeqsOf
<1>2. \A s \in Segment : SeqsOf(<<s>>) = {s.seq}
  BY DEF SeqsOf
<1>3. ASSUME NEW q \in Seq(Segment), q # <<>>
      PROVE  Head(q).seq \in SeqsOf(q) /\ SeqsOf(Tail(q)) \subseteq SeqsOf(q)
  <2>1. Head(q) = q[1] /\ 1 \in 1 .. Len(q)
    BY <1>3
  <2>2. \A i \in 1 .. Len(Tail(q)) : Tail(q)[i] = q[i + 1] /\ i + 1 \in 1 .. Len(q)
    BY <1>3
  <2>. QED BY <2>1, <2>2 DEF SeqsOf
<1>4. ASSUME NEW q \in Seq(Segment), NEW s \in Segment
      PROVE  SeqsOf(Append(q, s)) \subseteq SeqsOf(q) \cup {s.seq}
  <2> SUFFICES ASSUME NEW i \in 1 .. Len(Append(q, s))
               PROVE  Append(q, s)[i].seq \in SeqsOf(q) \cup {s.seq}
    BY DEF SeqsOf
  <2>1. CASE i \in 1 .. Len(q)
    BY <2>1 DEF SeqsOf
  <2>2. CASE i = Len(q) + 1
    BY <2>2
  <2>. QED BY <2>1, <2>2
<1>. QED BY <1>1, <1>2, <1>3, <1>4

LEMMA SeqsConcat ==
    ASSUME NEW p \in Seq(Segment), NEW q \in Seq(Segment)
    PROVE  p \o q \in Seq(Segment) /\ SeqsOf(p \o q) \subseteq SeqsOf(p) \cup SeqsOf(q)
<1> SUFFICES ASSUME NEW i \in 1 .. Len(p \o q)
             PROVE  (p \o q)[i].seq \in SeqsOf(p) \cup SeqsOf(q)
  BY DEF SeqsOf
<1>1. CASE i \in 1 .. Len(p)
  BY <1>1 DEF SeqsOf
<1>2. CASE i - Len(p) \in 1 .. Len(q)
  <2>1. (p \o q)[i] = q[i - Len(p)]
    BY <1>2
  <2>. QED BY <1>2, <2>1 DEF SeqsOf
<1>. QED BY <1>1, <1>2

(* What is in flight is aboard. *)
LEMMA InFlightAboard ==
    ASSUME CoreTypeOK, NEW i \in 1 .. Len(InFlight)
    PROVE  InFlight[i].seq \in Aboard
<1> DEFINE m == frame["main"].incoming
           s == frame["isr"].incoming
<1>1. /\ m \in Seq(Segment) /\ s \in Seq(Segment) /\ pending \in Seq(Segment)
      /\ queue \in Seq(Segment)
  BY DEF CoreTypeOK, Caller, Frame, AtMostOne
<1>2. /\ m \o s \in Seq(Segment)
      /\ SeqsOf(m \o s) \subseteq SeqsOf(m) \cup SeqsOf(s)
  BY <1>1, SeqsConcat
<1>3. /\ (m \o s) \o pending \in Seq(Segment)
      /\ SeqsOf((m \o s) \o pending) \subseteq SeqsOf(m \o s) \cup SeqsOf(pending)
  BY <1>1, <1>2, SeqsConcat
<1>4. SeqsOf(((m \o s) \o pending) \o queue)
        \subseteq SeqsOf((m \o s) \o pending) \cup SeqsOf(queue)
  BY <1>1, <1>3, SeqsConcat
<1>5. InFlight = ((m \o s) \o pending) \o queue
  BY DEF InFlight
<1>6. InFlight[i].seq \in SeqsOf(InFlight)
  BY DEF SeqsOf
<1>. QED BY <1>2, <1>3, <1>4, <1>5, <1>6 DEF Aboard

(* A fill passes segments on and brings none aboard. *)
LEMMA FillAboard ==
    ASSUME CoreTypeOK, NEW c \in Caller, FillStep(c)
    PROVE  Aboard' \subseteq Aboard
<1>0. /\ frame \in [Caller -> Frame] /\ frame[c] \in Frame /\ Caller = {"main", "isr"}
      /\ queue \in Seq(Segment) /\ pending \in Seq(Segment)
  BY DEF CoreTypeOK, Caller, AtMostOne
<1>1. ASSUME Candidates # <<>>
      PROVE  /\ Head(Candidates) \in Segment
             /\ Head(Candidates).seq \in SeqsOf(queue) \cup SeqsOf(pending)
             /\ SeqsOf(IF pending = <<>> THEN Tail(queue) ELSE queue) \subseteq SeqsOf(queue)
  <2>1. CASE pending = <<>>
    <3>1. Candidates = queue /\ queue # <<>>
      BY <1>0, <1>1, <2>1 DEF Candidates
    <3>. QED BY <1>0, <2>1, <3>1, SeqsParts
  <2>2. CASE pending # <<>>
    <3>1. Head(Candidates) = Head(pending)
      BY <1>0, <2>2 DEF Candidates
    <3>. QED BY <1>0, <2>2, <3>1, SeqsParts
  <2>. QED BY <2>1, <2>2
<1>2. CASE FillTake(c)
  <2>1. /\ SeqsOf(queue') \subseteq SeqsOf(queue) /\ SeqsOf(pending') = {}
        /\ UNCHANGED <<segValid, lastSeq>>
    BY <1>1, <1>2, SeqsParts DEF FillTake, Take
  <2>2. \A b \in Caller : frame'[b].incoming = IF b = c THEN <<Head(Candidates)>>
                                               ELSE frame[b].incoming
    BY <1>0, <1>2 DEF FillTake, Frame
  <2>3. \A b \in Caller : SeqsOf(frame'[b].incoming) \subseteq
            SeqsOf(frame[b].incoming) \cup SeqsOf(queue) \cup SeqsOf(pending)
    <3>1. SeqsOf(<<Head(Candidates)>>) \subseteq SeqsOf(queue) \cup SeqsOf(pending)
      BY <1>1, <1>2, SeqsParts DEF FillTake
    <3> SUFFICES ASSUME NEW b \in Caller
                 PROVE  SeqsOf(frame'[b].incoming) \subseteq
                          SeqsOf(frame[b].incoming) \cup SeqsOf(queue) \cup SeqsOf(pending)
      OBVIOUS
    <3>2. CASE b = c
      <4>1. frame'[b].incoming = <<Head(Candidates)>>
        BY <2>2, <3>2
      <4>. QED BY <3>1, <4>1
    <3>3. CASE b # c
      <4>1. frame'[b].incoming = frame[b].incoming
        BY <2>2, <3>3
      <4>. QED BY <4>1
    <3>. QED BY <3>2, <3>3
  <2>. QED BY <1>0, <2>1, <2>3 DEF Aboard
<1>3. CASE FillHold(c)
  <2>1. /\ SeqsOf(queue') \subseteq SeqsOf(queue)
        /\ SeqsOf(pending') \subseteq SeqsOf(queue) \cup SeqsOf(pending)
        /\ UNCHANGED <<segValid, lastSeq>>
    BY <1>1, <1>3, SeqsParts DEF FillHold
  <2>2. \A b \in Caller : frame'[b].incoming = frame[b].incoming
    BY <1>0, <1>3 DEF FillHold, SilenceRest, Frame
  <2>. QED BY <1>0, <2>1, <2>2 DEF Aboard
<1>4. CASE FillStarve(c)
  <2>1. UNCHANGED <<queue, pending>> /\ ~segValid'
    BY <1>4 DEF FillStarve
  <2>2. \A b \in Caller : frame'[b].incoming = frame[b].incoming
    BY <1>0, <1>4 DEF FillStarve, SilenceRest, Frame
  <2>. QED BY <1>0, <2>1, <2>2 DEF Aboard
<1>5. CASE FillApply(c)
  <2>1. frame[c].incoming \in Seq(Segment) /\ frame[c].incoming # <<>>
    BY <1>0, <1>5 DEF FillApply, Frame, AtMostOne
  <2>2. lastSeq' \in SeqsOf(frame[c].incoming) /\ UNCHANGED <<queue, pending>>
    BY <1>5, <2>1, SeqsParts DEF FillApply
  <2>3. \A b \in Caller : frame'[b].incoming = IF b = c THEN <<>> ELSE frame[b].incoming
    BY <1>0, <1>5 DEF FillApply, Frame
  <2>4. \A b \in Caller : SeqsOf(frame'[b].incoming) \subseteq SeqsOf(frame[b].incoming)
    BY <2>3, SeqsParts
  <2>. QED BY <1>0, <2>2, <2>4 DEF Aboard
<1>6. CASE FillEmit(c)
  <2>1. UNCHANGED <<queue, pending, segValid, lastSeq>>
    BY <1>6 DEF FillEmit
  <2>2. PICK k \in 1 .. HalfTicks : frame' = [frame EXCEPT ![c].done = @ + k]
    BY <1>6 DEF FillEmit, EmitRun
  <2>3. \A b \in Caller : frame'[b].incoming = frame[b].incoming
    BY <1>0, <2>2 DEF Frame
  <2>. QED BY <1>0, <2>1, <2>3 DEF Aboard
<1>. QED BY <1>2, <1>3, <1>4, <1>5, <1>6 DEF FillStep

(* Nothing but a push brings a segment aboard.                              *)
LEMMA StepAboard ==
    ASSUME TypeOK, [Next]_vars, ~SubmitPush
    PROVE  Aboard' \subseteq Aboard /\ sent' = sent
<1>0. CoreTypeOK /\ frame \in [Caller -> Frame] /\ Caller = {"main", "isr"}
  BY TypeParts DEF CoreTypeOK, Caller
<1>1. CASE Passive
  <2>1. sent' = sent
    BY <1>1, CallSteps, FlowSteps DEF Passive, StartPort, Stop, DmaTick, DmaFails, vars, history
  <2>. QED BY <1>1, <2>1, PassiveSteps DEF Aboard
<1>2. CASE AbortStep
  <2>1. sent' = sent
    BY <1>2 DEF AbortStep, StopAbort, IsrOverrun, EStop, IsrRefill
  <2>2. queue' = <<>> /\ pending' = <<>> /\ ~segValid' /\ frame' = frame
    BY <1>2, AbortSteps
  <2>. QED BY <2>1, <2>2, SeqsParts DEF Aboard
<1>3. CASE StartFill0 \/ StartFill1 \/ (IsrRefill /\ ready[1 - frame["isr"].half])
  <2>1. UNCHANGED <<queue, pending, segValid, lastSeq, sent>>
    BY <1>3 DEF StartFill0, StartFill1, IsrRefill, segments, history
  <2>2. \E c \in Caller : \E f : f.incoming = <<>> /\ frame' = [frame EXCEPT ![c] = f]
    BY <1>0, <1>3 DEF StartFill0, StartFill1, IsrRefill, BeginFill
  <2>3. \A b \in Caller : SeqsOf(frame'[b].incoming) \subseteq SeqsOf(frame[b].incoming)
    BY <1>0, <2>2, SeqsParts
  <2>. QED BY <1>0, <2>1, <2>3 DEF Aboard
<1>4. CASE StartDir \/ ClearRewind \/ IsrBoundary \/ IsrPlay
  <2>1. UNCHANGED <<queue, pending, segValid, lastSeq, sent>>
    BY <1>4 DEF StartDir, ClearRewind, IsrBoundary, IsrPlay, segments, history
  <2>2. frame' = frame \/ \E h : frame' = [frame EXCEPT !["isr"].half = h]
    BY <1>4 DEF StartDir, ClearRewind, IsrBoundary, IsrPlay
  <2>3. \A b \in Caller : frame'[b].incoming = frame[b].incoming
    BY <1>0, <2>2 DEF Frame
  <2>. QED BY <1>0, <2>1, <2>3 DEF Aboard
<1>5. CASE IsrFillStep \/ MainFillStep
  BY <1>0, <1>5, FillAboard DEF IsrFillStep, MainFillStep, history
<1>. QED
  BY <1>1, <1>2, <1>3, <1>4, <1>5 DEF Next, Main, Isr, Passive, AbortStep, CallStep, FlowStep

LEMMA PushAboard ==
    ASSUME TypeOK, SubmitPush
    PROVE  Aboard' \subseteq Aboard \cup {sent + 1} /\ sent' = sent + 1
<1>1. queue \in Seq(Segment) /\ sent \in Nat
  BY TypeParts DEF CoreTypeOK, TypeOK
<1>2. PICK kind \in Kinds : /\ ValidSegment(kind)
        /\ queue' = Append(queue, [dur |-> kind.dur, rate |-> kind.rate, seq |-> sent + 1])
  BY DEF SubmitPush
<1> DEFINE s == [dur |-> kind.dur, rate |-> kind.rate, seq |-> sent + 1]
<1>3. s \in Segment
  BY <1>1, <1>2, KindsAssumption, BoundAssumption, RateAssumption DEF Segment, ValidSegment
<1>4. s.seq = sent + 1
  OBVIOUS
<1>5. SeqsOf(queue') \subseteq SeqsOf(queue) \cup {sent + 1}
  <2> HIDE DEF s
  <2>. QED BY <1>1, <1>2, <1>3, <1>4, SeqsParts DEF s
<1>6. UNCHANGED <<pending, frame, segValid, lastSeq>> /\ sent' = sent + 1
  BY DEF SubmitPush
<1>. QED BY <1>5, <1>6 DEF Aboard

(* The engine has been halted: by a fault, by the E-STOP, or by an overrun  *)
(* whose fault is still to be latched.                                      *)
HaltedRate == state \notin {"READY", "RUNNING"} \/ ipc \in {"fault", "faulted"}

(* Halting it leaves nothing aboard. *)
LEMMA HaltEmpties ==
    ASSUME EStopCuts = {}, TypeOK, ControlInv, AppliedInFill, [Next]_vars,
           ~HaltedRate, HaltedRate'
    PROVE  Aboard' = {}
<1>1. AbortStep
  <2>1. state \in {"READY", "RUNNING"} /\ ipc \notin {"fault", "faulted"}
    BY DEF HaltedRate
  <2>2. CASE Main /\ ~StopAbort
    <3>1. ipc' = ipc
      BY <2>2 DEF Main, EnableCheck, EnableDrives, EnableReady, StartFill0, StartFill1, StartDir,
         StartRun, StartPort, MainFillStep, Stop, StopCheck, StopReady, ClearEStopCheck,
         ClearEStopDemote, ClearCheck, ClearRewind, ClearIdle, SubmitCheck, SubmitPush,
         SubmitRefused
    <3>2. state' \in {"READY", "RUNNING"}
      <4>1. CASE CallStep
        BY <2>1, <4>1, CallSteps DEF ControlInv
      <4>2. CASE ~CallStep
        BY <2>1, <2>2, <4>2 DEF Main, CallStep, StartFill0, StartFill1, StartDir, StartPort,
           MainFillStep, Stop, ClearRewind, SubmitPush, facade
      <4>. QED BY <4>1, <4>2
    <3>. QED BY <2>1, <3>1, <3>2 DEF HaltedRate
  <2>3. CASE Isr /\ ~AbortStep
    <3>1. state' = state /\ ipc' \notin {"fault", "faulted"}
      BY <2>1, <2>3 DEF Isr, AbortStep, IsrBoundary, IsrPlay, IsrRefill, IsrFillStep, IsrDone,
         IsrFaultCheck, IsrFault, facade
    <3>. QED BY <2>1, <3>1 DEF HaltedRate
  <2>4. CASE DmaTick \/ DmaFails \/ UNCHANGED vars
    <3>1. UNCHANGED <<state, ipc>>
      BY <2>4 DEF DmaTick, DmaFails, vars, facade
    <3>. QED BY <2>1, <3>1 DEF HaltedRate
  <2>. QED BY <2>2, <2>3, <2>4 DEF Next, AbortStep
<1>2. ipc # "fill" /\ mpc \notin {"fill0", "fill1"}
  BY <1>1 DEF AbortStep, StopAbort, MainAt, MainRuns, IsrIdle, IsrOverrun, EStop, IsrRefill,
     Missed, ControlInv, Alone
<1>3. \A c \in Caller : frame[c].at = "loop"
  BY <1>2, FramesAtLoop
<1>4. \A c \in Caller : frame[c].incoming = <<>>
  BY <1>3, TypeParts DEF CoreTypeOK, Frame
<1>5. queue' = <<>> /\ pending' = <<>> /\ ~segValid' /\ frame' = frame
  BY <1>1, AbortSteps
<1>. QED BY <1>4, <1>5, SeqsParts DEF Aboard, Caller

(* What is aboard was accepted at the present tick, or late; once the       *)
(* engine is halted, and in SAFE_IDLE, where the tick may change, late.     *)
TickInv ==
    /\ Len(acceptedAt) = sent
    /\ Aboard \subseteq 1 .. sent
    /\ \A i \in Aboard : /\ acceptedAt[i] \in {tick, Late}
                         /\ HaltedRate => acceptedAt[i] = Late

LEMMA StepTick ==
    ASSUME EStopCuts = {}, RateTypeOK, ControlInv, AppliedInFill, TickInv, [RateNext]_rateVars
    PROVE  TickInv'
<1>0. TypeOK /\ sent \in Nat /\ acceptedAt \in Seq(Ticks \cup {Late})
  BY DEF RateTypeOK, TypeOK
<1>1. CASE EngineStep /\ SubmitPush
  <2>1. Aboard' \subseteq Aboard \cup {sent + 1} /\ sent' = sent + 1
    BY <1>0, <1>1, PushAboard
  <2>2. UNCHANGED <<state, ipc, tick>> /\ ipc = "idle"
    BY <1>1 DEF EngineStep, SubmitPush, facade, MainAt, MainRuns, IsrIdle
  <2>3. /\ acceptedAt' = Append(acceptedAt, IF state \in {"READY", "RUNNING"} THEN tick ELSE Late)
    BY <1>0, <1>1, <2>1 DEF EngineStep, Accepted
  <2>4. /\ Len(acceptedAt') = sent + 1
        /\ \A i \in 1 .. sent : acceptedAt'[i] = acceptedAt[i]
        /\ acceptedAt'[sent + 1] = IF state \in {"READY", "RUNNING"} THEN tick ELSE Late
    BY <1>0, <2>3 DEF TickInv
  <2>5. HaltedRate' <=> HaltedRate
    BY <2>2 DEF HaltedRate
  <2>6. HaltedRate => state \notin {"READY", "RUNNING"}
    BY <2>2 DEF HaltedRate
  <2>7. 1 .. sent \subseteq 1 .. sent + 1 /\ sent + 1 \in 1 .. sent + 1
    BY <1>0
  <2>8. ASSUME NEW i \in Aboard'
        PROVE  acceptedAt'[i] \in {tick, Late} /\ (HaltedRate => acceptedAt'[i] = Late)
    <3>1. CASE i \in Aboard
      BY <2>4, <3>1 DEF TickInv
    <3>2. CASE i = sent + 1
      BY <2>4, <2>6, <3>2
    <3>. QED BY <2>1, <3>1, <3>2
  <2>. QED BY <2>1, <2>2, <2>4, <2>5, <2>7, <2>8 DEF TickInv
<1>2. CASE (EngineStep /\ ~SubmitPush) \/ UNCHANGED rateVars
  <2>1. [Next]_vars /\ tick' = tick
    BY <1>2 DEF EngineStep, rateVars
  <2>2. Aboard' \subseteq Aboard /\ sent' = sent
    <3>1. CASE EngineStep /\ ~SubmitPush
      BY <1>0, <2>1, <3>1, StepAboard
    <3>2. CASE UNCHANGED rateVars
      BY <3>2 DEF rateVars, vars, coreVars, segments, history, Aboard
    <3>. QED BY <1>2, <3>1, <3>2
  <2>3. acceptedAt' = acceptedAt
    BY <1>0, <1>2, <2>2 DEF EngineStep, rateVars
  <2>4. ASSUME NEW i \in Aboard', HaltedRate'
        PROVE  acceptedAt[i] = Late
    BY <1>0, <2>1, <2>2, <2>4, HaltEmpties DEF TickInv
  <2>. QED BY <2>1, <2>2, <2>3, <2>4 DEF TickInv
<1>3. ASSUME NEW hz \in Requests, ConfigureMaxRate(hz) PROVE TickInv'
  <2>1. UNCHANGED <<vars, acceptedAt>> /\ state = "SAFE_IDLE"
    BY <1>3 DEF ConfigureMaxRate
  <2>2. UNCHANGED <<Aboard, sent, state, ipc>>
    BY <2>1 DEF vars, coreVars, segments, facade, history, Aboard
  <2>3. HaltedRate
    BY <2>1 DEF HaltedRate
  <2>4. \A i \in Aboard : acceptedAt[i] = Late
    BY <2>3 DEF TickInv
  <2>5. Late' = Late
    BY DEF Late
  <2>. QED BY <2>1, <2>2, <2>4, <2>5 DEF TickInv
<1>. QED BY <1>1, <1>2, <1>3 DEF RateNext

(* A segment plays at the speed and for the time it was accepted for: while *)
(* one is queued, held back, in the hands of a fill or current, the tick is *)
(* the one at its submission, unless a fault or an E-STOP came between the  *)
(* two halves of that (PlaysAtItsTick: stepgen_configure_max_rate(),        *)
(* "Legal only while stopped").                                             *)
THEOREM SegmentsPlayAtTheirTick ==
    ASSUME EStopCuts = {}
    PROVE  RateSpec => []PlaysAtItsTick
<1>1. RateInit => TickInv
  <2> SUFFICES ASSUME RateInit PROVE TickInv
    OBVIOUS
  <2>1. /\ queue = <<>> /\ pending = <<>> /\ ~segValid /\ sent = 0 /\ acceptedAt = <<>>
        /\ frame["main"].incoming = <<>> /\ frame["isr"].incoming = <<>>
    BY DEF RateInit, Init, CoreInit, Caller
  <2>2. Aboard = {}
    BY <2>1, SeqsParts DEF Aboard
  <2>. QED BY <2>1, <2>2 DEF TickInv
<1>2. RateTypeOK /\ ControlInv /\ AppliedInFill /\ TickInv /\ [RateNext]_rateVars => TickInv'
  BY StepTick
<1>3. RateTypeOK /\ TickInv => PlaysAtItsTick
  <2> SUFFICES ASSUME RateTypeOK, TickInv PROVE PlaysAtItsTick
    OBVIOUS
  <2>1. CoreTypeOK
    BY TypeParts DEF RateTypeOK
  <2>2. \A i \in 1 .. Len(InFlight) : InFlight[i].seq \in Aboard
    BY <2>1, InFlightAboard
  <2>3. segValid => lastSeq \in Aboard
    BY DEF Aboard
  <2>. QED BY <2>2, <2>3 DEF TickInv, PlaysAtItsTick
<1>4. "main" \notin EStopCuts
  OBVIOUS
<1>. QED
  BY <1>1, <1>2, <1>3, <1>4, RateImplementsEngine, RateTypeCorrect, ControlCorrect, NewerCorrect,
     PTL DEF RateSpec
=============================================================================
