----------------------------- MODULE StepgenRate -----------------------------
(***************************************************************************)
(* The machine's maximum STEP rate, which sets the base tick               *)
(* (stepgen_configure_max_rate() of stepgen.c, stepgen_port_set_tick_hz()  *)
(* of stepgen_port_stm32f4.c), and the conversion of a rate in Hz to the   *)
(* increment per tick (stepgen_rate_from_hz()), next to every other call   *)
(* of the engine.                                                          *)
(*                                                                         *)
(* A segment holds increments and ticks: what speed and what time they are *)
(* depends on the tick at which it plays.                                  *)
(***************************************************************************)
EXTENDS StepgenProps

CONSTANTS
    TimClk,         \* STEPGEN_TIM_CLK_HZ
    DivMax,         \* the timer divides by at most 2^16
    MaxHz,          \* MOTION_STEP_RATE_MAX_HZ
    Requests        \* rates the host asks for

ASSUME ClockAssumption ==
    /\ TimClk \in Nat \ {0} /\ DivMax \in Nat /\ MaxHz \in Nat \ {0}
    /\ Requests \subseteq Nat

VARIABLES
    tick,           \* s_tick_hz, which the timer's reload value matches
    acceptedAt      \* history: the tick when segment i was accepted, Late for
                    \* one that reached the queue after the engine had halted

rateVars == <<vars, tick, acceptedAt>>

Divides(hz) ==
    LET div == TimClk \div hz IN div \in 2 .. DivMax /\ div * hz = TimClk

ASSUME TickAssumption == Divides(2 * MaxHz)     \* stepgen_init() succeeds

Late  == 0
Ticks == {2 * hz : hz \in 1 .. MaxHz}

RateTypeOK ==
    /\ TypeOK
    /\ tick \in Ticks /\ Divides(tick)
    /\ acceptedAt \in Seq(Ticks \cup {Late})

RateInit ==
    /\ Init
    /\ pin = [a \in Axes |-> FALSE]     \* as MX_GPIO_Init() leaves the lines
    /\ tick = 2 * MaxHz /\ acceptedAt = <<>>

(* stepgen_configure_max_rate().  What it does after the test of the state  *)
(* no interrupt reads, so the call is one step; a request that is refused   *)
(* changes nothing.                                                         *)
ConfigureEnabled(hz) ==         \* mutant: the drives may be on
    /\ MainAt("idle") /\ state \in {"SAFE_IDLE", "READY"}
    /\ hz \in 1 .. MaxHz /\ Divides(2 * hz) /\ ~running
    /\ tick' = 2 * hz
    /\ UNCHANGED <<vars, acceptedAt>>
ConfigureAbove(hz) ==           \* mutant: no ceiling
    /\ MainAt("idle") /\ state = "SAFE_IDLE"
    /\ hz > 0 /\ Divides(2 * hz) /\ ~running
    /\ tick' = 2 * hz
    /\ UNCHANGED <<vars, acceptedAt>>
ConfigureMaxRate(hz) ==
    /\ MainAt("idle") /\ state = "SAFE_IDLE"
    /\ hz \in 1 .. MaxHz /\ Divides(2 * hz) /\ ~running
    /\ tick' = 2 * hz
    /\ UNCHANGED <<vars, acceptedAt>>

(* The other calls, and the contexts that preempt them.                     *)
Accepted == Append(acceptedAt, IF state \in {"READY", "RUNNING"} THEN tick ELSE Late)
EngineStep ==
    /\ Next
    /\ acceptedAt' = IF sent' > sent THEN Accepted ELSE acceptedAt
    /\ UNCHANGED tick

RateNext == EngineStep \/ \E hz \in Requests : ConfigureMaxRate(hz)

RateSpec == RateInit /\ [][RateNext]_rateVars

---------------------------------------------------------------------------
(* stepgen_rate_from_hz(): hz / tick of the accumulator, saturated, rounded *)
(* to the nearest, the sign kept.                                           *)
RateAtCeiling(hz) ==        \* mutant: the tick of the build, not the configured one
    LET q == (Magnitude(hz) * PhaseMod + MaxHz) \div (2 * MaxHz)
        v == IF q > RateMax THEN RateMax ELSE q
    IN  IF hz < 0 THEN -v ELSE v
RateFromHz(hz) ==
    LET q == (2 * Magnitude(hz) * PhaseMod + tick) \div (2 * tick)
        v == IF Magnitude(hz) * PhaseMod > RateMax * tick THEN RateMax ELSE q
    IN  IF hz < 0 THEN -v ELSE v

(* At every tick the engine can be configured for, a rate converted is one  *)
(* the engine accepts, of the sign commanded, off by at most half an        *)
(* increment up to the configured maximum and equal to it above             *)
(* (stepgen_rate_from_hz(), stepgen_core_validate_segment()).               *)
RateIsNearest ==
    \A hz \in Requests \cup {-hz : hz \in Requests} :
        LET r == RateFromHz(hz) IN
        /\ ValidSegment([dur |-> 1, rate |-> [a \in Axes |-> r]])
        /\ r * hz >= 0
        /\ IF 2 * Magnitude(hz) <= tick
           THEN 2 * Magnitude(r * tick - hz * PhaseMod) <= tick
           ELSE Magnitude(r) * tick = tick * RateMax

(* A segment plays at the speed and for the time it was accepted for: the   *)
(* tick is not changed while one is queued, held back, in the hands of a    *)
(* refill or current, however SAFE_IDLE was reached                         *)
(* (stepgen_configure_max_rate(): "Legal only while stopped").  Excepted is *)
(* one whose submission a fault or an E-STOP cut short: it outlives the     *)
(* clears.                                                                  *)
PlaysAtItsTick ==
    LET here(i) == acceptedAt[i] \in {tick, Late} IN
    /\ \A i \in 1 .. Len(InFlight) : here(InFlight[i].seq)
    /\ segValid => here(lastSeq)
=============================================================================
