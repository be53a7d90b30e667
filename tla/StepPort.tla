------------------------------ MODULE StepPort ------------------------------
(***************************************************************************)
(* The port under the STEP generator: the timer and the circular DMA that  *)
(* play the ring onto GPIOA, the DIR and ENABLE pins on GPIOD and the      *)
(* interrupt flags of the DMA stream.  Operations are those of             *)
(* Firmware/Platform/STM32F407/Src/stepgen_port_stm32f4.c; the hardware's  *)
(* own step is the one that the host simulation makes too                  *)
(* (Firmware/Platform/Host/Src/stepgen_port_sim.c).                        *)
(***************************************************************************)
EXTENDS StepTypes

CONSTANTS
    DmaErrors,          \* may the stream raise TEIF or DMEIF?
    DisableRaisesTC     \* does clearing EN end the transfer with TCIF?

ASSUME PortAssumption == DmaErrors \in BOOLEAN /\ DisableRaisesTC \in BOOLEAN

VARIABLES
    running,    \* the timer counts and the stream is enabled
    idx,        \* the next word the stream will fetch (ring size - NDTR)
    flags,      \* pending interrupt flags of the stream
    enable,     \* the drives' ENABLE line, and s_enabled
    pin,        \* the DIR lines
    \* history
    motor,      \* where the STEP edges so far lead each motor, drives on
    sinceDir,   \* ticks since the DIR line last changed, up to FarPast
    sinceStep   \* ticks since the last STEP edge, up to FarPast

dma     == <<running, idx, flags>>
motion  == <<motor, sinceDir, sinceStep>>
portVars == <<dma, enable, pin, motion>>

FarPast == HalfTicks

PortTypeOK ==
    /\ running \in BOOLEAN
    /\ idx \in RingIx
    /\ flags \subseteq {"HT", "TC", "ERR"}
    /\ enable \in BOOLEAN
    /\ pin \in [Axes -> BOOLEAN]
    /\ motor \in [Axes -> Int]
    /\ sinceDir \in [Axes -> 0 .. FarPast]
    /\ sinceStep \in [Axes -> 0 .. FarPast]

(* stepgen_port_init(): STEP low, drives off; the DIR lines are as they are. *)
PortInit ==
    /\ running = FALSE /\ idx = 0 /\ flags = {}
    /\ enable = FALSE
    /\ pin \in [Axes -> BOOLEAN]
    /\ motor = [a \in Axes |-> 0]
    /\ sinceDir = [a \in Axes |-> FarPast]
    /\ sinceStep = [a \in Axes |-> FarPast]

---------------------------------------------------------------------------
(* Mutant: the stream goes on from the word at which it was stopped. *)
PortStartThere ==
    /\ running' = TRUE /\ flags' = {}
    /\ sinceStep' = [a \in Axes |-> FarPast]
    /\ UNCHANGED <<idx, enable, pin, motor, sinceDir>>

(* stepgen_port_start(): the stream restarts at the first word with its     *)
(* flags cleared.                                                           *)
PortStart ==
    /\ running' = TRUE /\ idx' = 0 /\ flags' = {}
    /\ sinceStep' = [a \in Axes |-> FarPast]
    /\ UNCHANGED <<enable, pin, motor, sinceDir>>

(* Both stops clear EN and leave TCIE set.  On the STM32F4 a stream that is  *)
(* disabled before the end of its transfer sets TCIF; the host simulation's *)
(* does not.                                                                *)
FlagsOfStop == IF DisableRaisesTC /\ running THEN {"TC"} ELSE {}

(* stepgen_port_stop(): no more words; ENABLE stays. *)
PortStop ==
    /\ running' = FALSE
    /\ flags' = flags \cup FlagsOfStop
    /\ UNCHANGED <<idx, enable, pin, motion>>

(* Mutant: the drives stay on. *)
PortEmergencyStopOn ==
    /\ running' = FALSE
    /\ flags' = flags \cup FlagsOfStop
    /\ UNCHANGED <<idx, enable, pin, motion>>

(* stepgen_port_emergency_stop(): no more words, drives off. *)
PortEmergencyStop ==
    /\ running' = FALSE /\ enable' = FALSE
    /\ flags' = flags \cup FlagsOfStop
    /\ UNCHANGED <<idx, pin, motion>>

(* stepgen_port_write_dir(): all DIR lines in one store. *)
PortWriteDir(levels) ==
    /\ pin' = levels
    /\ sinceDir' = [a \in Axes |-> IF levels[a] # pin[a] THEN 0 ELSE sinceDir[a]]
    /\ UNCHANGED <<dma, enable, motor, sinceStep>>

---------------------------------------------------------------------------
Later(t) == IF t < FarPast THEN t + 1 ELSE t

(* Words of the half being played that are already out. *)
Played == idx % HalfTicks

(* One timer update: the stream moves one word to GPIOA->BSRR, the motors   *)
(* of the axes whose STEP bit it sets move the way their DIR line says, and *)
(* the end of a half latches its flag.                                      *)
PlayWord ==
    /\ running
    /\ motor' = [a \in Axes |-> motor[a] +
                   (IF ring[idx][a] # 0 THEN MotionOf(a, pin[a]) ELSE 0)]
    /\ sinceStep' = [a \in Axes |-> IF ring[idx][a] # 0 THEN 0 ELSE Later(sinceStep[a])]
    /\ sinceDir' = [a \in Axes |-> Later(sinceDir[a])]
    /\ idx' = IF idx + 1 = 2 * HalfTicks THEN 0 ELSE idx + 1
    /\ flags' = flags \cup (IF idx + 1 = HalfTicks THEN {"HT"}
                            ELSE IF idx + 1 = 2 * HalfTicks THEN {"TC"} ELSE {})
    /\ UNCHANGED <<running, enable, pin>>

(* The stream reports a transfer or direct-mode error. *)
DmaError ==
    /\ DmaErrors /\ running
    /\ flags' = flags \cup {"ERR"}
    /\ UNCHANGED <<running, idx, enable, pin, motion>>
=============================================================================
