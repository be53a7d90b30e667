# Verification of the CNC5AX-ETH motion firmware

TLA+ modules, TLC configurations and TLAPS proofs for the five-axis Mach3
controller under `Firmware/`: its STEP/DIR generator, the programs that drive
it, and the reception of Ethernet frames. The models follow the C code; where a document says otherwise the code wins, and the difference is
listed under [Findings](#findings).

- [The system](#the-system)
- [What can go wrong](#what-can-go-wrong)
- [Modules](#modules)
- [State and actions against the code](#state-and-actions-against-the-code)
- [Runs](#runs)
- [Fairness](#fairness)
- [Proofs](#proofs)
- [Findings](#findings)
- [Not modelled](#not-modelled)
- [Plan](#plan)

## The system

The firmware runs on one STM32F407. A host submits *motion segments* (a
duration in ticks and a signed rate per axis); the engine turns them into STEP
pulses and DIR levels.

```
 host (Phase 3: UDP)        main loop                  DMA interrupt (prio 2)
        |                      |                              |
        +--stepgen_submit--> [ segment queue ] --next_segment-+--> fill_half
                               |                              |       |
            enable/start/stop/clear                           |    [ ring: 2 halves ]
                               |                              |       |
                            g_state, faults <--- enter_fault--+   timer + DMA --> STEP pins
                               |                              +-- write_dir ----> DIR pins
         E-STOP (prio 0) --stepgen_emergency_stop-------------------------------> ENABLE
```

| Component | Source | State | Operations | Correct when |
|---|---|---|---|---|
| Segment queue | `Motion/Src/motion_segment_queue.c` | free-running `head`, `tail`, the slots | `msq_push` (main), `msq_pop` (consumer), `msq_flush` | a bounded FIFO; a slot is never written while it is copied out; what was flushed does not return |
| Pulse synthesis | `stepgen_core.c`, `emit_run` | phase accumulator per axis, position | one run of words at a constant rate | pulses are separated by a low tick; the position counts exactly the pulses; cutting motion into runs loses nothing |
| Segments, reversals, filling | rest of `stepgen_core.c` | current and held-back segment, armed reversal and guard per axis, staged steps per half, half indices, fault bits | `fill_half`, `take_dir_write`, `commit_half`, `abort`, `rewind` | each pulse leaves in the direction it was planned for; segments are applied in order, none lost; a hold-back ends; positions agree |
| Facade | `stepgen.c` | `g_state`, `g_half_ready[]` | enable, start, stop, the two clears, submit, boundary and overrun handlers, E-STOP | drives and timebase follow the state; faults and the E-STOP latch; an abort is final |
| Port | `Platform/STM32F407/Src/stepgen_port_stm32f4.c`, `Platform/Host/Src/stepgen_port_sim.c` | timer, circular DMA stream and its flags, ENABLE and DIR pins | start, stop, E-STOP, enable, DIR write, interrupt entry | the drives see stable DIR before a pulse |
| Self-test and stimulus | `stepgen_selftest_stm32f4.c` | counters | HV-00 to HV-05, the two stimulus loops | the tests leave drives and timebase off; a stimulus is submitted and played to its end |
| Ethernet glue | `LWIP/Target/ethernetif.c`, `LWIP/App/lwip.c`, parts of `stm32f4xx_hal_eth.c` | receive ring with three positions, buffer pool, `RxAllocStatus`, MAC and link state | receive, transmit, link check, polling | a buffer has one owner; frames in order; a pool that ran empty recovers; link and MAC agree |
| Start-up | `Core/Src/*.c` | none of its own | initialisation, vectors | - |

Interactions:

- **Shared state.** The queue is shared by the main loop and the interrupt
  with plain loads and stores; `g_state` is written by all three contexts; the
  ring is written by `fill_half` and read by the DMA; the core is touched by
  the interrupt, by `stepgen_start` and the clears (with the timebase stopped)
  and by every abort.
- **Callbacks.** The port's interrupt calls `stepgen_on_boundary()` at every
  half of the ring, or `stepgen_on_overrun()`.
- **Zero copy.** A receive buffer goes from the pool to a descriptor, to the
  DMA, to the main loop, to LwIP and back; the DMA runs next to all of it and
  keeps a position of its own.
- **Pins.** STEP words leave through DMA at a time fixed when the ring was
  filled; DIR words are written by software at the boundary interrupt. The two
  meet only through the guard words that `fill_half` keeps silent.

## What can go wrong

`PROJECT.json` lists every hazard at its line. In groups:

1. **Planned early, written late.** A half is filled one or two halves before
   it plays, its DIR word is written when it starts to play. An off-by-one
   in either sends pulses the wrong way.
2. **Reversals in a row.** One armed reversal per axis; a segment that needs
   another is held back. It must not be lost, overtaken, or held for good.
3. **Two counters for one motion.** Steps are counted when planned, staged per
   half and committed when played, in closed form and not by the loop that
   writes them.
4. **Wrapping numbers.** Queue indices, ticks and half indices wrap.
5. **Preemption.** The DMA interrupt comes between any two steps of a
   main-loop call, the E-STOP between any two steps of both; calls test
   `g_state` and assign it later.
6. **Deadlines.** The DIR write must come inside the guard, the refill before
   its half plays.
7. **Aborts.** From three contexts, at any moment, against a refill in progress.
8. **Long protocols.** Any sequence of enable, start, stop, fault, E-STOP,
   clear and change of the tick.
9. **Shared rings.** Read, rebuild and DMA positions of the receive ring move at
   their own pace, and a stop and restart of the MAC keeps all three.
10. **Waiting.** The stimulus loops wait for slots, reception waits for a buffer
   that LwIP frees.

## Modules

| Module | What it is |
|---|---|
| `DdaEmit` | `emit_run()` for one axis, word by word, over arbitrary runs |
| `SegmentFifo` | the abstract queue: a bounded FIFO with flush |
| `SegmentQueue` | the queue access by access; implements `SegmentFifo` |
| `StepTypes` | constants, segments, ring words, tick arithmetic |
| `StepPort` | timer, DMA, pins and interrupt flags |
| `StepCore` | segments, reversals and the fill loop, one loop pass in one or two steps |
| `Stepgen` | composes `StepCore` and `StepPort` under the facade's calls and the three contexts |
| `DriverInputs` | the abstract contract of the drives' inputs; `Stepgen` implements it |
| `StepgenProps` | the properties of the composed system |
| `StepgenHost` | the self-test, the stimulus loops and the reading of the status, over `Stepgen` |
| `StepgenRate` | the maximum rate, the tick it sets and the conversion of rates, over `Stepgen` |
| `EthRx` | reception: descriptors, pool, polling, link check and the DMA |
| `MCStepgen`, `MCHost`, `MCRate` | axes and segment sets for TLC |
| `DdaEmit_proofs`, `SegmentQueue_proofs`, `EthRx_proofs` | theorems about these modules |
| `Stepgen_proofs` | types, drives and states, latches, aborts |
| `StepgenFill_proofs` | sums over the ring, SAFE_IDLE, where a reversal is armed, how long a segment is held back; extends `Stepgen_proofs` |
| `StepgenMotion_proofs` | direction, position, staging, order, the drives' contract; extends `StepgenFill_proofs` |
| `StepgenRate_proofs`, `StepgenHost_proofs` | the tick and the programs; each extends `StepgenFill_proofs` |

`StepCore` uses the queue as a sequence, which `SegmentQueue` is shown to
implement, and a whole run of `emit_run()` as one step, with the closed form
that `DdaEmit` proves equal to the loop's count. The arithmetic is the code's
with the widths as constants: `PhaseMod` is 2^32 in the code and always twice
`RateMax`, `TickMod` and `HalfMod` are where ticks and half indices wrap.

## State and actions against the code

**Ring words.** In the code a word is a `BSRR` value with a STEP bit per axis.
The model keeps, per axis, 0 or the sign of the planned step. The sign is not
read by any action that models code: the motor moves as the DIR pin says
(`PlayWord`). It is there so that properties can compare the two.

**Contexts.** `mpc` and `ipc` are the program counters of the main loop and of
the interrupt. A main-loop step is enabled only while no interrupt is pending
or running (`MainRuns`). Each test of `g_state` and each assignment is a step,
and so are the port operations between them. The E-STOP has the highest
priority and runs to completion: it is one step, and `EStopCuts` says whether
it may come inside a main-loop call or inside the interrupt. `frame[c]` holds
the local variables of the one call of `stepgen_core_fill_half` in context `c`.

**The fill loop.** `FillTake` and `FillApply` are the two halves of
`next_segment()`, between which an E-STOP can cut in with the segment in a
local variable; `FillHold` and `FillStarve` are its other outcomes; `FillEmit`
is one run up to the end of the half, of the segment or of a guard.

**The calls.** `stepgen_enable_drives`: `EnableCheck`, `EnableDrives`,
`EnableReady`. `stepgen_start`: `StartFill0`, `StartFill1`, `StartDir`,
`StartRun`, `StartPort`. `stepgen_stop`: `Stop`, `StopAbort`, `StopCheck`,
`StopReady`. Clears: `ClearEStopCheck`, `ClearEStopDemote`, `ClearCheck`,
`ClearRewind`, `ClearIdle`. Submission: `SubmitCheck`, `SubmitPush`,
`SubmitRefused`. Interrupt: `IsrOverrun`, `IsrBoundary`, `IsrPlay`,
`IsrRefill`, `IsrFillStep`, `IsrDone`, `IsrFaultCheck`, `IsrFault`.
`ClearRewind` joins the assignments of `stepgen_clear_fault` that nothing can
observe one by one (the timebase stands and an E-STOP between them leaves the
same state).

**History variables** record what no variable of the code does: `motor` (where
the STEP edges lead each motor that is energised), `sinceDir` and `sinceStep` (ages of the last DIR
change and STEP edge), `origin` (motor against `pos_output` at the last start),
`sent` and `dropped` (segments accepted, and the last one accepted before the
latest abort) and `stalled` (silence behind a held-back segment).

**Hardware.** On the STM32F4, clearing the stream's EN bit in mid-transfer
raises TCIF, which the port leaves enabled; the host simulation does not.
`DisableRaisesTC` chooses. `DmaErrors` lets the stream report TEIF or DMEIF.

**Deadlines.** `InTime` restrains the DMA, not the code: a word is not played
if that would leave the DIR write more than `MaxDirLag` words late or the
refill unfinished after `MaxFillLag` words of the next half. The first comes
from the guard (`GuardTicks - 1` leaves one tick of setup), the second from the
requirement that a refill ends within a half (`HalfTicks - 1`).

**The programs.** `StepgenHost` adds `hpc`, where the program in the main loop
is, to the engine. A program action is either one of the engine's own calls,
with the call's arguments chosen by the program, or a step between calls. HV-01 is
`Hv01`: software sets and clears every STEP line, an edge per axis that `motor`
counts (the drives are off). HV-00
is `Hv00Start`, the words of `SpinWord` and `Hv00Stop`; HV-05 is `Hv05Start` and
`Hv05Stop`; between them and after them the status is read field by field
(`StatusState` to `StatusPlanned`), each read a step the interrupt may precede; the
code reads the two positions axis by axis, and the property compares them on one.
`queue_constant()` and `stepgen_stim_dir_reversal()` share the actions `Stim...`
and differ in how many segments a round submits and how long they are. The ports
of DIR start low, as `MX_GPIO_Init()` leaves them.

**The tick.** `StepgenRate` adds `tick` (`s_tick_hz`) and takes every step of the
engine, or configures. `Late` in `acceptedAt` marks a segment whose submission
tested the state, was preempted by a fault, and pushed into the queue that the
fault had dropped.

**Reception.** One pass of the main loop is `pc`: `input` (`ethernetif_input`,
`HAL_ETH_ReadData`), `build` (`ETH_UpdateDescriptor`, one descriptor a step),
`deliver` (`netif->input`), `timers` (`sys_check_timeouts`), `link`
(`ethernet_link_check_state`) and `start` (the build inside
`HAL_ETH_Start_IT`). LwIP is an environment: it keeps what it is given or frees
it, at delivery or from a timer. The DMA is external and does what the HAL
relies on: it writes a frame into the descriptor it is at, if it owns it, and
moves on; a stop does not move it. `inStep` records whether every start so far
has found the DMA and the rebuilding where the main loop reads; `claim_ring`
shows a history in which one does not.

## Runs

| Run | Shows | Bounds, distinct states |
|---|---|---|
| `dda` | pulses never merge, the closed-form position is where the pulses lead, pulses and remainder account for the distance | `RateMax` 4, runs of 1 to 4 words, 8 ticks: 31,439 |
| `queue` | never more than `Depth` waiting, a push never hits the slot being copied, a flush is final, the queue implements the FIFO | depth 2, indices modulo 4, 6 segments, flushes from main loop and interrupt, push and pop on different processors: 1,054 |
| `motion` | direction, position, staging, order, reversals, the drives' contract, with two axes that turn in different segments, one of them inverted | half 4, guard 2, 3 segments out of 3 kinds, queue 2, ticks modulo 32: 1,388,801 |
| `lifecycle` | state, drives, faults and aborts with stop, stream errors, E-STOP and clears in any order | one axis, half 3, guard 1, 2 segments, queue 2, TCIF on disable: 2,697,911 |
| `host` | the self-test's streams step nothing and its drives stay off, the status tells why, an E-STOP inside the interrupt latches and holds, a stimulus is played to its end | one axis, half 2, guard 1, HV-00 over 6 words, a stimulus of 5 ticks, queue 2, the self-test at boot: 588,841 |
| `rate` | the tick is one the timer makes exactly, conversion is to the nearest, a segment plays at the tick it was accepted at | one axis, half 2, 2 segments, two possible ticks and four requests that are refused, stream errors, E-STOP, clears: 1,288,616 |
| `eth` | one owner per buffer, frames in order, none forgotten, reception recovers | 3 descriptors, 4 buffers, 4 frames, one link loss, bus errors: 129,596 |
| `claim_guard`, `claim_output`, `claim_estop_safe`, `claim_abort`, `claim_ring` | a documented claim the code does not keep, each alone | stop at the first counterexample |

The properties by name, each defined with its comment in the module of its run or
one that module extends:

- `dda`: `TypeOK`, `PulseGap`, `CountMatchesWave`, `RemainderKept`
- `queue`: `TypeOK`, `NeverOverfull`, `SlotsDisjoint`, `FlushIsFinal`, `ImplementsFifo`
- `motion`: `TypeOK`, `CommandedDirection`, `PositionFidelity`, `PlannedIsStaged`,
  `NoneLost`, `ReversalReachable`, `StallWithinRing`, `ImplementsDriverInputs`
- `lifecycle`: `CommandedDirection`, `PositionFidelity`, `SafeIdleClean`,
  `DrivesMatchState`, `EStopIsSafe`, `FaultLatched`, `EStopLatched`, `AbortIsFinal`
- `host`: `HostTypeOK`, `SelfTestMovesNothing`, `EStopHolds`, `EStopStays`,
  `StatusTellsWhy`, `StimulusIsPlayed`
- `rate`: `RateTypeOK`, `RateIsNearest`, `PlaysAtItsTick`
- `eth`: `TypeOK`, `OneOwner`, `InOrder`, `EveryFrameHeard`, `ReceptionRecovers`
- the claims: `GuardIsAhead`, `OutputIsMotor`, `EStopIsSafe`, `AbortIsFinal`,
  `ReadIsGivenBack`

Why the bounds are enough. Three segments give a reversal, a second reversal
while the first is armed, and a segment behind it; a ring plays several times
in each behaviour, so half indices (modulo 8) and ticks (modulo 32) wrap.
Segments of 2, 3 and 4 words over a half of 4 end on and off the end of a half
and let two of them share one. `RateMax` 2 with a slow segment gives phases
other than 0 at a reversal; at `RateMax` 1 (`lifecycle`) every second word
steps. A queue of 2 is full and empty in most behaviours; in `lifecycle` it holds
both segments, so that one an abort left behind would be seen in SAFE_IDLE. The queue's
indices wrap after 4 with 6 segments. The host's inputs include one segment
that does not validate.

In `host`, HV-00 plays one and a half rings, so that both interrupts come and the
ring wraps; a constant stimulus of 5 ticks takes three segments of at most a half
through a queue of two, so that the loop has to wait for a slot; the reversal
stimulus submits a pair, each two rings long. Ticks wrap at 12. `SelfTestAtBoot`
(`CNC_RUN_SELFTEST_AT_BOOT`, off by default) is on in the run: a boot without it
begins at the first call, where the self-test ends, and the theorems hold for both. In `rate` the
clock of 24 admits the ticks 8 and 6; of the requests 0, 1, 3, 4 and 6, zero is
refused, 1 needs too large a divider and 6 is above the ceiling. The
requests and their negatives are also the rates converted, at both ticks. In `eth`,
4 frames over 3 descriptors go round the ring; one buffer more than descriptors
lets the pool run empty while LwIP holds two, with descriptors unread, unbuilt
and owned at the moment of the link loss.

No symmetry is used: the two axes differ in `DirInvert` and in their rates.
`dda` and `queue` switch deadlock checking off because their tick and segment
bounds end every behaviour; the engine's runs keep it on.

Why each property is there, beyond the comment at its definition:
`PositionFidelity` compares the motor, the committed position and the words of
the current half at *every* tick; `CommandedDirection` looks at the next word
against the DIR pin, so it fails if a boundary writes DIR a half early, a half
late or not at all; `NoneLost` puts the local variable of an interrupted
refill, the held-back segment and the queue in one consecutive order;
`AbortIsFinal` compares each segment applied with those accepted before the
last abort; `StimulusIsPlayed` fails if one reversal stays armed, one slot is
never freed or one boundary is missed; `OneOwner` and `InOrder` relate three ring
positions, the pool and LwIP; `PlaysAtItsTick` is about every way back to
SAFE_IDLE. Every property is paired in `PROJECT.json` with a plausible bug in
the code (the operators marked *mutant* in the modules) that violates it.

## Fairness

Liveness is checked in two runs.

`HostSpec` assumes weak fairness of the interrupt (`Interrupt`: pending, it is
served; nothing masks it for long) and of the timer (`WordGoes`), and strong
fairness of the program: the main loop runs only while no interrupt is pending
or running, which happens again and again since a refill ends before its half
does (`MaxFillLag`), but never for good. The E-STOP and stream errors are not
fair: they may never come. `StimulusIsPlayed` excepts an engine that one of them
halted.

`EthRx!FairSpec` assumes weak fairness of the main loop, which nothing blocks,
and strong fairness of `Release`: LwIP does not keep a buffer for ever, since its
reassembly and retransmission timers expire, and the timers are polled each
round. Without it `ReceptionRecovers` is false, as it should be.

`Stepgen!FairSpec` states the same for the engine alone; no run needs it.

## Proofs

TLAPS checks these for all values of the constants that satisfy the named
assumptions in the modules. Every safety property that a run checks is stated by
one of them.

| Theorem | States | Assumes |
|---|---|---|
| `DdaEmit_proofs!TypeCorrect` | `[]TypeOK` | - |
| `DdaEmit_proofs!PulsesNeverMerge` | `[]PulseGap` | - |
| `DdaEmit_proofs!CountIsExact` | `[]CountMatchesWave` | - |
| `DdaEmit_proofs!NoStepLostInRuns` | `[]RemainderKept` | - |
| `SegmentQueue_proofs!QueueTypeCorrect` | `[]TypeOK` | `NoEStop` |
| `SegmentQueue_proofs!QueueNeverOverfull` | `[]NeverOverfull` | `NoEStop` |
| `SegmentQueue_proofs!QueueSlotsDisjoint` | `[]SlotsDisjoint` | `NoEStop` |
| `SegmentQueue_proofs!QueueFlushIsFinal` | `[]FlushIsFinal` | `NoEStop` |
| `SegmentQueue_proofs!QueueIsFifo` | `ImplementsFifo` | `NoEStop` |
| `Stepgen_proofs!TypeCorrect` | `[]TypeOK` | - |
| `Stepgen_proofs!EStopStaysSafe` | `[]EStopIsSafe` | E-STOP not inside main-loop calls |
| `Stepgen_proofs!DrivesAndStateAgree` | `[]DrivesMatchState` | same |
| `Stepgen_proofs!FaultIsLatched` | `FaultLatched` | same |
| `Stepgen_proofs!EStopIsLatched` | `EStopLatched` | - |
| `Stepgen_proofs!AbortsAreFinal` | `AbortIsFinal` | E-STOP between calls |
| `StepgenFill_proofs!SafeIdleIsClean` | `[]SafeIdleClean` | same |
| `StepgenFill_proofs!ReversalIsReachable` | `[]ReversalReachable` | same, `WideIndices` |
| `StepgenFill_proofs!StallsEnd` | `[]StallWithinRing` | same, `WideIndices` |
| `StepgenMotion_proofs!DirectionIsCommanded` | `[]CommandedDirection` | same, `WideIndices`, `InterruptInTime` |
| `StepgenMotion_proofs!PositionIsFaithful` | `[]PositionFidelity` | same, `WideIndices`, `InterruptInTime` |
| `StepgenMotion_proofs!PlanIsStaged` | `[]PlannedIsStaged` | same, `NeverRestarted` |
| `StepgenMotion_proofs!NoSegmentIsLost` | `[]NoneLost` | same, `RefillInTime`, `Undisturbed` |
| `StepgenMotion_proofs!DrivesAreServed` | `ImplementsDriverInputs` | same, `WideIndices`, `InterruptInTime`, `NeverRestarted` |
| `StepgenRate_proofs!RateTypeCorrect` | `[]RateTypeOK` | - |
| `StepgenRate_proofs!RatesAreNearest` | `[]RateIsNearest` | - |
| `StepgenRate_proofs!SegmentsPlayAtTheirTick` | `[]PlaysAtItsTick` | E-STOP between calls |
| `StepgenHost_proofs!HostTypeCorrect` | `[]HostTypeOK` | - |
| `StepgenHost_proofs!SelfTestIsStill` | `[]SelfTestMovesNothing` | - |
| `StepgenHost_proofs!EStopIsFinal` | `[]EStopHolds` | E-STOP not inside main-loop calls |
| `StepgenHost_proofs!EStopIsKept` | `EStopStays` | - |
| `StepgenHost_proofs!StatusIsTruthful` | `StatusTellsWhy` | `ForwardStimulus` |
| `EthRx_proofs!EthTypeCorrect` | `[]TypeOK` | - |
| `EthRx_proofs!EthOneOwner` | `[]OneOwner` | - |
| `EthRx_proofs!EthInOrder` | `[]InOrder` | - |

**The assumptions.**

- *E-STOP not inside main-loop calls* is `"main" \notin EStopCuts`, *E-STOP between
  calls* is `EStopCuts = {}`. They are not convenience: without them the
  statements of `Stepgen_proofs` that assume them are false of the code (`claim_estop_safe`,
  `claim_abort`), and those of `StepgenFill_proofs` and `StepgenMotion_proofs` lean
  on an abort being final. Stops, faults, clears and E-STOPs between calls are all
  in. `NoEStop` is the same for the queue: no flush from the E-STOP.
- `WideIndices`: half indices tell three halves apart and the tick wraps later
  than two rings' worth of half and guard. Both are 32 bits in the code, the ring
  1024 words.
- `RefillInTime`: a refill ends before the half it refills plays. `InterruptInTime`
  adds that the DIR lines are written within the guard. These are the deadlines the
  design rests on (ADR-006: `STEPGEN_DIR_GUARD_TICKS`, 3, covers the latency of the interrupt), and what
  `InTime` lets the DMA do; the code does not notice when they are missed.
- `NeverRestarted`: `"stop"` and `"clear"` not in `Calls`. A stop leaves the two
  position counters apart for good (`claim_output`), and the ages of the DIR lines
  count ticks of the running timer only, so that a stop and a start look like no
  time at all. The theorems speak of a run of the timebase from its first start.
- `Undisturbed`: no stop, no E-STOP, no stream error. An abort drops segments, which
  is its purpose; `NoneLost` is about everything else.
- `ForwardStimulus`: the constant stimulus asks for no negative rate.

Assumptions on the constants in the modules themselves: the guard is shorter than a
half, ticks wrap with half indices, at least as many receive buffers as descriptors.

**Pulse synthesis.** `PulseGap` is not inductive: two steps in a row are
excluded because the first leaves the accumulator in its lower half
(`AfterStep`: a STEP bit implies `phase < RateMax`), from which a rate of at
most `RateMax` cannot carry. `CountMatchesWave` needs the loop's invariant
`s0 + eff * k = phase + PhaseMod * carries` (`LoopInv`): at the end of the run
its right side divided by `PhaseMod` is `carries` (lemma `HighWord`), which is
the closed form, and `PosInv` adds up the runs. `RemainderKept` is the same
argument over the whole behaviour.

**Queue.** `NeverOverfull` depends on stale local copies: a push that has read
`tail` may store after a pop has moved it. The invariant relates each local
copy to the current indices modulo the index width, and uses that only the
consumer moves `tail`, and only forward, which is why a flush from a third
context is excluded. `ContentInv` adds what the slots hold: those between the
indices the segments published last, in order, the one being pushed the next, and
what a flush dropped is older than all. From it each step maps to one of
`SegmentFifo`: publishing to its push, releasing to its pop, the store of a flush
to its flush, every other access to a stutter.

**Engine types.** `TypeCorrect` carries facts a type does not show: a rate is
within the clamp because a segment is validated before it is current, phases
stay below `PhaseMod`, and the fill never leaves its half because a run is cut
at the half's end.

**Drives, faults and the E-STOP.** `ControlInv` ties `mpc` and `ipc` to
`state`, `running` and `enable`: what must hold at each point of each call for
the next assignment to be right. `EStopLatched` and `EStopStays`
assume nothing of where the E-STOP cuts in: they except by name (`Decided`) the points
at which a call or `enter_fault()` has tested `g_state` and has still to act on drives
or timebase or to assign the state. At every other point the E-STOP stands
(`EStopStands`), and `StandsStep` shows that no step ends it but the demotion of its
own clear.

**Aborts.** `AbortsAreFinal` shows that every segment in the queue, held back
or in the hands of a refill is newer than the last abort (`AllNewer`) and that
segments are only applied inside a fill (`AppliedInFill`).

**SAFE_IDLE.** `CleanInv`: whenever the timebase neither plays nor is about to, the
engine is blank. What is hard is the boundary interrupt that is still pending when
a stop or a fault has aborted the core: it refills a blank ring from a queue that
must be empty (`FillAtRest`, `BoundaryAtRest`). A segment pushed after the abort is
the only exception, and there is at most one.

**Reversals.** Four invariants, each resting on the one before. `ReadyInv`: a half
is not ready only while it is being refilled, so that the missing-half branch of
`stepgen_on_boundary()` is never taken: the check catches nothing, as the overrun
flags catch a late refill first, or nothing does. `FillPlace`: which logical half is
being filled, relative to the one playing, at every point of start and boundary.
`SignInv` and `ApplyInv`: an axis plans for the level its line will have, and a
segment that is applied does not conflict with what is armed. `ArmedPlace`: a
reversal is armed for the next half, or for the one after once a word of the half
before has been filled, with the guard of that half. From there, `StallInv`: a
segment held back a second time is waiting for a reversal of the next half, so
never a third time.

**The words of the ring.** `PhysInv` says where the DMA is when the flags and the
interrupt are about which half, and `First` which physical half is the one playing,
logically. `FilledIn(h)` counts the words of a half that are planned for its next
playing. On these, `PlannedInv` (each word planned is for the level its line will
have, and in the guard of a reversal there is none) gives `CommandedDirection`;
`SumInv` (each half's count is the sum of its words; the motor is `pos_output`, the
half not committed yet, and the words already out) gives `PositionFidelity`;
`GapInv` and `LowInv` (no two words in a row step, also where the halves meet,
because the accumulator rests after the last) and `AgeInv` (a line that changed
recently is followed by its guard) give the step to `DriverInputs`. Sums over a
stretch of the ring are defined by recursion: `StepsInRec` unfolds them, by
`NatSetInduction`, which states induction over the naturals for a set and so
needs no operator as a parameter; `RunTotal` is the closed form for a run, and
`RunSteps` that a run steps where the accumulator wraps.

**Order.** `PlanInv` follows the planned position through the start and every run.
`CalmInv` shows that nothing aborts unless asked to, `OneInFlight` that the
segments on their way are those of a single fill, and `Numbered` that they are
consecutive; each outcome of `next_segment()` takes the first or none.

**The tick.** Every behaviour with the tick configured is one of the engine
(lemma `RateImplementsEngine`), so that the invariants above hold at any tick. `TickInv`:
whatever is queued, held back, in a fill or current was accepted at the present
tick, or late; and once the engine is halted or in SAFE_IDLE all of it is late. The
second part makes the change of the tick safe.

**The programs.** The self-test starts and stops the port outside RUNNING, which
`ControlInv` excludes. `UseInv` replaces it until the first start: nothing to plan,
drives off, ring blank, whatever plays and however it is cut off, and no STEP edge
but that of HV-01 (`Edges`). `TestedInv`: when
the self-test is over `ControlInv` holds, and from there on every step of the
program is one of the engine's (`HostSteps`). For a status, `FaultInv`: since no
program clears faults, whoever has seen FAULT, also in a copy, finds a fault bit;
and `ForwardInv`: a forward stream has no negative rate anywhere on its way, and
what is committed and staged never exceeds the plan, aborts at any point included.

**One owner.** `OneOwner` is not inductive: it says nothing of descriptors the
DMA does not own. `RingInv` looks at the ring from the read position: the first
`RxDescCnt - cnt` descriptors are built and have a buffer each (`BuiltHaveBuffers`),
the rebuild position is right behind them (`BuildsNext`), and the rest wait
without a buffer and are not owned (`Waiting`). Reading shortens that stretch by
one at its front, giving back lengthens it by one at its end; the lemmas
`DistFromNext` and `DistToNext` say so for positions that wrap. A start counts
all descriptors as waiting; `Starting` lists the three rings it can find when it
is in step (all attached, none attached, the ring as reset left it), and
`BuffersLeft` shows by cardinality that the first start cannot run out of
buffers, which is where the assumption on the pool is needed.

**Frames in order.** `FrameInv` adds where the frames are: those received and not
read lie from the read position to where the DMA writes, without a gap, each in a
descriptor the DMA has given up; the rest of what is built is the DMA's. A full
ring, where the two positions meet again, is the case a distance alone does not
tell from an empty one.

Only model-checked: liveness (`StimulusIsPlayed`, `EveryFrameHeard`,
`ReceptionRecovers`), since fairness and `ENABLED` are outside the proof system
used; the five claims, which are false; and `DdaEmit`'s agreement with `EmitRun`,
which is argued and not stated as a refinement.

## Findings

Each is a run that TLC ends with a counterexample.

| Run | What the code does | What is said |
|---|---|---|
| `claim_estop_safe` | `stepgen_start` and `stepgen_enable_drives` test the state, then work; an E-STOP in between is followed by the port start or drive enable | "Interrupt-safe latching emergency stop", `stepgen.h:52` |
| `claim_abort` | an E-STOP between `msq_pop` and the assignments of `next_segment` leaves the popped segment current, to run after the next start | "drop the queue, zero all rates", `stepgen_core.h:125` |
| `claim_output` | a stop in mid-half forgets the steps of that half already played | `pos_output` is "steps the DMA has actually emitted", `stepgen_core.h:51` |
| `claim_guard` | a guard that ended long ago counts as still to come after half the tick range (537 s at 4 MHz) and silences the axis | "Wrap-safe tick comparison", `stepgen_core.c:31` |
| `claim_ring` | a restart of the MAC while a descriptor waits for a buffer counts all as waiting and builds on from where it stood: one is given back twice, another stays without a buffer | "gives back Rx Desc of the last received Packet", `stm32f4xx_hal_eth.c:1187` |

The E-STOP findings concern a handler that this commit does not call yet: the
`EXTI2` vector reaches only the HAL. They bite as soon as it is wired.

After `claim_ring`, the position read and the position rebuilt stay apart until
the board is reset. The next exhausted pool leaves a descriptor whose old address
the DMA writes to again, frames are read late or out of order, and a buffer can
be handed up twice. That is why `OneOwner` and `InOrder` speak of a ring in step.

Seen in the code while modelling, without a run:

- A segment's time runs on inside the guard, so that an axis gives up rate times
  guard of its distance at each reversal; `stepgen_core.c:456-459` says no step is
  lost across one.
- A refill that is late by less than a half is not noticed;
  `PHASE1-STATUS.md:348-349` counts on detection.
- An E-STOP between the test and the assignment of `enter_fault()`
  (`stepgen.c:79-80`) is replaced by FAULT, which a plain clear leaves, against the
  "Interrupt-safe" of `stepgen.h:52`. `EStopLatched` and `EStopStays` except exactly
  this point and those of the calls that `claim_estop_safe` is about; the `host` run
  passes through it. The same
  preemption can replace EMERGENCY_STOP by READY, and undo a queue flush
  (`SegmentQueue` with `"estop"` in `FlushFrom`).
- A submission that a fault preempts between its test and its push leaves a
  segment in the queue that the fault has dropped. No clear drops it: it plays at
  the next start, and if the maximum rate was changed in between, at another
  speed. `SafeIdleClean` and `PlaysAtItsTick` except exactly this segment.
- An E-STOP during the self-test is followed by HV-05, which starts the timebase
  in EMERGENCY_STOP (drives off, blank ring). `EStopHolds` therefore begins after
  the self-test.
- HV-00 counts transfers as a difference of two positions in a ring of 1024 words
  and expects 4000 of them (`stepgen_selftest_stm32f4.c:51`): it records a failure
  on hardware that works, of which line 38 says "this test passes here".
- The stimulus loops do not end when a fault or an E-STOP halts the engine: every
  submission is refused from then on.
- Starvation sets its bit and nothing acts on it although `stepgen_core.c:314`
  expects the facade to; the BAD_SEGMENT bit is never acted on; a DMA transfer
  error is reported as an underrun.
- A held-back segment can wait more than the one half of `stepgen_core.c:294`
  (`StallWithinRing` states the bound that holds); DIR can change less than a tick
  after the last STEP edge of the previous half.
- `stepgen_clear_emergency_stop` does not look at the input.
- `motion_types.h:19-21` gives the rate of an increment with the tick of the
  build, and `stepgen.h:74` says conversion saturates at 2 MHz; both follow the
  configured tick.
- After a fatal bus error the MAC's state stays ERROR, no code leaves it, and the
  link check brings the netif up without it.
- `low_level_output` returns ERR_OK whatever `HAL_ETH_Transmit` returned. A
  transmission that times out leaves the earlier descriptors of a chained frame
  with the DMA while LwIP frees their buffers, and overwrites the last one's
  control word, chaining bit included.
- A frame already received waits in the ring while the pool is empty, although
  reading it needs no buffer. Speed and duplex renegotiated between two polls of
  the link leave the MAC with the old ones; a PHY that fails to answer once takes
  the link down.

## Not modelled

- The failing outcomes of `stepgen_init`: this build's axis map, clock and rates
  are constants that validate. The statistics counters and `fill_cycles_max`, on
  which nothing depends. `halt_hold`, which has no caller.
- HV-02 and HV-03 (a timer register, an address) and the cycle counts of HV-04 and
  HV-05. A status position, 64 bits, is read in one step. The mixed-rate stimulus is the constant one at other rates.
- An E-STOP inside a run of `emit_run()`: it is taken before the run or after it, and
  what the rest of the run writes after the abort (words that the next start fills
  again, counts of steps never played) is left out.
- Transmission: `HAL_ETH_Transmit` blocks the main loop until the DMA is done, and
  what goes wrong depends on how the MAC treats a descriptor overwritten under it,
  which the sources do not say. PHY register access, MAC speed and duplex.
- LwIP bring-up: sequential configuration. LwIP itself, CMSIS and the rest of the
  HAL: vendored; of the HAL only the functions reception rests on are modelled.
  Vendored code is also nearly all of the repository by lines.
- Start-up code and interrupt vectors: generated and sequential.
- Host tests and trace: test code. The example project for the LAN8720A under
  `LAN8720A/`: not part of the firmware.
- The E-STOP input: no code reads it at this commit.
- UDP protocol and Mach3 plugin: designed in `Docs/`, no code yet. The host of
  the models submits segments as that protocol will.

## Plan

Built, in this order: `DdaEmit`, `SegmentFifo` and `SegmentQueue`, `StepTypes`,
`StepPort`, `StepCore`, `Stepgen`, `DriverInputs`, `StepgenProps` and their first
proofs; then `EthRx` with its proofs, `StepgenHost` and `StepgenRate`; then the
proofs of everything else the runs check but liveness.

Next, weaker assumptions. `PlanIsStaged` and `DrivesAreServed` are about a run of
the timebase from its start to its stop; with an age of DIR and STEP lines that
counts while the timebase stands, and the plan compared with its value at the
start, they would hold across stops and restarts. The theorems that assume no
E-STOP inside the interrupt could except the one window in which it does harm,
between taking a segment and applying it, as `EStopLatched` excepts its own, and so
name it as the only one. Since
pulse synthesis enters `StepCore` as `StepsAt` and `ClosedForm`, a refinement from
`DdaEmit` to one `EmitRun` would replace the argument in words that they agree.

When the UDP protocol of Phase 3 exists, a module for it in place of the host of
`Stepgen`: sequence numbers, retransmission, and backpressure from
`stepgen_queue_free()`.
