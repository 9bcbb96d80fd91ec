# TLA+ models of rp2040py

rp2040py emulates the RP2040 microcontroller: two Cortex-M0+ cores, the bus, and the
peripherals, on one simulated clock, driven by an asyncio "engine room" and reached over USB,
UART and GDB. The Python code under `src/rp2040py/` is the reference; the Cython and C++ code
under `src/rp2040py/native/` repeats it and is held to it by lockstep tests. The models here are
of the Python reference.

In this file paths are those of the repository. `PROJECT.json` lists the components, the runs,
the source lines each definition stands for, the hazards, the findings and the theorems.

1. [The system](#1-the-system)
2. [What is modelled](#2-what-is-modelled)
3. [The runs](#3-the-runs)
4. [Where documents and code disagree](#4-where-documents-and-code-disagree)
5. [The proofs](#5-the-proofs)
6. [What is not modelled, and the plan](#6-what-is-not-modelled-and-the-plan)

## 1. The system

Everything that happens on the chip happens inside a *batch*: `Simulator.execute()` runs up to
a million instructions, then yields to the event loop. An instruction may read or write
registers of a peripheral (the bus), lets time pass on the clock, and the clock's alarms call back
into the peripherals, which raise interrupts and DMA requests. There is one thread on the chip's
side at a time, so the hard behaviours are not data races but *orders*: callbacks inside
callbacks, levels told as edges, cached values, and the moments at which one part may reset
another.

| Component | State | Operations | Talks to | Hard | Correct when |
| --- | --- | --- | --- | --- | --- |
| Simulation clock (`clock/`) | time, alarm list, deferred ticks, horizon, origin | schedule, cancel, tick, defer, read | all blocks with an alarm | re-entrant callbacks, deferral, a moving origin | it cannot be told from a clock that does none of this |
| Inter-core FIFOs, launch (`_sio.py`, `_rp2040.py`, `peripherals/_psm.py`) | two FIFOs, flags, lines told, handshake | FIFO accesses, handshake, hold, return, resets | both cores' NVIC and event registers | two cores, four kinds of reset, sleeping cores | no word, interrupt or wake-up is lost or made up |
| Cores (`_cortex_m0_core.py`, `peripherals/_ppb.py`) | registers, flags, pending and enabled interrupts, sleep | instructions, exception entry and return | bus, clock | priorities, sleep and PRIMASK, a cached "nothing to do" | the most urgent exception is entered, flags tell the result |
| Batch loops (`_execute_batch.py`) | local time of each core, quantum | run, synchronise, idle jump | cores, clock, PIO | two cores in quanta; accesses to the SIO, the PPB and words of peripherals synchronise them | these accesses come in the order of time |
| Engine room (`simulator.py`) | flag, tasks, loop, shutdown request | start, stop, wait, submit, pump, shutdown | threads, devices, CLI | stops, crashes and waits in any order, several threads | a wait ends when the engine does, a shutdown is honoured |
| DMA (`peripherals/_dma.py`) | channels, requests, alarms, lines | triggers, rewrites, aborts, requests, transfers | every paced peripheral, itself | transfers that write the controller, missed edges | each sequence moves its count, none starves |
| SPI, UART, I2C, ADC (`peripherals/`) | FIFOs, frame or conversion, requests, interrupts | register accesses, ends of frames, replies, resets | DMA, clock, a device | replies and ends in either order, nested calls, aborts | no word is stuck or lost unseen, line and requests tell the FIFOs |
| Timer, PWM, watchdog, RTC (`peripherals/`, `utils/timer32.py`) | a count at an epoch, alarms, targets | register accesses, pauses, new rates, resets | clock, NVIC, clock tree | nothing counts: every change of count or rate must re-time the alarms | an alarm comes at its count, the count never jumps |
| PIO (`peripherals/_pio.py`, `_state_machine.py`) | FIFOs, flags, stalls, due times | instructions, accesses, pins | pins, DMA, NVIC, batch loop | a stalled machine is not polled | what may go on does |
| Clock tree (`peripherals/_clocks.py`, `_rosc.py`, `_xosc.py`, `_pll.py`) | sources, dividers, running state | register writes, resets by domain | SysTick, PWM, UART, timer, RTC, listeners | whoever caches a rate must be told of each new one | everyone runs at the rate the registers give |
| Pins (`_gpio_pin.py`, `_pin_bank.py`) | function, overrides, pads, edges, last level told | register writes, inputs, resets | PIO, NVIC, external parts | levels told as edges, a wire between two pins | the wire carries what the pins drive |
| SIO divider, interpolators, spinlocks (`_sio.py`, `interpolator.py`) | operands and results of each core, accumulators | accesses of two cores | cores | state swapped between cores, handlers that divide too | each division gets its own answer |
| Resets, watchdog (`_rp2040.py`, `peripherals/_reset.py`, `_watchdog.py`) | which block is held, scratch | reset paths, tick | every block | what a partial reset leaves behind | nothing outlives its owner |
| USB and its host (`peripherals/_usb.py`, `usb/`) | endpoint buffers, CDC FIFO | enumeration, transfers | raw REPL, REPL transports | parked arms and reads, bus reset, two buffers | bytes arrive once, in order |
| Raw REPL (`device/`) | enter sequence, queue, result | exec with timeout and retry | CDC, engine room | a timeout against a late answer | one exec does not disturb the next |
| GDB server (`gdb/`) | receive buffer | packets, breaks | engine room, cores | packets split anywhere, several debuggers | each packet is handled once |
| CYW43 (`external/cyw43/`) | bus, packet queue, credits, TCP flows | bus words, host I/O, loss of power | pins, host network | host events against emulated time, tasks given up | frames keep their order, no socket outlives its flow |
| Everything else | | | | sequential | see `PROJECT.json` |

The hazards in `PROJECT.json` name, line by line, what these behaviours put at risk; each is tied to
properties below.

## 2. What is modelled

**Parts that interact**

| Module | Of | Notes |
| --- | --- | --- |
| `SimulationClock` | `clock/_simulation_clock.py` | one action per call of the interface; a tick is split at each callback |
| `EagerClock` | what the clock promises | abstract: one time, a due time per alarm, an order |
| `Multicore` | `_sio.py` FIFOs, `_psm.py` PROC1, launch and resets in `_rp2040.py`, events in `_cortex_m0_core.py` | one action per instruction that reaches them; arbitrary firmware |
| `MulticoreFirmware` | the pico-sdk's calls and `tests/test_core1_parity.py` | two programs over `Multicore` |
| `DualBatch` | `_run_batch_dual` of `_execute_batch.py` | local times, quanta, accesses that synchronise (nested catching up) and that do not, sleeps, alarms |
| `Engine` | `simulator.py` | one action per callback of the loop and per statement that another thread may come between |
| `Dma` | `peripherals/_dma.py` | one action per register access, request edge and transfer |
| `SpiDma` | the paired transfer of `tests/test_dma.py` | `Dma` extended, `Spi` instantiated |
| `Exchange` | what such a transfer promises | abstract |

**Parts seen through registers, lines and alarms.** None of these calls another of the table, so each is checked by itself, and
`Parts` states what they promise in the same words: a behaviour of `Parts` is that of one part, chosen
in the initial state. `Parts` extends `Devices`, which holds what the outside drives (`Usb`, `Gpio`, `Gspi`), and that `Peripherals`, which holds the
other register blocks (the first eight of the table and `Pio`).

| Module | Of | Notes |
| --- | --- | --- |
| `Spi` | `peripherals/_spi.py` | prompt and late devices, late answers across resets |
| `Uart` | `peripherals/_uart.py` | both FIFOs, the shift register on the clock, loopback, overruns |
| `Adc` | `peripherals/_adc.py` | single and free-running conversions, FIFO, errors |
| `I2c` | `peripherals/_i2c.py` | the master: commands, answers of the bus, aborts, blocking |
| `Timer` | `peripherals/_timer.py` | 64-bit count in two small halves, alarms, pause, rate, rebase |
| `Pwm` | `peripherals/_pwm.py`, `utils/timer32.py` | one slice, both counting modes, latched registers |
| `Watchdog` | `peripherals/_watchdog.py`, `utils/timer32.py` | countdown, loads, tick, time-out |
| `Rtc` | `peripherals/_rtc.py` | calendar to year 4095, match, second's alarm, changes of `clk_rtc` |
| `Clocks` | `peripherals/_clocks.py`, `_rosc.py`, `_xosc.py`, `_pll.py`, SysTick of `_ppb.py` | everything that follows a frequency |
| `Pio` | `peripherals/_pio.py`, `_state_machine.py` | two machines of one block, joins, stalls, pacing |
| `Gpio` | `_gpio_pin.py`, `_pin_bank.py`, `peripherals/_io.py`, `_pads.py`, `external/` button and jumper | two pins and what is outside |
| `Sio` | divider and spinlocks of `_sio.py` | programs that divide, with handlers that divide too |
| `Interp` | `interpolator.py` and its registers | every mode that either interpolator has |
| `Alu` | arithmetic of `_cortex_m0_core.py` | against a reference by integers, four bits wide |
| `Exceptions` | scan, entry, return, sleep of `_cortex_m0_core.py`, `peripherals/_ppb.py` | priorities, PRIMASK, nesting, NMI, PendSV, SVC |
| `Usb` | `peripherals/_usb.py` and `usb/cdc.py` | device controller, enumeration, serial port |
| `Repl` | `device/mp_device.py`, `raw_repl.py`, `repl_runner.py` | one call after another through one console |
| `Gdb` | `gdb/` | debuggers over a stream split anywhere |
| `Gspi` | `external/cyw43/bus.py` | transactions, packet queue, credits, loss of power |
| `Nat` | `external/cyw43/nat.py` | TCP flows with their tasks, UDP relay |

The `MC*` modules hold instances for TLC, the `*_proofs` modules the theorems.

**State.** A variable is an attribute, named in its comment; most modules keep the attributes of the
object in one record, so that each *method* is an operator from state to state and nested calls
compose as they do in the code (`Completed` calls `Started`, a `Transfer` calls whatever its access
calls before it counts itself). `Multicore` writes the same nesting as `UpdateFifoIrqs` with the values
of the cores' variables at the time of the call. Where the code caches a level, a rate or a deadline, the model
keeps the cached value apart from what it was computed from: the properties compare the two.

**Slips.** Operators named `Name_What`, each after the word "slip", are variants of `Name` with a plausible
mistake. Nothing uses them; each property is checked to fail with one of them.

**History.** `Engine.wanted` (nobody has asked the engine to stop since it was started),
`Multicore.heard` (the last six handshake words), `Dma.moved` and `Dma.asked` (words of a sequence),
`Spi.lost` and `Spi.stale` (the block was reset with an answer outstanding), `Rtc.age` and `Rtc.set` (ticks since the second
began, and that the calendar was just loaded), `Sio.orphan` (a lock whose program was ended by a reset), `Clocks.derived` and `followed` (whether the default
rates have been left, and whether each announcement found its listener at the rate before), and `SimulationClock.rebased` (which the code keeps too). No guard of a handler reads one,
apart from the program of `MulticoreFirmware`, which tells by `heard` the 0 of a
core reset from an echo.

### Notes on single modules

**The clock.** The time of an alarm, deferral (`pending` against `horizon`), saturation at
`MaxTicks`, negative and zero delays, callbacks that link, cancel and tick, and the move of
the origin are all there. A callback may touch the alarms that `Controls` gives it. Ticks of a batch come one
instruction at a time (`DeferTicks`).

**The two cores.** Any core that is awake may execute any instruction that reaches the shared state, so
every schedule of either batch loop is included; `MulticoreFirmware` then restricts the cores to two
programs, for the properties that need one. Four resets are told apart: the chip's, the watchdog's that leaves the SIO,
that of one core (`SYSRESETREQ`), and the PSM's hold of core 1. The PSM itself is never reset, as in the code.

**The dual loop.** Every time is a distance from the clock's, so the state is finite although time is not. An instruction
may access what is shared. An access to the SIO, the PPB or a word of a peripheral makes the other core catch up from inside it (`Access`, `CatchUp`,
`Happens`), and the other's instructions may do so too; a byte or halfword store to a peripheral and an access to the USB RAM do the same things without (`HappensEarly`).

**The engine.** The ready queue of the event loop is kept in order: what a coroutine sees depends on it (a task that is
created runs its first step later; a `wait_for()` that was queued first looks before). The batch is reduced
to what it can do to the engine. `runner` is the holder of `_pump_lock`.

**DMA.** An armed alarm may fire at any time, in any order; `SpiDma` puts the two channels on cycles instead. A
transfer's access may change its peripheral's requests, trigger or, if `Writers` has "ctrl", rewrite or abort
another channel. A channel that rewrites or aborts *itself* is left out (the code then counts the transfer against a
sequence that is over). Of the four pacing timers one is kept.

**SPI.** The device answers from inside `on_transmit()` or later, one way or the other for good (`prompt`, chosen from `Prompts`).
A reset of the block leaves the device with what it owes; its answer is then taken for one to the next word, as in the code. Nested deliveries
are unrolled by `Pumped`, as deep as the FIFO.

**Firmware.** Where firmware is outside the repository it is arbitrary, within what the hardware's manual allows it: it owns the USB
buffers it owns, ends the bus transactions it begins, does not change a handler's priority inside it. Each restriction is a constant with a
comment (`SleepsInHandlers`, `TunesInHandlers`, `RetunesStopped`, `Hasty`) or a guard that says so.

## 3. The runs

| Run | Question | Bounds |
| --- | --- | --- |
| `clock_safety` | `HorizonIsExact`, `FlushOnReadFiresNothing`, `NoStarvation`: the cached horizon, reads, and whether an alarm can be starved | 2 alarms that re-arm themselves, times to 12 with the origin moving every 4 and saturation at 7, two nested ticks |
| `clock_refines` | `RefinesEagerClock`, `TimeNeverGoesBack`: equivalent to a clock without tricks | 3 alarms (symmetric) whose callbacks touch each other's, delays -1, 0, 2, time to 5; no sum saturates |
| `multicore_resets` | `LineTellsStatus`, `NoPhantomInterrupt`, `RomOwnsMailbox`, `LaunchedByHandshake` under every reset | depth 1, words 0 and 1, all three resets, three sets of enabled lines, one echo |
| `multicore_firmware` | `PendingTracksLine`, `AnswersInOrder`, `NoLostWakeup`, `LaunchCompletes`, `ExchangeCompletes`: nothing is lost between two programs | depth 2, 3 messages, with and without giving up, launched again and again |
| `dual` | `CoresStayTogether`, `AccessesAreOrdered`, `AlarmsAreKept`, `EveryCoreRuns`: what quanta may reorder and what not | quanta of 1 and of 4 ticks, instructions of 1 or 2 cycles, alarms 0, 2 or 5 ahead, 2 accesses an instruction, 2 rounds a batch |
| `engine_calls` | `ExecutingMeansAlive`, `CrashIsNeverCalledAStop`: flag and verdicts | 2 callers (one with a timeout), 2 starts |
| `engine_ends` | `EndedWaitsReturn`, `CallsAreServed`, `ShutdownIsHonoured`: every wait ends, every call is served | 2 callers, 1 requester, the main thread, 1 start |
| `dma_safety` | `RequestedIsArmed`, `ArmedIsActive`, `SequenceMovesItsCount`, `LinesTellStatus` | 2 channels, 1 request and the timer, up to 2 words, 4 CTRL values |
| `spi_dma` | `NoOverrun`, `InterruptMeansDone`, `ImplementsExchange`: a paired transfer is an exchange | 5 words, FIFOs of 2, frames of up to 3 cycles, 2 pauses, both kinds of device |
| `parts` | ten properties of twenty parts, see below | see below |

`pio_stalls` and `repl_answers` expect a violation: see section 4.

**`parts`.** A behaviour is that of one part, so the run explores the parts one beside the other and each property means, for
each part, what that part's module states under the name in the second column.

| Property | Which is, for the parts it is about |
| --- | --- |
| `TypeOK` | each part's own, FIFOs within their depth |
| `LineTellsStatus` | the level last given to the NVIC is the masked status now: SPI, UART, ADC, timer, PWM, I2C, PIO, USB, RTC, pins, and the pin of the wireless chip |
| `RequestsTellFifos` | the DMA controller was last told what FIFOs, enables and errors ask for: SPI, UART, ADC, PIO |
| `NothingWaits` | whatever could go on has something under way that makes it: frames, conversions, bus commands and aborts, stalled machines (`Pio`), machines that wait for a pin (`Gpio`), the cached "no interrupt" of a core (`FlagCoversTheDue`), calls (`Repl`), packets (`Gdb`), enumeration and parked reads (`Usb`), windows and ends of flows (`Nat`), queued packets (`Gspi`), a running count of the frequency counter (`Clocks`) |
| `ShowsWhatItDoes` | busy flags (SPI, ADC, I2C), the PWM's output (`OutputIsDuty`), levels, announcements and the wire (`Gpio`), sockets, tasks and table entries (`Nat`), ALU flags (`FlagsTellResults`), divisions and the spinlock (`Sio`), results of an interpolator (`LanesTellRegisters`), rates (`EveryoneFollows` of `Clocks`) |
| `AlarmsComeOnTarget` | each alarm is with the clock for the tick of its count and no other: timer, PWM, watchdog, RTC; a PIO block looks at its machines in time |
| `CountNeverJumps` | the timer's count and the RTC's calendar go from each value to the next |
| `ChainRises`, `EntersTheMostUrgent` | handlers nest by rising priority; an awake core enters the most urgent one |
| `RequestsAreServedOnce` | a call's answer is its own when the guest is prompt (`Repl`), a debugger's commands run once and in order (`Gdb`), so do USB buffers, packets of the wireless chip and bytes of a flow |

Bounds of `parts`: FIFOs of 1 to 3; two PIO machines, interrupts, pins, debuggers, calls and connections; one key of the flow table, two
bytes a segment, sequence numbers modulo 8; timer halves of 2; PWM counts modulo 5 with TOP 1; arithmetic of four bits (every pair of operands,
every flag); RTC dates at the ends of a month, of a leap February and of the year 4095; three clock-tree registers away from their reset values at
a time, with the real frequencies divided by a common factor, so that divisions round as little as they do in the code.

**Why these bounds.** A FIFO of two or three has the states empty, between and full, and a transfer of five words goes around
it. A FIFO of one is the smallest that fills, and it fills at every word; the handshake goes through it six words in a row. Two
channels and two callers are the fewest that interact, and their code treats all others alike. Times are
small so that the origin moves and saturates many times in one behaviour; nothing in the clock depends on the
size of `REBASE_AT` or `MAX_TICKS`. A rearrangement of three alarms at one instant is the smallest in which an order can
be wrong without a neighbour being wrong. A quantum of four ticks holds instructions before, at and after an
access and an alarm. Carries, borrows, overflows and signs do not depend on the width of a word, and sequence numbers and counts
wrap several times in one behaviour. `MaxEchoes` caps the echoes of the boot ROM, which the code does not; `Credits`, `MaxSends` and `MaxFrames` keep
a driver within the credit it was given.

**Callbacks that touch other alarms** are in `clock_refines` and in the theorems; `clock_safety` lets a callback touch its
own alarm only, because a callback that keeps re-arming or cancelling *another* alarm may starve it, and rightly.

**Deadlock** is checked where the system never stops: `multicore_firmware`, `spi_dma` and `dual`, where a core always has a step or
the clock always ticks on. Elsewhere a bound (time, starts, words sent) or a program that has left ends a behaviour.

**Fairness** is stated only where the code provides it:

- `clock_safety`: `WF(Resume)`; the loop that fires alarms is a `while` loop, and its callbacks return.
- `multicore_firmware`: weak fairness of each core; a quantum of the dual loop runs both as far as they are awake.
- `dual`: `WF(Next)`; the loop is a plain loop in one thread, it goes on unless the batch ends. That each core gets its turn is the property, not an assumption.
- `engine_ends`: strong fairness of the loop's queue and of its timers, because threads enter and leave
  `run_until_complete()` and each stay makes at least one full pass over the ready queue; weak fairness of threads that are in the middle of
  a call. No fairness of stops, starts, crashes or interrupts, and none of an engine that nobody runs.
- `spi_dma`: the clock runs, frames end, the device answers, and the program finishes the set-up it began and resumes what it paused.

The parts of `parts` have no fairness: `NothingWaits` states, as an invariant, what liveness needs of them, namely that
work that is left has a callback, an alarm, an answer of the outside or a running task that will take it up.

## 4. Where documents and code disagree

Each line is a property that states the quoted words and that the code does not keep. The first two have a run that
expects the violation, and "findings" has the details. The others are defined in their modules under the name given;
to see the counterexample, give the constants of the last column and check the property alone.

| Property | Said | Done | Run, or instance |
| --- | --- | --- | --- |
| `Pio!StallsEnd` (`Parts!StallsEnd`) | a stall ends on the cycle its condition becomes true (`_state_machine.py:842`) | a flag that a WAIT takes wakes nobody: the machine that raised it by `irq wait` stays stalled | `pio_stalls` |
| `Repl!AnswersAreOwn` | a call resolves to its stdout and stderr (`mp_device.py:242`) | after banners of retries it may get the answer of the call before | `repl_answers` |
| `Pio!LineFallsWithFlag` | the line is up while INTS is not 0 (as in the blocks that keep `LineTellsStatus`) | the same WAIT leaves the line up with the flag clear | as `pio_stalls` |
| `Multicore!StoppedCoreCanBeLaunched` | the SIO's reset runs on every reset path (`_sio.py:168`) | not if the watchdog deselects it: core 1 can never be launched again | as `multicore_resets` |
| `Multicore!BothFifosFit` | two FIFOs of 8 entries (record 0104) | echoes are appended to a full FIFO | as `multicore_resets`, 3 echoes |
| `Multicore!HeldCoreIsInReset` | PROC1 forced off holds core 1 in reset (`_psm.py:89`) | the handshake launches it all the same | as `multicore_resets` |
| `Multicore!PendingSurvivesReset` | the FIFO interrupt is the OR of its status bits (`_sio.py:224`) | a reset of the core forgets a line that stays high | as `multicore_resets` |
| `MulticoreFirmware!AnswersSurviveReturn` | the FIFOs are what the datasheet says (record 0104, D8) | a return of core 1 drops words core 0 has not read | as `multicore_firmware`, `Returns = TRUE` |
| `DualBatch!EveryAccessIsOrdered` | every access that leaves RAM and flash synchronises and is ordered by time (`_execute_batch.py:254`) | a byte or halfword store to a peripheral (`_rp2040.py:738`, `:766`) and accesses to the USB RAM (`:643`, `:707`) do not synchronise: they happen at the clock's time, with the other core behind | as `dual` |
| `DualBatch!AlarmsAreExact` | the alarms and the interrupts are exact (record 0104, line 161) | a core may begin an instruction past an alarm | as `dual` |
| `DualBatch!WokenNoEarlier` | the event instructions are exact (same line) | a core woken by SEV may go on from a time before it | as `dual` |
| `DualBatch!HeldCoreStops` | a core 1 that is held stops (`_rp2040.py:825`) | it runs on until the quantum in progress is over | as `dual` |
| `Exceptions!PendingEndsWfi` | a pending exception that outranks the active ones results in a WFI exit, PRIMASK or not (`_cortex_m0_core.py:450`) | SysTick's alarm does not end it, nor does an interrupt that was pending, behind PRIMASK, when the WFI was executed | constants as in `parts` |
| `Engine!EndUnblocksEveryWait` | `wait_for()` unblocks however the engine ends (`base_device.py:271`) | not if it began before the task existed | as `engine_ends` |
| `Engine!StopIsNoticed` | `execute()` notices `stop()` on its next iteration (`simulator.py:437`) | a stop before its first step is cleared | as `engine_ends` |
| `Engine!WaitLastsTheRun` | the wait blocks until the simulator stops (`simulator.py:447`) | it returns before the task has begun | as `engine_ends` |
| `Engine!StopIsNeverCalledACrash` | a stop is told from a crash (`simulator.py:344`) | not after an earlier crash | as `engine_calls` |
| `Engine!OneEngine` | `_execute_task` is the live task (`simulator.py:358`) | a quick restart leaves two | as `engine_calls` |
| `Engine!WaitRunsTheEngine` | nobody else runs the engine (`simulator.py:470`) | a blocking call does, and `pump()` then raises | as `engine_calls` |
| `Engine!FirstRequestWins` | the first request wins (`simulator.py:39`) | two that pass the look together: the second's code stays | as `engine_calls`, no callers, 2 requesters |
| `Dma!TimerIsArmed` | the pacing timer produces requests at its rate (`_dma.py:524`) | not for a channel started before it was set | as `dma_safety` |

The models also make visible what no single property states. Where a model leaves such a case out, the constant or guard
that does it is named.

- **Arithmetic** (`Alu`). V of ADCS is inverted exactly when the carry is set and the second operand is 0x7FFFFFFF, V of SBCS is wrong exactly when
  there is a borrow and the second operand is 0x7FFFFFFF, which 64-bit signed comparisons see. A shift by a register that holds 0 (LSRS, ASRS, ROR) sets C from
  bit 31, LSLS by more than 32 takes C from bit (32 - n) & 31. `FlagsTellResults` excepts exactly these.
- **Clock tree** (`Clocks`). After a new ROSC divider a chip reset leaves clk_sys at the ring oscillator's 6.5 MHz (`rosc.reset()` comes after `reset_clock_tree()`,
  whose docstring says 125 MHz); with the divider unchanged it is 125 MHz, until the first write to any clock register.
- **Pins** (`Gpio`). A chip reset recomputes levels without telling listeners: the far end of a jumper stays driven although neither
  end is (`jumper.py:3`), and the wireless chip does not lose power (record 0089). A CTRL write that changes IRQOVER does not update the line, one that changes INOVER alone
  does not look at the PIO machines; `GpioAssumption` keeps both at "normal". In a contention the far end's input reads the wire, though `jumper.py:8` says that it keeps its own level.
- **Dual loop.** A DMA transfer whose alarm fires inside a tick reaches its peripheral over the same bus (`_dma.py:194`), and synchronises from inside that tick;
  the model's tick only wakes cores and arms the next alarm.
- **PWM.** The request of a wrap stays up after the first wrap, though record 0098 says one pulse per wrap; `Pwm` has no request.
- **Timer.** A timer that is stopped and given another rate before it goes on loses the proportion of the count it was in, though the docstring of `_apply()` says it is kept
  (`RetunesStopped = FALSE`).
- **PIO.** A disabled machine does not see its pin change; an `OUT PC` after a stall on an automatic pull lands one further; SMx_INSTR's OUT on a stalled machine is skipped.
- **I2C.** An arbitration lost in the middle of an abort is left out.
- **Raw REPL.** After a timeout nobody stops the runner: its retry goes on sending the entry sequence every 500 ms, its pump the old source.
- **GDB.** A Ctrl-C that is not the first byte of what arrives is lost; one debugger's break is not told to the others; an exception in a handler other than `OSError`
  leaves the connection registered; the greeting's "+" may be taken for an acknowledgement.
- **USB.** `USBEndpointAlarm.schedule()` pushes back buffers that wait already. A reset of the controller that is not the chip's does not call `on_reset`, though a comment in `cdc.py` says so; a
  watchdog reset without USB clears the serial port while the controller keeps its alarms; writes to RESETS only store the value; an enumeration without `on_reset`
  never completes a second time. OUT arms of endpoint 0's status stages stay pending, and `set_line_coding()` may lose its data to one; a SETUP sent before the last was read overwrites it; `set_control_lines()` before
  enumeration ends makes the port "initialized", and `on_device_connected` is never called.
- **Network bridge.** A flow given up before its task has begun is not stopped: it connects and sends for nobody (`Hasty = TRUE` violates `ShowsWhatItDoes`). Flows are
  removed by key, not identity. The count of relayed bytes is unbounded and compared with an acknowledged number modulo 2^32: a flow stops after 4 GiB. A retransmitted FIN counts twice, a FIN
  or bytes while connecting never half-close, and the host's FIN is not counted.
- **Wireless bus.** The 8-bit credit may meet the driver's count after 255 packets that answer nothing, and the driver stops (`Credits`, `MaxSends`, `MaxFrames`
  keep away from it). A loss of power keeps the flows of the bridge, and the data pin until the chip select next rises; a partial read leaves the length in the status stale.
- **SIO.** A spinlock held by a program that a reset of core 1, or a watchdog reset without the SIO, ends stays taken until a chip reset (`Sio.orphan`). The FIFO
  towards core 0 has no bound.

## 5. The proofs

TLC checks the instances above; the theorems hold for every value of the constants that satisfies the named
assumptions of their module. Most assumptions only give types and `0` as a word, a channel and a request (reset values). Those that
say more:

| Assumption | Says besides types | Because |
| --- | --- | --- |
| `DualAssumption` | a quantum is positive, an instruction takes time (`Costs # {}`, none is 0) | the loop ends a quantum by time |
| `CallersAssumption` | the threads are finite in number, and none is both a caller and a requester | the queue's starts are counted by the calls that make them |
| `SpiDmaAssumption` | the FIFOs have at least two entries (the code's have eight) | a FIFO of one word overflows: an answer comes in the cycle in which the one before it is read |
| `UartAssumption`, `PioAssumption` | a UART has a trigger level to choose, the state machines are numbered from 0 | `RXIFLSEL` has levels, a block has four machines |
| `PioAssumption` | a PIO instruction's delay is at most 31 | its field has five bits; the model's "never" is later than any machine can be due |
| `TunesQuietly` | SVCall's, PendSV's and SysTick's priority does not change in a handler | a store to SHPR2 or SHPR3 raises no `interrupts_updated` |
| `~SleepsInHandlers`, `~TunesInHandlers` | firmware neither sleeps nor changes priorities in a handler | a core that sleeps in a handler, PRIMASK clear, enters whatever pends, more urgent or not; a handler whose priority changes is no longer above the one it interrupted |
| `~RetunesStopped` | a stopped timer gets no rate whose tick is shorter than what had gone of the current one | the count then jumps when it goes on (section 4, *Timer*) |

The last three are hypotheses of the theorems that need them, and of no other.

**`SimulationClock_proofs`.** `IInv` is the conjunction of `TypeOK`, `ListIsSorted`, `HorizonIsExact`,
`FlushOnReadFiresNothing` and `OriginMovesInTime`, which need each other: the horizon is right only because the list is sorted, what
is deferred never reaches an alarm only because the horizon is right, and a shift of all alarms keeps the order only because the
origin moves before a time saturates. *The list* needs two lemmas about the walk (`SlotIsFirstLater`) and about insertion and
removal in a sequence, whose proofs take the least element of a set of positions from the well-foundedness of `<`. Results:
`TypeCorrect`, `ListStaysSorted`, `HorizonStaysExact`, `ReadsFireNothing`.
`TimeGoesOn` (`TimeNeverGoesBack`) assumes `RoomToDefer` besides, RebaseAt + MaxPending <= MaxTicks: the code's origin moves at 2^58, times saturate near 2^62,
and a batch lets a million instructions pass, each shorter than LAZY_DELTA. Then settling loses no time (`SettledIsNow`), and since no deferred time passes an alarm,
a flush enters no earlier than what could be observed (`RunGoesOn`). Without the assumption it is false: `clock_safety`'s saturated sums go back.

*The refinement*, in the same module. `ClockIsEager`: the clock implements `EagerClock`, by the mapping of `SimulationClock`, as long as no sum reaches "never"
(`NothingSaturates`, of a state: what a call would add now stays below MAX_TICKS, counted from the origin as the code counts). Between two calls this is proved, not assumed (`RestIsBelowNever`):
the origin has moved in time, so it takes only that every delay fits between the two constants (`RoomToArm`: below 2^62 - 2^58, some eight years). The clock's life has no bound.
Only within one outermost tick, where the origin stays, is it a hypothesis: the tick ends, with all that its callbacks tick and arm, before the time since the last move comes within
a delay of MAX_TICKS. Alarms armed for "never" are outside it, since a time that was clamped is not one that `EagerClock` would keep; the other theorems hold for them too. A list is there a set with an order; `TailIsRest`, `WithoutIsRest` and
`InsertIsInOrder` say what `unlink_alarm`, the loop's pop and `link_alarm_ticks` do to the two, and `CallsGrow` and `CallsReturn` what a callback does to the stack of activations. The invariant adds to `IInv`
that what is deferred is bounded and that no linked alarm is due "never", where a move of the origin would part it from the others. The heart is `RunIsEager`: a tick entered at a settled
time or with the time deferred so far on top (`Entered`) is one step of `EagerClock`, its first alarm or its end. A read is a stutter (`ReadIsEager`).

**`MulticoreFirmware_proofs`.** *The chip, whatever its programs.* All rests on `UpdateTells`, which says what `_update_fifo_irqs` does for any values of the cores'
variables: each handler is then one application of it. The strengthening is that every pending bit is justified by the line last told,
that a core 1 that does not run has nothing pending, and that nothing is in its FIFO before the launch. `PendingIsExact` needs, on top,
that every reset covers the SIO (`Resets \subseteq {"chip"}`): `PendingSurvivesReset` (section 4) shows why. `LaunchNeedsHandshake`, an
action property, uses an invariant of the history: what was heard ends with the prefix of the handshake that `seq` counts.

*The two programs.* Between the message core 0 sends and the answer it receives there are three places: the FIFO to
core 1, core 1 itself, and the FIFO back. `FInv` says that what these hold, in this order, is what was sent and not received
(`Flight`), where each program is accordingly, and what of the handshake is on its way before the launch; each step moves one word from one place to the next, and a
return of core 1 or an abandoned launch empties all three. It gives `AnswersAreTheMessages`. For `WordsWake` it adds that
a core that sleeps on a word has an SEV coming that follows the word, or has the event registered. Both hold with `Returns` and `Abandons` set as without.

**`DualBatch_proofs`.** Times are distances, so the invariant is one of differences. `DInv` bounds each core's local time by the quantum
(`RunsAreNear`), a core's wake-up and the horizon by the clock (`WakesAreNear`, `HorizonIsNear`), says which frames may be on the stack
(`Stacked`: an instruction of the core whose turn it is, and inside its access one of the other, while that is behind), how far each has been
caught up (`Caught`), and that the two are together between rounds (`Together`). The results are
`NoCoreRunsAhead`; `AccessesComeInOrder`, of the accesses that synchronise (of the others, that they are less than a quantum early);
`AlarmsAreNotOvertaken`, which says where an instruction may begin, and not that the clock stops at every alarm: a core's turn lets it begin none past an alarm set when the horizon
was last looked at, and past one armed since, or while it catches up, by less than a quantum; and `NoCoreIsPassed`, which no run asks: the end of
a quantum moves the clock past no core that is awake.

**`Engine_proofs`.** What a coroutine finds when it runs depends on what was queued when, so `EInv` is mostly about the ready
queue: no task has two steps in it and no call two beginnings or wake-ups (`OnceEach`), every step finds its task and every wake-up its call where it expects
it, and the tasks created, the starts queued and the calls that will still queue one do not exceed the starts asked for; that count is what keeps
`_execute_task` the last of the tasks. `ToldInv` says what verdict a call may hold. Results: `PollersMayTrustExecuting`,
`CrashIsTold`, and `CodeIsFromARequest`, that the process exits with a code a requester gave.

**`Parts_proofs`**: the exceptions of a core, and what the next two modules show of their parts, as theorems of `Parts`. `MostUrgentIsEntered` needs no restriction of the
firmware: what the scan chooses is the least of the exceptions that pend, by level and number, and a set of numbers that is not empty
has a least one. `ScanIsNeverMissed` (`FlagCoversTheDue`): whoever makes an exception due sets `interrupts_updated`, or the scan that follows does; `WhatAwaits` says
which are due to a core were it awake, by the fields that change. `HandlersNest`: on a stack whose priorities rise, the scan enters over the
last only what is more urgent, and a return leaves a shorter stack.

**`Peripherals_proofs`**: the DMA requests of four blocks, for `RequestsReachTheController` (`RequestsTellFifos`) of `Parts_proofs`. Nothing computes a request from the FIFO behind it; each
method that moves a word, changes a depth, a threshold or an enable calls the one that tells the controller, sometimes from deep inside another (the SPI's device
answers from inside its own transmission, the UART's loop-back fills the other FIFO, a push that ends a stall happens while all machines are gone through).
`SpiTold`, `UartTold`, `AdcTold` and `TellsNow` say that the controller was last told what holds now; a lemma per method
says which methods restore it (`SpiTells`, `UartTells`, `AdcTells`, `UpdateDmaTells`) and which leave alone all that a request depends on (`SpiSame`, `UartChanges`, `AdcSame`,
`SameTells`). While a PIO block replaces two FIFOs it owes one or two of the requests: `TellsBut(but)` names them. The loops over characters, words owed and machines are folds, and
`FoldExists` and `FoldStays` say, once for all, that a fold whose turns keep a set of states stays in it.

*Alarms and counts*, in the same module, for `AlarmsReachTheirCounts` and `CountsGoOn`. A counter of this code is not counted: its value follows from a base, the time
since then and its rate, and its alarm was armed from the values of that moment. So the invariant of each block says that the two still agree, and each method keeps it, moves the alarm or drops it:
`TimerTimed` (an armed alarm is for the *first* tick at which the low word is its target, if the timer runs), `PwmTimed` (the alarm of an event comes when the count, modulo the latched
period, is the event's, and a count is within its period), `WatchdogTimed`, `RtcTimed` (what is left of a second and what has gone of it make one of the divider and the clock set now), `PioTimed`
(no machine is due before the block looks next; `Bounded`: none is due later than a delay after now, so that "never" is after all of them).
The arithmetic, division by a tick's period and remainders of a count, is a section of lemmas of its own, and `EarliestIs` says that a fold
over the machines finds the earliest. `CountsGoOn` needs `SubsFit` on top for the timer (the part of a tick that a pause keeps is less than a tick); for the calendar it compares the days' numbers on both sides of
each end of a month (`RtcTimed` and the date's validity).

*Lines*, in the same module and in **`Devices_proofs`**, for `EveryLineIsTold` (`LineTellsStatus`). Each block has one method that gives the NVIC its masked
status, and every other has to end in it, or to leave alone what the status is made of; `LinesShown` and `LinesTold` say of each part that its line is what was made of its state.
There is a lemma for the methods that tell the line from any state, one for those that keep what was told, and a step lemma for each part.
Five parts need more. The SPI's levels are bits of the raw status that each move of a word computes anew, so the FIFOs, the raw status and the line are kept together (`SpiShows`). The line of a PIO block may stay up
for its flag (section 4), which is what `PioShows` allows and no more. In `GpioLined` a pin asks by its latched edges and levels, masked, or by force; a change goes from pin to pin, over a jumper too, and each pin whose
asking changes tells the line of the whole bank. The fold over the pins is a chain of single turns (`TurnsAreAChain`; `Folded` is its last state). `GspiLined` says when the data pin is data and when it tells of a packet,
and what the registers show of the packet that is being read, since the pin is not told again while a transaction lasts. `UsbLined` keeps `BUFF_STATUS` and its bit of INTR together while a buffer of
the guest ends a read that the host had parked, or a flush of the serial port, in the middle of an access; it needs what the queues of transfers are made of.

**`Dma_proofs`.** The five safety properties are inductive only together, and not in the middle of a transfer,
where the channel has lost its alarm and not yet counted its word. `Good(d, X)` states them for a state `d` but for the
alarms of the channels in `X`, and `Running(d, c)` what is true of the channel that transfers; one lemma per method says that it
keeps both, and `TransferIsGood` follows the code: the access keeps `Good(d, {c})`, the count restores `Good(d, {})`.

*The paired transfer*, in the same module, for any number of words, FIFOs of any depth from two and frames of any length. `SInv` takes
`Good(dma, {})` over (each access is a `Transfer` of `Dma`) and adds what the two blocks know of each other: the words sent and not yet in memory are those of the
receive FIFO, of the device and of the transmit FIFO, in this order (`Holds`); the controller's requests are the SPI's, and an armed channel
finds room or a word (`Fits`, which is why `clear_dreq()` need not disarm); and in a cycle comes at most one answer, before or after the receive channel has taken the last
(`Paced`). `AnswersAreAskedFor` closes the circle: a word in the receive FIFO has its channel armed before the next cycle, by
`RequestedIsArmed`. The nested deliveries of `Pumped` end after one turn here (`PumpedOnce`), because the answer to a word is not there before the word has gone. Results:
`NothingOverruns`, `DoneWhenTold`, `AlarmsFindTheirWord` (of no run), and `TransferIsAnExchange`, the safety of the refinement that `ImplementsExchange` checks; that the last word comes is TLC's.

Some theorems state what no run asks: types, `ListStaysSorted`, `OutboundNeverOverflows` (the FIFO towards core 1), `NoCoreIsPassed`, `CodeIsFromARequest`, `AlarmsFindTheirWord`.

**Only model-checked**: of `Parts`, the types, `NothingWaits`, `ShowsWhatItDoes` and `RequestsAreServedOnce`; and all liveness: `NoStarvation`, `LaunchCompletes`,
`ExchangeCompletes`, `EveryCoreRuns`, the three of `engine_ends` and the fairness of `ImplementsExchange`. The provers do not reach liveness under fairness and `ENABLED`, nor induction
over data with the theorems of the library, whose operator parameters they cannot instantiate. Where a proof needs an induction over numbers it takes the least
counterexample instead (`LeastElement`), and where it needs a recursive function it gives it.

## 6. What is not modelled, and the plan

`PROJECT.json` gives a reason for every component left out, and for every part of a component. In short:

- *Data and formats*: the boot ROM's image (4,105 lines, a tenth of the implementation), board tables, UF2, ELF and flash images, register names, messages of GDB queries, ARP and DHCP
  frames, descriptors. There is no state to check.
- *The native twins*: Cython and C++ that repeat the modelled Python line by line. The repository's lockstep tests compare the two; a second model of the
  same behaviour would say nothing new.
- *Input and output*: the command line, terminals, sockets and downloads, as far as they are calls of a library.
- *Instruction decoding*: one large match whose branches are each an assignment or two. Arithmetic, shifts, flags, conditions, exceptions, sleep and events are
  modelled; moves, loads, stores and encodings are the subject of the repository's reference tests.
- *Small register blocks* (SYSCFG, SYSINFO, TBMAN, BUSCTRL, VREG, SSI and XIP as far as it is stored values).

These, with comments and docstrings between the lines that are mapped, are the larger part of the repository's lines; the definitions are mapped to the code that they
translate and to no more.

Left out of modelled parts, most useful first:

1. Proofs of parts: what `NothingWaits` says of the register blocks, and
   `RequestsAreServedOnce` of `Gdb`, `Usb` and `Nat`.
2. The cascade of a chip reset over all blocks as one composition: each part has its own reset, and `Clocks` the order of those of the clock tree.
3. The PWM's second output and its DMA request, PIO's OUT EXEC and OUT_STICKY, the I2C slave, the USB controller's host mode, stalls and aborts.
4. The wireless chip's ioctls, scans and joins; the XIP streaming FIFO against the DMA.
5. Booting and resetting a device (`device/`), firmware loading while the engine runs.
