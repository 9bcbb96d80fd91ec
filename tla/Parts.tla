-------------------------------- MODULE Parts --------------------------------
(***************************************************************************)
(* The register blocks (Peripherals), the devices and the other parts      *)
(* that the rest sees only through registers, interrupt lines, DMA         *)
(* requests, alarms of the clock and calls.  None of them calls another,   *)
(* so each is checked on its own: a behaviour is that of one part, chosen  *)
(* at the start, and a property holds of them all, for what one promises   *)
(* the others promise in the same words.                                   *)
(***************************************************************************)
EXTENDS Devices

CONSTANTS
  Kinds,    \* the parts to look at
  Irqs, Tunable, Levels, SleepsInHandlers, TunesInHandlers, MaxNesting,   \* Exceptions
  Execs, Length, ConsoleSize, PacketSize, MaxReplies, Timeouts, Lags,     \* Repl
  Debuggers, Script,                                                      \* Gdb
  Conns, Plans, Mss, Room, MaxComing, SeqNumbers, Isses, Hasty,    \* Nat
  Width,                                                                      \* Alu, Sio, Interp
  Divisions,                                                                  \* Sio
  Alpha, Accums, Bases, Pairs, Lanes0, Lanes1,                                \* Interp
  SysticksOf, Crystal, Ring, DefaultHz, Sources, RingDivs, Ratios, GeneratorDivs, TickCycles, Measured, MaxAway  \* Clocks

X == INSTANCE Exceptions WITH core <- state
R == INSTANCE Repl WITH repl <- state
G == INSTANCE Gdb WITH gdb <- state
N == INSTANCE Nat WITH nat <- state
K == INSTANCE Alu WITH alu <- state
Q == INSTANCE Sio WITH sio <- state
E == INSTANCE Interp WITH interp <- state
F == INSTANCE Clocks WITH tree <- state, Cores <- SysticksOf

ASSUME PartsAssumption ==
  /\ Kinds \subseteq {"spi", "uart", "adc", "timer", "pwm", "i2c", "watchdog", "pio", "rtc",
                      "core", "repl", "gdb", "usb", "nat", "gspi", "gpio", "alu", "sio", "interp", "clocks"}
  /\ X!ExceptionsAssumption /\ R!ReplAssumption /\ G!GdbAssumption /\ N!NatAssumption
  /\ K!AluAssumption /\ Q!SioAssumption /\ E!InterpAssumption /\ F!ClocksAssumption

vars == << part, state >>
-----------------------------------------------------------------------------
Init ==
  /\ part \in Kinds
  /\ \/ PeripheralsInit
     \/ part = "core" /\ X!Init
     \/ part = "repl" /\ R!Init
     \/ part = "gdb" /\ G!Init
     \/ part = "usb" /\ D!Init
     \/ part = "nat" /\ N!Init
     \/ part = "gspi" /\ B!Init
     \/ part = "gpio" /\ L!Init
     \/ part = "alu" /\ K!Init
     \/ part = "sio" /\ Q!Init
     \/ part = "interp" /\ E!Init
     \/ part = "clocks" /\ F!Init

Next ==
  \/ PeripheralsNext /\ UNCHANGED part
  \/ part = "core" /\ X!Next /\ UNCHANGED part
  \/ part = "repl" /\ R!Next /\ UNCHANGED part
  \/ part = "gdb" /\ G!Next /\ UNCHANGED part
  \/ part = "usb" /\ D!Next /\ UNCHANGED part
  \/ part = "nat" /\ N!Next /\ UNCHANGED part
  \/ part = "gspi" /\ B!Next /\ UNCHANGED part
  \/ part = "gpio" /\ L!Next /\ UNCHANGED part
  \/ part = "alu" /\ K!Next /\ UNCHANGED part
  \/ part = "sio" /\ Q!Next /\ UNCHANGED part
  \/ part = "interp" /\ E!Next /\ UNCHANGED part
  \/ part = "clocks" /\ F!Next /\ UNCHANGED part

Spec == Init /\ [][Next]_vars
-----------------------------------------------------------------------------
(* Properties: each part states its own, with what in its code they are about. *)

\* Every part is in a state of its type, its FIFOs within their depth.
TypeOK ==
  CASE part = "spi" -> S!TypeOK [] part = "uart" -> U!TypeOK [] part = "adc" -> A!TypeOK
    [] part = "timer" -> T!TypeOK [] part = "pwm" -> P!TypeOK [] part = "i2c" -> I!TypeOK
    [] part = "watchdog" -> W!TypeOK [] part = "pio" -> O!TypeOK [] part = "core" -> X!TypeOK
    [] part = "repl" -> R!TypeOK [] part = "gdb" -> G!TypeOK [] part = "usb" -> D!TypeOK
    [] part = "nat" -> N!TypeOK [] part = "gspi" -> B!TypeOK [] part = "gpio" -> L!TypeOK
    [] part = "alu" -> K!TypeOK [] part = "rtc" -> C!TypeOK [] part = "sio" -> Q!TypeOK [] part = "interp" -> E!TypeOK
    [] part = "clocks" -> F!TypeOK

\* The level each part last gave to the NVIC is its masked status now, whatever
\* accesses, completions, alarms and resets came before: nothing computes the
\* line from the status, every method that changes the one must tell the other.
\* (The line of a PIO block may stay up, see there.)
LineTellsStatus ==
  CASE part = "spi" -> S!LineTellsStatus [] part = "uart" -> U!LineTellsStatus [] part = "adc" -> A!LineTellsStatus
    [] part = "timer" -> T!LinesTellStatus [] part = "pwm" -> P!LinesTellStatus [] part = "i2c" -> I!LineTellsStatus
    [] part = "pio" -> O!LineTellsStatus [] part = "usb" -> D!LineTellsStatus [] part = "gspi" -> B!LineTellsStatus
    [] part = "gpio" -> L!LineTellsStatus [] part = "rtc" -> C!LineTellsStatus [] OTHER -> TRUE

\* Work that an enabled SPI, UART, I2C master or ADC has been given is under way
\* or timed, and so is an abort of the I2C master; no PIO machine is stalled on a
\* FIFO or a pin that has what it waits for; a core skips the scan for a handler only while
\* there is none to enter; a call through the console, a debugger and the host of the
\* USB have something under way that brings them on.
NothingWaits ==
  CASE part = "spi" -> S!NothingWaits [] part = "uart" -> U!NothingWaits [] part = "adc" -> A!NothingWaits
    [] part = "i2c" -> I!NothingWaits /\ I!AbortsEnd [] part = "pio" -> O!NothingWaits
    [] part = "core" -> X!FlagCoversTheDue [] part = "repl" -> R!NothingWaits [] part = "gdb" -> G!NothingWaits
    [] part = "usb" -> D!NothingWaits [] part = "nat" -> N!NothingWaits
    [] part = "gspi" -> B!NothingWaits [] part = "gpio" -> L!NothingWaits
    [] part = "clocks" -> F!NothingWaits [] OTHER -> TRUE

\* "A stall ends on the cycle its condition becomes true, whenever that is" (check_wait): no PIO
\* machine waits for a flag that is as it waits for.
StallsEnd == part = "pio" => O!StallsEnd

\* What a part shows is what it does: the SPI, the ADC and the I2C master are busy
\* exactly while something is to come that ends it - a frame, an alarm or an answer
\* of the bus -, a PWM output is high exactly while the counter is below CC, the
\* pins have announced the levels they drive and the wire between two of them
\* carries them, a core's flags tell the results of its instructions and an
\* interpolator's results its registers, every division
\* gets its own answer and a spinlock one holder, and the bridge holds the sockets,
\* table entries and waits of the connections there are.
ShowsWhatItDoes ==
  CASE part = "spi" -> S!BusyTellsFrame [] part = "adc" -> A!BusyTellsFrame [] part = "i2c" -> I!BusyTellsFrame
    [] part = "pwm" -> P!OutputIsDuty [] part = "nat" -> N!ShowsWhatItDoes
    [] part = "gpio" -> L!ShowsWhatItDoes [] part = "alu" -> K!FlagsTellResults
    [] part = "sio" -> Q!ShowsWhatItDoes
    [] part = "interp" -> E!LanesTellRegisters [] part = "clocks" -> F!EveryoneFollows [] OTHER -> TRUE

\* The timer's count goes from each value to the next, through pauses, new
\* rates and moves of the clock's origin, and the RTC's calendar goes from each
\* second to the next.
CountNeverJumps == [][CountSteps]_vars

\* The handlers of a core nest by strictly rising priority.
ChainRises == part = "core" => X!ChainRises

\* An awake core enters the most urgent handler, and over a less urgent one.
EntersTheMostUrgent == [][part = "core" => X!EntryOfTheMostUrgent]_vars

\* A call through the console returns its own answer, a debugger's commands run
\* once each, in the order it sent them, and so come USB buffers and bytes, the
\* packets of the wireless chip and the bytes of a bridged connection.
RequestsAreServedOnce ==
  CASE part = "repl" -> R!PromptAnswersAreOwn [] part = "gdb" -> G!CommandsRunOnce
    [] part = "usb" -> D!BuffersComeInOrder [] part = "nat" -> N!BytesComeInOrder
    [] part = "gspi" -> B!PacketsComeInOrder [] OTHER -> TRUE
=============================================================================
