------------------------------ MODULE Multicore ------------------------------
(***************************************************************************)
(* What the two cores of the emulated chip share: the inter-core FIFOs and *)
(* the launch handshake the SIO answers in place of core 1's boot ROM      *)
(* (_sio.py), the events of SEV and WFE (_cortex_m0_core.py), the PSM bit  *)
(* that holds core 1 (peripherals/_psm.py), and the resets (_rp2040.py).   *)
(*                                                                         *)
(* A core may execute any of these instructions at any time it is awake,   *)
(* in any order: whatever the firmware does is one of the behaviours.  The *)
(* two cores interleave by instruction, which covers every schedule of the *)
(* dual batch loop.                                                        *)
(***************************************************************************)
EXTENDS Integers, Sequences, FiniteSets

CONSTANTS
  Words,      \* the words a core sends; 0 and 1 are those the handshake begins with
  FifoDepth,  \* the entries of each FIFO (8)
  Enables,    \* the sets of FIFO lines that a core enables
  Resets,     \* which resets happen: "chip", "watchdog" (SIO not selected), "system"
  MaxEchoes   \* bound: the words left unread in core 0's FIFO before it sends another

ResetKinds == {"chip", "watchdog", "system"}

ASSUME MulticoreAssumption ==
  /\ Words \subseteq Nat
  /\ 0 \in Words
  /\ FifoDepth \in Nat \ {0}
  /\ Resets \subseteq ResetKinds
  /\ MaxEchoes \in Nat

ASSUME EnablesAssumption == Enables \subseteq SUBSET {0, 1}

Core == {0, 1}
Other(c) == 1 - c

VARIABLES
  fifo,      \* `_fifo`: fifo[c] holds the words that core c has sent
  roe,       \* `_roe`: core c has read an empty FIFO
  wof,       \* `_wof`: core c has written a full FIFO
  line,      \* `_fifo_irq`: the level last told of SIO_IRQ_PROC0 and SIO_IRQ_PROC1
  seq,       \* `_launch_seq`: how much of the handshake the boot ROM has heard
  words,     \* `_launch_words`: vector table, stack pointer, entry point
  launched,  \* `_core1_launched`
  running,   \* `core1_running`
  held,      \* `_proc1_was_held`
  sleep,     \* `waiting` and `event_wait` of each core: "awake", "wfi" or "wfe"
  event,     \* `event_registered` of each core
  pending,   \* the FIFO lines that are set in each core's `pending_interrupts`
  enabled,   \* the FIFO lines that are set in each core's `enabled_interrupts`
  heard      \* history: the last six words core 0 has sent to the boot ROM

sio == <<fifo, roe, wof, seq, words, launched>>
cores == <<sleep, event, pending, enabled>>
vars == <<sio, line, running, held, cores, heard>>

Awake(c) == sleep[c] = "awake" /\ (c = 1 => running)

\* Bits VLD, ROE and WOF of the FIFO_ST of core c.
FifoStatus(c) == roe[c] \/ wof[c] \/ fifo[Other(c)] # <<>>

----------------------------------------------------------------------------
(* What a handler does to the cores *)

\* `_update_fifo_irqs`, with the SIO's registers already at their next values: each line is
\* told only when it changes, core 1 only while it runs, and a core that is asleep wakes when
\* a line that was not pending is and one that it enabled is pending: it enters the handler,
\* which registers an event.  `run`, `pend`, `on`, `slp`, `evt` are the chip's running flag and
\* the cores' variables at the time of the call.
UpdateFifoIrqs(run, pend, on, slp, evt) ==
  LET risen     == {c \in Core : FifoStatus(c)' /\ ~ line[c]}
      fallen    == {c \in Core : ~ FifoStatus(c)' /\ line[c]}
      Told(c)   == c = 1 => run
      Wakes(c)  == /\ Told(c)
                   /\ slp[c] # "awake"
                   /\ risen \ pend[c] # {}
                   /\ on[c] \cap (pend[c] \cup risen) # {}
  IN  /\ line' = [c \in Core |-> FifoStatus(c)']
      /\ pending' = [c \in Core |-> IF Told(c) THEN (pend[c] \ fallen) \cup risen ELSE pend[c]]
      /\ sleep' = [c \in Core |-> IF Wakes(c) THEN "awake" ELSE slp[c]]
      /\ event' = [c \in Core |-> Wakes(c) \/ evt[c]]
      /\ enabled' = on

\* `send_event`, and what SEV does to its peer: a core asleep in a WFE wakes and the event is
\* consumed, otherwise the event stays registered.
SentSleep(c) == IF sleep[c] = "wfe" THEN [sleep EXCEPT ![c] = "awake"] ELSE sleep
SentEvent(c) == IF sleep[c] = "wfe" THEN event ELSE [event EXCEPT ![c] = TRUE]

\* `reset_state` of the cores in S (`reset` of core 0 adds the fetch of its vector).
Cleared(S, f, value) == [c \in Core |-> IF c \in S THEN value ELSE f[c]]

\* (slip: the words on their way are kept)
ResetCore1_KeepsWords ==
  /\ UNCHANGED <<fifo, words>>
  /\ roe' = [c \in Core |-> FALSE]
  /\ wof' = [c \in Core |-> FALSE]
  /\ seq' = 0
  /\ launched' = FALSE

\* `RPSIO.reset_core1`, but for the lines.
ResetCore1 ==
  /\ fifo' = [c \in Core |-> <<>>]
  /\ roe' = [c \in Core |-> FALSE]
  /\ wof' = [c \in Core |-> FALSE]
  /\ seq' = 0
  /\ launched' = FALSE
  /\ UNCHANGED words

\* `hold_core1`: core 1 is back in the boot ROM.
HoldCore1 ==
  /\ running' = FALSE
  /\ ResetCore1
  /\ UpdateFifoIrqs(FALSE, Cleared({1}, pending, {}), Cleared({1}, enabled, {}),
                    Cleared({1}, sleep, "awake"), Cleared({1}, event, FALSE))
  /\ heard' = <<>>

----------------------------------------------------------------------------
(* The inter-core FIFOs *)

\* (slip: the lines are not told)
FifoRead_Untold(c) ==
  /\ Awake(c)
  /\ IF fifo[Other(c)] # <<>>
     THEN fifo' = [fifo EXCEPT ![Other(c)] = Tail(@)] /\ UNCHANGED roe
     ELSE roe' = [roe EXCEPT ![c] = TRUE] /\ UNCHANGED fifo
  /\ UNCHANGED <<wof, seq, words, launched, line, running, held, cores, heard>>

\* A read of FIFO_RD: of an empty FIFO it is ignored, and remembered.
FifoRead(c) ==
  /\ Awake(c)
  /\ IF fifo[Other(c)] # <<>>
     THEN fifo' = [fifo EXCEPT ![Other(c)] = Tail(@)] /\ UNCHANGED roe
     ELSE roe' = [roe EXCEPT ![c] = TRUE] /\ UNCHANGED fifo
  /\ UNCHANGED <<wof, seq, words, launched, running, held, heard>>
  /\ UpdateFifoIrqs(running, pending, enabled, sleep, event)

\* A write of FIFO_ST clears the two sticky flags.
FifoClear(c) ==
  /\ Awake(c)
  /\ roe' = [roe EXCEPT ![c] = FALSE]
  /\ wof' = [wof EXCEPT ![c] = FALSE]
  /\ UNCHANGED <<fifo, seq, words, launched, running, held, heard>>
  /\ UpdateFifoIrqs(running, pending, enabled, sleep, event)

\* A write of FIFO_WR that reaches the FIFO: to a full one it is ignored, and remembered.
FifoWrite(c, word) ==
  /\ Awake(c)
  /\ c = 0 => launched
  /\ IF Len(fifo[c]) < FifoDepth
     THEN fifo' = [fifo EXCEPT ![c] = Append(@, word)] /\ UNCHANGED wof
     ELSE wof' = [wof EXCEPT ![c] = TRUE] /\ UNCHANGED fifo
  /\ UNCHANGED <<roe, seq, words, launched, running, held, heard>>
  /\ UpdateFifoIrqs(running, pending, enabled, sleep, event)

----------------------------------------------------------------------------
(* The launch *)

\* (slip: a 0 in place of the vector table, stack or entry is taken for one)
NextSeq_NoRestart(word) ==
  IF seq < 3 /\ word # <<0, 0, 1>>[seq + 1] THEN IF word = 0 THEN 1 ELSE 0
  ELSE seq + 1

\* Where a word takes the handshake 0, 0, 1, vector table, stack, entry: a wrong one starts it
\* over, and so does a 0 in the second half.
NextSeq(word) ==
  IF seq < 3 /\ word # <<0, 0, 1>>[seq + 1] THEN IF word = 0 THEN 1 ELSE 0
  ELSE IF seq >= 3 /\ word = 0 THEN 1
  ELSE seq + 1

LastSix(s) == IF Len(s) > 6 THEN SubSeq(s, Len(s) - 5, Len(s)) ELSE s

\* A write of FIFO_WR by core 0 that the boot ROM answers: it echoes the word whatever the
\* FIFO holds, with an event, and has heard one word more.
Answer(word) ==
  /\ Awake(0)
  /\ ~ launched
  /\ Len(fifo[1]) < MaxEchoes
  /\ words' = IF seq >= 3 /\ word # 0 THEN [words EXCEPT ![seq - 3] = word] ELSE words
  /\ fifo' = [fifo EXCEPT ![1] = Append(@, word)]
  /\ heard' = LastSix(Append(heard, word))
  /\ UNCHANGED <<roe, wof, held>>

\* A word that does not complete the handshake.
BootRomAnswer(word) ==
  /\ Answer(word)
  /\ NextSeq(word) < 6
  /\ seq' = NextSeq(word)
  /\ UNCHANGED <<launched, running>>
  /\ UpdateFifoIrqs(running, pending, enabled, SentSleep(0), SentEvent(0))

\* (slip: core 1 starts with no line pending)
LaunchCore1_NothingPending(word) ==
  /\ Answer(word)
  /\ NextSeq(word) >= 6
  /\ seq' = 0
  /\ launched' = TRUE
  /\ running' = TRUE
  /\ UpdateFifoIrqs(FALSE, Cleared({1}, pending, {}), Cleared({1}, enabled, {}),
                    Cleared({1}, sleep, "awake"), Cleared({1}, SentEvent(0), FALSE))

\* The last word: core 1 is launched, with the lines that core 0 has pending.
LaunchCore1(word) ==
  /\ Answer(word)
  /\ NextSeq(word) >= 6
  /\ seq' = 0
  /\ launched' = TRUE
  /\ running' = TRUE
  /\ UpdateFifoIrqs(TRUE, Cleared({1}, pending, pending[0]), Cleared({1}, enabled, {}),
                    Cleared({1}, sleep, "awake"), Cleared({1}, SentEvent(0), FALSE))

\* Core 1 returns from its entry function to the boot ROM.
Park ==
  /\ Awake(1)
  /\ HoldCore1
  /\ UNCHANGED held

\* A core writes FRCE_OFF or FRCE_ON and PROC1 is forced off from now on.
ForceOff(c) ==
  /\ Awake(c)
  /\ ~ held
  /\ held' = TRUE
  /\ HoldCore1

\* (slip: core 0 is not told)
LetGo_Silent(c) ==
  /\ Awake(c)
  /\ held
  /\ held' = FALSE
  /\ UNCHANGED <<sio, line, running, cores, heard>>

\* A core lets PROC1 go: the boot ROM tells core 0 with a 0 and an event.
LetGo(c) ==
  /\ Awake(c)
  /\ held
  /\ Len(fifo[1]) < MaxEchoes
  /\ held' = FALSE
  /\ fifo' = [fifo EXCEPT ![1] = Append(@, 0)]
  /\ UNCHANGED <<roe, wof, seq, words, launched, running, heard>>
  /\ UpdateFifoIrqs(running, pending, enabled, SentSleep(0), SentEvent(0))

----------------------------------------------------------------------------
(* Events and interrupts *)

Wfe(c) ==
  /\ Awake(c)
  /\ event' = [event EXCEPT ![c] = FALSE]
  /\ sleep' = [sleep EXCEPT ![c] = IF event[c] THEN "awake" ELSE "wfe"]
  /\ UNCHANGED <<sio, line, running, held, pending, enabled, heard>>

Wfi(c) ==
  /\ Awake(c)
  /\ sleep' = [sleep EXCEPT ![c] = "wfi"]
  /\ UNCHANGED <<sio, line, running, held, event, pending, enabled, heard>>

\* (slip: only a core that is asleep hears the event)
Sev_Momentary(c) ==
  /\ Awake(c)
  /\ sleep' = SentSleep(Other(c))
  /\ event' = [event EXCEPT ![c] = TRUE]
  /\ UNCHANGED <<sio, line, running, held, pending, enabled, heard>>

\* SEV sets the event register of both cores.
Sev(c) ==
  /\ Awake(c)
  /\ sleep' = SentSleep(Other(c))
  /\ event' = [SentEvent(Other(c)) EXCEPT ![c] = TRUE]
  /\ UNCHANGED <<sio, line, running, held, pending, enabled, heard>>

\* A write of NVIC_ISER or NVIC_ICER.
Enable(c, lines) ==
  /\ Awake(c)
  /\ enabled' = [enabled EXCEPT ![c] = lines]
  /\ UNCHANGED <<sio, line, running, held, sleep, event, pending, heard>>

\* A core that is awake takes a FIFO interrupt: entry and return each register an event.
TakeInterrupt(c) ==
  /\ Awake(c)
  /\ enabled[c] \cap pending[c] # {}
  /\ event' = [event EXCEPT ![c] = TRUE]
  /\ UNCHANGED <<sio, line, running, held, sleep, pending, enabled, heard>>

----------------------------------------------------------------------------
(* Resets *)

\* A reset that covers the SIO: the RUN pin, power on, or a watchdog whose WDSEL selects it.
ChipReset ==
  /\ "chip" \in Resets
  /\ running' = FALSE
  /\ ResetCore1
  /\ UpdateFifoIrqs(FALSE, Cleared(Core, pending, {}), Cleared(Core, enabled, {}),
                    Cleared(Core, sleep, "awake"), Cleared(Core, event, FALSE))
  /\ heard' = <<>>
  /\ UNCHANGED held

\* A watchdog reset whose WDSEL does not select the SIO: both cores, and the SIO as it was.
WatchdogReset ==
  /\ "watchdog" \in Resets
  /\ running' = FALSE
  /\ sleep' = Cleared(Core, sleep, "awake")
  /\ event' = Cleared(Core, event, FALSE)
  /\ pending' = Cleared(Core, pending, {})
  /\ enabled' = Cleared(Core, enabled, {})
  /\ UNCHANGED <<sio, line, held, heard>>

\* A core sets AIRCR.SYSRESETREQ: that core alone.
SystemReset(c) ==
  /\ "system" \in Resets
  /\ Awake(c)
  /\ sleep' = Cleared({c}, sleep, "awake")
  /\ event' = Cleared({c}, event, FALSE)
  /\ pending' = Cleared({c}, pending, {})
  /\ enabled' = Cleared({c}, enabled, {})
  /\ UNCHANGED <<sio, line, running, held, heard>>

----------------------------------------------------------------------------

Init ==
  /\ fifo = [c \in Core |-> <<>>]
  /\ roe = [c \in Core |-> FALSE]
  /\ wof = [c \in Core |-> FALSE]
  /\ line = [c \in Core |-> FALSE]
  /\ seq = 0
  /\ words = [i \in 0 .. 2 |-> 0]
  /\ launched = FALSE
  /\ running = FALSE
  /\ held = FALSE
  /\ sleep = [c \in Core |-> "awake"]
  /\ event = [c \in Core |-> FALSE]
  /\ pending = [c \in Core |-> {}]
  /\ enabled = [c \in Core |-> {}]
  /\ heard = <<>>

Instruction(c) ==
  \/ FifoRead(c) \/ FifoClear(c)
  \/ \E word \in Words : FifoWrite(c, word)
  \/ ForceOff(c) \/ LetGo(c)
  \/ Wfe(c) \/ Wfi(c) \/ Sev(c) \/ TakeInterrupt(c) \/ SystemReset(c)
  \/ \E lines \in Enables : Enable(c, lines)

Handshake == \E word \in Words : BootRomAnswer(word) \/ LaunchCore1(word)

Next ==
  \/ \E c \in Core : Instruction(c)
  \/ Handshake
  \/ Park \/ ChipReset \/ WatchdogReset

Spec == Init /\ [][Next]_vars

----------------------------------------------------------------------------
(* Properties *)

\* Every variable has its type.
TypeOK ==
  /\ fifo \in [Core -> Seq(Words)]
  /\ roe \in [Core -> BOOLEAN]
  /\ wof \in [Core -> BOOLEAN]
  /\ line \in [Core -> BOOLEAN]
  /\ seq \in 0 .. 5
  /\ words \in [0 .. 2 -> Words]
  /\ launched \in BOOLEAN
  /\ running \in BOOLEAN
  /\ held \in BOOLEAN
  /\ sleep \in [Core -> {"awake", "wfi", "wfe"}]
  /\ event \in [Core -> BOOLEAN]
  /\ pending \in [Core -> SUBSET Core]
  /\ enabled \in [Core -> SUBSET Core]
  /\ heard \in Seq(Words)

\* The level last told of a FIFO line is what FIFO_ST shows, after every handler that pushes,
\* pops, drops, clears or resets: `_fifo_irq` is a copy that each of them has to refresh.
LineTellsStatus == \A c \in Core : line[c] = FifoStatus(c)

\* A core that runs has a FIFO line pending exactly while the line is high, wherever core 1 was
\* launched, held, parked or reset in between: lines are told on their edges alone, so one that
\* was up before the launch must come with it, and none may outlive its cause.  (A reset of the
\* core that leaves the SIO alone forgets a line that is high: see PendingSurvivesReset.)
PendingTracksLine ==
  \A c \in Core : (c = 1 => running) => pending[c] = {l \in Core : line[l]}

\* Whatever resets come between, no core has a FIFO line pending whose cause is gone.
NoPhantomInterrupt == \A c \in Core : \A l \in pending[c] : FifoStatus(l)

\* Core 1 runs only after a handshake that no reset has undone since, and until then the SIO
\* keeps nothing for it: a program finds its FIFO as the handshake left it.
RomOwnsMailbox ==
  /\ running => launched
  /\ ~ launched => fifo[0] = <<>> /\ ~ wof[0]

\* Core 1 is launched only by the six words 0, 0, 1, vector table, stack, entry sent without a
\* gap, with the last three as it finds them and none of them 0, whatever was sent before, and
\* however often the sequence was started over.
LaunchedByHandshake ==
  [][~ running /\ running' =>
       /\ Len(heard') = 6
       /\ \A i \in 1 .. 3 : heard'[i] = <<0, 0, 1>>[i]
       /\ \A i \in 0 .. 2 : words'[i] = heard'[i + 4] /\ words'[i] # 0]_vars

\* The FIFO towards core 1 never holds more than its entries.
OutboundFits == Len(fifo[0]) <= FifoDepth

----------------------------------------------------------------------------
(* What the documents say and the code does not do *)

\* "FIFOs. Two, 32 bits x 8 entries" (docs/records/0104-second-core-seams-and-architecture.md):
\* the boot ROM's echoes are appended whatever the FIFO towards core 0 holds.
BothFifosFit == \A c \in Core : Len(fifo[c]) <= FifoDepth

\* "PROC1 (bit 16) forced off holds core 1 in reset" (`_proc1_changed`): the handshake launches
\* it all the same.
HeldCoreIsInReset == held => ~ running

\* "unlike the peripherals in RP2040.reset()'s WDSEL-gated list, this runs on every reset path"
\* (`RPSIO.reset`): a watchdog reset that does not select the SIO leaves `_core1_launched` set
\* with core 1 stopped, so no handshake is answered any more.
StoppedCoreCanBeLaunched == ~ running => ~ launched

\* "The IRQ of each core is the OR of VLD, ROE and WOF of its FIFO_ST" (`_update_fifo_irqs`): a
\* reset of the core clears the pending bit of a line that stays high and is not told again.
PendingSurvivesReset == \A c \in Core : (c = 1 => running) => \A l \in Core : FifoStatus(l) => l \in pending[c]

=============================================================================
