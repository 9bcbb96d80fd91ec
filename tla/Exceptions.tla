----------------------------- MODULE Exceptions -----------------------------
(***************************************************************************)
(* One core's exceptions: the NVIC and system-control registers of the    *)
(* PPB, PRIMASK, the sleep instructions, and the scan that picks the next  *)
(* handler (_cortex_m0_core.py, peripherals/_ppb.py).                      *)
(*                                                                         *)
(* An exception is its number: 2 NMI, 11 SVCall, 14 PendSV, 15 SysTick,    *)
(* 16 + n for the interrupt n, and 0 for thread mode.  The registers, the  *)
(* vector table and the stacked data registers are left out: of a frame    *)
(* only the stacked IPSR is kept, in active, so that active[Len(active)]   *)
(* is the handler running below the current one.                           *)
(***************************************************************************)
EXTENDS Integers, Sequences, SequencesExt

CONSTANTS
    Irqs,             \* the exception numbers of the interrupts in use
    Tunable,          \* the exceptions whose priority the firmware writes
    Levels,           \* the priorities it writes
    SleepsInHandlers, \* whether firmware runs WFI and WFE in a handler
    TunesInHandlers,  \* whether it changes a priority in one
    MaxNesting        \* bound: no sleep or NMI request at a greater depth

NMI == 2
SVCALL == 11
PENDSV == 14
SYSTICK == 15
THREAD == 0
LOWEST_PRIORITY == 4
MAX_HARDWARE_IRQ == 25
System == {SVCALL, PENDSV, SYSTICK}

ExceptionsAssumption ==
    /\ Irqs \subseteq 16..47
    /\ Tunable \subseteq Irqs \cup System
    /\ Levels \subseteq 0..(LOWEST_PRIORITY - 1)
    /\ SleepsInHandlers \in BOOLEAN
    /\ TunesInHandlers \in BOOLEAN
    /\ MaxNesting \in Nat

VARIABLE core
vars == <<core>>

PowerOn ==
    [pending |-> {}, enabled |-> {}, level |-> [n \in Irqs \cup System |-> 0],
     pm |-> FALSE, ipsr |-> THREAD, active |-> <<>>, interrupts_updated |-> FALSE,
     waiting |-> FALSE, event_wait |-> FALSE, event_registered |-> FALSE]

Init == core = PowerOn

-----------------------------------------------------------------------------
(* The scan.                                                               *)

exception_priority(c, n) ==
    CASE n = NMI -> -2
      [] n \in Irqs \cup System -> c.level[n]
      [] OTHER -> LOWEST_PRIORITY

Lower(a, b) == IF a < b THEN a ELSE b

\* Asleep, PRIMASK set leaves the active handler's priority as the limit,
\* and PRIMASK clear leaves none.
CurrentPriority(c) ==
    IF c.waiting
    THEN IF c.pm THEN exception_priority(c, c.ipsr) ELSE LOWEST_PRIORITY
    ELSE Lower(exception_priority(c, c.ipsr), IF c.pm THEN 0 ELSE LOWEST_PRIORITY)

\* Pending, and enabled where it can be disabled (NMI apart).
Candidates(c) == c.pending \cap (c.enabled \cup System)

\* (slip: the loop runs up to the current priority, itself included)
Due_Inclusive(c) == {n \in Candidates(c) : c.level[n] <= CurrentPriority(c)}

Due(c) == {n \in Candidates(c) : c.level[n] < CurrentPriority(c)}

\* The loop goes level by level, at a level SVCall, PendSV, SysTick and then
\* the interrupts by number: the order of the exception numbers.
\* (slip: the interrupts' own order, whatever their levels)
Before_ByNumber(c, m, n) == m <= n

Before(c, m, n) ==
    c.level[m] < c.level[n] \/ (c.level[m] = c.level[n] /\ m <= n)

exception_entry(c, n) ==
    [c EXCEPT !.active = Append(@, c.ipsr), !.ipsr = n, !.event_registered = TRUE]

\* The core's own exceptions and the software interrupts stop pending when
\* they are taken; a hardware interrupt pends for as long as its line is up.
TakenClears(n) == n < 16 \/ n - 16 > MAX_HARDWARE_IRQ

Take(c, n) ==
    exception_entry(IF TakenClears(n) THEN [c EXCEPT !.pending = @ \ {n}] ELSE c, n)

Interrupted(c) == NMI \in c.pending \/ Due(c) # {}

check_for_interrupts(c) ==
    IF NMI \in c.pending THEN Take(c, NMI)
    ELSE IF Due(c) = {} THEN [c EXCEPT !.interrupts_updated = FALSE]
    ELSE Take(c, CHOOSE n \in Due(c) : \A m \in Due(c) : Before(c, n, m))

-----------------------------------------------------------------------------
(* What reaches the core from outside its program.                         *)

\* A peripheral's line: it wakes a sleeping core if a handler is entered.
SetInterrupt(n, value) ==
    LET raised == [core EXCEPT !.pending = @ \cup {n}, !.interrupts_updated = TRUE]
    IN  /\ n - 16 <= MAX_HARDWARE_IRQ
        /\ core' =
             IF ~value THEN [core EXCEPT !.pending = @ \ {n}]
             ELSE IF n \in core.pending THEN core
             ELSE IF ~core.waiting THEN raised
             ELSE [check_for_interrupts(raised) EXCEPT !.waiting = ~Interrupted(raised)]

\* The SysTick alarm with TICKINT set: it only pends the exception.
SystickAlarm ==
    core' = [core EXCEPT !.pending = @ \cup {SYSTICK}, !.interrupts_updated = TRUE]

\* SEV on the other core.
PeerSev ==
    core' = IF core.waiting /\ core.event_wait
            THEN [core EXCEPT !.waiting = FALSE, !.event_wait = FALSE]
            ELSE [core EXCEPT !.event_registered = TRUE]

-----------------------------------------------------------------------------
(* Instructions: the batch loop runs one when the core is not waiting.     *)

\* What every instruction starts from: the scan, if something asked for it.
Fetched == IF core.interrupts_updated THEN check_for_interrupts(core) ELSE core

Executes(c) == ~core.waiting /\ core' = c

Plain == Executes(Fetched)

Cpsid == Executes([Fetched EXCEPT !.pm = TRUE])

\* MSR PRIMASK; CPSIE is the write of 0.
WritePrimask(value) ==
    Executes([Fetched EXCEPT !.pm = value, !.interrupts_updated = TRUE])

Svc == Executes([Fetched EXCEPT !.pending = @ \cup {SVCALL}, !.interrupts_updated = TRUE])

Sev == Executes([Fetched EXCEPT !.event_registered = TRUE])

MaySleep(c) == (SleepsInHandlers \/ c.ipsr = THREAD) /\ Len(c.active) <= MaxNesting

Wfi ==
    /\ MaySleep(Fetched)
    /\ Executes([Fetched EXCEPT !.waiting = TRUE, !.event_wait = FALSE])

Wfe ==
    /\ MaySleep(Fetched)
    /\ Executes(IF Fetched.event_registered
                THEN [Fetched EXCEPT !.event_registered = FALSE]
                ELSE [Fetched EXCEPT !.waiting = TRUE, !.event_wait = TRUE])

\* A branch to EXC_RETURN in a handler pops the frame.
ExceptionReturn ==
    /\ Fetched.ipsr # THREAD
    /\ Executes([Fetched EXCEPT !.ipsr = Last(Fetched.active),
                                !.active = Front(@),
                                !.interrupts_updated = TRUE,
                                !.event_registered = TRUE])

\* Stores to ICSR, SHCSR and ISPR.  Firmware asks for an NMI in thread mode.
Pend(n) ==
    /\ n = NMI => Fetched.ipsr = THREAD
    /\ Executes([Fetched EXCEPT !.pending = @ \cup {n}, !.interrupts_updated = TRUE])

\* The clearing bits of ICSR and SHCSR, and ICPR, which spares the hardware
\* interrupts below MAX_HARDWARE_IRQ.
Unpend(n) ==
    /\ n \in Irqs => n - 16 >= MAX_HARDWARE_IRQ
    /\ Executes([Fetched EXCEPT !.pending = @ \ {n}])

Enable(n) == Executes([Fetched EXCEPT !.enabled = @ \cup {n}, !.interrupts_updated = TRUE])

Disable(n) == Executes([Fetched EXCEPT !.enabled = @ \ {n}])

\* A store to IPR asks for a scan, one to SHPR2 or SHPR3 does not.
SetPriority(n, p) ==
    /\ TunesInHandlers \/ Fetched.ipsr = THREAD
    /\ Executes([Fetched EXCEPT !.level[n] = p,
                                !.interrupts_updated = IF n \in Irqs THEN TRUE ELSE @])

\* AIRCR.SYSRESETREQ: the core and its PPB, not the lines of the peripherals.
SystemReset == ~core.waiting /\ core' = PowerOn

Instruction ==
    \/ Plain \/ Cpsid \/ Svc \/ Sev \/ Wfi \/ Wfe
    \/ ExceptionReturn \/ SystemReset
    \/ \E value \in BOOLEAN : WritePrimask(value)
    \/ \E n \in Irqs \cup System \cup {NMI} : Pend(n)
    \/ \E n \in Irqs \cup System : Unpend(n)
    \/ \E n \in Irqs : Enable(n) \/ Disable(n)
    \/ \E n \in Tunable, p \in Levels : SetPriority(n, p)

Next ==
    \/ Instruction
    \/ \E n \in Irqs, value \in BOOLEAN : SetInterrupt(n, value)
    \/ SystickAlarm
    \/ PeerSev

Spec == Init /\ [][Next]_vars
-----------------------------------------------------------------------------
(* Properties.                                                             *)

Handlers == Irqs \cup System \cup {NMI}

TypeOK ==
    core \in [pending : SUBSET Handlers, enabled : SUBSET Irqs,
              level : [Irqs \cup System -> 0..(LOWEST_PRIORITY - 1)],
              pm : BOOLEAN, ipsr : Handlers \cup {THREAD},
              active : Seq(Handlers \cup {THREAD}), interrupts_updated : BOOLEAN,
              waiting : BOOLEAN, event_wait : BOOLEAN, event_registered : BOOLEAN]

\* The handlers on the stack, the running one last.
Chain == Append(core.active, core.ipsr)

\* Handlers nest by strictly rising priority: no handler is preempted by
\* itself or by one no more urgent, and the stack starts in thread mode
\* (exception_entry and exception_return, with the scan between them), as
\* long as firmware neither sleeps nor changes priorities in a handler.
ChainRises ==
    /\ Chain[1] = THREAD
    /\ \A i \in 1..(Len(Chain) - 1) :
           exception_priority(core, Chain[i + 1]) < exception_priority(core, Chain[i])

\* The scan is skipped when interrupts_updated is clear, so the flag may be
\* clear only while nothing could be taken: every store, instruction and line
\* that makes an exception takeable has raised it.
FlagCoversTheDue == ~core.waiting /\ Interrupted(core) => core.interrupts_updated

\* An awake core enters a handler only over a less urgent one, with PRIMASK
\* clear, and never leaves a more urgent enabled exception pending behind it
\* (check_for_interrupts: SVC, PendSV and SysTick compete with the
\* interrupts level by level, NMI comes before all of them).
EntryOfTheMostUrgent ==
    ~core.waiting /\ Len(core'.active) > Len(core.active) =>
       \/ core'.ipsr = NMI
       \/ LET now == core.level[core'.ipsr]
          IN  /\ ~core.pm
              /\ NMI \notin core.pending
              /\ now < exception_priority(core, core.ipsr)
              /\ \A m \in Candidates(core) : core.level[m] >= now
EntersTheMostUrgent == [][EntryOfTheMostUrgent]_vars

\* "If PRIMASK.PM is set to 1, an asynchronous exception that has a higher
\* group priority than any active exception results in a WFI instruction
\* exit": a core does not sleep in a WFI with one pending and enabled.
PendingEndsWfi ==
    core.waiting /\ ~core.event_wait =>
        \A n \in Candidates(core) \ {SVCALL} :
            core.level[n] >= exception_priority(core, core.ipsr)
=============================================================================
