--------------------------------- MODULE Pio ---------------------------------
(***************************************************************************)
(* A PIO block (peripherals/_pio.py, peripherals/_state_machine.py): state *)
(* machines that run when their own time comes, between two instructions   *)
(* of the processor, and that stall on a FIFO, an IRQ flag or a pin.       *)
(* Nobody polls a stalled machine: whatever may end a stall has to look.   *)
(*                                                                         *)
(* What an instruction computes and which one comes next is left to        *)
(* chance; kept is what it does to a FIFO, a flag and its machine's stall. *)
(* IN and OUT appear as the push and pull they may end in, FIFOs by what   *)
(* they hold, one flag and one pin for all.  Times are relative to the     *)
(* block's cycle, the clock divider is 1.  OUT_STICKY and EXEC are left    *)
(* out.                                                                    *)
(***************************************************************************)
EXTENDS Integers, Sequences, FiniteSets, SequencesExt

CONSTANTS
  Machines,      \* the state machines, as many as are looked at
  PioDepth,      \* the words of a FIFO (4)
  Joins,         \* the values of SHIFTCTRL.FJOIN
  Programs,      \* the instructions that each machine runs
  Strobes,       \* the machines that a write of CTRL restarts, and those whose clock it restarts
  PioDelays,     \* the delays of instructions
  PioCycles,     \* the cycles the block is advanced by
  MaxArrears,    \* MAX_ARREARS_FP, in cycles: a machine that is later writes its backlog off
  PioEnables     \* the values of IRQ0_INTE, as sets of interrupts

VARIABLE pio

Interrupts == {"TX", "RX"} \X Machines \cup {<<"IRQ", 0>>}

Running == "running"
Waits == {"RX", "TX", "IRQ set", "IRQ clear", "PIN high", "PIN low"}
Instructions ==
  {"plain", "push", "push noblock", "pull", "pull noblock", "irq", "irq wait", "irq clear"} \cup (Waits \ {"RX", "TX"})

PioAssumption ==
  /\ IsFiniteSet(Machines) /\ Machines = 0 .. Cardinality(Machines) - 1
  /\ PioDepth \in Nat \ {0} /\ MaxArrears \in Nat
  /\ Joins \subseteq {"none", "tx", "rx"}
  /\ Programs \in [Machines -> SUBSET Instructions] /\ Strobes \subseteq (SUBSET Machines) \X (SUBSET Machines)
  /\ PioDelays \subseteq 0 .. 31 /\ PioCycles \subseteq Nat \ {0}
  /\ PioEnables \subseteq SUBSET Interrupts

Never == MaxArrears + 100     \* NEVER_DUE

Earlier(a, b) == IF a < b THEN a ELSE b
-----------------------------------------------------------------------------
(* Methods, as functions of the state p of the block. *)

\* One FIFO may steal the other's storage.
TxDepth(s) == CASE s.join = "none" -> PioDepth [] s.join = "tx" -> 2 * PioDepth [] s.join = "rx" -> 0
RxDepth(s) == CASE s.join = "none" -> PioDepth [] s.join = "rx" -> 2 * PioDepth [] s.join = "tx" -> 0
TxFull(p, m) == p.sm[m].tx >= TxDepth(p.sm[m])
RxFull(p, m) == p.sm[m].rx >= RxDepth(p.sm[m])

Requested(p) ==
  {<<"TX", m>> : m \in {n \in Machines : ~ TxFull(p, n)}} \cup {<<"RX", m>> : m \in {n \in Machines : p.sm[n].rx > 0}}
Raw(p) == Requested(p) \cup IF p.flag THEN {<<"IRQ", 0>>} ELSE {}
CheckInterrupts(p) == [p EXCEPT !.line = Raw(p) \cap p.inte # {}]

\* _update_dma_tx(), _update_dma_rx() of one machine.
UpdateDma(p, kind, m) ==
  [p EXCEPT !.up = IF <<kind, m>> \in Requested(p) THEN @ \cup {<<kind, m>>} ELSE @ \ {<<kind, m>>}]

Push(p, m) == CheckInterrupts(UpdateDma([p EXCEPT !.sm[m].rx = @ + 1], "RX", m))
Pull(p, m) == CheckInterrupts(UpdateDma([p EXCEPT !.sm[m].tx = @ - 1], "TX", m))

\* What machine m waits for is there.
Ready(p, m) ==
  CASE p.sm[m].wait = "RX" -> ~ RxFull(p, m)
    [] p.sm[m].wait = "TX" -> p.sm[m].tx > 0
    [] p.sm[m].wait = "IRQ set" -> p.flag
    [] p.sm[m].wait = "IRQ clear" -> ~ p.flag
    [] p.sm[m].wait = "PIN high" -> p.pin
    [] p.sm[m].wait = "PIN low" -> ~ p.pin
    [] OTHER -> FALSE

\* The stall is over: one cycle to retire the instruction, then its own delay, from now on.
Unstalled(p, m) ==
  LET due == 1 + p.sm[m].delay
  IN  [p EXCEPT !.sm[m] = [@ EXCEPT !.wait = Running, !.delay = 0, !.due = IF p.sm[m].on THEN due ELSE 0],
                !.next = Earlier(@, due)]

\* check_wait(): a wait for a flag to be set also clears it, and tells nobody.
CheckWait(p, m) ==
  IF ~ Ready(p, m) THEN p
  ELSE Unstalled(CASE p.sm[m].wait = "RX" -> Push(p, m)
                   [] p.sm[m].wait = "TX" -> Pull(p, m)
                   [] p.sm[m].wait = "IRQ set" -> [p EXCEPT !.flag = FALSE]
                   [] OTHER -> p, m)

\* The machines in the order of their numbers, in which the block goes through them.
Order == [i \in 1 .. Cardinality(Machines) |-> i - 1]
IrqUpdated(p) == CheckInterrupts(FoldLeft(CheckWait, p, Order))

Wait(p, m, for, delay) == [p EXCEPT !.sm[m].wait = for, !.sm[m].delay = delay]

\* The instruction itself; an instruction that does not block goes on without its FIFO.
Effect(p, m, instruction, delay) ==
  CASE instruction = "push" -> IF RxFull(p, m) THEN Wait(p, m, "RX", delay) ELSE Push(p, m)
    [] instruction = "pull" -> IF p.sm[m].tx = 0 THEN Wait(p, m, "TX", delay) ELSE Pull(p, m)
    [] instruction = "push noblock" -> IF RxFull(p, m) THEN p ELSE Push(p, m)
    [] instruction = "pull noblock" -> IF p.sm[m].tx = 0 THEN p ELSE Pull(p, m)
    [] instruction = "irq" -> IrqUpdated([p EXCEPT !.flag = TRUE])
    [] instruction = "irq wait" -> Wait(IrqUpdated([p EXCEPT !.flag = TRUE]), m, "IRQ clear", delay)
    [] instruction = "irq clear" -> IrqUpdated([p EXCEPT !.flag = FALSE])
    [] instruction \in Waits -> Wait(p, m, instruction, delay)
    [] OTHER -> p

ExecuteInstruction(p, m, instruction, delay) == CheckWait(Effect(p, m, instruction, delay), m)

\* step(), of a machine that is due: it is due again after its cycles, or where its stall left it.
Stepped(p, m, instruction, delay) ==
  LET from == IF p.sm[m].due < - MaxArrears THEN 0 ELSE p.sm[m].due
      t == Effect(p, m, instruction, delay)
      u == CheckWait(t, m)
  IN  IF t.sm[m].wait = Running THEN [t EXCEPT !.sm[m].due = from + 1 + delay]
      ELSE IF u.sm[m].wait = Running THEN u ELSE [u EXCEPT !.sm[m].due = 0]

Runnable(p) == {m \in Machines : p.sm[m].on /\ p.sm[m].wait = Running}
Due(p) == {m \in Runnable(p) : p.sm[m].due <= 0}

RecomputeDue(p) ==
  [p EXCEPT !.next = FoldLeft(LAMBDA d, m : IF m \in Runnable(p) THEN Earlier(d, p.sm[m].due) ELSE d, Never, Order)]

\* The cycle of the block moves on, and with it everything is due earlier.
Moved(p, cycles) ==
  LET from(due) == IF due - cycles < - MaxArrears THEN - MaxArrears - 1 ELSE due - cycles
      Machine(m) == IF m \in Runnable(p) THEN [p.sm[m] EXCEPT !.due = from(@)] ELSE p.sm[m]
  IN  [p EXCEPT !.sm = [m \in Machines |-> Machine(m)],
                !.next = IF @ = Never THEN Never ELSE from(@)]

RunDue(p, program) ==
  RecomputeDue(FoldLeft(LAMBDA q, m : IF m \in DOMAIN program THEN Stepped(q, m, program[m][1], program[m][2]) ELSE q,
                        p, Order))

TxfWritten(p, m) ==
  IF TxFull(p, m) THEN p
  ELSE LET t == CheckWait(UpdateDma([p EXCEPT !.sm[m].tx = @ + 1], "TX", m), m)
       IN  IF TxFull(t, m) THEN CheckInterrupts(t) ELSE t

RxfRead(p, m) ==
  IF p.sm[m].rx = 0 THEN p
  ELSE LET t == CheckWait(UpdateDma([p EXCEPT !.sm[m].rx = @ - 1], "RX", m), m)
       IN  IF t.sm[m].rx = 0 THEN CheckInterrupts(t) ELSE t

\* A write of SHIFTCTRL that changes FJOIN: both FIFOs are replaced by empty ones.
Joined(p, m, join) ==
  IF join = p.sm[m].join THEN p
  ELSE LET t == [p EXCEPT !.sm[m].join = join, !.sm[m].tx = 0, !.sm[m].rx = 0]
       IN  CheckInterrupts(CheckWait(UpdateDma(UpdateDma(t, "RX", m), "TX", m), m))

\* A write of CTRL: SM_ENABLE, SM_RESTART and CLKDIV_RESTART.
CtrlWritten(p, on, restarted, phased) ==
  LET Machine(m) ==
        LET s == p.sm[m]
            t == IF m \in on /\ ~ s.on THEN [s EXCEPT !.due = 0] ELSE s
            u == IF m \in restarted THEN [t EXCEPT !.wait = Running, !.delay = 0, !.due = 0] ELSE t
            v == IF m \in phased THEN [u EXCEPT !.due = 1] ELSE u
        IN  [v EXCEPT !.on = m \in on, !.due = IF m \in on /\ v.wait = Running THEN @ ELSE 0]
  IN  RecomputeDue([p EXCEPT !.sm = [m \in Machines |-> Machine(m)]])

PowerOn(pin) ==
  [sm |-> [m \in Machines |-> [on |-> FALSE, tx |-> 0, rx |-> 0, join |-> "none", wait |-> Running, delay |-> 0, due |-> 0]],
   flag |-> FALSE, pin |-> pin, next |-> Never, inte |-> {}, line |-> FALSE, up |-> {"TX"} \X Machines]
-----------------------------------------------------------------------------
Init == pio = PowerOn(FALSE)

\* advance(): the block, unless it is stopped, gets the cycles of an instruction of the processor.
Advance ==
  /\ \E m \in Machines : pio.sm[m].on
  /\ \E cycles \in PioCycles :
       LET p == Moved(pio, cycles)
       IN  IF p.next > 0 THEN pio' = p
           ELSE \E program \in [Due(p) -> (UNION {Programs[m] : m \in Machines}) \X PioDelays] :
                  /\ \A m \in Due(p) : program[m][1] \in Programs[m]
                  /\ pio' = RunDue(p, program)

WriteTxf == \E m \in Machines : pio' = TxfWritten(pio, m)
ReadRxf == \E m \in Machines : pio' = RxfRead(pio, m)
WriteShiftctrl == \E m \in Machines, join \in Joins : pio' = Joined(pio, m, join)
\* SMx_INSTR: an instruction of the processor's choice, also while the machine is off or stalled.
WriteInstr ==
  \E m \in Machines : \E instruction \in Programs[m], delay \in PioDelays :
    pio' = RecomputeDue(ExecuteInstruction(pio, m, instruction, delay))
WriteCtrl == \E on \in SUBSET Machines, strobe \in Strobes : pio' = CtrlWritten(pio, on, strobe[1], strobe[2])
WriteIrq == pio' = IrqUpdated([pio EXCEPT !.flag = FALSE])
WriteIrqForce == pio' = IrqUpdated([pio EXCEPT !.flag = TRUE])
\* Only enabled machines are told of a pin.
PinChanges ==
  LET p == [pio EXCEPT !.pin = ~ @]
  IN  pio' = FoldLeft(LAMBDA q, m : IF q.sm[m].on /\ q.sm[m].wait \in {"PIN high", "PIN low"} THEN CheckWait(q, m) ELSE q, p, Order)
WriteInte == \E inte \in PioEnables : pio' = CheckInterrupts([pio EXCEPT !.inte = inte])
Reset == pio' = PowerOn(pio.pin)

Next ==
  \/ Advance \/ WriteTxf \/ ReadRxf \/ WriteShiftctrl \/ WriteInstr \/ WriteCtrl
  \/ WriteIrq \/ WriteIrqForce \/ PinChanges \/ WriteInte \/ Reset

Spec == Init /\ [][Next]_pio
-----------------------------------------------------------------------------
(* Properties. *)

TypeOK ==
  LET Cycles == - MaxArrears - 1 .. Never
  IN  pio \in [sm : [Machines -> [on : BOOLEAN, tx : 0 .. 2 * PioDepth, rx : 0 .. 2 * PioDepth, join : Joins \cup {"none"},
                                  wait : Waits \cup {Running}, delay : PioDelays \cup {0}, due : Cycles]],
               flag : BOOLEAN, pin : BOOLEAN, next : Cycles, inte : PioEnables \cup {{}}, line : BOOLEAN, up : SUBSET Interrupts]

\* No interrupt is lost: the line is up whenever an enabled source is.  (It may
\* stay up when a WAIT has cleared the flag: check_wait tells nobody.)
LineTellsStatus ==
  LET status == Raw(pio) \cap pio.inte # {}
  IN  /\ status => pio.line
      /\ pio.line => status \/ <<"IRQ", 0>> \in pio.inte

\* The DMA requests say what the FIFOs say now, also when one steals the other's storage.
RequestsTellFifos == pio.up = Requested(pio)

\* No machine is stalled on a FIFO that has what it waits for: every access to
\* a FIFO looks at the machine behind it (check_wait).
NothingWaits == \A m \in Machines : pio.sm[m].wait \in {"RX", "TX"} => ~ Ready(pio, m)

\* The block looks at its machines no later than one of them is due: the one
\* time that advance() compares is the earliest (_recompute_due, _notify_due).
AlarmsComeOnTarget == \A m \in Runnable(pio) : pio.next <= pio.sm[m].due

\* "A stall ends on the cycle its condition becomes true, whenever that is"
\* (check_wait), that of a machine that waits for a flag too.
StallsEnd == \A m \in Machines : pio.sm[m].wait \in {"IRQ set", "IRQ clear"} => ~ Ready(pio, m)

\* The line falls with the flag that raised it.
LineFallsWithFlag == pio.line => Raw(pio) \cap pio.inte # {}
=============================================================================
