--------------------------------- MODULE Dma ---------------------------------
(***************************************************************************)
(* The DMA controller (peripherals/_dma.py): channels that move one word   *)
(* each time their alarm fires, arm it again while the request that paces  *)
(* them is up, and on their last word raise an interrupt and start the     *)
(* channel they are chained to.                                            *)
(*                                                                         *)
(* A word goes to memory, to a peripheral, whose requests it may change,   *)
(* or to a register of the controller itself (control blocks), so the      *)
(* access runs in the middle of transfer() and may start, stop or re-arm   *)
(* channels before the transfer has counted itself.  All of the RPDMA      *)
(* object is one record, and each method a function of it, so that calls   *)
(* compose in the order the code makes them.                               *)
(*                                                                         *)
(* A pending alarm fires at any time and in any order: the delays are      *)
(* those of SimulationClock.  Addresses, sizes and data are left out.      *)
(***************************************************************************)
EXTENDS Integers, FiniteSets

CONSTANTS
  Channels,   \* channel numbers, 0 among them
  Requests,   \* DREQ numbers, 0 among them
  Irqs,       \* the interrupt lines, DMA_IRQ0 and DMA_IRQ1
  MaxCount,   \* bound: the words of a sequence
  Ctrls,      \* the CTRL values that are written
  Forces,     \* the INTF values that are written
  Timers,     \* whether the TIMER0 values that are written make it tick
  Writers     \* "ctrl" is in it if channels write CTRL registers of other channels

Permanent == 63   \* TREQ.PERMANENT
Timer == 59       \* TREQ.TIMER0
Ctrl == [en : BOOLEAN, treq : Requests \cup {Permanent, Timer}, chain : Channels, quiet : BOOLEAN]

ASSUME DmaAssumption ==
  /\ 0 \in Channels /\ Channels \subseteq 0 .. 11
  /\ 0 \in Requests /\ Requests \subseteq 0 .. 39
  /\ MaxCount \in Nat
  /\ Ctrls \subseteq Ctrl
  /\ Forces \subseteq SUBSET Channels
  /\ Timers \subseteq BOOLEAN

\* RPDMA and its channels, with two fields of history: `asked`, the words a channel was last
\* started for (or had moved when it was cut short), and `moved`, those it has moved since.
VARIABLE dma

\* (`force` is INTF, `line` the two interrupt lines, `up` the requests, `quiet` IRQ_QUIET.)
Counts == 0 .. MaxCount
State ==
  [ctrl : [Channels -> Ctrl], busy : SUBSET Channels, count : [Channels -> Counts],
   reload : [Channels -> Counts], alarm : SUBSET Channels, up : SUBSET Requests, timer : BOOLEAN,
   raw : SUBSET Channels, enable : [Irqs -> SUBSET Channels], force : [Irqs -> SUBSET Channels],
   line : [Irqs -> BOOLEAN], moved : [Channels -> Counts], asked : [Channels -> Counts]]

NoCtrl == [en |-> FALSE, treq |-> 0, chain |-> 0, quiet |-> FALSE]

-----------------------------------------------------------------------------
(* Methods, as functions of the state d of the controller.                 *)

Active(d, c) == d.ctrl[c].en /\ c \in d.busy

\* Whether a transfer paced by t may be scheduled now.
Asks(d, t) == t \in d.up \/ t = Permanent \/ (t = Timer /\ d.timer)

ScheduleTransfer(d, c) ==
  IF Asks(d, d.ctrl[c].treq) THEN [d EXCEPT !.alarm = @ \cup {c}] ELSE d

\* start() of the channels in S: ignored by one that is disabled or busy; no words is no sequence.
Started(d, S) ==
  LET able == {c \in S : d.ctrl[c].en /\ c \notin d.busy}
      go == {c \in able : d.reload[c] # 0}
  IN  [d EXCEPT !.count = [c \in Channels |-> IF c \in able THEN d.reload[c] ELSE @[c]],
                !.busy = @ \cup go,
                !.alarm = @ \cup {c \in go : Asks(d, d.ctrl[c].treq)},
                !.asked = [c \in Channels |-> IF c \in go THEN d.reload[c] ELSE @[c]],
                !.moved = [c \in Channels |-> IF c \in go THEN 0 ELSE @[c]]]

\* (slip: the alarm is left pending)
Aborted_LeavesAlarm(d, S) ==
  [d EXCEPT !.busy = @ \ S,
            !.count = [c \in Channels |-> IF c \in S THEN 0 ELSE @[c]],
            !.asked = [c \in Channels |-> IF c \in S THEN d.moved[c] ELSE @[c]]]

Aborted(d, S) ==
  [d EXCEPT !.busy = @ \ S,
            !.count = [c \in Channels |-> IF c \in S THEN 0 ELSE @[c]],
            !.alarm = @ \ S,
            !.asked = [c \in Channels |-> IF c \in S THEN d.moved[c] ELSE @[c]]]

\* INTS of each line, and `_check_interrupts`, which tells it.
Status(d, i) == (d.raw \cap d.enable[i]) \cup d.force[i]
CheckInterrupts(d) == [d EXCEPT !.line = [i \in Irqs |-> Status(d, i) # {}]]

\* (slip: the line is not told)
Raised_Untold(d, c) == [d EXCEPT !.raw = @ \cup {c}]
Raised(d, c) == CheckInterrupts([d EXCEPT !.raw = @ \cup {c}])

\* A write of CTRL: a running channel is armed again, a disabled one is disarmed.  BUSY stays.
\* (slip: enabling a paused channel does not arm it)
CtrlWritten_NotResumed(d, c, value) ==
  LET e == [d EXCEPT !.ctrl[c] = value]
  IN  IF value.en THEN e ELSE [e EXCEPT !.alarm = @ \ {c}]
CtrlWritten(d, c, value) ==
  LET e == [d EXCEPT !.ctrl[c] = value]
  IN  IF ~ value.en THEN [e EXCEPT !.alarm = @ \ {c}]
      ELSE IF c \in d.busy THEN ScheduleTransfer(e, c) ELSE e

\* A trigger register is written with 0.
NullTriggered(d, c) == IF d.ctrl[c].quiet THEN Raised(d, c) ELSE d

\* The requests are `up` from now on; set_dreq() arms the channels of a request that rises, and
\* clear_dreq() disarms none.
RequestsAre(d, up) ==
  [d EXCEPT !.up = up,
            !.alarm = @ \cup {c \in Channels : Active(d, c) /\ d.ctrl[c].treq \in up \ d.up}]

\* The end of a sequence.
Completed(d, c) ==
  LET e == [d EXCEPT !.busy = @ \ {c}]
      f == IF e.ctrl[c].quiet THEN e ELSE Raised(e, c)
  IN  IF f.ctrl[c].chain # c THEN Started(f, {f.ctrl[c].chain}) ELSE f

\* The rest of transfer(), after its access.
\* (slip: one word too many)
Counted_OneMore(d, c) ==
  LET e == [d EXCEPT !.count[c] = @ - 1, !.moved[c] = @ + 1]
  IN  IF e.count[c] >= 0 THEN ScheduleTransfer(e, c) ELSE Completed(e, c)

\* (slip: the last word is left out)
Counted_OneFewer(d, c) ==
  LET e == [d EXCEPT !.count[c] = @ - 1, !.moved[c] = @ + 1]
  IN  IF e.count[c] > 1 THEN ScheduleTransfer(e, c) ELSE Completed(e, c)

Counted(d, c) ==
  LET e == [d EXCEPT !.count[c] = @ - 1, !.moved[c] = @ + 1]
  IN  IF e.count[c] > 0 THEN ScheduleTransfer(e, c) ELSE Completed(e, c)

-----------------------------------------------------------------------------
(* Accesses by the processor. *)

WriteReload(c, n) == dma' = [dma EXCEPT !.reload[c] = n]

\* TRANS_COUNT through the alias that triggers.
WriteReloadTrig(c, n) ==
  LET d == [dma EXCEPT !.reload[c] = n]
  IN  dma' = IF n # 0 THEN Started(d, {c}) ELSE NullTriggered(d, c)

WriteCtrl(c, value) == dma' = CtrlWritten(dma, c, value)

WriteCtrlTrig(c, value) ==
  LET d == CtrlWritten(dma, c, value)
  IN  dma' = IF value # NoCtrl THEN Started(d, {c}) ELSE NullTriggered(d, c)

\* An address through an alias that triggers: a null pointer ends a chain of control blocks.
WriteAddrTrig(c, null) == dma' = IF null THEN NullTriggered(dma, c) ELSE Started(dma, {c})

MultiTrigger(S) == dma' = Started(dma, S)
ChanAbort(S) == dma' = Aborted(dma, S)

WriteTimer(ticks) == dma' = [dma EXCEPT !.timer = ticks]

Acknowledge(S) == dma' = CheckInterrupts([dma EXCEPT !.raw = @ \ S])
WriteEnable(i, S) == dma' = CheckInterrupts([dma EXCEPT !.enable[i] = S])
WriteForce(i, S) == dma' = CheckInterrupts([dma EXCEPT !.force[i] = S])

\* (slip: the requests are forgotten)
Clear_Forgets(up) ==
  [ctrl |-> [c \in Channels |-> NoCtrl], busy |-> {}, count |-> [c \in Channels |-> 0],
   reload |-> [c \in Channels |-> 0], alarm |-> {}, up |-> {}, timer |-> FALSE, raw |-> {},
   enable |-> [i \in Irqs |-> {}], force |-> [i \in Irqs |-> {}], line |-> [i \in Irqs |-> FALSE],
   moved |-> [c \in Channels |-> 0], asked |-> [c \in Channels |-> 0]]

\* reset(): all of it but the requests, which are the peripherals' to lower.
Clear(up) ==
  [ctrl |-> [c \in Channels |-> NoCtrl], busy |-> {}, count |-> [c \in Channels |-> 0],
   reload |-> [c \in Channels |-> 0], alarm |-> {}, up |-> up, timer |-> FALSE, raw |-> {},
   enable |-> [i \in Irqs |-> {}], force |-> [i \in Irqs |-> {}], line |-> [i \in Irqs |-> FALSE],
   moved |-> [c \in Channels |-> 0], asked |-> [c \in Channels |-> 0]]

Reset == dma' = Clear(dma.up)

-----------------------------------------------------------------------------
(* The requests of the peripherals, and the alarms. *)

SetDreq(r) == dma' = RequestsAre(dma, dma.up \cup {r})
ClearDreq(r) == dma' = RequestsAre(dma, dma.up \ {r})

\* transfer(): an access, then the rest.  A request that paces c may be lowered by the access (a
\* FIFO that it fills or empties) but is not raised by it.
Transfer(c) ==
  LET d == [dma EXCEPT !.alarm = @ \ {c}]
  IN  /\ c \in dma.alarm
      /\ \/ dma' = Counted(d, c)
         \/ \E up \in SUBSET Requests : d.ctrl[c].treq \notin up \ d.up /\ dma' = Counted(RequestsAre(d, up), c)
         \/ \E k \in Channels : dma' \in {Counted(Started(d, {k}), c), Counted(NullTriggered(d, k), c)}
         \/ /\ "ctrl" \in Writers
            /\ \E k \in Channels \ {c} :
                 \/ dma' = Counted(Aborted(d, {k}), c)
                 \/ \E value \in Ctrls : dma' = Counted(CtrlWritten(d, k, value), c)

Init == dma = Clear({})

Program ==
  \/ \E c \in Channels :
       \/ \E n \in Counts : WriteReload(c, n) \/ WriteReloadTrig(c, n)
       \/ \E value \in Ctrls : WriteCtrl(c, value) \/ WriteCtrlTrig(c, value)
       \/ \E null \in BOOLEAN : WriteAddrTrig(c, null)
  \/ \E S \in SUBSET Channels : MultiTrigger(S) \/ ChanAbort(S) \/ Acknowledge(S)
  \/ \E i \in Irqs : \E S \in SUBSET Channels : WriteEnable(i, S)
  \/ \E i \in Irqs : \E S \in Forces : WriteForce(i, S)
  \/ \E ticks \in Timers : WriteTimer(ticks)
  \/ Reset

Next ==
  \/ Program
  \/ \E r \in Requests : SetDreq(r) \/ ClearDreq(r)
  \/ \E c \in Channels : Transfer(c)

Spec == Init /\ [][Next]_dma

-----------------------------------------------------------------------------
(* Properties *)

\* The controller's state has its type; in particular no count is ever negative.
TypeOK == dma \in State

\* No channel starves: one that is active while its request is up (or permanent) has its alarm
\* pending, whichever came first, the trigger, the enable or the request.  clear_dreq() and
\* set_dreq() tell edges only, so whoever misses one waits for ever (record 0044).
RequestedIsArmed ==
  \A c \in Channels :
    Active(dma, c) /\ dma.ctrl[c].treq \in dma.up \cup {Permanent} => c \in dma.alarm

\* A channel that is not active moves nothing: no alarm outlives the sequence that armed it,
\* however that ended (last word, abort, disable, reset, by a program or by another channel).
ArmedIsActive == \A c \in dma.alarm : Active(dma, c)

\* A sequence moves the number of words it was started for, no more and no fewer, whatever is
\* triggered, chained, rewritten, paused or requested meanwhile.
SequenceMovesItsCount ==
  \A c \in Channels :
    /\ dma.moved[c] + dma.count[c] = dma.asked[c]
    /\ (c \in dma.busy) = (dma.count[c] > 0)

\* Both interrupt lines show INTS, after every access and every transfer.
LinesTellStatus == \A i \in Irqs : dma.line[i] = (Status(dma, i) # {})

-----------------------------------------------------------------------------
(* What the documents say and the code does not do *)

\* "The pacing timer produces TREQ assertions at a rate set by ((X/Y) * sys_clk)" (`_get_timer`):
\* one that is set while a channel waits for it does not arm that channel.
TimerIsArmed ==
  \A c \in Channels : Active(dma, c) /\ dma.ctrl[c].treq = Timer /\ dma.timer => c \in dma.alarm

=============================================================================
