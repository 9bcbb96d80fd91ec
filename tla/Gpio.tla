-------------------------------- MODULE Gpio --------------------------------
(***************************************************************************)
(* The pins (_gpio_pin.py, _pin_bank.py) behind IO_BANK0 and PADS_BANK0:   *)
(* a pin drives what the function it is given drives, hears what the       *)
(* outside, else the chip itself, else a pull makes of its pad, latches    *)
(* edges, and tells the listeners, the interrupt line and the PIO machines *)
(* that wait for it.  What is outside is a button (key_mock.py) on one pin *)
(* or a wire between two of them (jumper.py), which listens to both.       *)
(***************************************************************************)
EXTENDS Integers, SequencesExt

CONSTANTS
  PinCount,    \* the pins of the bank (30)
  Outsides,    \* what may be wired to them: "button", "wire"
  GpioCtrls,   \* the writes of GPIOn_CTRL: [pin, func, outover, oeover, inover, irqover]
  GpioPads,    \* the writes of the pad registers: [pin, ie, od, up, down]
  GpioWrites,  \* what the SIO or a PIO block writes at once: [func, out, oe]
  GpioWords,   \* what is written to a word of INTE or INTF: the INTR bits of each pin
  PinWaits     \* what PIO machines wait for: [on, level]

Pins == 0 .. PinCount - 1
InOrder == [i \in 1 .. PinCount |-> i - 1]
Overrides == {"normal", "invert", "low", "high"}
Functions == {"null", "sio", "pio"}
CtrlType == [pin : Pins, func : Functions, outover : Overrides, oeover : Overrides, inover : Overrides, irqover : Overrides]
PadType == [pin : Pins, ie : BOOLEAN, od : BOOLEAN, up : BOOLEAN, down : BOOLEAN]
Edges == {"EDGE_HIGH", "EDGE_LOW"}
IntrBits == Edges \cup {"LEVEL_HIGH", "LEVEL_LOW"}

\* A change of IRQOVER or INOVER alone tells neither the line nor the machines that
\* wait for the pin: a pin keeps the two it is given first.
GpioAssumption ==
  /\ PinCount \in Nat \ {0, 1}
  /\ Outsides \subseteq {"button", "wire"} /\ GpioCtrls \subseteq CtrlType /\ GpioPads \subseteq PadType
  /\ GpioWrites \subseteq [func : {"sio", "pio"}, out : SUBSET Pins, oe : SUBSET Pins]
  /\ GpioWords \subseteq [Pins -> SUBSET IntrBits] /\ PinWaits \subseteq [on : Pins, level : BOOLEAN]
  /\ \A c \in GpioCtrls : c.irqover = "normal" /\ c.inover = "normal"

VARIABLE io
-----------------------------------------------------------------------------
(* What a pin shows, as functions of the state g of the bank. *)

Overridden(v, by) ==
  CASE by = "normal" -> v [] by = "invert" -> ~ v [] by = "low" -> FALSE [] by = "high" -> TRUE

RawOutputEnable(g, p) == g.ctrl[p].func # "null" /\ p \in g.oe[g.ctrl[p].func]
RawOutputValue(g, p) == g.ctrl[p].func # "null" /\ p \in g.out[g.ctrl[p].func]

DrivenStates == {"LOW", "HIGH"}

Value(g, p) ==
  LET c == g.ctrl[p]
      d == g.pad[p]
  IN  CASE Overridden(RawOutputEnable(g, p), c.oeover) /\ ~ d.od ->
             IF Overridden(RawOutputValue(g, p), c.outover) THEN "HIGH" ELSE "LOW"
        [] d.up /\ d.down -> "INPUT_BUS_KEEPER"
        [] d.down -> "INPUT_PULL_DOWN"
        [] d.up -> "INPUT_PULL_UP"
        [] OTHER -> "INPUT"

\* The pad's level: driven from outside, else by the chip - in the state that was last
\* announced -, else by one pull.
EffectiveRawInput(g, p) ==
  CASE g.driven[p] -> g.raw[p]
    [] g.last[p] \in DrivenStates -> g.last[p] = "HIGH"
    [] g.pad[p].up # g.pad[p].down -> g.pad[p].up
    [] OTHER -> g.raw[p]

SeenLevel(g, p) == EffectiveRawInput(g, p) /\ g.pad[p].ie
InputValue(g, p) == Overridden(SeenLevel(g, p), g.ctrl[p].inover)
IrqValue(g, p) == Overridden(g.irq[p] \cap g.enable[p] # {} \/ g.force[p] # {}, g.ctrl[p].irqover)
AnyIrqValue(g) == \E p \in Pins : IrqValue(g, p)
-----------------------------------------------------------------------------
(* Methods. *)

UpdateIoInterrupt(g) == [g EXCEPT !.line = AnyIrqValue(g)]

LevelBit(seen) == IF seen THEN "LEVEL_HIGH" ELSE "LEVEL_LOW"
EdgeBit(seen) == IF seen THEN "EDGE_HIGH" ELSE "EDGE_LOW"

\* _sync_irq_levels()
Synced(g, p, edges) ==
  LET seen == SeenLevel(g, p)
      latched == IF edges /\ seen # g.seen[p] THEN {EdgeBit(seen)} ELSE {}
  IN  [g EXCEPT !.seen[p] = seen, !.irq[p] = (@ \cap Edges) \cup latched \cup {LevelBit(seen)}]

\* check_pin_waits(): a machine that waits for the level the pin has now goes on.
PinWaitsChecked(g, p) ==
  IF g.wait.on = p /\ InputValue(g, p) = g.wait.level THEN [g EXCEPT !.wait = [on |-> -1, level |-> FALSE]] ELSE g

ApplyInputValue(g, p, v) ==
  LET r == [g EXCEPT !.raw[p] = v]
      s == Synced(r, p, TRUE)
  IN  PinWaitsChecked(IF IrqValue(s, p) # IrqValue(r, p) THEN UpdateIoInterrupt(s) ELSE s, p)

RefreshInput(g, p) == ApplyInputValue(g, p, g.raw[p])
SetInputValue(g, p, v) == ApplyInputValue([g EXCEPT !.driven[p] = TRUE], p, v)

ReleaseInput(g, p) ==
  LET r == [g EXCEPT !.driven[p] = FALSE] IN ApplyInputValue(r, p, EffectiveRawInput(r, p))

\* The ends of the wire; the one with the lower index is asked first whether it is driven.
EndA == 0
EndB == 1

\* _carry()
Carried(g) ==
  LET From(source, sink) ==
        LET s == SetInputValue(g, sink, Value(g, source) = "HIGH")
        IN  IF s.driven[source] THEN ReleaseInput(s, source) ELSE s
  IN  CASE Value(g, EndA) \in DrivenStates -> From(EndA, EndB)
        [] Value(g, EndB) \in DrivenStates -> From(EndB, EndA)
        [] OTHER -> ReleaseInput(ReleaseInput(g, EndA), EndB)

\* What the listeners of a pin do when it changes.
Told(g, p) ==
  IF g.outside = "wire" /\ p \in {EndA, EndB} THEN [Carried(g) EXCEPT !.unheard = FALSE] ELSE g

CheckForUpdates(g, p) ==
  IF Value(g, p) = g.last[p] THEN g
  ELSE LET before == InputValue(g, p)
           t == Told([g EXCEPT !.last[p] = Value(g, p)], p)
       IN  IF SeenLevel(t, p) # t.seen[p] \/ InputValue(t, p) # before THEN RefreshInput(t, p) ELSE t

PadChanged(g, p) == IF SeenLevel(g, p) # g.seen[p] THEN RefreshInput(g, p) ELSE g

CheckPins(g, changed) ==
  FoldLeft(LAMBDA h, p : IF p \in changed THEN CheckForUpdates(h, p) ELSE h, g, InOrder)

ChangedBits(a, b) == (a \ b) \cup (b \ a)

\* A write of the SIO's outputs or what a step of a PIO block leaves: both words are
\* there before the first pin is told.
OutputsWritten(g, w) ==
  LET changed == ChangedBits(g.out[w.func], w.out) \cup ChangedBits(g.oe[w.func], w.oe)
  IN  CheckPins([g EXCEPT !.out[w.func] = w.out, !.oe[w.func] = w.oe], changed)

CtrlWritten(g, c) == CheckForUpdates([g EXCEPT !.ctrl[c.pin] = c], c.pin)
PadWritten(g, d) == PadChanged(CheckForUpdates([g EXCEPT !.pad[d.pin] = d], d.pin), d.pin)

\* INTR is cleared pin by pin; INTE and INTF are set so.
EdgesCleared(g, p, bits) ==
  IF bits \cap g.irq[p] \cap Edges = {} THEN g
  ELSE UpdateIoInterrupt([g EXCEPT !.irq[p] = @ \ (bits \cap Edges)])

EnableWritten(g, p, m) == IF g.enable[p] = m THEN g ELSE UpdateIoInterrupt([g EXCEPT !.enable[p] = m])
ForceWritten(g, p, m) == IF g.force[p] = m THEN g ELSE UpdateIoInterrupt([g EXCEPT !.force[p] = m])

Ctrl0(p) == [pin |-> p, func |-> "null", outover |-> "normal", oeover |-> "normal", inover |-> "normal", irqover |-> "normal"]
Pad0(p) == [pin |-> p, ie |-> TRUE, od |-> FALSE, up |-> FALSE, down |-> TRUE]

\* reset() of a pin: what is outside stays, and the listeners are told nothing.
PinReset(g, p) ==
  LET r == [g EXCEPT !.ctrl[p] = Ctrl0(p), !.pad[p] = Pad0(p), !.enable[p] = {}, !.force[p] = {}, !.irq[p] = {}]
  IN  Synced([r EXCEPT !.last[p] = Value(r, p), !.seen[p] = FALSE], p, FALSE)

\* Pins as they are built - the state that counts as announced is the one of a pin that
\* has no pad yet - with what is wired to them attached.
Built(outside) ==
  [ctrl |-> [p \in Pins |-> Ctrl0(p)], pad |-> [p \in Pins |-> Pad0(p)],
   out |-> [f \in {"sio", "pio"} |-> {}], oe |-> [f \in {"sio", "pio"} |-> {}],
   raw |-> [p \in Pins |-> FALSE], driven |-> [p \in Pins |-> FALSE], last |-> [p \in Pins |-> "INPUT"],
   seen |-> [p \in Pins |-> FALSE], irq |-> [p \in Pins |-> {"LEVEL_LOW"}],
   enable |-> [p \in Pins |-> {}], force |-> [p \in Pins |-> {}], line |-> FALSE,
   wait |-> [on |-> -1, level |-> FALSE], outside |-> outside, unheard |-> FALSE]
-----------------------------------------------------------------------------
Init == \E o \in Outsides : io = Built(o)

WriteOutputs == \E w \in GpioWrites : io' = OutputsWritten(io, w)
WriteCtrl == \E c \in GpioCtrls : io' = CtrlWritten(io, c)
WritePad == \E d \in GpioPads : io' = PadWritten(io, d)

\* A word of INTR, INTE or INTF holds the bits of several pins: each takes its own in turn.
WriteIntr ==
  \E bits \in SUBSET Edges \ {{}} :
    io' = FoldLeft(LAMBDA g, p : EdgesCleared(g, p, bits), io, InOrder)

WriteInte ==
  \E w \in GpioWords : io' = FoldLeft(LAMBDA g, p : EnableWritten(g, p, w[p]), io, InOrder)

WriteIntf ==
  \E w \in GpioWords : io' = FoldLeft(LAMBDA g, p : ForceWritten(g, p, w[p]), io, InOrder)

Press == io.outside = "button" /\ \E high \in BOOLEAN : io' = SetInputValue(io, 0, high)
Release == io.outside = "button" /\ io' = ReleaseInput(io, 0)

\* A WAIT instruction of a PIO machine looks at the pin at once.
WaitForPin ==
  /\ io.wait.on = -1
  /\ \E w \in PinWaits : InputValue(io, w.on) # w.level /\ io' = [io EXCEPT !.wait = w]

\* reset() of the chip: the SIO, the PIO and the NVIC with it.
Reset ==
  LET g == FoldLeft(PinReset, [io EXCEPT !.out = [f \in {"sio", "pio"} |-> {}], !.oe = [f \in {"sio", "pio"} |-> {}]], InOrder)
  IN  io' = [g EXCEPT !.line = FALSE, !.wait = [on |-> -1, level |-> FALSE],
                      !.unheard = @ \/ (io.outside = "wire" /\ \E p \in {EndA, EndB} : io.last[p] \in DrivenStates)]

Next ==
  \/ WriteOutputs \/ WriteCtrl \/ WritePad \/ WriteIntr \/ WriteInte \/ WriteIntf
  \/ Press \/ Release \/ WaitForPin \/ Reset
-----------------------------------------------------------------------------
(* Properties *)

\* Every pin has the words, the level and the interrupt bits of a pin.
TypeOK ==
  /\ io.ctrl \in [Pins -> CtrlType] /\ io.pad \in [Pins -> PadType]
  /\ io.out \in [{"sio", "pio"} -> SUBSET Pins] /\ io.oe \in [{"sio", "pio"} -> SUBSET Pins]
  /\ io.raw \in [Pins -> BOOLEAN] /\ io.driven \in [Pins -> BOOLEAN] /\ io.seen \in [Pins -> BOOLEAN]
  /\ io.last \in [Pins -> DrivenStates \cup {"INPUT", "INPUT_PULL_UP", "INPUT_PULL_DOWN", "INPUT_BUS_KEEPER"}]
  /\ io.irq \in [Pins -> SUBSET IntrBits] /\ io.enable \in [Pins -> SUBSET IntrBits] /\ io.force \in [Pins -> SUBSET IntrBits]
  /\ io.line \in BOOLEAN /\ io.wait \in [on : Pins \cup {-1}, level : BOOLEAN]
  /\ io.outside \in Outsides /\ io.unheard \in BOOLEAN

\* The IO_BANK0 line is what any pin asks for, however its level came to change.
LineTellsStatus == io.line = AnyIrqValue(io)

\* No PIO machine waits for a level that its pin has.
NothingWaits == io.wait.on # -1 => InputValue(io, io.wait.on) # io.wait.level

\* Listeners have been told of every level a pin drives or stops driving; INTR's level
\* bit is the level behind the input buffer; and a wire holds the far end of the one
\* that is driven at its level, and neither when none is - unless a chip reset, which
\* tells the wire nothing, was the last change of its ends.
LevelsAreTold ==
  \A p \in Pins :
    /\ io.last[p] # Value(io, p) => {io.last[p], Value(io, p)} \cap DrivenStates = {}
    /\ io.seen[p] = SeenLevel(io, p)
    /\ io.irq[p] \ Edges = {LevelBit(io.seen[p])}

WireCarries ==
  io.outside = "wire" /\ ~ io.unheard =>
    LET a == Value(io, EndA)
        b == Value(io, EndB)
    IN  /\ io.driven[EndB] <=> a \in DrivenStates
        /\ io.driven[EndA] <=> (b \in DrivenStates /\ a \notin DrivenStates)
        /\ io.driven[EndB] => io.raw[EndB] = (a = "HIGH")
        /\ io.driven[EndA] => io.raw[EndA] = (b = "HIGH")

ShowsWhatItDoes == LevelsAreTold /\ WireCarries
=============================================================================
