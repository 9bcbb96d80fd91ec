-------------------------------- MODULE Gspi --------------------------------
(***************************************************************************)
(* The bus of the CYW43439 wireless chip (external/cyw43/bus.py): commands *)
(* and data of 32-bit words while the chip select is low, one pin for data *)
(* and, while it is high, for the chip's interrupt, and a queue of packets *)
(* of which one at a time shows in the registers.                          *)
(*                                                                         *)
(* A packet is its number, in the order in which they were queued, with    *)
(* the credit it carries.  Bits, the order of bytes, the backplane and     *)
(* what the packets say are left out.  The driver on the guest is outside  *)
(* the repository; it ends the transactions it begins, unless the chip     *)
(* loses its power.                                                        *)
(***************************************************************************)
EXTENDS Integers, Sequences, SequencesExt

CONSTANTS
  PacketWords,   \* how many words the packets have, in turn
  Credits,       \* the credits before they begin again (256)
  ReplyCounts,   \* how many packets answer what the driver may send: 1, 3 for a scan or a disassociation, 6 for a join
  MaxSends,      \* bound: what the driver sends
  MaxFrames      \* bound: the frames that come unasked for

GspiAssumption ==
  /\ PacketWords \in Seq(Nat \ {0}) /\ PacketWords # << >> /\ Credits \in Nat \ {0, 1}
  /\ ReplyCounts \subseteq Nat \ {0} /\ MaxSends \in Nat /\ MaxFrames \in Nat

VARIABLE bus

SizeOf(p) == PacketWords[1 + (p % Len(PacketWords))]
Nothing == [kind |-> "none", words |-> 0, size |-> 0]
-----------------------------------------------------------------------------
(* The bus: methods as functions of the state b. *)

Activate(b, packet) ==
  [b EXCEPT !.rx = packet, !.left = SizeOf(packet.number), !.available = TRUE, !.length = SizeOf(packet.number),
            !.f2 = TRUE, !.pin = IF b.selected THEN @ ELSE "high"]

\* A packet is built, with one more credit, and shown or appended.
QueueRxPacket(b) ==
  LET packet == [number |-> b.queued + 1, credit |-> (b.credit + 1) % Credits]
      c == [b EXCEPT !.queued = @ + 1, !.credit = packet.credit]
  IN  IF b.left > 0 THEN [c EXCEPT !.rx_queue = Append(@, packet)] ELSE Activate(c, packet)
\* _write_wlan(): a frame leads to one packet at least, its acknowledgement, before any that it asks for.
WriteWlan(b, n) == FoldLeft(LAMBDA c, i : QueueRxPacket(c), b, [i \in 1 .. n |-> i])

ReadWlan(b, size) ==
  LET c == [b EXCEPT !.left = IF @ > size THEN @ - size ELSE 0]
  IN  IF c.left > 0 THEN c
      ELSE IF c.rx_queue # << >> THEN Activate([c EXCEPT !.rx_queue = Tail(@)], Head(c.rx_queue))
      ELSE [c EXCEPT !.available = FALSE, !.length = 0, !.f2 = FALSE]

\* What a read returns is settled when its header has come; what it takes is taken then, and the pin carries its bits.
StartResponse(b, kind, size) ==
  CASE kind = "status" -> [b EXCEPT !.response = [kind |-> kind, words |-> 1, length |-> IF b.available THEN b.length ELSE 0]]
    [] kind = "interrupt" -> [b EXCEPT !.response = [kind |-> kind, words |-> 1, f2 |-> b.f2]]
    [] kind = "packet" -> [ReadWlan(b, size) EXCEPT !.response = [kind |-> kind, words |-> size, size |-> size, packet |-> b.rx]]

\* A write is applied when its last word has come: an acknowledgement clears the bits it names,
\* and what is sent is answered by so many packets.
WriteRegister(b, command) ==
  CASE command.kind = "clear" -> [b EXCEPT !.f2 = @ /\ command.size = 0]
    [] command.kind = "send" -> WriteWlan(b, command.size)

Deselected(b) == [b EXCEPT !.selected = FALSE, !.command = Nothing, !.response = Nothing, !.pin = IF b.left > 0 THEN "high" ELSE "low", !.settled = TRUE]

\* power_off(): everything but the pin.
PowerOff(b) ==
  [b EXCEPT !.selected = FALSE, !.command = Nothing, !.response = Nothing, !.left = 0, !.rx_queue = << >>,
            !.available = FALSE, !.length = 0, !.f2 = FALSE, !.credit = 1, !.settled = FALSE]
-----------------------------------------------------------------------------
Off ==
  [selected |-> FALSE, command |-> Nothing, response |-> Nothing, rx |-> [number |-> 0, credit |-> 0], left |-> 0,
   rx_queue |-> << >>, available |-> FALSE, length |-> 0, f2 |-> FALSE, pin |-> "low", settled |-> TRUE, credit |-> 1,
   queued |-> 0, got |-> 0,                                                 \* the packets so far
   knows |-> 0, saw |-> FALSE, sequence |-> 0, heard |-> 1,                  \* the driver's
   sends |-> 0, frames |-> 0]

Init == bus = Off

Idle == bus.command = Nothing /\ bus.response = Nothing

Select == ~bus.selected /\ bus' = [bus EXCEPT !.selected = TRUE]
Deselect == bus.selected /\ Idle /\ bus' = Deselected(bus)

\* The header of a read: the driver reads packets of the length that the status showed.
ReadHeader(kind) ==
  /\ bus.selected /\ Idle
  /\ kind = "packet" => bus.knows > 0
  /\ bus' = StartResponse([bus EXCEPT !.knows = 0, !.pin = "bits"], kind, bus.knows)

\* The header of a write: an acknowledgement of what was seen, or a frame, for which the driver needs a credit.
WriteHeader(kind) ==
  /\ bus.selected /\ Idle
  /\ \/ kind = "clear" /\ bus.saw /\ bus' = [bus EXCEPT !.command = [kind |-> kind, words |-> 1, size |-> 1], !.saw = FALSE]
     \/ /\ kind = "send" /\ bus.heard # bus.sequence /\ bus.sends < MaxSends
        /\ \E n \in ReplyCounts :
             bus' = [bus EXCEPT !.command = [kind |-> kind, words |-> 2, size |-> n], !.sends = @ + 1,
                                !.sequence = (@ + 1) % Credits]

\* A word of the write.
Word ==
  /\ bus.command # Nothing
  /\ LET command == bus.command
     IN  bus' = IF command.words > 1 THEN [bus EXCEPT !.command.words = @ - 1]
                ELSE WriteRegister([bus EXCEPT !.command = Nothing], command)

\* A word of the response; with the last the driver has it all.
Driven ==
  /\ bus.response # Nothing
  /\ LET r == bus.response
         b == [bus EXCEPT !.response = Nothing]
     IN  bus' = IF r.words > 1 THEN [bus EXCEPT !.response.words = @ - 1]
                ELSE CASE r.kind = "status" -> [b EXCEPT !.knows = r.length]
                       [] r.kind = "interrupt" -> [b EXCEPT !.saw = r.f2]
                       [] r.kind = "packet" -> [b EXCEPT !.got = @ + 1, !.heard = r.packet.credit]

\* The network's side, at any time, in the middle of a transaction too.
FrameComes == bus.frames < MaxFrames /\ bus' = QueueRxPacket([bus EXCEPT !.frames = @ + 1])

\* WL_ON falls, when the guest is reset or will begin anew: whatever was queued is gone.
LosesPower == bus' = [PowerOff(bus) EXCEPT !.got = bus.queued, !.knows = 0, !.saw = FALSE, !.sequence = 0, !.heard = 1]

Next ==
  \/ Select \/ Deselect \/ Word \/ Driven \/ FrameComes \/ LosesPower
  \/ \E kind \in {"status", "interrupt", "packet"} : ReadHeader(kind)
  \/ \E kind \in {"clear", "send"} : WriteHeader(kind)

Spec == Init /\ [][Next]_bus
-----------------------------------------------------------------------------
(* Properties. *)

Pending == bus.left > 0

TypeOK ==
  /\ {bus.selected, bus.available, bus.f2, bus.settled, bus.saw} \subseteq BOOLEAN
  /\ bus.pin \in {"low", "high", "bits"}
  /\ {bus.credit, bus.sequence, bus.heard} \subseteq 0 .. Credits - 1

\* Between transactions the pin is high exactly while a packet is pending,
\* whenever packets come (_activate_rx_packet, _on_cs_change; after a loss of
\* power once the chip has been selected again), and while the chip drives its
\* response nothing else drives the pin.  The status tells the packet
\* and its length; the interrupt bit may be cleared before it is read, but does
\* not outlive it.
LineTellsStatus ==
  /\ ~bus.selected /\ bus.settled => bus.pin = (IF Pending THEN "high" ELSE "low")
  /\ bus.response # Nothing => bus.pin = "bits"
  /\ bus.available = Pending /\ bus.length = (IF Pending THEN SizeOf(bus.rx.number) ELSE 0)
  /\ bus.f2 => Pending

\* The driver gets every packet whole, once, in the order in which they were
\* queued: what it has, what it is getting, what is shown and what is queued are
\* consecutive.
PacketsComeInOrder ==
  LET shown == IF Pending THEN << bus.rx >> ELSE << >>
      reading == IF bus.response # Nothing /\ bus.response.kind = "packet" THEN << bus.response.packet >> ELSE << >>
      ahead == reading \o shown \o bus.rx_queue
  IN  /\ \A i \in 1 .. Len(ahead) : ahead[i].number = bus.got + i
      /\ bus.got + Len(ahead) = bus.queued
      /\ reading # << >> => bus.response.size = SizeOf(bus.response.packet.number)

\* A packet waits in the queue only behind one that shows, and a driver that
\* has no credit to send has a packet to read that carries one
\* (_build_flow_control_response).
NothingWaits ==
  /\ bus.rx_queue # << >> => Pending
  /\ bus.heard = bus.sequence => Pending \/ ~Idle
=============================================================================
