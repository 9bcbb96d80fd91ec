--------------------------------- MODULE Usb ---------------------------------
(***************************************************************************)
(* The USB controller in device mode (peripherals/_usb.py) and the host    *)
(* at the other end of its bus (usb/cdc.py): a reset of the bus, the       *)
(* enumeration over endpoint 0, and the serial port's two data endpoints,  *)
(* each with one buffer or two.                                            *)
(*                                                                         *)
(* "in0" is endpoint 0 towards the host, "in1" and "out1" are the data     *)
(* endpoints.  Descriptors and packets are kept by their kind, bytes by    *)
(* their number modulo Numbers.  The firmware (fw) is outside the          *)
(* repository: it keeps to the buffers that are its own, and acts whenever *)
(* it likes.  Endpoint 0's data stages towards the device, stalls and the  *)
(* host mode are left out.                                                 *)
(***************************************************************************)
EXTENDS Integers, Sequences, SequencesExt

CONSTANTS
  Doubles,     \* whether the data endpoints have two buffers
  Notices,     \* whether the firmware asks for BUFF_STATUS per buffer (1) or per two (2)
  Traffic,     \* what the port is used for: "in1", "out1", "lines"
  Packets,     \* the packets of the configuration descriptor
  BufferSize,  \* the bytes of an OUT buffer
  Numbers,     \* the numbers of bytes and packets before they begin again
  UsbEnables,  \* the INTE values the firmware writes
  MaxSent,     \* bound: the bytes that wait for the firmware
  MaxAcked     \* bound: the IN packets that wait for the host's reaction

Slots == {"in0", "in1", "out1"}
Ins == Slots \ {"out1"}
UsbInterrupts == {"SETUP_REQ", "BUS_RESET", "BUFF_STATUS", "DEV_CONN_DIS"}

UsbAssumption ==
  /\ Doubles \subseteq BOOLEAN /\ Notices \subseteq {1, 2} /\ Traffic \subseteq SUBSET {"in1", "out1", "lines"}
  /\ {Packets, BufferSize, Numbers, MaxSent, MaxAcked} \subseteq Nat \ {0}
  /\ UsbEnables \subseteq SUBSET UsbInterrupts

VARIABLE usb

Idle == [avail |-> FALSE, full |-> FALSE, data |-> << >>]
-----------------------------------------------------------------------------
(* The controller: methods as functions of the state u. *)

CheckInterrupts(u) == [u EXCEPT !.line = u.raw \cap u.inte # {}]
Raw(u, interrupt, up) == [u EXCEPT !.raw = IF up THEN @ \cup {interrupt} ELSE @ \ {interrupt}]

BuffStatusUpdated(u) == CheckInterrupts(Raw(u, "BUFF_STATUS", \E s \in Slots : u.done[s] # << >>))

\* SETUP and BUS_RESET follow their bits of SIE_STATUS, the connect interrupt is an event.
SieStatusUpdated(u) ==
  CheckInterrupts(Raw(Raw(Raw(u, "SETUP_REQ", "SETUP_REQ" \in u.sie), "BUS_RESET", "BUS_RESET" \in u.sie),
                      "DEV_CONN_DIS", u.event))

SendSetup(u, request) == SieStatusUpdated([u EXCEPT !.setup = request, !.sie = @ \cup {"SETUP_REQ"}])

SetConnected(u) ==
  IF u.connected THEN u ELSE SieStatusUpdated([u EXCEPT !.connected = TRUE, !.event = TRUE])

IsDouble(u, s) == u.double /\ s # "in0"

\* _complete_out_read() of the host: what it has, as far as the buffer reaches, on the read alarm.
CompleteOutRead(u) ==
  LET n == IF Len(u.tx) < BufferSize THEN Len(u.tx) ELSE BufferSize
  IN  [u EXCEPT !.reads = Append(@, SubSeq(u.tx, 1, n)), !.tx = SubSeq(@, n + 1, Len(@))]

\* on_endpoint_read() of the host: an arm that finds nothing to send is parked.
OnEndpointRead(u) == IF u.tx = << >> THEN [u EXCEPT !.parked = @ + 1] ELSE CompleteOutRead(u)

\* The transfer of the selected buffer begins, if the firmware has made it available.
Taken(u, s) ==
  LET half == IF IsDouble(u, s) THEN u.sel[s] ELSE 0
      buffer == u.buf[s][half]
      t == [u EXCEPT !.buf[s][half].avail = FALSE, !.sel[s] = IF IsDouble(u, s) THEN 1 - @ ELSE @]
  IN  IF ~ buffer.avail \/ buffer.full = (s = "out1") THEN u
      ELSE IF s = "out1" THEN OnEndpointRead([t EXCEPT !.pending = Append(@, half)])
      ELSE [t EXCEPT !.writes[s] = Append(@, <<half, buffer.data>>)]

ServiceEndpoint(u, s) == IF IsDouble(u, s) THEN Taken(Taken(u, s), s) ELSE Taken(u, s)

\* Which completed buffers are told: each, or the second of two.
PushDone(u, s, half) ==
  IF s = "in0" \/ u.notice = 1 THEN [u EXCEPT !.done[s] = Append(@, half)]
  ELSE IF u.two[s] = 0 THEN [u EXCEPT !.two[s] = 1]
  ELSE [u EXCEPT !.two[s] = 0, !.done[s] = Append(@, half)]

BufferDone(u, s, half, data) ==
  LET t == [u EXCEPT !.buf[s][half] = [avail |-> FALSE, full |-> s = "out1", data |-> data]]
  IN  ServiceEndpoint(BuffStatusUpdated(PushDone(SieStatusUpdated(t), s, half)), s)

FinishRead(u, data) ==
  BufferDone([u EXCEPT !.pending = Tail(@)], "out1", IF u.pending = << >> THEN 0 ELSE Head(u.pending), data)

FinishWrite(u, s, write) ==
  [BufferDone(u, s, write[1], << >>) EXCEPT !.acked[s] = Append(@, write[2])]
-----------------------------------------------------------------------------
(* The host: what the packets of endpoint 0 tell it to ask for next. *)

OnEndpointWrite(u, data) ==
  CASE data = <<"zlp">> -> IF ~ u.known THEN SendSetup(u, "descriptor head")
                           ELSE IF u.ready THEN u ELSE [SendSetup(u, "line state") EXCEPT !.ready = TRUE]
    [] data = <<"head">> -> [SendSetup(u, "descriptor") EXCEPT !.known = TRUE]
    [] data = <<"part">> -> IF u.read + 1 < Packets THEN [u EXCEPT !.read = @ + 1]
                            ELSE [SendSetup(u, "configuration") EXCEPT !.read = Packets, !.endpoints = TRUE]

\* on_serial_data() of whatever listens.
OnSerialData(u, data) == [u EXCEPT !.heard = (data[1] + 1) % Numbers]

HostGets(u, s, data) == IF s = "in0" THEN OnEndpointWrite(u, data) ELSE OnSerialData(u, data)

\* _on_controller_reset() of the host, and reset() of the controller: the
\* buffers are in the DPRAM, which keeps them.
OnReset(u) ==
  [u EXCEPT !.tx = << >>, !.parked = 0, !.flush = FALSE, !.ready = FALSE, !.known = FALSE, !.read = 0, !.endpoints = FALSE]
ControllerReset(u) ==
  CheckInterrupts([u EXCEPT !.raw = {}, !.inte = {}, !.sie = {}, !.connected = FALSE, !.event = FALSE,
    !.done = [s \in Slots |-> << >>], !.sel = [s \in Slots |-> 0], !.two = [s \in Slots |-> 0], !.pending = << >>,
    !.bus_reset = FALSE, !.writes = [s \in Ins |-> << >>], !.acked = [s \in Ins |-> << >>], !.reads = << >>])
-----------------------------------------------------------------------------
Off == [up |-> FALSE, todo |-> << >>, configured |-> FALSE, own |-> [s \in Slots |-> << >>], next |-> [s \in Slots |-> 0]]

Init ==
  \E double \in Doubles, notice \in Notices, traffic \in Traffic :
    /\ notice = 2 => double
    /\ usb = [buf |-> [s \in Slots |-> [half \in {0, 1} |-> Idle]], double |-> double, notice |-> notice, traffic |-> traffic,
              sel |-> [s \in Slots |-> 0], two |-> [s \in Slots |-> 0], done |-> [s \in Slots |-> << >>],
              pending |-> << >>, writes |-> [s \in Ins |-> << >>], acked |-> [s \in Ins |-> << >>], reads |-> << >>,
              sie |-> {}, setup |-> "none", connected |-> FALSE, event |-> FALSE, raw |-> {}, inte |-> {}, line |-> FALSE,
              bus_reset |-> FALSE, tx |-> << >>, parked |-> 0, flush |-> FALSE,
              known |-> FALSE, read |-> 0, endpoints |-> FALSE, ready |-> FALSE,
              fw |-> Off, sent |-> 0, got |-> 0, given |-> 0, heard |-> 0]

\* The clock's alarms.
BusResetAlarm ==
  /\ usb.bus_reset
  /\ usb' = SieStatusUpdated([usb EXCEPT !.bus_reset = FALSE, !.sie = @ \cup {"BUS_RESET"}])

WriteAlarm(s) ==
  /\ usb.writes[s] # << >> /\ Len(usb.acked[s]) < MaxAcked
  /\ usb' = FoldLeft(LAMBDA u, write : FinishWrite(u, s, write), [usb EXCEPT !.writes[s] = << >>], usb.writes[s])

ReactionAlarm(s) ==
  /\ usb.acked[s] # << >>
  /\ usb' = FoldLeft(LAMBDA u, data : HostGets(u, s, data), [usb EXCEPT !.acked[s] = << >>], usb.acked[s])

ReadAlarm ==
  /\ usb.reads # << >>
  /\ usb' = FoldLeft(FinishRead, [usb EXCEPT !.reads = << >>], usb.reads)

\* _flush_parked_reads(): the arms that are parked, oldest first.
FlushAlarm ==
  /\ usb.flush
  /\ usb' = FoldLeft(LAMBDA u, arm : IF u.tx = << >> THEN u ELSE CompleteOutRead([u EXCEPT !.parked = @ - 1]),
                     [usb EXCEPT !.flush = FALSE], [arm \in 1 .. usb.parked |-> arm])
-----------------------------------------------------------------------------
(* What users do: bytes for the serial port, a change of its lines, a reset of the chip. *)

\* The bytes on their way: in buffers that the firmware has not looked at, on the read alarm, with the host.
OutFlow ==
  LET full == SelectSeq(usb.fw.own["out1"], LAMBDA half : usb.buf["out1"][half].full)
  IN  FlattenSeq([i \in DOMAIN full |-> usb.buf["out1"][full[i]].data]) \o FlattenSeq(usb.reads) \o usb.tx

SendSerialByte ==
  /\ usb.ready /\ "out1" \in usb.traffic /\ Len(OutFlow) < MaxSent
  /\ usb' = [usb EXCEPT !.tx = Append(@, usb.sent), !.sent = (@ + 1) % Numbers, !.flush = @ \/ usb.parked > 0]

SetControlLines == usb.ready /\ "lines" \in usb.traffic /\ usb' = SendSetup(usb, "line state")

ChipReset ==
  usb' = [OnReset(ControllerReset(usb)) EXCEPT !.fw = Off, !.setup = "none", !.sent = 0, !.got = 0, !.given = 0, !.heard = 0]
-----------------------------------------------------------------------------
(* The firmware, by its accesses. *)

\* It clears the DPRAM, enables its interrupts and the controller; the host resets the bus.
Boot ==
  /\ ~ usb.fw.up
  /\ \E inte \in UsbEnables :
       usb' = CheckInterrupts([usb EXCEPT !.fw.up = TRUE, !.buf = [s \in Slots |-> [half \in {0, 1} |-> Idle]],
                                          !.inte = inte, !.bus_reset = TRUE])

\* SIE_STATUS, write 1 to clear: the host's SETUP comes from inside.
AckBusReset ==
  /\ "BUS_RESET" \in usb.sie
  /\ usb' = SieStatusUpdated(SetConnected(SendSetup([usb EXCEPT !.sie = @ \ {"BUS_RESET"}], "address")))

AckConnect == usb.event /\ usb' = SieStatusUpdated([usb EXCEPT !.event = FALSE])

Answers(request) ==
  CASE request = "descriptor head" -> << <<"head">> >>
    [] request = "descriptor" -> [i \in 1 .. Packets |-> <<"part">>]
    [] OTHER -> << <<"zlp">> >>

AckSetup ==
  /\ "SETUP_REQ" \in usb.sie
  /\ usb' = SieStatusUpdated([usb EXCEPT !.sie = @ \ {"SETUP_REQ"}, !.fw.todo = Answers(usb.setup),
                                         !.fw.configured = @ \/ usb.setup = "configuration"])

\* The half of the buffer-control word that makes the next buffer available.
Offered(u, s, data) ==
  LET half == u.fw.next[s]
  IN  [u EXCEPT !.buf[s][half] = [avail |-> TRUE, full |-> s # "out1", data |-> data],
                !.fw.own[s] = Append(@, half), !.fw.next[s] = IF IsDouble(u, s) THEN 1 - @ ELSE @]

Reply ==
  /\ usb.fw.todo # << >> /\ usb.fw.own["in0"] = << >>
  /\ usb' = ServiceEndpoint(Offered([usb EXCEPT !.fw.todo = Tail(@)], "in0", Head(usb.fw.todo)), "in0")

\* One write of the word may offer both halves.
Numbered(u, s) == IF s = "out1" THEN Offered(u, s, << >>) ELSE Offered([u EXCEPT !.given = (@ + 1) % Numbers], s, <<u.given>>)
GiveBuffers(s) ==
  /\ usb.fw.configured /\ s \in usb.traffic
  /\ \E n \in 1 .. (IF usb.double THEN 2 ELSE 1) - Len(usb.fw.own[s]) :
       usb' = ServiceEndpoint(IF n = 2 THEN Numbered(Numbered(usb, s), s) ELSE Numbered(usb, s), s)

\* BUFF_STATUS, write 1 to clear: the oldest completed buffer is the firmware's again, or two of them.
Told(s) == IF s = "in0" THEN 1 ELSE usb.notice
AckBuffer(s) ==
  /\ usb.done[s] # << >>
  /\ LET bytes == FlattenSeq([i \in 1 .. Told(s) |-> usb.buf[s][usb.fw.own[s][i]].data])
     IN  usb' = BuffStatusUpdated([usb EXCEPT !.done[s] = Tail(@), !.fw.own[s] = SubSeq(@, Told(s) + 1, Len(@)),
                                              !.got = IF bytes = << >> THEN @ ELSE (Last(bytes) + 1) % Numbers])

Next ==
  \/ BusResetAlarm \/ ReadAlarm \/ FlushAlarm
  \/ \E s \in Ins : WriteAlarm(s) \/ ReactionAlarm(s)
  \/ SendSerialByte \/ SetControlLines \/ ChipReset
  \/ Boot \/ AckBusReset \/ AckConnect \/ AckSetup \/ Reply
  \/ \E s \in Slots : GiveBuffers(s) \/ AckBuffer(s)

Spec == Init /\ [][Next]_usb
-----------------------------------------------------------------------------
(* Properties. *)

Number == 0 .. Numbers - 1
Packet(s) == IF s = "in0" THEN {<<"zlp">>, <<"head">>, <<"part">>} ELSE {<<n>> : n \in Number}

\* The firmware's requests and the host's answers fit what they are stored in.
TypeOK ==
  /\ usb.tx \in Seq(Number) /\ Len(usb.tx) <= MaxSent /\ usb.parked \in 0 .. 2
  /\ \A s \in Ins : \A i \in 1 .. Len(usb.writes[s]) : usb.writes[s][i] \in {0, 1} \X Packet(s)
  /\ \A s \in Slots : usb.done[s] \in Seq({0, 1}) /\ usb.sel[s] \in {0, 1} /\ usb.two[s] \in {0, 1}
  /\ usb.pending \in Seq({0, 1}) /\ usb.read \in 0 .. Packets

\* INTR and the level the NVIC was last told are what the buffers, SIE_STATUS
\* and the connect event show (_check_interrupts and its three callers).
LineTellsStatus ==
  /\ usb.raw = (usb.sie \cup {i \in {"BUFF_STATUS"} : \E s \in Slots : usb.done[s] # << >>}
                         \cup {i \in {"DEV_CONN_DIS"} : usb.event})
  /\ usb.line = (usb.raw \cap usb.inte # {})

\* No buffer that the firmware made available waits while the controller could
\* take it; a byte for a parked arm has the alarm that brings it; and until the
\* serial port is there something is under way that continues the enumeration.
NothingWaits ==
  /\ usb.fw.up => \A s \in Slots : Taken(usb, s) = usb
  /\ usb.parked = Len(usb.pending) - Len(usb.reads)
  /\ usb.parked > 0 /\ usb.tx # << >> => usb.flush
  /\ usb.fw.up /\ ~ usb.ready =>
       \/ usb.bus_reset \/ usb.sie # {} \/ usb.fw.todo # << >>
       \/ usb.writes["in0"] # << >> \/ usb.acked["in0"] # << >>

From(first, flow) == flow = [i \in 1 .. Len(flow) |-> (first + i - 1) % Numbers]
Available(s) == SelectSeq(usb.fw.own[s], LAMBDA half : usb.buf[s][half].avail)
Halves(writes) == [i \in DOMAIN writes |-> writes[i][1]]

\* Buffers come back to the firmware in the order it gave them, each once; the
\* packets reach the host and the bytes the firmware in the order they were
\* sent, none of them lost or doubled, whichever of the two buffers, the parked
\* arms and the alarms they went through (_service_endpoint, _finish_read,
\* _flush_parked_reads); the port is ready once its endpoints are known.
BuffersComeInOrder ==
  /\ \A s \in Slots :
       LET own == usb.fw.own[s]
           under_way == (IF s = "out1" THEN usb.pending ELSE Halves(usb.writes[s])) \o Available(s)
           finished == Told(s) * Len(usb.done[s]) + usb.two[s]
       IN  /\ own = SubSeq(own, 1, finished) \o under_way
           /\ \A i \in DOMAIN usb.done[s] : usb.done[s][i] = own[Told(s) * i]
  /\ From(usb.heard, FlattenSeq(usb.acked["in1"]) \o FlattenSeq([i \in DOMAIN usb.writes["in1"] |-> usb.writes["in1"][i][2]])
                     \o FlattenSeq([i \in DOMAIN Available("in1") |-> usb.buf["in1"][Available("in1")[i]].data]))
  /\ From(usb.got, OutFlow)
  /\ usb.ready => usb.endpoints /\ usb.read = Packets
=============================================================================
