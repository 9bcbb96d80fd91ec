--------------------------------- MODULE Nat ---------------------------------
(***************************************************************************)
(* The bridge between the guest's network and the real one                 *)
(* (external/cyw43/nat.py): TcpReflector answers the guest's TCP by itself *)
(* and relays the bytes of a real socket, UdpRelay sends one datagram.     *)
(*                                                                         *)
(* The connections here have one key in the flow table (the guest takes    *)
(* its port again), so `table` is the one entry the table may have.  Bytes *)
(* are their numbers, a segment keeps its flags, numbers and bytes.  What  *)
(* is queued for the guest is read in order and not lost, as Gspi says.    *)
(* The guest's TCP and the real peer are outside the repository.           *)
(***************************************************************************)
EXTENDS Integers, Sequences, SequencesExt, FiniteSets

CONSTANTS
  Conns,        \* the connections, numbered in the order in which the guest opens them
  Plans,        \* bounds: how many connections, the bytes of each peer and of the guest on each, and whether queries
  Mss,          \* the most bytes of a segment
  Room,         \* the guest's receive buffer
  MaxComing,    \* bound: the segments on the way to the guest when it sends a byte or a query
  SeqNumbers,   \* the sequence numbers before they begin again (2^32)
  Isses,        \* the initial sequence numbers that may be drawn
  Hasty         \* whether the guest may give up a connection before its task has begun

NatAssumption ==
  /\ Conns \subseteq Nat \ {0} /\ {Mss, Room, MaxComing, SeqNumbers} \subseteq Nat \ {0} /\ Hasty \in BOOLEAN
  /\ Plans \subseteq [conns : Nat, host : Nat, guest : Nat, queries : BOOLEAN]
  /\ Isses \subseteq 0 .. SeqNumbers - 1

VARIABLE nat

Bytes(n) == [i \in 1 .. n |-> i]
-----------------------------------------------------------------------------
(* The reflector: methods as functions of the state n. *)

\* _build_tcp_frame(), into the bus's queue.
Frame(n, c, flags, seq, data) ==
  [n EXCEPT !.to_guest = Append(@, [conn |-> c, flags |-> flags, seq |-> seq, ack |-> n.flow[c].next, data |-> data])]
Tell(n, c, flags, data) == Frame(n, c, flags, (n.flow[c].iss + 1 + n.flow[c].relayed) % SeqNumbers, data)

\* The table knows flows by their key only.
Pop(n) == [n EXCEPT !.table = 0]

\* writer.close(): the reader then ends, too.
Close(n, c) == [n EXCEPT !.socket[c].open = FALSE, !.socket[c].ended = IF @ = "no" THEN "fin" ELSE @]

MaybeEvict(n, c) == IF n.flow[c].guest_fin_seen /\ n.flow[c].host_fin_sent THEN Pop(Close(n, c)) ELSE n

Available(f) == f.window - (f.relayed - f.acked)

\* One turn of _pump_host_to_guest()'s loop up to its await; what is available is computed before it.
Pump(n, c) ==
  LET available == Available(n.flow[c])
  IN  IF available <= 0 THEN [n EXCEPT !.flow[c].window_opened = FALSE, !.task[c] = "waits"]
      ELSE [n EXCEPT !.flow[c].asks = IF available < Mss THEN available ELSE Mss, !.task[c] = "reads"]

RealIoEnd(n) == [n EXCEPT !.real_io = IF @ > 0 THEN @ - 1 ELSE 0]

BeginNewConnection(n, c) ==
  [n EXCEPT !.table = c, !.real_io = @ + 1, !.task[c] = "scheduled",
            !.flow[c] = [state |-> "CONNECTING", next |-> 1, window |-> Room, iss |-> 0, relayed |-> 0, acked |-> 0,
                         writer |-> FALSE, window_opened |-> FALSE, asks |-> 0,
                         guest_fin_seen |-> FALSE, host_fin_sent |-> FALSE]]

\* pump_task is known once the task has begun.
Cancel(n, c) == IF n.task[c] \in {"connects", "reads", "waits"} THEN [n EXCEPT !.cancelled = @ \cup {c}] ELSE n
CloseWriter(n, c) == IF n.flow[c].writer THEN Close(n, c) ELSE n

\* The guest's acknowledgement and window, once there is a number to compare with.
Acknowledged(n, c, s) ==
  LET f == n.flow[c]
      through == (s.ack - f.iss - 1) % SeqNumbers
      g == [f EXCEPT !.acked = IF through <= f.relayed THEN through ELSE @, !.window = s.window,
                     !.state = IF @ = "SYN_RCVD" /\ "ACK" \in s.flags THEN "ESTABLISHED" ELSE @]
  IN  IF f.state = "CONNECTING" THEN n
      ELSE [n EXCEPT !.flow[c] = [g EXCEPT !.window_opened = @ \/ Available(g) > 0]]

\* Bytes that come again, or not in their turn, are only acknowledged.
Payload(n, c, s) ==
  IF s.data # << >> /\ s.seq = n.flow[c].next /\ n.flow[c].writer
  THEN [n EXCEPT !.socket[c].got = @ \o s.data, !.flow[c].next = (@ + Len(s.data)) % SeqNumbers] ELSE n

Fin(n, c, s) ==
  IF "FIN" \in s.flags
  THEN [n EXCEPT !.flow[c].next = (@ + 1) % SeqNumbers, !.flow[c].guest_fin_seen = TRUE,
                 !.socket[c].eof = @ \/ n.flow[c].writer] ELSE n

OnGuestSegment(n, c, s) ==
  IF "RST" \in s.flags THEN Pop(CloseWriter(Cancel(n, c), c))
  ELSE LET taken == Fin(Payload(Acknowledged(n, c, s), c, s), c, s)
       IN  MaybeEvict(IF s.data # << >> \/ "FIN" \in s.flags THEN Tell(taken, c, {"ACK"}, << >>) ELSE taken, c)

\* TcpReflector.maybe_handle(): what the guest sends on connection c finds the flow that has its key.
MaybeHandle(n, c, s) ==
  IF n.table # 0 THEN OnGuestSegment(n, n.table, s)
  ELSE IF s.flags = {"SYN"} THEN BeginNewConnection(n, c) ELSE n
-----------------------------------------------------------------------------
NoFlow == [state |-> "none"]
Init ==
  \E plan \in Plans :
  nat = [plan |-> plan, table |-> 0, flow |-> [c \in Conns |-> NoFlow], task |-> [c \in Conns |-> "none"], cancelled |-> {},
         real_io |-> 0, to_guest |-> << >>, relay |-> "none",
         socket |-> [c \in Conns |-> [open |-> FALSE, sent |-> 0, buffer |-> << >>, ended |-> "no", got |-> << >>, eof |-> FALSE]],
         guest |-> [c \in Conns |-> [at |-> "closed", iss |-> 0, received |-> << >>, unread |-> 0,
                                     sent |-> 0, fin |-> FALSE, ended |-> FALSE]]]

(* The task of a flow, _open_and_pump(), between two awaits. *)

Begins(c) == nat.task[c] = "scheduled" /\ nat' = [nat EXCEPT !.task[c] = "connects"]

Connects(c) ==
  /\ nat.task[c] = "connects" /\ c \notin nat.cancelled
  /\ \E iss \in Isses :
       LET n == [RealIoEnd(nat) EXCEPT !.socket[c].open = TRUE, !.flow[c].writer = TRUE,
                                       !.flow[c].iss = iss, !.flow[c].state = "SYN_RCVD"]
       IN  nat' = Pump(Frame(n, c, {"SYN", "ACK"}, iss, << >>), c)

\* Refused, or no answer in the time it has.
ConnectFails(c) ==
  /\ nat.task[c] = "connects" /\ c \notin nat.cancelled
  /\ nat' = Pop(Frame([RealIoEnd(nat) EXCEPT !.task[c] = "ended"], c, {"RST", "ACK"}, 0, << >>))

IsCancelled(c) ==
  /\ c \in nat.cancelled
  /\ LET n == [nat EXCEPT !.cancelled = @ \ {c}, !.task[c] = "ended"]
     IN  nat' = IF nat.task[c] = "connects" THEN RealIoEnd(n) ELSE n

\* The socket has bytes, no more than were asked for are taken.
Relays(c) ==
  /\ nat.task[c] = "reads" /\ c \notin nat.cancelled
  /\ nat.socket[c].buffer # << >> /\ nat.socket[c].ended \notin {"reset", "error"}
  /\ LET buffer == nat.socket[c].buffer
         size == IF nat.flow[c].asks < Len(buffer) THEN nat.flow[c].asks ELSE Len(buffer)
         told == Tell(nat, c, {"ACK", "PSH"}, SubSeq(buffer, 1, size))
     IN  nat' = Pump([told EXCEPT !.socket[c].buffer = SubSeq(@, size + 1, Len(@)), !.flow[c].relayed = @ + size], c)

\* The peer's end, or an error that is not a reset, becomes a FIN.
HostEnds(c) ==
  /\ nat.task[c] = "reads" /\ c \notin nat.cancelled
  /\ nat.socket[c].ended = "error" \/ (nat.socket[c].ended = "fin" /\ nat.socket[c].buffer = << >>)
  /\ nat' = MaybeEvict(Tell([nat EXCEPT !.flow[c].host_fin_sent = TRUE, !.task[c] = "ended"], c, {"FIN", "ACK"}, << >>), c)

HostResets(c) ==
  /\ nat.task[c] = "reads" /\ c \notin nat.cancelled /\ nat.socket[c].ended = "reset"
  /\ nat' = Pop(Close(Tell([nat EXCEPT !.task[c] = "ended"], c, {"RST", "ACK"}, << >>), c))

WindowOpens(c) == nat.task[c] = "waits" /\ c \notin nat.cancelled /\ nat.flow[c].window_opened /\ nat' = Pump(nat, c)

(* The real peer. *)

PeerSends(c) ==
  /\ nat.socket[c].open /\ nat.socket[c].ended = "no" /\ nat.socket[c].sent < nat.plan.host
  /\ nat' = [nat EXCEPT !.socket[c].sent = @ + 1, !.socket[c].buffer = Append(@, nat.socket[c].sent + 1)]

PeerEnds(c) ==
  /\ nat.socket[c].open /\ nat.socket[c].ended = "no"
  /\ \E how \in {"fin", "reset", "error"} : nat' = [nat EXCEPT !.socket[c].ended = how]
-----------------------------------------------------------------------------
Coming(c) == SelectSeq(nat.to_guest, LAMBDA s : s.conn = c)
BytesComing(c) == FoldLeft(LAMBDA sum, s : sum + Len(s.data), 0, Coming(c))
Tells(c, flag) == \E i \in 1 .. Len(Coming(c)) : flag \in Coming(c)[i].flags

(* The guest's TCP: what it sends always says what it has and what room is left. *)

Says(g, flags, seq, data) ==
  [flags |-> flags, seq |-> seq, data |-> data, window |-> Room - g.unread,
   ack |-> (g.iss + 1 + Len(g.received) + (IF g.ended THEN 1 ELSE 0)) % SeqNumbers]
Sends(n, c, flags, seq, data) == MaybeHandle(n, c, Says(n.guest[c], flags, seq, data))

\* May the guest give up c: a connection whose task has not begun cannot be stopped.
Begun == Hasty \/ \A c \in Conns : nat.task[c] # "scheduled"

\* A SYN, which is sent again while no refusal is on the way.  The guest takes its port again when nothing is.
Open(c) ==
  /\ c <= nat.plan.conns
  /\ \A d \in Conns : d < c => nat.guest[d].at = "done" /\ \A i \in 1 .. Len(nat.to_guest) : nat.to_guest[i].conn # d
  /\ nat.guest[c].at \in {"closed", "asks"} /\ ~Tells(c, "RST")
  /\ nat' = Sends([nat EXCEPT !.guest[c].at = "asks"], c, {"SYN"}, 0, << >>)

Acks(c) == nat.guest[c].at = "open" /\ nat' = Sends(nat, c, {"ACK"}, 1 + nat.guest[c].sent, << >>)

\* The next byte, or one that may not have been acknowledged yet.
SendByte(c) ==
  /\ nat.guest[c].at = "open" /\ ~nat.guest[c].fin /\ Len(nat.to_guest) < MaxComing
  /\ \E i \in 1 .. nat.guest[c].sent + 1 :
       /\ i <= nat.plan.guest
       /\ nat' = Sends([nat EXCEPT !.guest[c].sent = IF i > @ THEN i ELSE @], c, {"ACK", "PSH"}, i, <<i>>)

Finish(c) ==
  /\ nat.guest[c].at = "open" /\ ~nat.guest[c].fin
  /\ LET n == Sends(nat, c, {"FIN", "ACK"}, nat.guest[c].sent + 1, << >>)
     IN  nat' = [n EXCEPT !.guest[c].fin = TRUE, !.guest[c].at = IF nat.guest[c].ended THEN "done" ELSE @]

Abort(c) ==
  /\ nat.guest[c].at \in {"asks", "open"} /\ Begun
  /\ nat' = Sends([nat EXCEPT !.guest[c].at = "done"], c, {"RST", "ACK"}, 1 + nat.guest[c].sent, << >>)

GuestReads(c) == nat.guest[c].unread > 0 /\ nat.guest[c].at = "open" /\ nat' = [nat EXCEPT !.guest[c].unread = @ - 1]

\* A segment comes.  Bytes for which there is no room, or that are not in turn, are dropped.
Receive ==
  /\ nat.to_guest # << >>
  /\ LET s == Head(nat.to_guest)
         c == s.conn
         g == nat.guest[c]
         n == [nat EXCEPT !.to_guest = Tail(@)]
         due == s.seq = (g.iss + 1 + Len(g.received)) % SeqNumbers
         Ack(m) == Sends(m, c, {"ACK"}, 1 + g.sent, << >>)
     IN  nat' =
           CASE c = 0 -> n
             [] c # 0 /\ "RST" \in s.flags -> [n EXCEPT !.guest[c].at = "done"]
             [] c # 0 /\ "RST" \notin s.flags /\ g.at = "done" -> IF Begun THEN Sends(n, c, {"RST"}, s.ack, << >>) ELSE n
             [] g.at = "asks" /\ "SYN" \in s.flags -> Ack([n EXCEPT !.guest[c].at = "open", !.guest[c].iss = s.seq])
             [] g.at = "open" /\ "FIN" \in s.flags /\ due ->
                  Ack([n EXCEPT !.guest[c].ended = TRUE, !.guest[c].at = IF g.fin THEN "done" ELSE @])
             [] g.at = "open" /\ s.data # << >> /\ due /\ Len(s.data) <= Room - g.unread ->
                  [n EXCEPT !.guest[c].received = @ \o s.data, !.guest[c].unread = @ + Len(s.data)]
             [] OTHER -> n

\* WLC_DISASSOC (bus.py): TcpReflector.reset(), and the guest gives up what it had.
Disassociate ==
  /\ Begun /\ \E c \in Conns : nat.guest[c].at \in {"asks", "open"}
  /\ LET n == IF nat.table = 0 THEN nat ELSE Pop(CloseWriter(Cancel(nat, nat.table), nat.table))
     IN  nat' = [n EXCEPT !.guest = [c \in Conns |-> IF @[c].at \in {"asks", "open"} THEN [@[c] EXCEPT !.at = "done"] ELSE @[c]]]

(* UdpRelay, one query at a time. *)

Query ==
  /\ nat.relay = "none" /\ nat.plan.queries /\ Len(nat.to_guest) < MaxComing
  /\ nat' = [nat EXCEPT !.relay = "scheduled", !.real_io = @ + 1]

Asks == nat.relay = "scheduled" /\ nat' = [nat EXCEPT !.relay = "asked"]

\* No socket, no answer in time, or an answer, which goes to the guest.
RelayEnds(replied) ==
  /\ nat.relay \in IF replied THEN {"asked"} ELSE {"scheduled", "asked"}
  /\ LET n == [RealIoEnd(nat) EXCEPT !.relay = "none"]
     IN  nat' = IF replied THEN [n EXCEPT !.to_guest = Append(@, [conn |-> 0, flags |-> {}, seq |-> 0, ack |-> 0, data |-> << >>])]
                ELSE n
-----------------------------------------------------------------------------
Next ==
  \/ \E c \in Conns :
       \/ Begins(c) \/ Connects(c) \/ ConnectFails(c) \/ IsCancelled(c) \/ Relays(c) \/ HostEnds(c) \/ HostResets(c)
       \/ WindowOpens(c) \/ PeerSends(c) \/ PeerEnds(c)
       \/ Open(c) \/ Acks(c) \/ SendByte(c) \/ Finish(c) \/ Abort(c) \/ GuestReads(c)
  \/ Receive \/ Disassociate \/ Query \/ Asks
  \/ \E replied \in BOOLEAN : RelayEnds(replied)

Spec == Init /\ [][Next]_nat
-----------------------------------------------------------------------------
(* Properties. *)

TypeOK ==
  /\ nat.table \in Conns \cup {0} /\ nat.cancelled \subseteq Conns /\ nat.real_io \in Nat
  /\ nat.relay \in {"none", "scheduled", "asked"}
  /\ \A c \in Conns :
       /\ nat.task[c] \in {"none", "scheduled", "connects", "reads", "waits", "ended"}
       /\ nat.guest[c].at \in {"closed", "asks", "open", "done"} /\ nat.guest[c].unread \in 0 .. Room

\* Each side gets the other's bytes once and in order.  There is nobody who
\* would send them again to the guest: what was relayed to an open connection
\* it has, or finds on the way to it with room for it (_pump_host_to_guest).
\* What the guest is told it need not send again the peer has, and a FIN comes
\* behind all that was sent.
BytesComeInOrder ==
  \A c \in Conns :
    LET g == nat.guest[c]
        s == nat.socket[c]
    IN  /\ g.received = Bytes(Len(g.received)) /\ s.got = Bytes(Len(s.got))
        /\ g.at = "open" => nat.flow[c].relayed = Len(g.received) + BytesComing(c)
        /\ g.at = "open" /\ nat.table = c => nat.flow[c].next = 1 + Len(s.got) + (IF g.fin THEN 1 ELSE 0)
        /\ g.at = "open" /\ g.ended /\ s.ended = "fin" => Len(g.received) = s.sent
        /\ s.eof => Len(s.got) = g.sent

\* The pump waits for the window only while it is closed (window_opened); a
\* guest that has asked for a connection will be answered; one that has a
\* connection has a pump at work for it, unless the peer's end is known to it
\* or on the way.
NothingWaits ==
  \A c \in Conns :
    LET g == nat.guest[c]
        alive == nat.table = c /\ c \notin nat.cancelled
    IN  /\ nat.task[c] = "waits" /\ ~nat.flow[c].window_opened => Available(nat.flow[c]) <= 0
        /\ g.at = "asks" => \/ alive /\ nat.task[c] \in {"scheduled", "connects"}
                            \/ Tells(c, "SYN") \/ Tells(c, "RST")
        /\ g.at = "open" => \/ alive /\ nat.task[c] \in {"reads", "waits"}
                            \/ g.ended \/ Tells(c, "FIN") \/ Tells(c, "RST")

\* The count that holds simulated time to the real one is that of the connects
\* and relays under way, however they end, are cancelled or overlap (real_io_end
\* in a `finally`); a socket is open exactly while its flow can be found in the
\* table, and a connection that the guest thinks it has is the one in the table,
\* unless its end is on the way.
ShowsWhatItDoes ==
  /\ nat.real_io = Cardinality({c \in Conns : nat.task[c] \in {"scheduled", "connects"}}) + (IF nat.relay = "none" THEN 0 ELSE 1)
  /\ \A c \in Conns : nat.socket[c].open <=> nat.table = c /\ nat.flow[c].writer
  /\ \A c \in Conns : nat.guest[c].at = "open" => nat.table = c \/ Tells(c, "RST") \/ (nat.guest[c].fin /\ Tells(c, "FIN"))
=============================================================================
