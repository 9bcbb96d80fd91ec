--------------------------------- MODULE Gdb ---------------------------------
(***************************************************************************)
(* The GDB server (gdb/gdb_connection.py, gdb/gdb_server.py,               *)
(* gdb/gdb_tcp_server.py) between debuggers and the simulator: packets     *)
(* arrive over TCP in pieces that no one chose, are acknowledged or asked  *)
(* for again, and run; the program runs meanwhile and stops at breakpoints.*)
(*                                                                         *)
(* A packet is "$", its command, "#" and the two digits of its checksum,   *)
(* all of it sent as it should be; what queries and register and memory    *)
(* accesses answer is left out.  The debuggers are outside the repository. *)
(***************************************************************************)
EXTENDS Integers, Sequences, SequencesExt

CONSTANTS
  Debuggers,   \* the connections, numbered from 1
  Script       \* the commands a debugger sends, one after the other: "step", "continue" or "query"

VARIABLE gdb

GdbAssumption == Debuggers \subseteq Nat \ {0} /\ Script \in Seq({"step", "continue", "query"})

Break == <<"^C", 0>>
Dollar == <<"$", 0>>
Hash == <<"#", 0>>
Command(n) == <<"command", n>>
Checksum == << <<"digit", 1>>, <<"digit", 2>> >>
Packet(n) == <<Dollar, Command(n), Hash>> \o Checksum
-----------------------------------------------------------------------------
(* The server: methods as functions of the state g. *)

Respond(g, c, reply) == [g EXCEPT !.replies[c] = Append(@, reply)]

\* process_gdb_message(): vCont;c says nothing until the program stops, a step runs beside a running one.
Process(g, c, n) ==
  LET h == [g EXCEPT !.ran[c] = Append(@, n)]
  IN  CASE Script[n] = "step" -> Respond(h, c, "T05")
        [] Script[n] = "continue" -> [h EXCEPT !.executing = TRUE]
        [] Script[n] = "query" -> Respond(h, c, "answer")

\* The place of p in s, from place i on; 0 if it is not there.
Find(s, p, i) == SelectInSubSeq(s, i, Len(s), LAMBDA q : q = p)

\* (slip: what came is taken out only when it was understood)
Left_Unread(buf, hash, understood) == IF understood THEN SubSeq(buf, hash + 2, Len(buf)) ELSE buf
\* What stays in _buf: the second digit too, which is no packet's beginning.
Left(buf, hash, understood) == SubSeq(buf, hash + 2, Len(buf))

\* One turn of feed_data()'s loop: a packet is judged as soon as one digit of its checksum is there.
Looked(g, c) ==
  LET buf == g.buf[c]
      dolla == Find(buf, Dollar, 1)
      hash == Find(buf, Hash, dolla + 1)
      understood == SubSeq(buf, hash + 1, IF hash + 2 < Len(buf) THEN hash + 2 ELSE Len(buf)) = Checksum
      h == [g EXCEPT !.buf[c] = Left(buf, hash, understood)]
  IN  IF dolla = 0 \/ hash = 0 \/ hash + 1 > Len(buf) THEN g
      ELSE IF understood THEN Process(Respond(h, c, "+"), c, buf[dolla + 1][2]) ELSE Respond(h, c, "-")

\* feed_data(): a Ctrl-C counts at the beginning of what was read only.
Fed(g, c, data) ==
  LET h == IF data # <<>> /\ Head(data) = Break THEN Respond([g EXCEPT !.executing = FALSE, !.broken_by = c], c, "S02") ELSE g
      rest == IF data # <<>> /\ Head(data) = Break THEN Tail(data) ELSE data
      taken == [h EXCEPT !.buf[c] = @ \o rest]
  IN  FoldLeft(LAMBDA u, i : Looked(u, c), taken, taken.buf[c])
-----------------------------------------------------------------------------
\* (The server greets a connection with a "+"; the debugger has read it.)
Init ==
  gdb = [open |-> Debuggers, wire |-> [c \in Debuggers |-> <<>>], buf |-> [c \in Debuggers |-> <<>>],
         replies |-> [c \in Debuggers |-> <<>>], ran |-> [c \in Debuggers |-> <<>>],
         sent |-> [c \in Debuggers |-> 0], waits |-> [c \in Debuggers |-> "nothing"],
         executing |-> FALSE, broken_by |-> 0]

Send(c) ==
  /\ c \in gdb.open /\ gdb.waits[c] = "nothing" /\ gdb.sent[c] < Len(Script)
  /\ gdb' = [gdb EXCEPT !.sent[c] = @ + 1, !.wire[c] = @ \o Packet(gdb.sent[c] + 1), !.waits[c] = "ack"]

\* The user's Ctrl-C, once all else that the debugger sent has been read and answered.
Interrupt(c) ==
  /\ c \in gdb.open /\ gdb.waits[c] = "stop" /\ gdb.wire[c] = <<>> /\ gdb.replies[c] = <<>>
  /\ gdb' = [gdb EXCEPT !.wire[c] = <<Break>>]

\* reader.read() returns some of what was sent.
Read(c) ==
  /\ c \in gdb.open
  /\ \E n \in 1 .. Len(gdb.wire[c]) :
       gdb' = Fed([gdb EXCEPT !.wire[c] = SubSeq(@, n + 1, Len(@))], c, SubSeq(gdb.wire[c], 1, n))

\* A debugger reads a reply: it sends again what was not understood, and what
\* it waits for after an acknowledgement depends on the command.
Hears(c) ==
  /\ gdb.replies[c] # <<>>
  /\ LET reply == Head(gdb.replies[c])
         g == [gdb EXCEPT !.replies[c] = Tail(@)]
     IN  gdb' = CASE g.waits[c] = "ack" /\ reply = "+" ->
                       [g EXCEPT !.waits[c] = IF Script[g.sent[c]] = "continue" THEN "stop" ELSE "answer"]
                  [] g.waits[c] = "ack" /\ reply = "-" -> [g EXCEPT !.wire[c] = @ \o Packet(g.sent[c])]
                  [] g.waits[c] = "stop" /\ reply \in {"S02", "S05"} -> [g EXCEPT !.waits[c] = "nothing"]
                  [] g.waits[c] = "answer" /\ reply \in {"T05", "answer"} -> [g EXCEPT !.waits[c] = "nothing"]
                  [] OTHER -> g

\* _on_break(): the program stops, and every connection is told.
Breakpoint ==
  /\ gdb.executing
  /\ gdb' = [gdb EXCEPT !.executing = FALSE, !.broken_by = 0,
                        !.replies = [c \in Debuggers |-> IF c \in gdb.open THEN Append(@[c], "S05") ELSE @[c]]]

Disconnect(c) == c \in gdb.open /\ gdb' = [gdb EXCEPT !.open = @ \ {c}, !.wire[c] = <<>>, !.replies[c] = <<>>]

Next == Breakpoint \/ \E c \in Debuggers : Send(c) \/ Interrupt(c) \/ Read(c) \/ Hears(c) \/ Disconnect(c)

Spec == Init /\ [][Next]_gdb
-----------------------------------------------------------------------------
(* Properties. *)

TypeOK ==
  /\ gdb.open \subseteq Debuggers /\ gdb.executing \in BOOLEAN /\ gdb.broken_by \in Debuggers \cup {0}
  /\ \A c \in Debuggers : gdb.waits[c] \in {"nothing", "ack", "stop", "answer"} /\ gdb.sent[c] \in 0 .. Len(Script)

\* However its packets are cut, also between the digits of a checksum, each
\* command of a debugger runs once, in the order they were sent, and before
\* the debugger takes it for understood (feed_data).
CommandsRunOnce ==
  \A c \in Debuggers :
    /\ gdb.ran[c] = [n \in 1 .. Len(gdb.ran[c]) |-> n]
    /\ Len(gdb.ran[c]) \in {gdb.sent[c], gdb.sent[c] - 1}
    /\ gdb.waits[c] # "ack" => Len(gdb.ran[c]) = gdb.sent[c]

\* A debugger that waits for the running program to stop hears of it, unless
\* it was another debugger's Ctrl-C that stopped it; and one that waits for an
\* acknowledgement or an answer has one coming, or its packet is on the way.
NothingWaits ==
  \A c \in gdb.open :
    LET coming == ToSet(gdb.replies[c])
    IN  CASE gdb.waits[c] = "stop" -> gdb.executing \/ coming \cap {"S02", "S05"} # {} \/ gdb.broken_by \notin {0, c}
          [] gdb.waits[c] = "ack" -> gdb.wire[c] # <<>> \/ coming \cap {"+", "-"} # {}
          [] gdb.waits[c] = "answer" -> coming \cap {"T05", "answer"} # {}
          [] OTHER -> TRUE
=============================================================================
