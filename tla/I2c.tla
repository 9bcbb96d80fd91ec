--------------------------------- MODULE I2c ---------------------------------
(***************************************************************************)
(* An I2C master (peripherals/_i2c.py): commands wait in a FIFO, and for   *)
(* each the block asks the bus for one thing - a start, the address, a     *)
(* byte either way, a stop - and goes on when the bus says it is done.     *)
(* The bus (the on_* callbacks of whatever is attached) answers at a time  *)
(* of its own, while the firmware writes commands, blocks, aborts,         *)
(* disables and resets.                                                    *)
(*                                                                         *)
(* The RPI2C object is one record, each method a function of it.  Bytes    *)
(* and addresses are data, left out; of the interrupts only those that     *)
(* follow a FIFO and the abort are kept.                                   *)
(***************************************************************************)
EXTENDS Integers, Sequences

CONSTANTS
  I2cDepth,     \* the entries of each FIFO (16)
  Commands,     \* the IC_DATA_CMD words that are written: [read, restart, stop]
  Thresholds,   \* the IC_RX_TL and IC_TX_TL values that are written
  I2cMasks      \* the IC_INTR_MASK values that are written

RX_FULL == "RX_FULL"
TX_EMPTY == "TX_EMPTY"
TX_ABRT == "TX_ABRT"
I2cInterrupts == {RX_FULL, TX_EMPTY, TX_ABRT}

I2cAssumption ==
  /\ I2cDepth \in Nat \ {0}
  /\ Commands \subseteq [read : BOOLEAN, restart : BOOLEAN, stop : BOOLEAN]
  /\ Thresholds \subseteq 0 .. I2cDepth
  /\ I2cMasks \subseteq SUBSET I2cInterrupts

VARIABLE i2c

\* What the bus has been asked for and has not yet done.
Nothing == "nothing"
Requests == {"start", "connect", "write", "read", "stop"}
States == {"IDLE", "START", "CONNECT", "CONNECTED", "STOP"}
-----------------------------------------------------------------------------
(* Methods, as functions of the state b of the block. *)

CheckInterrupts(b) == [b EXCEPT !.line = b.raw \cap b.mask # {}]
SetInterrupts(b, s) == IF b.raw \cap s = {} THEN CheckInterrupts([b EXCEPT !.raw = @ \cup s]) ELSE b
ClearInterrupts(b, s) == IF b.raw \cap s # {} THEN CheckInterrupts([b EXCEPT !.raw = @ \ s]) ELSE b
UpdateRxFull(b) ==
  IF b.rx > b.rx_threshold THEN SetInterrupts(b, {RX_FULL}) ELSE ClearInterrupts(b, {RX_FULL})

Asks(b, request) == [b EXCEPT !.asked = request]

\* _abort(): both FIFOs are flushed.
Abort(b) == SetInterrupts(UpdateRxFull([b EXCEPT !.tx = << >>, !.rx = 0]), {TX_ABRT})

NextCommand(b) ==
  LET cmd == Head(b.tx)
      restart == cmd.restart /\ ~ b.pending_restart /\ ~ b.stop
      t == [b EXCEPT !.busy = TRUE]
      u == [t EXCEPT !.pending_restart = FALSE, !.tx = Tail(@), !.stop = cmd.stop]
      v == Asks(u, IF cmd.read THEN "read" ELSE "write")
  IN  IF b.tx = << >> \/ b.busy \/ b.blocked \/ ~ b.enabled THEN b
      ELSE IF b.state = "IDLE" \/ restart
      THEN Asks([t EXCEPT !.pending_restart = restart, !.stop = FALSE, !.state = "START"], "start")
      ELSE IF Len(v.tx) <= v.tx_threshold THEN SetInterrupts(v, {TX_EMPTY}) ELSE v

CompleteStart(b) ==
  IF b.tx = << >> \/ b.state # "START" \/ b.stop THEN Asks(b, "stop")
  ELSE Asks([b EXCEPT !.state = "CONNECT"], "connect")

\* A refused address or byte aborts; after that, or if a stop is due, the bus is left.
Leaves(b, ack) == Asks([(IF ack THEN b ELSE Abort(b)) EXCEPT !.state = "STOP"], "stop")

CompleteConnect(b, ack) ==
  IF ~ ack \/ b.stop THEN Leaves(b, ack) ELSE NextCommand([b EXCEPT !.state = "CONNECTED", !.busy = FALSE])
CompleteWrite(b, ack) ==
  IF ~ ack \/ b.stop THEN Leaves(b, ack) ELSE NextCommand([b EXCEPT !.busy = FALSE])

PushRx(b) == IF b.rx = I2cDepth THEN b ELSE UpdateRxFull([b EXCEPT !.rx = @ + 1])
CompleteRead(b) ==
  LET t == PushRx(b)
  IN  IF t.stop THEN Leaves(t, TRUE) ELSE NextCommand([t EXCEPT !.busy = FALSE])

CompleteStop(b) ==
  LET t == [b EXCEPT !.state = "IDLE", !.busy = FALSE, !.pending_restart = FALSE]
  IN  IF t.abort_pending THEN Abort([t EXCEPT !.abort_pending = FALSE, !.aborting = FALSE]) ELSE NextCommand(t)

\* A master that holds the bus and waits for a command leaves it at once; another after its byte.
RequestAbort(b) ==
  LET t == [b EXCEPT !.abort_pending = TRUE, !.stop = TRUE]
  IN  IF t.busy THEN t ELSE Asks([t EXCEPT !.busy = TRUE, !.state = "STOP"], "stop")

\* A write of IC_ENABLE: ABORT can be set, once the block is enabled and on the bus, never cleared.
EnableWritten(b, enable, block, abort) ==
  LET accepted == abort /\ ~ b.aborting /\ b.enabled /\ b.state # "IDLE"
      flushed == IF enable THEN b ELSE UpdateRxFull([b EXCEPT !.tx = << >>, !.rx = 0])
      t == [flushed EXCEPT !.enabled = enable, !.blocked = block, !.aborting = @ \/ accepted]
  IN  NextCommand(IF accepted THEN RequestAbort(t) ELSE t)

DataWritten(b, cmd) ==
  LET t == [b EXCEPT !.tx = Append(@, cmd)]
  IN  IF ~ b.enabled \/ Len(b.tx) = I2cDepth THEN b
      ELSE NextCommand(IF Len(t.tx) > t.tx_threshold THEN ClearInterrupts(t, {TX_EMPTY}) ELSE t)

DataRead(b) == IF b.rx = 0 THEN b ELSE UpdateRxFull([b EXCEPT !.rx = @ - 1])

\* reset(): the request the bus has not answered is not taken back.
WasReset(b) ==
  [b EXCEPT !.state = "IDLE", !.busy = FALSE, !.stop = FALSE, !.pending_restart = FALSE, !.abort_pending = FALSE,
            !.tx = << >>, !.rx = 0, !.enabled = FALSE, !.blocked = FALSE, !.aborting = FALSE,
            !.rx_threshold = 0, !.tx_threshold = 0, !.raw = {}, !.mask = I2cInterrupts, !.line = FALSE]

PowerOn ==
  [state |-> "IDLE", busy |-> FALSE, stop |-> FALSE, pending_restart |-> FALSE, abort_pending |-> FALSE,
   tx |-> << >>, rx |-> 0, enabled |-> FALSE, blocked |-> FALSE, aborting |-> FALSE,
   rx_threshold |-> 0, tx_threshold |-> 0, raw |-> {}, mask |-> I2cInterrupts, line |-> FALSE, asked |-> Nothing]
-----------------------------------------------------------------------------
Init == i2c = PowerOn

\* The bus has done what it was asked for.
Answered == [i2c EXCEPT !.asked = Nothing]
Started == i2c.asked = "start" /\ i2c' = CompleteStart(Answered)
Connected == i2c.asked = "connect" /\ \E ack \in BOOLEAN : i2c' = CompleteConnect(Answered, ack)
Written == i2c.asked = "write" /\ \E ack \in BOOLEAN : i2c' = CompleteWrite(Answered, ack)
Received == i2c.asked = "read" /\ i2c' = CompleteRead(Answered)
Stopped == i2c.asked = "stop" /\ i2c' = CompleteStop(Answered)

\* Another master has won the bus.  (Lost in the middle of an abort, the abort is left for the
\* next transfer: that order is left out, and AbortsEnd does not hold with it.)
ArbitrationLost ==
  /\ i2c.asked \notin {Nothing, "stop"} /\ ~ i2c.aborting
  /\ i2c' = Abort([Answered EXCEPT !.state = "IDLE", !.busy = FALSE])

WriteData == \E cmd \in Commands : i2c' = DataWritten(i2c, cmd)
ReadData == i2c' = DataRead(i2c)
WriteEnable == \E enable, block, abort \in BOOLEAN : i2c' = EnableWritten(i2c, enable, block, abort)
WriteRxTl == \E n \in Thresholds : i2c' = UpdateRxFull([i2c EXCEPT !.rx_threshold = n])
WriteTxTl == \E n \in Thresholds : i2c' = [i2c EXCEPT !.tx_threshold = n]
WriteIntrMask == \E m \in I2cMasks : i2c' = CheckInterrupts([i2c EXCEPT !.mask = m])
ReadClrTxAbrt == i2c' = ClearInterrupts(i2c, {TX_ABRT})
\* The chip is reset when whatever is on the bus has nothing left to answer.
Reset == i2c.asked = Nothing /\ i2c' = WasReset(i2c)

Next ==
  \/ Started \/ Connected \/ Written \/ Received \/ Stopped \/ ArbitrationLost
  \/ WriteData \/ ReadData \/ WriteEnable \/ WriteRxTl \/ WriteTxTl \/ WriteIntrMask \/ ReadClrTxAbrt \/ Reset

Spec == Init /\ [][Next]_i2c
-----------------------------------------------------------------------------
(* Properties. *)

TypeOK ==
  i2c \in [state : States, busy : BOOLEAN, stop : BOOLEAN, pending_restart : BOOLEAN, abort_pending : BOOLEAN,
           tx : Seq(Commands), rx : 0 .. I2cDepth, enabled : BOOLEAN, blocked : BOOLEAN, aborting : BOOLEAN,
           rx_threshold : Thresholds \cup {0}, tx_threshold : Thresholds \cup {0}, raw : SUBSET I2cInterrupts,
           mask : I2cMasks \cup {I2cInterrupts}, line : BOOLEAN, asked : Requests \cup {Nothing}]

\* The line says what the raw and enable bits say now, and RX_FULL is a level
\* (_update_rx_full): it is up exactly while the receive FIFO is above its
\* threshold, through aborts, disables and new thresholds.
LineTellsStatus ==
  /\ i2c.line = (i2c.raw \cap i2c.mask # {})
  /\ RX_FULL \in i2c.raw <=> i2c.rx > i2c.rx_threshold

\* The block is busy exactly while the bus owes it an answer: it never asks
\* for two things at once, and never waits for an answer nobody owes.
BusyTellsFrame == i2c.busy <=> i2c.asked # Nothing

\* An enabled master that is not blocked has no command waiting unless it is
\* busy with the one before (_next_command after every completion and write).
NothingWaits == i2c.enabled /\ ~ i2c.blocked /\ i2c.tx # << >> => i2c.busy

\* "The ABORT bit is cleared automatically after the abort operation": while it
\* is set, the stop that ends the operation is owed, so no abort is forgotten,
\* and it does not outlive the transfer it was meant for.
AbortsEnd == (i2c.aborting <=> i2c.abort_pending) /\ (i2c.aborting => i2c.busy /\ i2c.stop)
=============================================================================
