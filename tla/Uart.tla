-------------------------------- MODULE Uart --------------------------------
(***************************************************************************)
(* A UART (peripherals/_uart.py): characters leave the transmit FIFO one   *)
(* at a time through the shift register, which holds each for its time on  *)
(* the wire, and arrive from the line, or from the transmitter itself when *)
(* it is looped back.                                                      *)
(*                                                                         *)
(* The RPUART object is one record and each method a function of it.  Of   *)
(* the FIFOs only the number of characters is kept.                        *)
(***************************************************************************)
EXTENDS Integers, SequencesExt

CONSTANTS
  UartDepth,     \* the entries of each FIFO (32)
  UartTriggers,  \* the transmit trigger levels that UARTIFLS selects
  UartControls,  \* the UARTCR values that are written
  UartMasks,     \* the UARTIMSC values that are written
  UartDmacrs     \* the UARTDMACR values that are written

TX == "TX"
RX == "RX"
OE == "OE"

UartAssumption ==
  /\ UartDepth \in Nat \ {0}
  /\ UartTriggers # {} /\ UartTriggers \subseteq 1 .. UartDepth - 1
  /\ UartControls \subseteq SUBSET {"UARTEN", "TXE", "RXE", "LBE"}
  /\ UartMasks \subseteq SUBSET {TX, RX, OE}
  /\ UartDmacrs \subseteq SUBSET {"TXDMAE", "RXDMAE", "DMAONERR"}

VARIABLE uart
-----------------------------------------------------------------------------
(* Methods, as functions of the state u of the block. *)

TxEnabled(u) == {"UARTEN", "TXE"} \subseteq u.cr
RxEnabled(u) == {"UARTEN", "RXE"} \subseteq u.cr
TxFull(u) == u.tx >= IF u.fen THEN UartDepth ELSE 1
TxTrigger(u) == IF u.fen THEN u.trigger ELSE 0

CheckInterrupts(u) == [u EXCEPT !.line = u.status \cap u.mask # {}]

\* _update_dreq(): DMAONERR holds the receive request back while an error is up.
Requested(u) ==
  {d \in {TX, RX} :
     IF d = TX THEN TxEnabled(u) /\ "TXDMAE" \in u.dmacr /\ ~ TxFull(u)
     ELSE /\ RxEnabled(u) /\ "RXDMAE" \in u.dmacr /\ u.rx > 0
          /\ ~ ("DMAONERR" \in u.dmacr /\ OE \in u.status)}
UpdateDreq(u) == [u EXCEPT !.up = Requested(u)]

\* (slip: an overrun does not take the receive request down)
FeedByte_OverrunUntold(u) ==
  IF ~ RxEnabled(u) THEN u
  ELSE IF u.rx = UartDepth THEN CheckInterrupts([u EXCEPT !.status = @ \cup {OE}])
  ELSE UpdateDreq(CheckInterrupts([u EXCEPT !.rx = @ + 1, !.status = @ \cup {RX}]))

FeedByte(u) ==
  IF ~ RxEnabled(u) THEN u
  ELSE UpdateDreq(CheckInterrupts(
         IF u.rx = UartDepth THEN [u EXCEPT !.status = @ \cup {OE}]
         ELSE [u EXCEPT !.rx = @ + 1, !.status = @ \cup {RX}]))

Emit(u) == IF "LBE" \in u.cr THEN FeedByte(u) ELSE u

\* One turn of _tx_pump(): the interrupt comes when the FIFO falls through the trigger level.
Shift(u) ==
  IF u.shifting \/ u.tx = 0 \/ ~ TxEnabled(u) THEN u
  ELSE LET t == [u EXCEPT !.tx = @ - 1, !.shifting = u.timed]
           sent == IF u.timed THEN t ELSE Emit(t)
       IN  IF u.tx > TxTrigger(u) /\ TxTrigger(u) >= sent.tx
           THEN [sent EXCEPT !.status = @ \cup {TX}] ELSE sent

\* _tx_pump(): a character with no time on the wire makes room for the next one.
Pump(u) == FoldLeft(LAMBDA t, turn : Shift(t), u, [turn \in 1 .. u.tx |-> turn])

\* (slip: the next character is not started)
TxDone_Stops(u) == UpdateDreq(CheckInterrupts(Emit([u EXCEPT !.shifting = FALSE])))
TxDone(u) == UpdateDreq(CheckInterrupts(Pump(Emit([u EXCEPT !.shifting = FALSE]))))

\* A write of UARTDR: with the transmitter off it goes nowhere, to a full FIFO it is lost.
DrWritten(u) ==
  LET t == IF TxFull(u) THEN u ELSE [u EXCEPT !.tx = @ + 1]
      risen == IF ~ TxFull(u) /\ t.tx > TxTrigger(t) THEN [t EXCEPT !.status = @ \ {TX}] ELSE t
  IN  IF TxEnabled(u) THEN UpdateDreq(CheckInterrupts(Pump(risen))) ELSE u

DrRead(u) ==
  LET t == [u EXCEPT !.rx = IF @ = 0 THEN 0 ELSE @ - 1]
  IN  UpdateDreq(CheckInterrupts(
        [t EXCEPT !.status = IF t.rx = 0 THEN @ \ {RX} ELSE @ \cup {RX}]))


\* A write of UARTCR: the line is looked at if characters that waited have moved.
CrWritten(u, cr) ==
  LET t == [u EXCEPT !.cr = cr]
      p == Pump(t)
  IN  UpdateDreq(IF p = t THEN t ELSE CheckInterrupts(p))

\* A write of UARTLCR_H: FEN changes the depth, and so whether the FIFO is full.
LcrWritten(u, fen) == UpdateDreq([u EXCEPT !.fen = fen])

PowerOn ==
  [cr |-> {"TXE", "RXE"}, fen |-> FALSE, timed |-> FALSE, trigger |-> CHOOSE n \in UartTriggers : TRUE,
   tx |-> 0, rx |-> 0, shifting |-> FALSE, status |-> {}, mask |-> {}, dmacr |-> {}, line |-> FALSE, up |-> {}]
-----------------------------------------------------------------------------
Init == uart = PowerOn

ByteArrives == uart' = FeedByte(uart)
CharacterDone == uart.shifting /\ uart' = TxDone(uart)
WriteDr == uart' = DrWritten(uart)
ReadDr == uart' = DrRead(uart)
WriteCr == \E cr \in UartControls : uart' = CrWritten(uart, cr)
WriteLcr == uart' = LcrWritten(uart, ~ uart.fen)
WriteIfls == \E n \in UartTriggers : uart' = [uart EXCEPT !.trigger = n]
\* A baud rate is configured, or taken away: the next character has a time, or none.
WriteDivisor == uart' = [uart EXCEPT !.timed = ~ @]
WriteDmacr == \E d \in UartDmacrs : uart' = UpdateDreq([uart EXCEPT !.dmacr = d])
WriteImsc == \E m \in UartMasks : uart' = CheckInterrupts([uart EXCEPT !.mask = m])
WriteIcr == \E i \in {TX, RX, OE} : uart' = UpdateDreq(CheckInterrupts([uart EXCEPT !.status = @ \ {i}]))
Reset == uart' = PowerOn

Next ==
  \/ ByteArrives \/ CharacterDone \/ WriteDr \/ ReadDr \/ WriteCr \/ WriteLcr
  \/ WriteIfls \/ WriteDivisor \/ WriteDmacr \/ WriteImsc \/ WriteIcr \/ Reset

Spec == Init /\ [][Next]_uart /\ WF_uart(CharacterDone)
-----------------------------------------------------------------------------
(* Properties. *)

TypeOK ==
  uart \in [cr : UartControls \cup {{"TXE", "RXE"}}, fen : BOOLEAN, timed : BOOLEAN, trigger : UartTriggers,
            tx : 0 .. UartDepth, rx : 0 .. UartDepth, shifting : BOOLEAN, status : SUBSET {TX, RX, OE},
            mask : UartMasks \cup {{}}, dmacr : UartDmacrs \cup {{}}, line : BOOLEAN, up : SUBSET {TX, RX}]

\* The level last given to the NVIC is the masked status, after every access,
\* character and reset (_check_interrupts).
LineTellsStatus == uart.line = (uart.status \cap uart.mask # {})

\* The two DMA requests say what the FIFOs, enables and errors say now: each is
\* published by hand after whatever may change it (_update_dreq).
RequestsTellFifos == uart.up = Requested(uart)

\* An enabled transmitter with characters waiting has one in the shift
\* register: no write, enable or end of a character leaves it idle (_tx_pump).
NothingWaits == TxEnabled(uart) /\ uart.tx > 0 => uart.shifting

=============================================================================
