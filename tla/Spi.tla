--------------------------------- MODULE Spi ---------------------------------
(***************************************************************************)
(* The SPI controller (peripherals/_spi.py): words leave the transmit FIFO *)
(* one at a time, each takes the time of its frame, and its reply goes to  *)
(* the receive FIFO when both the frame and the device are done.  The      *)
(* device answers from inside on_transmit() or later, when it likes.       *)
(*                                                                         *)
(* The RPSPI object is one record, and each method a function of it.  A    *)
(* reply from inside on_transmit() delivers at once when frames take no    *)
(* time, and the delivery sends the next word: the calls nest as deep as   *)
(* the FIFO is full, which Pumped unrolls.                                 *)
(***************************************************************************)
EXTENDS Integers, Sequences, FiniteSets

CONSTANTS
  Words,      \* the words that are sent; the device answers each with itself
  FifoDepth,  \* the entries of each FIFO (8)
  Masks,      \* the SSPIMSC values that are written
  Enables,    \* the SSPDMACR values that are written
  Prompts,    \* whether the device answers from inside on_transmit(): {TRUE}, {FALSE} or both, as it likes
  MaxOwed,    \* bound: the answers outstanding when the block is reset
  None        \* no reply

SpiAssumption ==
  /\ FifoDepth \in Nat \ {0}
  /\ Masks \subseteq SUBSET {"TX", "RX", "ROR"}
  /\ Enables \subseteq SUBSET {16, 17}
  /\ Prompts \subseteq BOOLEAN
  /\ MaxOwed \in Nat
  /\ None \notin Words

VARIABLE spi

TxRequest == 16   \* DREQ_SPI0_TX
RxRequest == 17   \* DREQ_SPI0_RX
Interrupts == {"TX", "RX", "ROR"}

-----------------------------------------------------------------------------
(* Methods, as functions of the state s of the block. *)

Status(s) == s.raw \cap s.imsc
CheckInterrupts(s) == [s EXCEPT !.line = Status(s) # {}]

Full(fifo) == Len(fifo) = FifoDepth

\* _update_dma_tx() and _update_dma_rx(): SSE and the two enables gate the requests.
Requested(s) ==
  {r \in {TxRequest, RxRequest} : s.sse /\ r \in s.dmacr /\ IF r = TxRequest THEN ~ Full(s.tx) ELSE s.rx # <<>>}
UpdateDma(s) == [s EXCEPT !.up = Requested(s)]

\* _fifos_updated(): the line is told only when the masked status changes.
FifosUpdated(s) ==
  LET levels == {i \in {"TX", "RX"} : IF i = "TX" THEN 2 * Len(s.tx) <= FifoDepth ELSE 2 * Len(s.rx) >= FifoDepth}
      t == [s EXCEPT !.raw = (@ \cap {"ROR"}) \cup levels]
  IN  UpdateDma(IF Status(t) # Status(s) THEN CheckInterrupts(t) ELSE t)

\* The first half of _deliver(): a reply for a full FIFO is lost, and says so.

Received(s, word) ==
  LET t == [s EXCEPT !.busy = FALSE]
  IN  FifosUpdated(IF ~ Full(s.rx) THEN [t EXCEPT !.rx = Append(@, word)]
                   ELSE CheckInterrupts([t EXCEPT !.raw = @ \cup {"ROR"}, !.lost = TRUE]))

\* complete_transmit(), but for the _do_tx() that ends a delivery.
CompleteTransmit(s, word) == IF s.frame THEN [s EXCEPT !.reply = word] ELSE Received(s, word)

\* (slip: a frame that is being sent is not waited for)
DoTx_WhileBusy(s) ==
  IF s.tx = <<>> \/ ~ s.sse THEN s
  ELSE LET word == Head(s.tx)
           t == [s EXCEPT !.tx = Tail(@), !.busy = TRUE, !.frame = @ \/ s.timed,
                     !.reply = IF s.timed THEN None ELSE @]
       IN  FifosUpdated(IF s.lbm \/ s.prompt THEN CompleteTransmit(t, word) ELSE [t EXCEPT !.owes = Append(@, word)])

\* One turn of _do_tx(): a word leaves, and the device hears of it.
DoTx(s) ==
  IF s.busy \/ s.tx = <<>> \/ ~ s.sse THEN s
  ELSE LET word == Head(s.tx)
           t == [s EXCEPT !.tx = Tail(@), !.busy = TRUE, !.frame = @ \/ s.timed,
                     !.reply = IF s.timed THEN None ELSE @]
       IN  FifosUpdated(IF s.lbm \/ s.prompt THEN CompleteTransmit(t, word) ELSE [t EXCEPT !.owes = Append(@, word)])

\* _do_tx(), with the turns that its deliveries lead to.  (The set, of one state, has TLC
\* evaluate each turn once.)
Pumped(s) ==
  LET turn[n \in 0 .. FifoDepth] == IF n = 0 THEN {s} ELSE {DoTx(t) : t \in turn[n - 1]}
  IN  CHOOSE t \in turn[FifoDepth] : TRUE

Delivered(s, word) == Pumped(Received(s, word))

\* _on_frame_done(): a reply that is there is delivered; otherwise the block stays busy.
FrameEnded(s) ==
  LET t == [s EXCEPT !.frame = FALSE, !.reply = None]
  IN  IF s.reply = None THEN t ELSE Delivered(t, s.reply)

\* The device's answer to a word it was given earlier.
Answered(s) ==
  LET t == [s EXCEPT !.owes = Tail(@)]
  IN  IF s.frame THEN [t EXCEPT !.reply = Head(s.owes)] ELSE Delivered(t, Head(s.owes))


\* (slip: a full FIFO takes one word more)
DrWritten_Overfills(s, word) == FifosUpdated(Pumped([s EXCEPT !.tx = Append(@, word)]))
\* Accesses to SSPDR: a word for a full FIFO is dropped, an empty one reads as 0.
DrWritten(s, word) == IF Full(s.tx) THEN s ELSE FifosUpdated(Pumped([s EXCEPT !.tx = Append(@, word)]))
DrRead(s) == IF s.rx = <<>> THEN s ELSE FifosUpdated([s EXCEPT !.rx = Tail(@)])

\* A write of SSPCR1, which starts a primed FIFO.
Cr1Written(s, sse, lbm) == FifosUpdated(Pumped([s EXCEPT !.sse = sse, !.lbm = lbm]))

DmacrWritten(s, enables) == UpdateDma([s EXCEPT !.dmacr = enables])

\* A block as reset() leaves it; `owes` and `prompt` are the device's, `stale` tells that it has been
\* reset with an answer outstanding.
Clear(owes, prompt, stale) ==
  [tx |-> <<>>, rx |-> <<>>, busy |-> FALSE, frame |-> FALSE, reply |-> None, timed |-> FALSE, sse |-> FALSE, lbm |-> FALSE,
   dmacr |-> {}, raw |-> {"TX"}, imsc |-> {}, line |-> FALSE, up |-> {}, owes |-> owes, prompt |-> prompt, lost |-> FALSE,
   stale |-> stale]

-----------------------------------------------------------------------------
(* Steps *)

WriteDr(word) == spi' = DrWritten(spi, word)
ReadDr == spi' = DrRead(spi)
WriteCr1(sse, lbm) == spi' = Cr1Written(spi, sse, lbm)
\* SSPCPSR and the master bit: whether there is a bit clock, so that a frame takes time.
WriteClock(timed) == spi' = [spi EXCEPT !.timed = timed]
WriteDmacr(enables) == spi' = DmacrWritten(spi, enables)
WriteImsc(enabled) == spi' = CheckInterrupts([spi EXCEPT !.imsc = enabled])
\* SSPICR clears the overrun (and the history of it).
WriteIcr == spi' = CheckInterrupts([spi EXCEPT !.raw = @ \ {"ROR"}, !.lost = FALSE])
FrameDone == spi.frame /\ spi' = FrameEnded(spi)
DeviceAnswers == spi.owes # <<>> /\ spi' = Answered(spi)
Reset ==
  /\ Len(spi.owes) <= MaxOwed
  /\ spi' = Clear(spi.owes, spi.prompt, spi.stale \/ spi.owes # <<>>)

Init == \E prompt \in Prompts : spi = Clear(<<>>, prompt, FALSE)

Program ==
  \/ \E word \in Words : WriteDr(word)
  \/ ReadDr
  \/ \E sse, lbm \in BOOLEAN : WriteCr1(sse, lbm)
  \/ \E timed \in BOOLEAN : WriteClock(timed)
  \/ \E enables \in Enables : WriteDmacr(enables)
  \/ \E enabled \in Masks : WriteImsc(enabled)
  \/ WriteIcr

Next == Program \/ FrameDone \/ DeviceAnswers \/ Reset

Spec == Init /\ [][Next]_spi

-----------------------------------------------------------------------------
(* Properties *)

\* Every field has its type, and neither FIFO holds more than its entries.
TypeOK ==
  /\ Len(spi.tx) <= FifoDepth /\ Len(spi.rx) <= FifoDepth
  /\ spi \in [tx : Seq(Words), rx : Seq(Words), busy : BOOLEAN, frame : BOOLEAN, reply : Words \cup {None},
              timed : BOOLEAN, sse : BOOLEAN, lbm : BOOLEAN, dmacr : SUBSET {TxRequest, RxRequest}, raw : SUBSET Interrupts,
              imsc : SUBSET Interrupts, line : BOOLEAN, up : SUBSET {TxRequest, RxRequest}, owes : Seq(Words),
              prompt : BOOLEAN, lost : BOOLEAN, stale : BOOLEAN]

\* The DMA controller is told of every change of the two requests: what it keeps is what the
\* FIFOs and the enables say now (record 0044: a channel that misses an edge never runs again).
RequestsTellFifos == spi.up = Requested(spi)

\* The interrupt line is the OR of the enabled raw bits, an overrun in the middle of a delivery
\* included (`_deliver()`), and the raw bits of the FIFOs are their levels.
LineTellsStatus ==
  /\ spi.line = (Status(spi) # {})
  /\ ("TX" \in spi.raw) = (2 * Len(spi.tx) <= FifoDepth)
  /\ ("RX" \in spi.raw) = (2 * Len(spi.rx) >= FifoDepth)

\* One word is on its way at a time, and the block is busy exactly while a frame or an answer is
\* to come; a reply is held for the end of its frame only.  (A block that was reset with an answer
\* outstanding takes that answer for one to its next word.)
BusyTellsFrame ==
  ~ spi.stale =>
    /\ Len(spi.owes) <= 1
    /\ spi.busy = (spi.frame \/ spi.owes # <<>>)
    /\ spi.reply # None => spi.frame /\ spi.owes = <<>>
    /\ spi.frame /\ spi.reply = None => spi.owes # <<>>

\* Words that wait in an enabled block are on their way.
NothingWaits == spi.sse /\ spi.tx # <<>> => spi.busy

=============================================================================
