------------------------------- MODULE SpiDma --------------------------------
(***************************************************************************)
(* A transfer through the SPI by two DMA channels, as machine_spi.c and    *)
(* tests/test_dma.py make it (record 0044): one writes the words of a      *)
(* buffer to SSPDR, paced by the transmit request, the other reads the     *)
(* answers from SSPDR to memory, paced by the receive request.  The two    *)
(* blocks meet in the requests, and the two channels on the clock: a       *)
(* transfer takes one cycle, and those of one cycle run in any order.      *)
(***************************************************************************)
EXTENDS Dma, Sequences

CONSTANTS
  Length,       \* the words of the transfer
  MaxPauses,    \* bound: the times the program pauses the transmit channel
  FrameCycles,  \* bound: the cycles of a frame
  FifoDepth,    \* the entries of each FIFO of the SPI
  Prompts,      \* whether the device answers from inside on_transmit()
  None          \* no reply

ASSUME SpiDmaAssumption ==
  /\ {0, 1} \subseteq Channels /\ {16, 17} \subseteq Requests
  /\ Length \in 1 .. MaxCount
  /\ FrameCycles \in Nat \ {0} /\ MaxPauses \in Nat
  /\ FifoDepth \in Nat \ {0, 1}   \* the code's is 8; a FIFO of one word overflows
  /\ Prompts \subseteq BOOLEAN
  /\ None \notin 1 .. Length

VARIABLES
  spi,   \* the SPI controller
  mem,   \* the words that the receive channel has written
  due,   \* the channels whose alarm is due in this cycle
  left,  \* the cycles that are left of the frame
  pauses \* the times the program has paused the transmit channel

vars == <<dma, spi, mem, due, left, pauses>>

S == INSTANCE Spi WITH Words <- 1 .. Length, MaxOwed <- 0, Masks <- {}, Enables <- {}

Tx == 0
Rx == 1
TxCtrl == [en |-> TRUE, treq |-> S!TxRequest, chain |-> Tx, quiet |-> TRUE]
RxCtrl == [en |-> TRUE, treq |-> S!RxRequest, chain |-> Rx, quiet |-> FALSE]

-----------------------------------------------------------------------------
(* The hardware. *)

\* A frame that begins takes its time.
Timed(s, running) == left' \in IF s.frame /\ ~ running THEN 1 .. FrameCycles ELSE {left}

\* The controller while transfer() of channel c makes an access that leaves the SPI in state s.
InTransfer(c, s) == RequestsAre([dma EXCEPT !.alarm = @ \ {c}], s.up)

\* (slip: a channel that is armed again runs again in the same cycle)
StillDue_Again(c) == due

\* The channels that still run in this cycle, after c: one armed again waits for the next.
StillDue(c) == due \ {c}

\* transfer() of the transmit channel; the buffer holds 1, 2, ...
TransmitWord ==
  /\ Tx \in due \cap dma.alarm
  /\ spi' = S!DrWritten(spi, dma.moved[Tx] + 1)
  /\ dma' = Counted(InTransfer(Tx, spi'), Tx)
  /\ Timed(spi', spi.frame)
  /\ due' = StillDue(Tx)
  /\ UNCHANGED <<mem, pauses>>

\* transfer() of the receive channel; an empty FIFO reads as 0.
ReceiveWord ==
  /\ Rx \in due \cap dma.alarm
  /\ spi' = S!DrRead(spi)
  /\ mem' = Append(mem, IF spi.rx = <<>> THEN 0 ELSE Head(spi.rx))
  /\ dma' = Counted(InTransfer(Rx, spi'), Rx)
  /\ due' = StillDue(Rx)
  /\ UNCHANGED <<left, pauses>>

\* The requests the SPI publishes when it changes by itself.
Published == dma' = RequestsAre(dma, spi'.up)

FrameDone ==
  /\ spi.frame /\ left = 0
  /\ spi' = S!FrameEnded(spi)
  /\ Published
  /\ Timed(spi', FALSE)
  /\ UNCHANGED <<mem, due, pauses>>

DeviceAnswers ==
  /\ spi.owes # <<>>
  /\ spi' = S!Answered(spi)
  /\ Published
  /\ Timed(spi', spi.frame)
  /\ UNCHANGED <<mem, due, pauses>>

\* A cycle of clk_sys, when all that is due in this one has run.
Cycle ==
  /\ due \cap dma.alarm = {} /\ ~ (spi.frame /\ left = 0)
  /\ due' = dma.alarm
  /\ left' = IF spi.frame THEN left - 1 ELSE 0
  /\ UNCHANGED <<dma, spi, mem, pauses>>

-----------------------------------------------------------------------------
(* The program: it enables the SPI and its requests and starts the transfer, *)
(* in any order, may have reset the DMA controller after it enabled the SPI, *)
(* and may pause the transmit channel on the way.                            *)

Begun == dma.asked[Rx] # 0

EnableSpi ==
  /\ ~ spi.sse
  /\ spi' = S!Cr1Written(spi, TRUE, FALSE)
  /\ Published
  /\ UNCHANGED <<mem, due, left, pauses>>

EnableRequests ==
  /\ spi.dmacr = {}
  /\ spi' = S!DmacrWritten(spi, {S!TxRequest, S!RxRequest})
  /\ Published
  /\ UNCHANGED <<mem, due, left, pauses>>

ResetDma == ~ Begun /\ Reset /\ UNCHANGED <<spi, mem, due, left, pauses>>

\* Both channels are set up, then triggered by one write of MULTI_CHAN_TRIGGER.
StartTransfer ==
  /\ ~ Begun
  /\ dma' = Started([dma EXCEPT !.ctrl[Tx] = TxCtrl, !.ctrl[Rx] = RxCtrl,
                                !.reload[Tx] = Length, !.reload[Rx] = Length], {Tx, Rx})
  /\ UNCHANGED <<spi, mem, due, left, pauses>>

Pause ==
  /\ pauses < MaxPauses /\ Active(dma, Tx)
  /\ dma' = CtrlWritten(dma, Tx, [TxCtrl EXCEPT !.en = FALSE])
  /\ due' = due \ {Tx}
  /\ pauses' = pauses + 1
  /\ UNCHANGED <<spi, mem, left>>

Resume ==
  /\ Tx \in dma.busy /\ ~ dma.ctrl[Tx].en
  /\ dma' = CtrlWritten(dma, Tx, TxCtrl)
  /\ UNCHANGED <<spi, mem, due, left, pauses>>

-----------------------------------------------------------------------------

\* Without a bit clock a frame takes no time; a device that answers late has one.
SpiDmaInit ==
  /\ Init
  /\ \E prompt \in Prompts, timed \in BOOLEAN :
       (prompt \/ timed) /\ spi = [S!Clear(<<>>, prompt, FALSE) EXCEPT !.timed = timed]
  /\ mem = <<>> /\ due = {} /\ left = 0 /\ pauses = 0

Hardware == TransmitWord \/ ReceiveWord \/ FrameDone \/ DeviceAnswers \/ Cycle
Driver == EnableSpi \/ EnableRequests \/ ResetDma \/ StartTransfer \/ Pause \/ Resume

SpiDmaNext == Hardware \/ Driver

\* The clock runs, the device answers, and the program finishes what it set out to do.
SpiDmaSpec ==
  /\ SpiDmaInit /\ [][SpiDmaNext]_vars
  /\ WF_vars(TransmitWord) /\ WF_vars(ReceiveWord) /\ WF_vars(FrameDone) /\ WF_vars(DeviceAnswers)
  /\ WF_vars(Cycle)
  /\ WF_vars(EnableSpi) /\ WF_vars(EnableRequests) /\ WF_vars(StartTransfer) /\ WF_vars(Resume)

-----------------------------------------------------------------------------
(* Properties *)

E == INSTANCE Exchange WITH got <- mem

\* The words come to memory in order, none lost and none made up, and the transfer comes to its
\* end, whatever the order of the enables, the trigger and a reset of the controller (record
\* 0044: a reset that forgot the requests left the transmit channel waiting for an edge for ever).
ImplementsExchange == E!Spec

\* The receive channel keeps up with the transmit channel: no answer finds its FIFO full
\* (record 0044: a transmit channel that ran again before its peer did overflowed it).
NoOverrun == ~ spi.lost

\* A transfer that is about to run finds room for its word, or a word: clear_dreq() disarms no
\* channel, so the request must still hold when the alarm fires.
AlarmsMatchFifos ==
  /\ Tx \in dma.alarm => ~ S!Full(spi.tx)
  /\ Rx \in dma.alarm => spi.rx # <<>>

\* The receive channel's interrupt means that all the answers are in memory.
InterruptMeansDone == Rx \in dma.raw => Len(mem) = Length

=============================================================================
