--------------------------------- MODULE Adc ---------------------------------
(***************************************************************************)
(* The ADC (peripherals/_adc.py): one conversion at a time, started by     *)
(* firmware or, free running, by the end of the one before - at once, or   *)
(* by an alarm when the divider asks for a pause between them - into a     *)
(* FIFO with a threshold.  Samples and channels are data, left out.        *)
(***************************************************************************)
EXTENDS Integers

CONSTANTS
  AdcDepth,       \* the entries of the FIFO (8)
  AdcThresholds   \* the FCS.THRESH values that are written

AdcAssumption == AdcDepth \in Nat \ {0} /\ AdcThresholds \subseteq 0 .. AdcDepth

VARIABLE adc
-----------------------------------------------------------------------------
(* Methods, as functions of the state a of the block. *)

Raw(a) == a.level >= a.threshold
Status(a) == (Raw(a) /\ a.inte) \/ a.intf
CheckInterrupts(a) == [a EXCEPT !.line = Status(a)]
Requested(a) == a.dreq_en /\ Raw(a)
UpdateDma(a) == [a EXCEPT !.up = Requested(a)]

\* start_adc_read(), with the default reader: the alarm of a conversion under way is set again.
StartRead(a) == [a EXCEPT !.busy = TRUE, !.sampling = TRUE]

\* The FIFO's part of complete_adc_read(): a sample for a full FIFO is dropped, and says so.
Pushed(a) ==
  IF ~ a.fifo_en THEN a
  ELSE IF a.level = AdcDepth THEN [a EXCEPT !.errors = @ \cup {"OVER"}]
  ELSE CheckInterrupts(UpdateDma([a EXCEPT !.level = @ + 1]))

FreeRunning(a) == a.start_many /\ a.en


\* complete_adc_read(), from the sample alarm.
CompleteRead(a) ==
  LET p == Pushed([a EXCEPT !.busy = FALSE, !.sampling = FALSE])
  IN  IF ~ FreeRunning(p) THEN p
      ELSE IF p.paced THEN [p EXCEPT !.pausing = TRUE]
      ELSE StartRead(p)

\* A write of CS, whose START_ONE bit clears itself.
CsWritten(a, en, one, many) ==
  LET t == [a EXCEPT !.en = en, !.start_many = many]
  IN  IF en /\ ~ a.busy /\ (one \/ many) THEN StartRead(t) ELSE t

\* (slip: a drained FIFO leaves the line up)
FifoRead_LineStays(a) ==
  IF a.level = 0 THEN [a EXCEPT !.errors = @ \cup {"UNDER"}] ELSE UpdateDma([a EXCEPT !.level = @ - 1])

FifoRead(a) ==
  IF a.level = 0 THEN [a EXCEPT !.errors = @ \cup {"UNDER"}]
  ELSE CheckInterrupts(UpdateDma([a EXCEPT !.level = @ - 1]))

\* A write of FCS clears the error bits it names, and may move the threshold.
FcsWritten(a, fifo_en, dreq_en, threshold, clears) ==
  CheckInterrupts(UpdateDma(
    [a EXCEPT !.fifo_en = fifo_en, !.dreq_en = dreq_en, !.threshold = threshold, !.errors = @ \ clears]))

\* reset(): unlike a write of FCS it tells the line FALSE and computes the request.
PowerOn ==
  [en |-> FALSE, start_many |-> FALSE, paced |-> FALSE, busy |-> FALSE, sampling |-> FALSE, pausing |-> FALSE,
   level |-> 0, fifo_en |-> FALSE, dreq_en |-> FALSE, threshold |-> 0, errors |-> {},
   inte |-> FALSE, intf |-> FALSE, line |-> FALSE, up |-> FALSE]
-----------------------------------------------------------------------------
Init == adc = PowerOn

SampleDone == adc.sampling /\ adc' = CompleteRead(adc)


\* _on_multi_shot_alarm(): EN cleared meanwhile ends the capture.
PauseDone ==
  /\ adc.pausing
  /\ LET a == [adc EXCEPT !.pausing = FALSE]
     IN  adc' = IF FreeRunning(a) THEN StartRead(a) ELSE a

WriteCs == \E en, one, many \in BOOLEAN : adc' = CsWritten(adc, en, one, many)
WriteFcs ==
  \E f, d \in BOOLEAN, n \in AdcThresholds, c \in SUBSET {"OVER", "UNDER"} : adc' = FcsWritten(adc, f, d, n, c)
WriteDiv == adc' = [adc EXCEPT !.paced = ~ @]
WriteInte == adc' = CheckInterrupts([adc EXCEPT !.inte = ~ @])
WriteIntf == adc' = CheckInterrupts([adc EXCEPT !.intf = ~ @])
ReadFifo == adc' = FifoRead(adc)
Reset == adc' = PowerOn

Next ==
  \/ SampleDone \/ PauseDone \/ WriteCs \/ WriteFcs \/ WriteDiv
  \/ WriteInte \/ WriteIntf \/ ReadFifo \/ Reset

Spec == Init /\ [][Next]_adc
-----------------------------------------------------------------------------
(* Properties. *)

TypeOK ==
  adc \in [en : BOOLEAN, start_many : BOOLEAN, paced : BOOLEAN, busy : BOOLEAN, sampling : BOOLEAN,
           pausing : BOOLEAN, level : 0 .. AdcDepth, fifo_en : BOOLEAN, dreq_en : BOOLEAN,
           threshold : AdcThresholds \cup {0}, errors : SUBSET {"OVER", "UNDER"}, inte : BOOLEAN, intf : BOOLEAN,
           line : BOOLEAN, up : BOOLEAN]

\* The level last given to the NVIC is INTS, also when a read drains the FIFO
\* below its threshold and when the threshold moves.
LineTellsStatus == adc.line = Status(adc)

\* The DMA request says whether the FIFO is at its threshold now.
RequestsTellFifos == adc.up = Requested(adc)

\* A free-running capture never runs dry: with EN and START_MANY set there is
\* a conversion under way, or the alarm of the next one is set, whatever
\* stops, starts and changes of the divider came before.
NothingWaits == FreeRunning(adc) => adc.sampling \/ adc.pausing

\* READY is low exactly while a conversion's alarm is set.
BusyTellsFrame == adc.busy = adc.sampling
=============================================================================
