----------------------------- MODULE Dma_proofs ------------------------------
(***************************************************************************)
(* The safety of the DMA controller, for any number of channels, requests  *)
(* and words, and for every CTRL value; and, from it, that a transfer      *)
(* through the SPI by two channels is an exchange of words, of any length, *)
(* through FIFOs of any depth from two.                                    *)
(*                                                                         *)
(* The five invariants of Dma are inductive together, but not one by one,  *)
(* and not in the middle of transfer(): there the channel that transfers   *)
(* has lost its alarm and has not counted its word.  Good(d, X) says that  *)
(* they hold in state d but for the alarms of the channels in X, and       *)
(* Running(d, c) what holds of the channel that transfers.  One lemma for  *)
(* each method says that it keeps the two.                                 *)
(*                                                                         *)
(* The transfer's invariant, SInv, adds what the SPI is in the meantime:   *)
(* Holds says that the words between the two channels are, in order, those *)
(* of the receive FIFO, of the device and of the transmit FIFO; Fits, that *)
(* an armed channel finds room or a word; Paced, that a cycle brings one   *)
(* answer at most to a receive FIFO that holds one at most.                *)
(***************************************************************************)
EXTENDS SpiDma, SequenceTheorems, WellFoundedInduction, TLAPS

Armed(d, c) == Active(d, c) /\ d.ctrl[c].treq \in d.up \cup {Permanent} => c \in d.alarm
Exact(d, c) == d.moved[c] + d.count[c] = d.asked[c] /\ (c \in d.busy <=> d.count[c] > 0)
Told(d, i) == d.line[i] = (Status(d, i) # {})

Good(d, X) ==
  /\ d \in State
  /\ \A c \in Channels \ X : Armed(d, c)
  /\ \A c \in d.alarm : Active(d, c)
  /\ \A c \in Channels : Exact(d, c)
  /\ \A i \in Irqs : Told(d, i)

\* Channel c is between the start of transfer() and its count.
Running(d, c) == Active(d, c) /\ c \notin d.alarm

-----------------------------------------------------------------------------

\* start() of any channels keeps the invariants.
LEMMA StartedIsGood ==
  ASSUME NEW d, NEW X, Good(d, X), NEW Z \in SUBSET Channels
  PROVE  Good(Started(d, Z), X)
<1> DEFINE able == {c \in Z : d.ctrl[c].en /\ c \notin d.busy}
           go == {c \in able : d.reload[c] # 0}
           e == Started(d, Z)
<1>1. d \in State
  BY DEF Good
<1>2. /\ e.ctrl = d.ctrl /\ e.reload = d.reload /\ e.up = d.up /\ e.timer = d.timer
      /\ e.raw = d.raw /\ e.enable = d.enable /\ e.force = d.force /\ e.line = d.line
      /\ e.busy = d.busy \cup go
      /\ e.alarm = d.alarm \cup {c \in go : Asks(d, d.ctrl[c].treq)}
      /\ e.count = [c \in Channels |-> IF c \in able THEN d.reload[c] ELSE d.count[c]]
      /\ e.asked = [c \in Channels |-> IF c \in go THEN d.reload[c] ELSE d.asked[c]]
      /\ e.moved = [c \in Channels |-> IF c \in go THEN 0 ELSE d.moved[c]]
  BY <1>1 DEF Started, State
<1>3. e \in State
  <2>1. /\ d.busy \cup go \in SUBSET Channels
        /\ d.alarm \cup {c \in go : Asks(d, d.ctrl[c].treq)} \in SUBSET Channels
    BY <1>1 DEF State
  <2>2. 0 \in Counts
    BY DmaAssumption DEF Counts
  <2>3. /\ [c \in Channels |-> IF c \in able THEN d.reload[c] ELSE d.count[c]] \in [Channels -> Counts]
        /\ [c \in Channels |-> IF c \in go THEN d.reload[c] ELSE d.asked[c]] \in [Channels -> Counts]
        /\ [c \in Channels |-> IF c \in go THEN 0 ELSE d.moved[c]] \in [Channels -> Counts]
    BY <1>1, <2>2 DEF State
  <2> QED
    BY <1>1, <2>1, <2>3 DEF Started, State
<1>4. \A c \in Channels \ X : Armed(e, c)
  BY <1>1, <1>2 DEF Good, Armed, Active, Asks, State
<1>5. \A c \in e.alarm : Active(e, c)
  BY <1>1, <1>2 DEF Good, Active, State
<1>6. \A c \in Channels : Exact(e, c)
  BY <1>1, <1>2, DmaAssumption DEF Good, Exact, State, Counts
<1>7. \A i \in Irqs : Told(e, i)
  BY <1>1, <1>2 DEF Good, Told, Status
<1> QED
  BY <1>3, <1>4, <1>5, <1>6, <1>7 DEF Good

\* A channel that transfers is busy, and start() passes over it.
LEMMA StartedKeepsRunning ==
  ASSUME NEW d \in State, NEW c \in Channels, Running(d, c), NEW Z \in SUBSET Channels
  PROVE  Running(Started(d, Z), c)
  BY DEF Running, Active, Started, State

\* The abort of any channels keeps the invariants, and another channel running.
LEMMA AbortedIsGood ==
  ASSUME NEW d, NEW X, Good(d, X), NEW Z \in SUBSET Channels
  PROVE  /\ Good(Aborted(d, Z), X)
         /\ \A c \in Channels \ Z : Running(d, c) => Running(Aborted(d, Z), c)
<1> DEFINE e == Aborted(d, Z)
<1>1. d \in State
  BY DEF Good
<1>2. /\ e.ctrl = d.ctrl /\ e.reload = d.reload /\ e.up = d.up /\ e.timer = d.timer
      /\ e.raw = d.raw /\ e.enable = d.enable /\ e.force = d.force /\ e.line = d.line
      /\ e.moved = d.moved
      /\ e.busy = d.busy \ Z /\ e.alarm = d.alarm \ Z
      /\ e.count = [c \in Channels |-> IF c \in Z THEN 0 ELSE d.count[c]]
      /\ e.asked = [c \in Channels |-> IF c \in Z THEN d.moved[c] ELSE d.asked[c]]
  BY <1>1 DEF Aborted, State
<1>3. e \in State
  <2>1. d.busy \ Z \in SUBSET Channels /\ d.alarm \ Z \in SUBSET Channels
    BY <1>1 DEF State
  <2>2. 0 \in Counts
    BY DmaAssumption DEF Counts
  <2>3. /\ [c \in Channels |-> IF c \in Z THEN 0 ELSE d.count[c]] \in [Channels -> Counts]
        /\ [c \in Channels |-> IF c \in Z THEN d.moved[c] ELSE d.asked[c]] \in [Channels -> Counts]
    BY <1>1, <2>2 DEF State
  <2> QED
    BY <1>1, <2>1, <2>3 DEF Aborted, State
<1>4. \A c \in Channels \ X : Armed(e, c)
  BY <1>1, <1>2 DEF Good, Armed, Active, State
<1>5. \A c \in e.alarm : Active(e, c)
  BY <1>1, <1>2 DEF Good, Active, State
<1>6. \A c \in Channels : Exact(e, c)
  BY <1>1, <1>2, DmaAssumption DEF Good, Exact, State, Counts
<1>7. \A i \in Irqs : Told(e, i)
  BY <1>1, <1>2 DEF Good, Told, Status
<1>8. \A c \in Channels \ Z : Running(d, c) => Running(e, c)
  BY <1>1, <1>2 DEF Running, Active, State
<1> QED
  BY <1>3, <1>4, <1>5, <1>6, <1>7, <1>8 DEF Good

\* A write of any CTRL value keeps the invariants, and another channel running.
LEMMA CtrlWrittenIsGood ==
  ASSUME NEW d, NEW X, Good(d, X), NEW k \in Channels, NEW value \in Ctrl
  PROVE  /\ Good(CtrlWritten(d, k, value), X)
         /\ \A c \in Channels \ {k} : Running(d, c) => Running(CtrlWritten(d, k, value), c)
<1> DEFINE e == CtrlWritten(d, k, value)
           alarm == IF ~ value.en THEN d.alarm \ {k}
                    ELSE IF k \in d.busy /\ Asks(d, value.treq) THEN d.alarm \cup {k} ELSE d.alarm
<1>1. d \in State
  BY DEF Good
<1>2. /\ e.reload = d.reload /\ e.up = d.up /\ e.timer = d.timer /\ e.raw = d.raw
      /\ e.enable = d.enable /\ e.force = d.force /\ e.line = d.line /\ e.moved = d.moved
      /\ e.busy = d.busy /\ e.count = d.count /\ e.asked = d.asked
      /\ e.ctrl = [d.ctrl EXCEPT ![k] = value]
      /\ e.alarm = alarm
  BY <1>1 DEF CtrlWritten, ScheduleTransfer, Asks, State
<1>3. e \in State
  <2>1. alarm \in SUBSET Channels /\ [d.ctrl EXCEPT ![k] = value] \in [Channels -> Ctrl]
    BY <1>1 DEF State
  <2>2. e = [d EXCEPT !.ctrl = [d.ctrl EXCEPT ![k] = value], !.alarm = alarm]
    BY <1>1 DEF CtrlWritten, ScheduleTransfer, Asks, State
  <2> HIDE DEF alarm
  <2> QED
    BY <1>1, <2>1, <2>2 DEF State
<1>4. \A c \in Channels \ X : Armed(e, c)
  BY <1>1, <1>2 DEF Good, Armed, Active, Asks, State
<1>5. \A c \in e.alarm : Active(e, c)
  BY <1>1, <1>2 DEF Good, Active, State
<1>6. \A c \in Channels : Exact(e, c)
  BY <1>1, <1>2 DEF Good, Exact
<1>7. \A i \in Irqs : Told(e, i)
  BY <1>1, <1>2 DEF Good, Told, Status
<1>8. \A c \in Channels \ {k} : Running(d, c) => Running(e, c)
  BY <1>1, <1>2 DEF Running, Active, State
<1> QED
  BY <1>3, <1>4, <1>5, <1>6, <1>7, <1>8 DEF Good

\* A change of the requests keeps the invariants, and a channel running that no rising request paces.
LEMMA RequestsAreGood ==
  ASSUME NEW d, NEW X, Good(d, X), NEW up \in SUBSET Requests
  PROVE  /\ Good(RequestsAre(d, up), X)
         /\ \A c \in Channels : Running(d, c) /\ d.ctrl[c].treq \notin up \ d.up => Running(RequestsAre(d, up), c)
<1> DEFINE e == RequestsAre(d, up)
           risen == {c \in Channels : Active(d, c) /\ d.ctrl[c].treq \in up \ d.up}
<1>1. d \in State
  BY DEF Good
<1>2. e = [d EXCEPT !.up = up, !.alarm = d.alarm \cup risen]
  BY <1>1 DEF RequestsAre, State
<1>3. /\ e.ctrl = d.ctrl /\ e.reload = d.reload /\ e.timer = d.timer /\ e.raw = d.raw
      /\ e.enable = d.enable /\ e.force = d.force /\ e.line = d.line /\ e.moved = d.moved
      /\ e.busy = d.busy /\ e.count = d.count /\ e.asked = d.asked
      /\ e.up = up /\ e.alarm = d.alarm \cup risen
  BY <1>1, <1>2 DEF State
<1>4. e \in State
  BY <1>1, <1>2, ZenonT(30) DEF State
<1>5. \A c \in Channels \ X : Armed(e, c)
  BY <1>1, <1>3 DEF Good, Armed, Active, State
<1>6. \A c \in e.alarm : Active(e, c)
  BY <1>1, <1>3 DEF Good, Active, State
<1>7. /\ \A c \in Channels : Exact(e, c)
      /\ \A i \in Irqs : Told(e, i)
  BY <1>1, <1>3 DEF Good, Exact, Told, Status
<1>8. \A c \in Channels : Running(d, c) /\ d.ctrl[c].treq \notin up \ d.up => Running(e, c)
  BY <1>1, <1>3 DEF Running, Active, State
<1> QED
  BY <1>4, <1>5, <1>6, <1>7, <1>8 DEF Good

\* Telling the lines keeps the rest, and makes them exact, whatever has become of the three masks.
LEMMA CheckedIsGood ==
  ASSUME NEW d, NEW e, NEW X, Good(d, X), e \in State,
         e.ctrl = d.ctrl, e.busy = d.busy, e.alarm = d.alarm, e.up = d.up, e.count = d.count,
         e.moved = d.moved, e.asked = d.asked
  PROVE  /\ Good(CheckInterrupts(e), X)
         /\ \A c \in Channels : Running(d, c) => Running(CheckInterrupts(e), c)
<1> DEFINE f == CheckInterrupts(e)
<1>1. [i \in Irqs |-> Status(e, i) # {}] \in [Irqs -> BOOLEAN]
  OBVIOUS
<1>2. f = [e EXCEPT !.line = [i \in Irqs |-> Status(e, i) # {}]]
  BY DEF CheckInterrupts
<1>3. f \in State
  BY <1>1, <1>2 DEF State
<1>4. /\ f.ctrl = d.ctrl /\ f.busy = d.busy /\ f.alarm = d.alarm /\ f.up = d.up
      /\ f.count = d.count /\ f.moved = d.moved /\ f.asked = d.asked
      /\ f.raw = e.raw /\ f.enable = e.enable /\ f.force = e.force
      /\ f.line = [i \in Irqs |-> Status(e, i) # {}]
  BY <1>2 DEF State
<1>5. \A i \in Irqs : Told(f, i)
  <2> SUFFICES ASSUME NEW i \in Irqs PROVE Told(f, i)
    OBVIOUS
  <2>1. Status(f, i) = Status(e, i)
    BY <1>4 DEF Status
  <2>2. f.line[i] = (Status(e, i) # {})
    BY <1>4
  <2> QED
    BY <2>1, <2>2 DEF Told
<1>6. /\ \A c \in Channels \ X : Armed(f, c)
      /\ \A c \in f.alarm : Active(f, c)
      /\ \A c \in Channels : Exact(f, c)
  BY <1>4 DEF Good, Armed, Active, Exact
<1>7. \A c \in Channels : Running(d, c) => Running(f, c)
  BY <1>4 DEF Running, Active
<1> QED
  BY <1>3, <1>5, <1>6, <1>7 DEF Good

\* A completion interrupt, with or without the end of a sequence.
LEMMA RaisedIsGood ==
  ASSUME NEW d, NEW X, Good(d, X), NEW k \in Channels
  PROVE  /\ Good(Raised(d, k), X) /\ Good(NullTriggered(d, k), X)
         /\ \A c \in Channels : Running(d, c) => Running(NullTriggered(d, k), c)
<1> DEFINE e == [d EXCEPT !.raw = d.raw \cup {k}]
<1>1. d \in State
  BY DEF Good
<1>2. e \in State /\ Raised(d, k) = CheckInterrupts(e)
  BY <1>1 DEF State, Raised
<1>3. /\ e.ctrl = d.ctrl /\ e.busy = d.busy /\ e.alarm = d.alarm /\ e.up = d.up
      /\ e.count = d.count /\ e.moved = d.moved /\ e.asked = d.asked
  BY <1>1 DEF State
<1>4. Good(Raised(d, k), X) /\ \A c \in Channels : Running(d, c) => Running(Raised(d, k), c)
  <2> HIDE DEF e
  <2> QED
    BY <1>2, <1>3, CheckedIsGood
<1> QED
  BY <1>4 DEF NullTriggered

-----------------------------------------------------------------------------
(* transfer()                                                              *)

\* The end of a sequence that has no word left.
LEMMA CompletedIsGood ==
  ASSUME NEW d, NEW c \in Channels, d \in State,
         \A k \in Channels \ {c} : Armed(d, k) /\ Exact(d, k),
         \A k \in d.alarm : Active(d, k),
         \A i \in Irqs : Told(d, i),
         c \notin d.alarm, d.count[c] = 0, d.moved[c] = d.asked[c]
  PROVE  Good(Completed(d, c), {})
<1> DEFINE e == [d EXCEPT !.busy = d.busy \ {c}]
           f == IF e.ctrl[c].quiet THEN e ELSE Raised(e, c)
<1>1. /\ e.ctrl = d.ctrl /\ e.reload = d.reload /\ e.timer = d.timer /\ e.raw = d.raw
      /\ e.enable = d.enable /\ e.force = d.force /\ e.line = d.line /\ e.moved = d.moved
      /\ e.count = d.count /\ e.asked = d.asked /\ e.up = d.up /\ e.alarm = d.alarm
      /\ e.busy = d.busy \ {c}
      /\ e \in State
  BY DEF State
<1>2. Good(e, {})
  <2>1. \A k \in Channels : Armed(e, k)
    BY <1>1 DEF Armed, Active
  <2>2. \A k \in e.alarm : Active(e, k)
    BY <1>1 DEF Active
  <2>3. \A k \in Channels : Exact(e, k)
    <3>1. d.moved[c] + 0 = d.moved[c]
      BY DEF State, Counts
    <3> QED
      BY <1>1, <3>1 DEF Exact
  <2>4. \A i \in Irqs : Told(e, i)
    BY <1>1 DEF Told, Status
  <2> QED
    BY <1>1, <2>1, <2>2, <2>3, <2>4 DEF Good
<1>3. Good(f, {})
  <2> HIDE DEF e
  <2> QED
    BY <1>2, RaisedIsGood
<1>4. f.ctrl[c].chain \in Channels
  BY <1>3 DEF Good, State, Ctrl
<1>5. Completed(d, c) = IF f.ctrl[c].chain # c THEN Started(f, {f.ctrl[c].chain}) ELSE f
  BY DEF Completed
<1> HIDE DEF f
<1> QED
  BY <1>3, <1>4, <1>5, StartedIsGood

\* The rest of transfer(): the word is counted, and the next one scheduled or the sequence ended.
LEMMA CountedIsGood ==
  ASSUME NEW d, NEW c \in Channels, Good(d, {c}), Running(d, c)
  PROVE  Good(Counted(d, c), {})
<1> DEFINE count == [d.count EXCEPT ![c] = d.count[c] - 1]
           moved == [d.moved EXCEPT ![c] = d.moved[c] + 1]
           e == [d EXCEPT !.count = count, !.moved = moved]
<1>1. d \in State
  BY DEF Good
<1>2. /\ d.count[c] \in Counts /\ d.moved[c] \in Counts /\ d.asked[c] \in Counts
      /\ d.moved[c] + d.count[c] = d.asked[c] /\ d.count[c] > 0
  BY <1>1 DEF Good, Exact, Running, Active, State
<1>3. d.count[c] - 1 \in Counts /\ d.moved[c] + 1 \in Counts
  BY <1>2, DmaAssumption DEF Counts
<1>4. count \in [Channels -> Counts] /\ moved \in [Channels -> Counts]
  BY <1>1, <1>3 DEF State
<1>5. /\ e.ctrl = d.ctrl /\ e.reload = d.reload /\ e.timer = d.timer /\ e.raw = d.raw
      /\ e.enable = d.enable /\ e.force = d.force /\ e.line = d.line /\ e.busy = d.busy
      /\ e.asked = d.asked /\ e.up = d.up /\ e.alarm = d.alarm
      /\ e.count = count /\ e.moved = moved
      /\ e \in State
  <2> HIDE DEF count, moved
  <2> QED
    BY <1>1, <1>4 DEF State
<1>6. count[c] = d.count[c] - 1 /\ moved[c] = d.moved[c] + 1
  BY <1>1 DEF State
<1>7. \A k \in Channels \ {c} : count[k] = d.count[k] /\ moved[k] = d.moved[k]
  BY <1>1 DEF State
<1>8. Counted(d, c) = IF e.count[c] > 0 THEN ScheduleTransfer(e, c) ELSE Completed(e, c)
  BY <1>1 DEF Counted, State
<1> HIDE DEF e, count, moved
<1>9. \A k \in Channels \ {c} : Armed(e, k) /\ Exact(e, k)
  BY <1>5, <1>7 DEF Good, Armed, Active, Exact
<1>10. \A k \in e.alarm : Active(e, k)
  BY <1>5 DEF Good, Active
<1>11. \A i \in Irqs : Told(e, i)
  BY <1>5 DEF Good, Told, Status
<1>12. c \notin e.alarm /\ e.moved[c] + e.count[c] = e.asked[c] /\ c \in e.busy
  BY <1>2, <1>3, <1>5, <1>6 DEF Running, Active, Counts
<1>13. CASE e.count[c] > 0
  <2>1. Counted(d, c) = ScheduleTransfer(e, c)
    BY <1>8, <1>13
  <2> DEFINE f == ScheduleTransfer(e, c)
  <2>2. /\ f.ctrl = e.ctrl /\ f.reload = e.reload /\ f.timer = e.timer /\ f.raw = e.raw
        /\ f.enable = e.enable /\ f.force = e.force /\ f.line = e.line /\ f.busy = e.busy
        /\ f.asked = e.asked /\ f.up = e.up /\ f.count = e.count /\ f.moved = e.moved
        /\ f.alarm = (IF Asks(e, e.ctrl[c].treq) THEN e.alarm \cup {c} ELSE e.alarm)
        /\ f \in State
    BY <1>5 DEF ScheduleTransfer, State
  <2>3. \A k \in Channels : Armed(f, k)
    BY <2>2, <1>9 DEF Armed, Active, Asks
  <2>4. Active(e, c)
    BY <1>5 DEF Running, Active
  <2>5. \A k \in f.alarm : Active(f, k)
    BY <2>2, <2>4, <1>10 DEF Active
  <2>6. \A k \in Channels : Exact(f, k)
    BY <2>2, <1>9, <1>12, <1>13 DEF Exact
  <2>7. \A i \in Irqs : Told(f, i)
    BY <2>2, <1>11 DEF Told, Status
  <2> QED
    BY <2>1, <2>2, <2>3, <2>5, <2>6, <2>7 DEF Good
<1>14. CASE ~ (e.count[c] > 0)
  <2>1. Counted(d, c) = Completed(e, c)
    BY <1>8, <1>14
  <2>2. e.count[c] \in Counts /\ e.moved[c] \in Counts
    BY <1>5 DEF State
  <2>3. e.count[c] = 0 /\ e.moved[c] = e.asked[c]
    BY <2>2, <1>12, <1>14, DmaAssumption DEF Counts
  <2> QED
    BY <2>1, <2>3, <1>5, <1>9, <1>10, <1>11, <1>12, CompletedIsGood
<1> QED
  BY <1>13, <1>14

\* The whole of transfer().
LEMMA TransferIsGood ==
  ASSUME Good(dma, {}), NEW c \in Channels, Transfer(c)
  PROVE  Good(dma', {})
<1> DEFINE d == [dma EXCEPT !.alarm = dma.alarm \ {c}]
<1>1. dma \in State /\ Active(dma, c)
  BY DEF Good, Transfer
<1>2. /\ d.ctrl = dma.ctrl /\ d.reload = dma.reload /\ d.timer = dma.timer /\ d.raw = dma.raw
      /\ d.enable = dma.enable /\ d.force = dma.force /\ d.line = dma.line /\ d.busy = dma.busy
      /\ d.asked = dma.asked /\ d.up = dma.up /\ d.count = dma.count /\ d.moved = dma.moved
      /\ d.alarm = dma.alarm \ {c}
      /\ d \in State
  BY <1>1 DEF State
<1>3. \/ dma' = Counted(d, c)
      \/ \E up \in SUBSET Requests : d.ctrl[c].treq \notin up \ d.up /\ dma' = Counted(RequestsAre(d, up), c)
      \/ \E k \in Channels : dma' \in {Counted(Started(d, {k}), c), Counted(NullTriggered(d, k), c)}
      \/ \E k \in Channels \ {c} :
           \/ dma' = Counted(Aborted(d, {k}), c)
           \/ \E value \in Ctrls : dma' = Counted(CtrlWritten(d, k, value), c)
  BY <1>1 DEF Transfer
<1> HIDE DEF d
<1>4. Good(d, {c})
  <2>1. \A k \in Channels \ {c} : Armed(d, k)
    BY <1>2 DEF Good, Armed, Active
  <2>2. \A k \in d.alarm : Active(d, k)
    BY <1>2 DEF Good, Active
  <2>3. /\ \A k \in Channels : Exact(d, k)
        /\ \A i \in Irqs : Told(d, i)
    BY <1>2 DEF Good, Exact, Told, Status
  <2> QED
    BY <1>2, <2>1, <2>2, <2>3 DEF Good
<1>5. Running(d, c)
  BY <1>1, <1>2 DEF Running, Active
<1>6. CASE dma' = Counted(d, c)
  BY <1>4, <1>5, <1>6, CountedIsGood
<1>7. ASSUME NEW up \in SUBSET Requests, d.ctrl[c].treq \notin up \ d.up, dma' = Counted(RequestsAre(d, up), c)
      PROVE  Good(dma', {})
  BY <1>4, <1>5, <1>7, RequestsAreGood, CountedIsGood
<1>8. ASSUME NEW k \in Channels, dma' = Counted(Started(d, {k}), c)
      PROVE  Good(dma', {})
  BY <1>2, <1>4, <1>5, <1>8, StartedIsGood, StartedKeepsRunning, CountedIsGood
<1>9. ASSUME NEW k \in Channels, dma' = Counted(NullTriggered(d, k), c)
      PROVE  Good(dma', {})
  BY <1>4, <1>5, <1>9, RaisedIsGood, CountedIsGood
<1>10. ASSUME NEW k \in Channels \ {c}, dma' = Counted(Aborted(d, {k}), c)
       PROVE  Good(dma', {})
  BY <1>4, <1>5, <1>10, AbortedIsGood, CountedIsGood
<1>11. ASSUME NEW k \in Channels \ {c}, NEW value \in Ctrls, dma' = Counted(CtrlWritten(d, k, value), c)
       PROVE  Good(dma', {})
  BY <1>4, <1>5, <1>11, CtrlWrittenIsGood, CountedIsGood, DmaAssumption
<1> QED
  BY <1>3, <1>6, <1>7, <1>8, <1>9, <1>10, <1>11

-----------------------------------------------------------------------------
(* The accesses of the processor, and the theorems.                        *)

\* A change of TRANS_COUNT's reload value, of INTR, INTE, INTF or the timer touches nothing else.
LEMMA ReloadedIsGood ==
  ASSUME Good(dma, {}), NEW c \in Channels, NEW n \in Counts
  PROVE  Good([dma EXCEPT !.reload[c] = n], {})
<1> DEFINE e == [dma EXCEPT !.reload[c] = n]
<1>1. dma \in State
  BY DEF Good
<1>2. [dma.reload EXCEPT ![c] = n] \in [Channels -> Counts]
  BY <1>1 DEF State
<1>3. /\ e.ctrl = dma.ctrl /\ e.timer = dma.timer /\ e.raw = dma.raw
      /\ e.enable = dma.enable /\ e.force = dma.force /\ e.line = dma.line /\ e.busy = dma.busy
      /\ e.asked = dma.asked /\ e.up = dma.up /\ e.count = dma.count /\ e.moved = dma.moved
      /\ e.alarm = dma.alarm
      /\ e \in State
  BY <1>1, <1>2 DEF State
<1> HIDE DEF e
<1>4. /\ \A k \in Channels : Armed(e, k)
      /\ \A k \in e.alarm : Active(e, k)
  BY <1>3 DEF Good, Armed, Active
<1>5. /\ \A k \in Channels : Exact(e, k)
      /\ \A i \in Irqs : Told(e, i)
  BY <1>3 DEF Good, Exact, Told, Status
<1>6. Good(e, {})
  BY <1>3, <1>4, <1>5 DEF Good
<1> QED
  BY <1>6 DEF e

\* The rest of the state is that of Clear, whatever the requests are.
LEMMA ClearIsGood ==
  ASSUME NEW up \in SUBSET Requests
  PROVE  Good(Clear(up), {})
<1> DEFINE e == Clear(up)
<1>1. /\ e.ctrl = [c \in Channels |-> NoCtrl] /\ e.busy = {} /\ e.alarm = {} /\ e.up = up
      /\ e.count = [c \in Channels |-> 0] /\ e.moved = [c \in Channels |-> 0]
      /\ e.asked = [c \in Channels |-> 0] /\ e.raw = {} /\ e.enable = [i \in Irqs |-> {}]
      /\ e.force = [i \in Irqs |-> {}] /\ e.line = [i \in Irqs |-> FALSE]
  BY DEF Clear
<1>2. e \in State
  <2>1. NoCtrl \in Ctrl /\ 0 \in Counts
    BY DmaAssumption DEF NoCtrl, Ctrl, Counts
  <2> QED
    BY <2>1 DEF Clear, State
<1>3. \A c \in Channels : Armed(e, c) /\ Exact(e, c)
  BY <1>1 DEF Armed, Active, Exact
<1>4. \A i \in Irqs : Told(e, i)
  BY <1>1 DEF Told, Status
<1> QED
  BY <1>1, <1>2, <1>3, <1>4 DEF Good

\* The program's accesses keep the invariants.
LEMMA ProgramIsGood ==
  ASSUME Good(dma, {}), Program
  PROVE  Good(dma', {})
<1>1. dma \in State
  BY DEF Good
<1>2. ASSUME NEW c \in Channels, NEW n \in Counts, WriteReload(c, n)
      PROVE  Good(dma', {})
  BY <1>2, ReloadedIsGood DEF WriteReload
<1>3. ASSUME NEW c \in Channels, NEW n \in Counts, WriteReloadTrig(c, n)
      PROVE  Good(dma', {})
  <2> DEFINE d == [dma EXCEPT !.reload[c] = n]
  <2>1. Good(d, {})
    BY ReloadedIsGood
  <2>2. dma' = IF n # 0 THEN Started(d, {c}) ELSE NullTriggered(d, c)
    BY <1>3 DEF WriteReloadTrig
  <2> HIDE DEF d
  <2> QED
    BY <2>1, <2>2, StartedIsGood, RaisedIsGood
<1>4. ASSUME NEW c \in Channels, NEW value \in Ctrls, WriteCtrl(c, value)
      PROVE  Good(dma', {})
  BY <1>4, CtrlWrittenIsGood, DmaAssumption DEF WriteCtrl
<1>5. ASSUME NEW c \in Channels, NEW value \in Ctrls, WriteCtrlTrig(c, value)
      PROVE  Good(dma', {})
  <2> DEFINE d == CtrlWritten(dma, c, value)
  <2>1. Good(d, {})
    BY CtrlWrittenIsGood, DmaAssumption
  <2>2. dma' = IF value # NoCtrl THEN Started(d, {c}) ELSE NullTriggered(d, c)
    BY <1>5 DEF WriteCtrlTrig
  <2> HIDE DEF d
  <2> QED
    BY <2>1, <2>2, StartedIsGood, RaisedIsGood
<1>6. ASSUME NEW c \in Channels, NEW null \in BOOLEAN, WriteAddrTrig(c, null)
      PROVE  Good(dma', {})
  BY <1>6, StartedIsGood, RaisedIsGood DEF WriteAddrTrig
<1>7. ASSUME NEW Z \in SUBSET Channels, MultiTrigger(Z) \/ ChanAbort(Z)
      PROVE  Good(dma', {})
  BY <1>7, StartedIsGood, AbortedIsGood DEF MultiTrigger, ChanAbort
<1>8. ASSUME NEW Z \in SUBSET Channels, Acknowledge(Z)
      PROVE  Good(dma', {})
  <2> DEFINE e == [dma EXCEPT !.raw = dma.raw \ Z]
  <2>1. /\ e.ctrl = dma.ctrl /\ e.busy = dma.busy /\ e.alarm = dma.alarm /\ e.up = dma.up
        /\ e.count = dma.count /\ e.moved = dma.moved /\ e.asked = dma.asked
        /\ e \in State
    BY <1>1 DEF State
  <2>2. dma' = CheckInterrupts(e)
    BY <1>1, <1>8 DEF Acknowledge, State
  <2> HIDE DEF e
  <2> QED
    BY <2>1, <2>2, CheckedIsGood
<1>9. ASSUME NEW i \in Irqs, NEW Z \in SUBSET Channels, WriteEnable(i, Z)
      PROVE  Good(dma', {})
  <2> DEFINE e == [dma EXCEPT !.enable = [dma.enable EXCEPT ![i] = Z]]
  <2>1. [dma.enable EXCEPT ![i] = Z] \in [Irqs -> SUBSET Channels]
    BY <1>1 DEF State
  <2>2. /\ e.ctrl = dma.ctrl /\ e.busy = dma.busy /\ e.alarm = dma.alarm /\ e.up = dma.up
        /\ e.count = dma.count /\ e.moved = dma.moved /\ e.asked = dma.asked
        /\ e \in State
    BY <1>1, <2>1 DEF State
  <2>3. dma' = CheckInterrupts(e)
    BY <1>1, <1>9 DEF WriteEnable, State
  <2> HIDE DEF e
  <2> QED
    BY <2>2, <2>3, CheckedIsGood
<1>10. ASSUME NEW i \in Irqs, NEW Z \in Forces, WriteForce(i, Z)
       PROVE  Good(dma', {})
  <2> DEFINE e == [dma EXCEPT !.force = [dma.force EXCEPT ![i] = Z]]
  <2>1. [dma.force EXCEPT ![i] = Z] \in [Irqs -> SUBSET Channels]
    BY <1>1, DmaAssumption DEF State
  <2>2. /\ e.ctrl = dma.ctrl /\ e.busy = dma.busy /\ e.alarm = dma.alarm /\ e.up = dma.up
        /\ e.count = dma.count /\ e.moved = dma.moved /\ e.asked = dma.asked
        /\ e \in State
    BY <1>1, <2>1 DEF State
  <2>3. dma' = CheckInterrupts(e)
    BY <1>1, <1>10 DEF WriteForce, State
  <2> HIDE DEF e
  <2> QED
    BY <2>2, <2>3, CheckedIsGood
<1>11. ASSUME NEW ticks \in Timers, WriteTimer(ticks)
       PROVE  Good(dma', {})
  <2>1. ticks \in BOOLEAN
    BY DmaAssumption
  <2>2. /\ dma'.ctrl = dma.ctrl /\ dma'.raw = dma.raw
        /\ dma'.enable = dma.enable /\ dma'.force = dma.force /\ dma'.line = dma.line /\ dma'.busy = dma.busy
        /\ dma'.asked = dma.asked /\ dma'.up = dma.up /\ dma'.count = dma.count /\ dma'.moved = dma.moved
        /\ dma'.alarm = dma.alarm
        /\ dma' \in State
    BY <1>1, <1>11, <2>1 DEF WriteTimer, State
  <2>3. /\ \A k \in Channels : Armed(dma', k)
        /\ \A k \in dma'.alarm : Active(dma', k)
    BY <2>2 DEF Good, Armed, Active
  <2>4. /\ \A k \in Channels : Exact(dma', k)
        /\ \A i \in Irqs : Told(dma', i)
    BY <2>2 DEF Good, Exact, Told, Status
  <2> QED
    BY <2>2, <2>3, <2>4 DEF Good
<1>12. CASE Reset
  BY <1>1, <1>12, ClearIsGood DEF Reset, State
<1> QED
  BY <1>2, <1>3, <1>4, <1>5, <1>6, <1>7, <1>8, <1>9, <1>10, <1>11, <1>12 DEF Program

Inv == Good(dma, {})

\* The invariant holds in every reachable state.
THEOREM InvariantHolds == Spec => []Inv
<1>1. Init => Inv
  BY ClearIsGood DEF Init, Inv
<1>2. Inv /\ [Next]_dma => Inv'
  <2> SUFFICES ASSUME Good(dma, {}), [Next]_dma PROVE Good(dma', {})
    BY DEF Inv
  <2>1. CASE Program
    BY <2>1, ProgramIsGood
  <2>2. ASSUME NEW r \in Requests, SetDreq(r) \/ ClearDreq(r)
        PROVE  Good(dma', {})
    <3>1. dma.up \cup {r} \in SUBSET Requests /\ dma.up \ {r} \in SUBSET Requests
      BY DEF Good, State
    <3> QED
      BY <2>2, <3>1, RequestsAreGood DEF SetDreq, ClearDreq
  <2>3. ASSUME NEW c \in Channels, Transfer(c)
        PROVE  Good(dma', {})
    BY <2>3, TransferIsGood
  <2>4. CASE UNCHANGED dma
    BY <2>4
  <2> QED
    BY <2>1, <2>2, <2>3, <2>4 DEF Next
<1> QED
  BY <1>1, <1>2, PTL DEF Spec

\* No count is ever negative, and every field has its type.
THEOREM TypeCorrect == Spec => []TypeOK
<1>1. Inv => TypeOK
  BY DEF Inv, Good, TypeOK
<1> QED
  BY <1>1, InvariantHolds, PTL

\* No channel that is asked for a word waits for an edge that has passed.
THEOREM NoChannelStarves == Spec => []RequestedIsArmed
<1>1. Inv => RequestedIsArmed
  BY DEF Inv, Good, RequestedIsArmed, Armed
<1> QED
  BY <1>1, InvariantHolds, PTL

\* No alarm outlives the sequence that armed it.
THEOREM NoStaleAlarm == Spec => []ArmedIsActive
<1>1. Inv => ArmedIsActive
  BY DEF Inv, Good, ArmedIsActive
<1> QED
  BY <1>1, InvariantHolds, PTL

\* A sequence moves as many words as it was started for.
THEOREM CountsAreKept == Spec => []SequenceMovesItsCount
<1>1. Inv => SequenceMovesItsCount
  BY DEF Inv, Good, SequenceMovesItsCount, Exact
<1> QED
  BY <1>1, InvariantHolds, PTL

\* Both interrupt lines show INTS.
THEOREM LinesAreTold == Spec => []LinesTellStatus
<1>1. Inv => LinesTellStatus
  BY DEF Inv, Good, LinesTellStatus, Told
<1> QED
  BY <1>1, InvariantHolds, PTL

-----------------------------------------------------------------------------
(* The SPI, as far as a transfer needs it.                                 *)

Word == 1 .. Length

SpiState ==
  [tx : Seq(Word), rx : Seq(Word), busy : BOOLEAN, frame : BOOLEAN, reply : Word \cup {None},
   timed : BOOLEAN, sse : BOOLEAN, lbm : BOOLEAN, dmacr : SUBSET {16, 17}, raw : SUBSET S!Interrupts,
   imsc : SUBSET S!Interrupts, line : BOOLEAN, up : SUBSET {16, 17}, owes : Seq(Word),
   prompt : BOOLEAN, lost : BOOLEAN, stale : BOOLEAN]

\* The word the device has, or its answer, if one is on its way.
Fly(s) == IF s.reply # None THEN <<s.reply>> ELSE s.owes

\* What e has in common with s, but for the words; and these.
SameMode(e, s) ==
  /\ e.timed = s.timed /\ e.sse = s.sse /\ e.lbm = s.lbm /\ e.dmacr = s.dmacr
  /\ e.prompt = s.prompt /\ e.lost = s.lost
SameWords(e, s) ==
  /\ e.tx = s.tx /\ e.rx = s.rx /\ e.busy = s.busy /\ e.frame = s.frame
  /\ e.reply = s.reply /\ e.owes = s.owes

\* What _fifos_updated() leaves: the words as they are, and the requests republished.
LEMMA FifosUpdatedIs ==
  ASSUME NEW s \in SpiState
  PROVE  LET e == S!FifosUpdated(s)
         IN  e \in SpiState /\ SameMode(e, s) /\ SameWords(e, s) /\ e.up = S!Requested(e)
<1> DEFINE levels == {i \in {"TX", "RX"} : IF i = "TX" THEN 2 * Len(s.tx) <= FifoDepth ELSE 2 * Len(s.rx) >= FifoDepth}
           t == [s EXCEPT !.raw = (s.raw \cap {"ROR"}) \cup levels]
           told == IF S!Status(t) # S!Status(s) THEN S!CheckInterrupts(t) ELSE t
           e == S!FifosUpdated(s)
<1>1. (s.raw \cap {"ROR"}) \cup levels \in SUBSET S!Interrupts
  BY DEF S!Interrupts
<1>2. t \in SpiState /\ SameMode(t, s) /\ SameWords(t, s)
  <2> HIDE DEF levels
  <2> QED BY <1>1 DEF SpiState, SameMode, SameWords
<1>3. told \in SpiState /\ SameMode(told, s) /\ SameWords(told, s)
  <2> HIDE DEF t
  <2>1. S!CheckInterrupts(t) \in SpiState /\ SameMode(S!CheckInterrupts(t), s) /\ SameWords(S!CheckInterrupts(t), s)
    BY <1>2, ZenonT(30) DEF S!CheckInterrupts, SpiState, SameMode, SameWords
  <2> QED BY <1>2, <2>1
<1>4. e = S!UpdateDma(told)
  BY DEF S!FifosUpdated, SpiState
<1> HIDE DEF told
<1>5. S!Requested(told) \in SUBSET {16, 17}
  BY DEF S!Requested, S!TxRequest, S!RxRequest
<1>6. e = [told EXCEPT !.up = S!Requested(told)]
  BY <1>4 DEF S!UpdateDma
<1>7. e \in SpiState /\ SameMode(e, s) /\ SameWords(e, s) /\ e.up = S!Requested(told)
  BY <1>3, <1>5, <1>6, SMTT(30) DEF SpiState, SameMode, SameWords
<1>8. S!Requested(e) = S!Requested(told)
  BY <1>3, <1>7 DEF S!Requested, SameMode, SameWords
<1> QED BY <1>7, <1>8 DEF e

\* A reply for which there is room.
LEMMA ReceivedIs ==
  ASSUME NEW s \in SpiState, NEW w \in Word, ~ S!Full(s.rx)
  PROVE  LET e == S!Received(s, w)
         IN  /\ e \in SpiState /\ SameMode(e, s) /\ e.up = S!Requested(e)
             /\ e.rx = Append(s.rx, w) /\ ~ e.busy /\ e.tx = s.tx /\ e.frame = s.frame
             /\ e.reply = s.reply /\ e.owes = s.owes
<1> DEFINE t == [s EXCEPT !.busy = FALSE, !.rx = Append(s.rx, w)]
<1>1. S!Received(s, w) = S!FifosUpdated(t)
  BY DEF S!Received, SpiState
<1>2. t \in SpiState /\ SameMode(t, s) /\ t.rx = Append(s.rx, w) /\ ~ t.busy /\ t.tx = s.tx
      /\ t.frame = s.frame /\ t.reply = s.reply /\ t.owes = s.owes
  BY AppendProperties DEF SpiState, SameMode
<1> HIDE DEF t
<1> QED BY <1>1, <1>2, FifosUpdatedIs DEF SameMode, SameWords

\* One word is on its way at a time: its frame is being sent, or the device has still to answer.
Sound(s) ==
  /\ s \in SpiState /\ ~ s.lbm /\ ~ s.lost
  /\ s.prompt \/ s.timed
  /\ s.frame => s.timed
  /\ s.prompt => s.owes = <<>>
  /\ Len(s.owes) <= 1
  /\ s.busy <=> s.frame \/ s.owes # <<>>
  /\ s.reply # None => s.frame /\ s.owes = <<>>
  /\ s.frame /\ s.reply = None => s.owes # <<>>
  /\ ~ s.sse => s.tx = <<>> /\ ~ s.busy

\* A word that waits in the transmit FIFO waits for one that is on its way.
Moving(s) == s.tx # <<>> => s.busy

\* Words first + 1, ..., last are on their way, in three stages.
InOrder(q, n) == \A i \in 1 .. Len(q) : q[i] = n + i
Holds(s, first, last) ==
  /\ first + Len(s.rx) + Len(Fly(s)) + Len(s.tx) = last
  /\ InOrder(s.rx, first)
  /\ InOrder(Fly(s), first + Len(s.rx))
  /\ InOrder(s.tx, first + Len(s.rx) + Len(Fly(s)))

\* Of sequences: what the FIFOs do to the numbers of their words.
LEMMA Fifos ==
  /\ <<>> \in Seq(Word) /\ Len(<<>>) = 0
  /\ \A s \in Seq(Word) :
       /\ Len(s) \in Nat /\ (Len(s) = 0 <=> s = <<>>)
       /\ \A i \in 1 .. Len(s) : s[i] \in Word
       /\ s # <<>> => /\ Tail(s) \in Seq(Word) /\ Len(Tail(s)) = Len(s) - 1 /\ Len(s) >= 1
                      /\ Head(s) = s[1] /\ Head(s) \in Word
                      /\ \A i \in 1 .. Len(s) - 1 : Tail(s)[i] = s[i + 1]
       /\ \A w \in Word : /\ Append(s, w) \in Seq(Word) /\ Len(Append(s, w)) = Len(s) + 1
                          /\ Append(s, w)[Len(s) + 1] = w
                          /\ \A i \in 1 .. Len(s) : Append(s, w)[i] = s[i]
  /\ \A w \in Word : <<w>> \in Seq(Word) /\ Len(<<w>>) = 1 /\ <<w>>[1] = w /\ <<w>> # <<>> /\ Head(<<w>>) = w /\ Tail(<<w>>) = <<>>
<1>1. <<>> \in Seq(Word) /\ Len(<<>>) = 0
  BY EmptySeq
<1>2. ASSUME NEW s \in Seq(Word)
      PROVE  /\ Len(s) \in Nat /\ (Len(s) = 0 <=> s = <<>>)
             /\ \A i \in 1 .. Len(s) : s[i] \in Word
  BY LenProperties, EmptySeq, ElementOfSeq
<1>3. ASSUME NEW s \in Seq(Word), s # <<>>
      PROVE  /\ Tail(s) \in Seq(Word) /\ Len(Tail(s)) = Len(s) - 1 /\ Len(s) >= 1
             /\ Head(s) = s[1] /\ Head(s) \in Word
             /\ \A i \in 1 .. Len(s) - 1 : Tail(s)[i] = s[i + 1]
  BY <1>2, <1>3, HeadTailProperties
<1>4. ASSUME NEW s \in Seq(Word), NEW w \in Word
      PROVE  /\ Append(s, w) \in Seq(Word) /\ Len(Append(s, w)) = Len(s) + 1
             /\ Append(s, w)[Len(s) + 1] = w
             /\ \A i \in 1 .. Len(s) : Append(s, w)[i] = s[i]
  BY AppendProperties
<1>5. ASSUME NEW w \in Word
      PROVE  <<w>> \in Seq(Word) /\ Len(<<w>>) = 1 /\ <<w>>[1] = w /\ <<w>> # <<>> /\ Head(<<w>>) = w /\ Tail(<<w>>) = <<>>
  OBVIOUS
<1> QED BY <1>1, <1>2, <1>3, <1>4, <1>5

\* One turn of _do_tx() that sends a word: with a bit clock it is on its way, without it has come back.
LEMMA DoTxSends ==
  ASSUME NEW s, Sound(s), s.sse, ~ s.busy, s.tx # <<>>, s.timed \/ ~ S!Full(s.rx)
  PROVE  LET e == S!DoTx(s)
         IN  /\ Sound(e) /\ SameMode(e, s) /\ e.up = S!Requested(e) /\ e.tx = Tail(s.tx)
             /\ s.timed => e.rx = s.rx /\ e.frame /\ Fly(e) = <<Head(s.tx)>>
             /\ ~ s.timed => e.rx = Append(s.rx, Head(s.tx)) /\ ~ e.busy /\ Fly(e) = <<>>
<1> DEFINE w == Head(s.tx)
           t == [s EXCEPT !.tx = Tail(s.tx), !.busy = TRUE, !.frame = s.frame \/ s.timed,
                     !.reply = IF s.timed THEN None ELSE s.reply]
           u == IF s.lbm \/ s.prompt THEN S!CompleteTransmit(t, w) ELSE [t EXCEPT !.owes = Append(t.owes, w)]
           e == S!DoTx(s)
<1>1. s \in SpiState /\ w \in Word /\ Tail(s.tx) \in Seq(Word)
  BY Fifos DEF Sound, SpiState
<1>2. s.owes = <<>> /\ ~ s.frame /\ s.reply = None /\ ~ s.lbm /\ s.frame \in BOOLEAN
  BY DEF Sound, SpiState
<1>3. /\ t \in SpiState /\ SameMode(t, s) /\ t.tx = Tail(s.tx) /\ t.rx = s.rx /\ t.busy /\ t.frame = s.timed
      /\ t.reply = None /\ t.owes = <<>>
  BY <1>1, <1>2 DEF SpiState, SameMode
<1>4. e = S!FifosUpdated(u)
  BY <1>1, <1>3 DEF S!DoTx, SpiState
<1> HIDE DEF t, e, w
<1>5. CASE s.timed /\ s.prompt
  <2>1. u = [t EXCEPT !.reply = w]
    BY <1>3, <1>5 DEF S!CompleteTransmit
  <2>2. /\ u \in SpiState /\ SameMode(u, s) /\ u.tx = Tail(s.tx) /\ u.rx = s.rx /\ u.busy /\ u.frame
        /\ u.reply = w /\ u.owes = <<>>
    <3> HIDE DEF u
    <3>1. u \in SpiState
      <4>1. t \in SpiState /\ w \in Word \cup {None}
        BY <1>1, <1>3
      <4> QED BY <2>1, <4>1 DEF SpiState
    <3>2. /\ u.tx = t.tx /\ u.rx = t.rx /\ u.busy = t.busy /\ u.frame = t.frame /\ u.reply = w /\ u.owes = t.owes
          /\ SameMode(u, t)
      BY <1>3, <2>1 DEF SpiState, SameMode
    <3> QED BY <1>3, <1>5, <3>1, <3>2 DEF SameMode
  <2> HIDE DEF u
  <2>3. /\ e \in SpiState /\ SameMode(e, s) /\ e.up = S!Requested(e) /\ e.tx = Tail(s.tx) /\ e.rx = s.rx
        /\ e.busy /\ e.frame /\ e.reply = w /\ e.owes = <<>>
    BY <1>4, <2>2, FifosUpdatedIs DEF SameMode, SameWords
  <2>4. w # None
    BY <1>1, SpiDmaAssumption DEF Word
  <2> QED BY <1>5, <2>3, <2>4, Fifos DEF Sound, SameMode, Fly, e, w
<1>6. CASE s.timed /\ ~ s.prompt
  <2>1. u = [t EXCEPT !.owes = <<w>>]
    BY <1>1, <1>2, <1>3, <1>6
  <2>2. /\ u \in SpiState /\ SameMode(u, s) /\ u.tx = Tail(s.tx) /\ u.rx = s.rx /\ u.busy /\ u.frame
        /\ u.reply = None /\ u.owes = <<w>>
    <3>1. <<w>> \in Seq(Word)
      BY <1>1, Fifos
    <3> HIDE DEF u
    <3>2. u \in SpiState
      <4>1. t \in SpiState
        BY <1>3
      <4> QED BY <2>1, <3>1, <4>1 DEF SpiState
    <3>3. /\ u.tx = t.tx /\ u.rx = t.rx /\ u.busy = t.busy /\ u.frame = t.frame /\ u.reply = t.reply
          /\ u.owes = <<w>> /\ SameMode(u, t)
      BY <1>3, <2>1 DEF SpiState, SameMode
    <3> QED BY <1>3, <1>6, <3>2, <3>3 DEF SameMode
  <2> HIDE DEF u
  <2>3. /\ e \in SpiState /\ SameMode(e, s) /\ e.up = S!Requested(e) /\ e.tx = Tail(s.tx) /\ e.rx = s.rx
        /\ e.busy /\ e.frame /\ e.reply = None /\ e.owes = <<w>>
    BY <1>4, <2>2, FifosUpdatedIs DEF SameMode, SameWords
  <2> QED BY <1>1, <1>6, <2>3, Fifos DEF Sound, SameMode, Fly, e, w
<1>7. CASE ~ s.timed
  <2>1. s.prompt
    BY <1>7 DEF Sound
  <2>2. u = S!Received(t, w) /\ ~ S!Full(t.rx)
    BY <1>3, <1>7, <2>1 DEF S!CompleteTransmit, S!Full
  <2> HIDE DEF u
  <2>3. /\ u \in SpiState /\ SameMode(u, s) /\ u.tx = Tail(s.tx) /\ u.rx = Append(s.rx, w) /\ ~ u.busy
        /\ ~ u.frame /\ u.reply = None /\ u.owes = <<>>
    <3>1. t \in SpiState /\ w \in Word /\ ~ S!Full(t.rx)
      BY <1>1, <1>3, <2>2
    <3>2. /\ u \in SpiState /\ SameMode(u, t) /\ u.tx = t.tx /\ u.rx = Append(t.rx, w) /\ ~ u.busy
          /\ u.frame = t.frame /\ u.reply = t.reply /\ u.owes = t.owes
      BY <2>2, <3>1, ReceivedIs
    <3> QED BY <1>3, <1>7, <3>2 DEF SameMode
  <2>4. /\ e \in SpiState /\ SameMode(e, s) /\ e.up = S!Requested(e) /\ e.tx = Tail(s.tx)
        /\ e.rx = Append(s.rx, w) /\ ~ e.busy /\ ~ e.frame /\ e.reply = None /\ e.owes = <<>>
    BY <1>4, <2>3, FifosUpdatedIs DEF SameMode, SameWords
  <2> QED BY <1>7, <2>1, <2>4, Fifos DEF Sound, SameMode, Fly, e, w
<1> QED BY <1>5, <1>6, <1>7

\* Every set of numbers that is not empty has a least one, which stands in for an induction.
LEMMA LessIsWellFounded == IsWellFoundedOn(OpToRel(<, Nat), Nat)
  BY NatLessThanWellFounded

LEMMA LeastElement ==
  ASSUME NEW T \in SUBSET Nat, T # {}
  PROVE  \E n \in T : \A k \in T : n <= k
<1> DEFINE less == OpToRel(<, Nat)
<1>1. less = {p \in Nat \X Nat : p[1] < p[2]}
  BY Zenon DEF OpToRel
<1>2. PICK n \in T : \A k \in T : ~ (<<k, n>> \in less)
  <2> HIDE DEF less
  <2> QED BY LessIsWellFounded, WFMin, Zenon DEF less
<1>3. \A k \in T : ~ (k < n)
  BY <1>1, <1>2
<1>4. \A k \in T : n <= k
  BY <1>3
<1> QED BY <1>4

\* The turns end with the first one, if nothing can follow it.
LEMMA PumpedOnce ==
  ASSUME NEW s, S!DoTx(S!DoTx(s)) = S!DoTx(s)
  PROVE  S!Pumped(s) = S!DoTx(s)
<1> DEFINE first == S!DoTx(s)
           Turns(f) == f = [n \in 0 .. FifoDepth |-> IF n = 0 THEN {s} ELSE {S!DoTx(t) : t \in f[n - 1]}]
           turn == CHOOSE f : Turns(f)
           witness == [n \in 0 .. FifoDepth |-> IF n = 0 THEN {s} ELSE {first}]
<1>1. S!Pumped(s) = CHOOSE t \in turn[FifoDepth] : TRUE
  BY DEF S!Pumped
<1>2. FifoDepth \in Nat \ {0, 1}
  BY SpiDmaAssumption
<1>3. Turns(witness)
  <2>1. \A n \in 0 .. FifoDepth : n # 0 => {S!DoTx(t) : t \in witness[n - 1]} = {first}
    <3> SUFFICES ASSUME NEW n \in 0 .. FifoDepth, n # 0
                 PROVE  {S!DoTx(t) : t \in witness[n - 1]} = {first}
      OBVIOUS
    <3>1. witness[n - 1] = {s} \/ witness[n - 1] = {first}
      BY <1>2
    <3> QED BY <3>1
  <2> QED BY <2>1
<1>4. Turns(turn)
  <2> HIDE DEF Turns, witness
  <2> QED BY <1>3, Zenon
<1> HIDE DEF turn
<1>5. turn[0] = {s}
  BY <1>2, <1>4
<1>6. \A n \in 0 .. FifoDepth : n # 0 => turn[n] = {S!DoTx(t) : t \in turn[n - 1]}
  BY <1>2, <1>4
<1>7. turn[1] = {first}
  BY <1>2, <1>5, <1>6
<1>8. \A n \in 1 .. FifoDepth - 1 : turn[n] = {first} => turn[n + 1] = {first}
  <2> SUFFICES ASSUME NEW n \in 1 .. FifoDepth - 1, turn[n] = {first} PROVE turn[n + 1] = {first}
    OBVIOUS
  <2>1. n + 1 \in 0 .. FifoDepth /\ n + 1 # 0 /\ (n + 1) - 1 = n
    BY <1>2
  <2> QED BY <1>6, <2>1
<1>9. turn[FifoDepth] = {first}
  <2> DEFINE Wrong == {n \in Nat : n \in 1 .. FifoDepth /\ turn[n] # {first}}
  <2> SUFFICES ASSUME turn[FifoDepth] # {first} PROVE FALSE
    OBVIOUS
  <2>1. FifoDepth \in Wrong /\ Wrong \in SUBSET Nat
    BY <1>2
  <2> HIDE DEF Wrong
  <2>2. PICK n \in Wrong : \A k \in Wrong : n <= k
    BY <2>1, LeastElement
  <2>3. n \in 1 .. FifoDepth /\ turn[n] # {first} /\ n \in Nat
    BY DEF Wrong
  <2>4. n - 1 \in 1 .. FifoDepth - 1
    BY <1>2, <1>7, <2>3
  <2>5. ~ (n <= n - 1)
    BY <2>3
  <2>6. turn[n - 1] = {first}
    BY <1>2, <2>2, <2>4, <2>5 DEF Wrong
  <2>7. (n - 1) + 1 = n
    BY <2>3
  <2> QED BY <1>8, <2>3, <2>4, <2>6, <2>7
<1> QED BY <1>1, <1>9

-----------------------------------------------------------------------------
(* What is on its way, through each method.                                *)

\* At most one word is on its way.
LEMMA FlyIs ==
  ASSUME NEW s, Sound(s)
  PROVE  /\ Fly(s) \in Seq(Word) /\ Len(Fly(s)) \in {0, 1} /\ (s.busy <=> Fly(s) # <<>>)
         /\ s.tx \in Seq(Word) /\ s.rx \in Seq(Word)
         /\ Len(s.tx) \in Nat /\ Len(s.rx) \in Nat
<1>1. s.reply \in Word \cup {None} /\ s.owes \in Seq(Word) /\ s.tx \in Seq(Word) /\ s.rx \in Seq(Word)
  BY DEF Sound, SpiState
<1>2. CASE s.reply # None
  BY <1>1, <1>2, Fifos DEF Fly, Sound
<1>3. CASE s.reply = None
  <2>1. Fly(s) = s.owes /\ (s.busy <=> s.owes # <<>>) /\ Len(s.owes) <= 1
    BY <1>3 DEF Fly, Sound
  <2>2. Len(s.owes) \in Nat
    BY <1>1, Fifos
  <2>3. Len(s.owes) \in {0, 1}
    <3> DEFINE n == Len(s.owes)
    <3>1. n \in Nat /\ n <= 1
      BY <2>1, <2>2
    <3> HIDE DEF n
    <3>2. n \in {0, 1}
      BY <3>1
    <3> QED BY <3>2 DEF n
  <2> QED BY <1>1, <2>1, <2>3, Fifos
<1> QED BY <1>1, <1>2, <1>3, Fifos

\* The order depends on the three stages only.
LEMMA SameHolds ==
  ASSUME NEW s, NEW e, e.rx = s.rx, Fly(e) = Fly(s), e.tx = s.tx, NEW a, NEW b, Holds(s, a, b)
  PROVE  Holds(e, a, b)
BY DEF Holds

\* The first word of the transmit FIFO leaves for the device.
LEMMA LeavesHolds ==
  ASSUME NEW s, NEW e, NEW a \in Nat, NEW b \in Nat, Holds(s, a, b),
         s.tx \in Seq(Word), s.rx \in Seq(Word), s.tx # <<>>,
         Fly(s) = <<>>, e.rx = s.rx, Fly(e) = <<Head(s.tx)>>, e.tx = Tail(s.tx)
  PROVE  Holds(e, a, b)
<1> DEFINE r == Len(s.rx)
           t == Len(s.tx)
<1>1. r \in Nat /\ t \in Nat /\ t >= 1 /\ Len(e.tx) = t - 1 /\ Head(s.tx) = s.tx[1]
      /\ \A i \in 1 .. t - 1 : e.tx[i] = s.tx[i + 1]
  BY Fifos
<1>2. Len(Fly(s)) = 0 /\ Len(Fly(e)) = 1 /\ Fly(e)[1] = Head(s.tx)
  BY Fifos
<1>3. a + r + 0 + t = b /\ InOrder(s.rx, a) /\ \A i \in 1 .. t : s.tx[i] = a + r + 0 + i
  BY <1>2 DEF Holds, InOrder
<1> HIDE DEF r, t
<1>4. Head(s.tx) = a + r + 1
  BY <1>1, <1>3, SMTT(30)
<1>5. \A i \in 1 .. t - 1 : e.tx[i] = a + r + 1 + i
  BY <1>1, <1>3
<1>6. InOrder(Fly(e), a + r)
  BY <1>2, <1>4 DEF InOrder
<1>7. InOrder(e.tx, a + r + 1)
  BY <1>1, <1>5 DEF InOrder
<1>8. a + r + 1 + (t - 1) = b
  BY <1>1, <1>3
<1> QED BY <1>1, <1>2, <1>3, <1>6, <1>7, <1>8 DEF Holds, r

\* The answer that is on its way comes to the receive FIFO.
LEMMA ArrivesHolds ==
  ASSUME NEW s, NEW e, NEW a \in Nat, NEW b \in Nat, Holds(s, a, b), NEW w \in Word,
         s.tx \in Seq(Word), s.rx \in Seq(Word), Fly(s) = <<w>>, Fly(e) = <<>>,
         e.rx = Append(s.rx, w), e.tx = s.tx
  PROVE  Holds(e, a, b)
<1> DEFINE r == Len(s.rx)
           t == Len(s.tx)
<1>1. /\ r \in Nat /\ t \in Nat /\ Len(e.rx) = r + 1 /\ e.rx[r + 1] = w
      /\ \A i \in 1 .. r : e.rx[i] = s.rx[i]
  BY Fifos
<1>2. Len(Fly(e)) = 0 /\ Len(Fly(s)) = 1 /\ Fly(s)[1] = w
  BY Fifos
<1>3. /\ a + r + 1 + t = b /\ \A i \in 1 .. r : s.rx[i] = a + i
      /\ w = a + r + 1 /\ InOrder(s.tx, a + r + 1)
  <2>1. a + r + 1 + t = b /\ InOrder(s.rx, a) /\ InOrder(Fly(s), a + r) /\ InOrder(s.tx, a + r + 1)
    BY <1>2 DEF Holds
  <2>2. Fly(s)[1] = a + r + 1
    BY <1>2, <2>1 DEF InOrder
  <2> QED BY <1>2, <2>1, <2>2 DEF InOrder
<1> HIDE DEF r, t
<1>4. \A i \in 1 .. r + 1 : e.rx[i] = a + i
  <2> SUFFICES ASSUME NEW i \in 1 .. r + 1 PROVE e.rx[i] = a + i
    OBVIOUS
  <2>1. r \in Nat /\ i \in 1 .. r + 1
    BY <1>1
  <2>2. i \in 1 .. r \/ i = r + 1
    BY <2>1
  <2>3. CASE i \in 1 .. r
    BY <1>1, <1>3, <2>3
  <2>4. CASE i = r + 1
    <3>1. e.rx[r + 1] = a + r + 1 /\ a + r + 1 = a + (r + 1)
      BY <1>1, <1>3, <2>1
    <3> QED BY <2>4, <3>1
  <2> QED BY <2>2, <2>3, <2>4
<1>5. InOrder(e.rx, a)
  BY <1>1, <1>4 DEF InOrder
<1>6. InOrder(Fly(e), a + (r + 1))
  BY <1>2, <1>1 DEF InOrder
<1>7. a + (r + 1) + 0 = a + r + 1 /\ a + (r + 1) + 0 + t = b
  BY <1>1, <1>3
<1> QED BY <1>1, <1>2, <1>3, <1>5, <1>6, <1>7 DEF Holds, t

\* A word goes to the device and comes back at once.
LEMMA ReturnsHolds ==
  ASSUME NEW s, NEW e, NEW a \in Nat, NEW b \in Nat, Holds(s, a, b),
         s.tx \in Seq(Word), s.rx \in Seq(Word), s.tx # <<>>, Fly(s) = <<>>, Fly(e) = <<>>,
         e.rx = Append(s.rx, Head(s.tx)), e.tx = Tail(s.tx)
  PROVE  Holds(e, a, b)
<1> DEFINE u == [rx |-> s.rx, reply |-> None, owes |-> <<Head(s.tx)>>, tx |-> Tail(s.tx)]
<1>1. Head(s.tx) \in Word /\ Tail(s.tx) \in Seq(Word)
  BY Fifos
<1>2. u.rx = s.rx /\ Fly(u) = <<Head(s.tx)>> /\ u.tx = Tail(s.tx)
  BY DEF Fly
<1> HIDE DEF u
<1>3. Holds(u, a, b)
  BY <1>2, LeavesHolds
<1> QED BY <1>1, <1>2, <1>3, ArrivesHolds

\* A word is written.
LEMMA WrittenHolds ==
  ASSUME NEW s, NEW e, NEW a \in Nat, NEW b \in Nat, Holds(s, a, b), Sound(s), b + 1 \in Word,
         e.rx = s.rx, Fly(e) = Fly(s), e.tx = Append(s.tx, b + 1)
  PROVE  Holds(e, a, b + 1)
<1> DEFINE r == Len(s.rx)
           t == Len(s.tx)
           f == Len(Fly(s))
<1>1. /\ r \in Nat /\ t \in Nat /\ f \in Nat /\ Len(e.tx) = t + 1 /\ e.tx[t + 1] = b + 1
      /\ \A i \in 1 .. t : e.tx[i] = s.tx[i]
  BY FlyIs, Fifos
<1>2. /\ a + r + f + t = b /\ \A i \in 1 .. t : s.tx[i] = a + r + f + i
      /\ InOrder(s.rx, a) /\ InOrder(Fly(s), a + r)
  BY DEF Holds, InOrder
<1> HIDE DEF r, t, f
<1>3. \A i \in 1 .. t + 1 : e.tx[i] = a + r + f + i
  <2> SUFFICES ASSUME NEW i \in 1 .. t + 1 PROVE e.tx[i] = a + r + f + i
    OBVIOUS
  <2>1. i \in 1 .. t \/ i = t + 1
    BY <1>1
  <2>2. CASE i \in 1 .. t
    BY <1>1, <1>2, <2>2
  <2>3. CASE i = t + 1
    <3>1. a + r + f + (t + 1) = b + 1
      BY <1>1, <1>2
    <3> QED BY <1>1, <2>3, <3>1
  <2> QED BY <2>1, <2>2, <2>3
<1>4. InOrder(e.tx, a + r + f)
  BY <1>1, <1>3 DEF InOrder
<1>5. a + r + f + (t + 1) = b + 1
  <2>1. r \in Nat /\ t \in Nat /\ f \in Nat /\ a + r + f + t = b
    BY <1>1, <1>2
  <2> QED BY <2>1
<1> QED BY <1>1, <1>2, <1>4, <1>5 DEF Holds, r, f

\* A word is read.
LEMMA ReadHolds ==
  ASSUME NEW s, NEW e, NEW a \in Nat, NEW b \in Nat, Holds(s, a, b), Sound(s), s.rx # <<>>,
         e.rx = Tail(s.rx), Fly(e) = Fly(s), e.tx = s.tx
  PROVE  Head(s.rx) = a + 1 /\ Holds(e, a + 1, b)
<1> DEFINE r == Len(s.rx)
           t == Len(s.tx)
           f == Len(Fly(s))
<1>1. /\ r \in Nat /\ t \in Nat /\ f \in Nat /\ r >= 1 /\ Len(e.rx) = r - 1 /\ Head(s.rx) = s.rx[1]
      /\ \A i \in 1 .. r - 1 : e.rx[i] = s.rx[i + 1]
  BY FlyIs, Fifos
<1>2. /\ a + r + f + t = b /\ \A i \in 1 .. r : s.rx[i] = a + i
      /\ InOrder(Fly(s), a + r) /\ InOrder(s.tx, a + r + f)
  BY DEF Holds, InOrder
<1> HIDE DEF r, t, f
<1>3. \A i \in 1 .. r - 1 : e.rx[i] = a + 1 + i
  BY <1>1, <1>2
<1>4. InOrder(e.rx, a + 1)
  BY <1>1, <1>3 DEF InOrder
<1>5. a + 1 + (r - 1) = a + r /\ a + 1 + (r - 1) + f = a + r + f /\ a + 1 + (r - 1) + f + t = b
  BY <1>1, <1>2
<1>6. Len(e.rx) = r - 1 /\ Head(s.rx) = a + 1
  BY <1>1, <1>2
<1> QED BY <1>2, <1>4, <1>5, <1>6 DEF Holds, t, f

\* Nothing is sent while a word is on its way, or when there is none.
LEMMA PumpRests ==
  ASSUME NEW s, s.busy \/ s.tx = <<>> \/ ~ s.sse
  PROVE  S!Pumped(s) = s
<1>1. S!DoTx(s) = s
  BY DEF S!DoTx
<1> QED BY <1>1, PumpedOnce

\* What the end of a delivery, or a new word, may send.
Ready(s) == s.timed \/ (~ S!Full(s.rx) /\ Len(s.tx) <= 1)

\* A ready block sends one word and rests.
LEMMA PumpSends ==
  ASSUME NEW s, Sound(s), Ready(s), s.sse, ~ s.busy, s.tx # <<>>
  PROVE  LET e == S!Pumped(s)
         IN  /\ Sound(e) /\ Moving(e) /\ SameMode(e, s) /\ e.up = S!Requested(e) /\ e.tx = Tail(s.tx)
             /\ s.timed => e.rx = s.rx /\ e.frame /\ Fly(e) = <<Head(s.tx)>>
             /\ ~ s.timed => e.rx = Append(s.rx, Head(s.tx)) /\ ~ e.busy /\ Fly(e) = <<>>
<1> DEFINE e == S!DoTx(s)
<1>1. s.tx \in Seq(Word)
  BY DEF Sound, SpiState
<1>2. /\ Sound(e) /\ SameMode(e, s) /\ e.up = S!Requested(e) /\ e.tx = Tail(s.tx)
      /\ s.timed => e.rx = s.rx /\ e.frame /\ Fly(e) = <<Head(s.tx)>>
      /\ ~ s.timed => e.rx = Append(s.rx, Head(s.tx)) /\ ~ e.busy /\ Fly(e) = <<>>
  BY DoTxSends DEF Ready
<1> HIDE DEF e
<1>3. e.busy \/ e.tx = <<>>
  <2>1. CASE s.timed
    BY <1>2, <2>1 DEF Sound
  <2>2. CASE ~ s.timed
    <3>1. Len(s.tx) \in Nat /\ Len(s.tx) <= 1 /\ Len(e.tx) = Len(s.tx) - 1 /\ Len(s.tx) >= 1
          /\ Tail(s.tx) \in Seq(Word)
      BY <1>1, <1>2, <2>2, Fifos DEF Ready
    <3>2. Len(e.tx) = 0
      <4> DEFINE n == Len(s.tx)
                 m == Len(e.tx)
      <4>1. n \in Nat /\ n <= 1 /\ n >= 1 /\ m = n - 1
        BY <3>1
      <4> HIDE DEF n, m
      <4>2. m = 0
        BY <4>1
      <4> QED BY <4>2 DEF m
    <3> QED BY <1>2, <3>1, <3>2, Fifos
  <2> QED BY <2>1, <2>2
<1>4. S!DoTx(e) = e
  BY <1>3 DEF S!DoTx
<1>5. S!Pumped(s) = e
  BY <1>4, PumpedOnce DEF e
<1>6. Moving(e)
  BY <1>3 DEF Moving
<1> QED BY <1>2, <1>5, <1>6

\* Both cases: the words keep their order, and what is on its way afterwards has just begun.
LEMMA PumpedKeeps ==
  ASSUME NEW s, Sound(s), Ready(s), NEW a \in Nat, NEW b \in Nat, Holds(s, a, b)
  PROVE  LET e == S!Pumped(s)
         IN  /\ Sound(e) /\ Moving(e) /\ SameMode(e, s) /\ Holds(e, a, b)
             /\ s.up = S!Requested(s) => e.up = S!Requested(e)
             /\ Len(e.tx) <= Len(s.tx)
             /\ s.timed => e.rx = s.rx
             /\ Len(e.rx) = Len(s.rx) + (IF s.timed \/ s.tx = <<>> THEN 0 ELSE 1)
             /\ s.busy => e = s
             /\ ~ s.busy => (e.busy <=> e.frame)
<1> DEFINE e == S!Pumped(s)
<1>1. s.tx \in Seq(Word) /\ s.rx \in Seq(Word) /\ Len(s.tx) \in Nat /\ Len(s.rx) \in Nat
  BY FlyIs
<1>2. ~ s.timed => ~ s.busy
  BY DEF Sound
<1>3. CASE s.busy \/ s.tx = <<>> \/ ~ s.sse
  <2>1. e = s
    BY <1>3, PumpRests
  <2>2. Moving(s)
    BY <1>3 DEF Sound, Moving
  <2>3. s.timed \/ s.tx = <<>>
    BY <1>2, <1>3 DEF Sound
  <2>4. ~ s.busy => (s.busy <=> s.frame)
    BY DEF Sound
  <2>5. SameMode(s, s)
    BY DEF SameMode
  <2> HIDE DEF e
  <2>6. Len(s.tx) <= Len(s.tx) /\ Len(s.rx) = Len(s.rx) + 0
    BY <1>1
  <2> QED BY <2>1, <2>2, <2>3, <2>4, <2>5, <2>6 DEF e
<1>4. CASE ~ s.busy /\ s.tx # <<>> /\ s.sse
  <2>1. /\ Sound(e) /\ Moving(e) /\ SameMode(e, s) /\ e.up = S!Requested(e) /\ e.tx = Tail(s.tx)
        /\ s.timed => e.rx = s.rx /\ e.frame /\ Fly(e) = <<Head(s.tx)>>
        /\ ~ s.timed => e.rx = Append(s.rx, Head(s.tx)) /\ ~ e.busy /\ Fly(e) = <<>>
    BY <1>4, PumpSends
  <2> HIDE DEF e
  <2>2. Fly(s) = <<>>
    BY <1>4, FlyIs
  <2>3. Len(e.tx) = Len(s.tx) - 1 /\ Head(s.tx) \in Word
    BY <1>1, <1>4, <2>1, Fifos
  <2>4. CASE s.timed
    <3>1. Holds(e, a, b)
      BY <1>1, <1>4, <2>1, <2>2, <2>4, LeavesHolds
    <3>2. e.busy /\ e.frame
      BY <2>1, <2>4 DEF Sound
    <3>3. Len(e.tx) <= Len(s.tx) /\ Len(e.rx) = Len(s.rx) + 0
      BY <1>1, <2>1, <2>3, <2>4
    <3> QED BY <1>4, <2>1, <2>4, <3>1, <3>2, <3>3 DEF e
  <2>5. CASE ~ s.timed
    <3>1. Holds(e, a, b)
      BY <1>1, <1>4, <2>1, <2>2, <2>5, ReturnsHolds
    <3>2. ~ e.busy /\ ~ e.frame
      BY <2>1, <2>5 DEF Sound
    <3>3. Len(e.tx) <= Len(s.tx) /\ Len(e.rx) = Len(s.rx) + 1
      BY <1>1, <2>1, <2>3, <2>5, Fifos
    <3> QED BY <1>4, <2>1, <2>5, <3>1, <3>2, <3>3 DEF e
  <2> QED BY <2>4, <2>5
<1> QED BY <1>3, <1>4

\* The counts the next lemmas are about: words first + 1 .. last in order, the requests told.
Orderly(s, first, last) == Sound(s) /\ Moving(s) /\ Holds(s, first, last) /\ s.up = S!Requested(s)

\* The answer that is on its way comes back, and the next word leaves.
LEMMA DeliveredKeeps ==
  ASSUME NEW s, NEW t, NEW a \in Nat, NEW b \in Nat, Orderly(s, a, b), NEW w \in Word,
         ~ S!Full(s.rx), Fly(s) = <<w>>, s.timed,
         t \in SpiState, SameMode(t, s), t.tx = s.tx, t.rx = s.rx, ~ t.frame, t.reply = None, t.owes = <<>>
  PROVE  LET e == S!Delivered(t, w)
         IN  /\ Orderly(e, a, b) /\ SameMode(e, s) /\ Len(e.tx) <= Len(s.tx)
             /\ Len(e.rx) = Len(s.rx) + 1 /\ (e.busy <=> e.frame)
<1> DEFINE u == S!Received(t, w)
           e == S!Pumped(u)
<1>1. ~ S!Full(t.rx)
  BY DEF S!Full
<1>2. /\ u \in SpiState /\ SameMode(u, t) /\ u.up = S!Requested(u)
      /\ u.rx = Append(t.rx, w) /\ ~ u.busy /\ u.tx = t.tx /\ u.frame = t.frame
      /\ u.reply = t.reply /\ u.owes = t.owes
  BY <1>1, ReceivedIs
<1> HIDE DEF u
<1>3. s.tx \in Seq(Word) /\ s.rx \in Seq(Word) /\ s.busy
  BY FlyIs, Fifos, ZenonT(30) DEF Orderly
<1>4. Sound(u)
  BY <1>2, <1>3, Fifos DEF Orderly, Sound, SameMode
<1>5. Holds(u, a, b)
  <2>1. Fly(u) = <<>>
    BY <1>2 DEF Fly
  <2> QED BY <1>2, <1>3, <2>1, ArrivesHolds DEF Orderly
<1>6. Ready(u) /\ u.timed
  BY <1>2 DEF Ready, SameMode
<1>7. /\ Sound(e) /\ Moving(e) /\ SameMode(e, u) /\ Holds(e, a, b) /\ e.up = S!Requested(e)
      /\ Len(e.tx) <= Len(u.tx) /\ e.rx = u.rx /\ (e.busy <=> e.frame)
  BY <1>2, <1>4, <1>5, <1>6, PumpedKeeps
<1>8. S!Delivered(t, w) = e
  BY DEF S!Delivered, u
<1> HIDE DEF e
<1>9. Len(e.rx) = Len(s.rx) + 1
  BY <1>2, <1>3, <1>7, Fifos
<1>10. SameMode(e, s)
  BY <1>2, <1>7 DEF SameMode
<1> QED BY <1>2, <1>7, <1>8, <1>9, <1>10 DEF Orderly

-----------------------------------------------------------------------------
(* The methods that the transfer calls.                                    *)

\* The end of a frame delivers the answer, if it is there, and the next frame begins.
LEMMA FrameEndedKeeps ==
  ASSUME NEW s, NEW a \in Nat, NEW b \in Nat, Orderly(s, a, b), s.frame, ~ S!Full(s.rx)
  PROVE  LET e == S!FrameEnded(s)
         IN  /\ Orderly(e, a, b) /\ SameMode(e, s) /\ Len(e.tx) <= Len(s.tx)
             /\ \/ e.rx = s.rx /\ ~ e.frame
                \/ Len(e.rx) = Len(s.rx) + 1 /\ (e.busy <=> e.frame)
<1> DEFINE t == [s EXCEPT !.frame = FALSE, !.reply = None]
           e == S!FrameEnded(s)
<1>1. Sound(s) /\ s \in SpiState /\ s.timed
  BY DEF Orderly, Sound
<1>2. /\ t \in SpiState /\ SameMode(t, s) /\ t.tx = s.tx /\ t.rx = s.rx /\ ~ t.frame /\ t.reply = None
      /\ t.owes = s.owes /\ t.busy = s.busy /\ t.up = s.up
  BY <1>1 DEF SpiState, SameMode
<1>3. e = IF s.reply = None THEN t ELSE S!Delivered(t, s.reply)
  BY DEF S!FrameEnded
<1> HIDE DEF t, e
<1>4. CASE s.reply = None
  <2>1. s.owes # <<>> /\ s.busy
    BY <1>1, <1>4 DEF Sound
  <2>2. Fly(t) = Fly(s)
    BY <1>2, <1>4 DEF Fly
  <2>3. Sound(t)
    BY <1>1, <1>2, <2>1 DEF Sound, SameMode
  <2>4. Moving(t) /\ Holds(t, a, b)
    BY <1>2, <2>1, <2>2, SameHolds DEF Moving, Orderly
  <2>5. t.up = S!Requested(t)
    BY <1>2 DEF Orderly, S!Requested, SameMode
  <2>6. Len(t.tx) <= Len(s.tx)
    BY <1>1, <1>2, FlyIs
  <2> QED BY <1>2, <1>3, <1>4, <2>3, <2>4, <2>5, <2>6 DEF Orderly, e
<1>5. CASE s.reply # None
  <2>1. s.reply \in Word /\ Fly(s) = <<s.reply>> /\ s.owes = <<>>
    BY <1>1, <1>5 DEF Sound, SpiState, Fly
  <2>2. e = S!Delivered(t, s.reply)
    BY <1>3, <1>5
  <2> QED BY <1>1, <1>2, <2>1, <2>2, DeliveredKeeps DEF e
<1> QED BY <1>4, <1>5

\* A late answer waits for the end of its frame, or is delivered.
LEMMA AnsweredKeeps ==
  ASSUME NEW s, NEW a \in Nat, NEW b \in Nat, Orderly(s, a, b), s.owes # <<>>, s.frame \/ ~ S!Full(s.rx)
  PROVE  LET e == S!Answered(s)
         IN  /\ Orderly(e, a, b) /\ SameMode(e, s) /\ Len(e.tx) <= Len(s.tx)
             /\ \/ s.frame /\ e.frame /\ e.rx = s.rx
                \/ ~ s.frame /\ Len(e.rx) = Len(s.rx) + 1 /\ (e.busy <=> e.frame)
<1> DEFINE w == Head(s.owes)
           t == [s EXCEPT !.owes = Tail(s.owes)]
           e == S!Answered(s)
<1>1. Sound(s) /\ s \in SpiState /\ ~ s.prompt /\ s.timed /\ s.reply = None /\ s.owes \in Seq(Word)
  BY DEF Orderly, Sound, SpiState
<1>2. w \in Word /\ Tail(s.owes) = <<>> /\ s.owes = <<w>> /\ Tail(s.owes) \in Seq(Word)
  <2>1. Len(s.owes) = 1
    <3>1. Fly(s) = s.owes /\ Len(Fly(s)) \in {0, 1}
      BY <1>1, FlyIs DEF Fly
    <3> QED BY <1>1, <3>1, Fifos
  <2>2. Len(Tail(s.owes)) = 1 - 1 /\ Tail(s.owes) \in Seq(Word) /\ w \in Word /\ w = s.owes[1]
    BY <1>1, <2>1, Fifos
  <2>3. s.owes = <<w>>
    BY <1>1, <2>1, <2>2
  <2> QED BY <2>2, <2>3, Fifos
<1>3. /\ t \in SpiState /\ SameMode(t, s) /\ t.tx = s.tx /\ t.rx = s.rx /\ t.frame = s.frame /\ t.reply = None
      /\ t.owes = <<>> /\ t.busy = s.busy /\ t.up = s.up
  BY <1>1, <1>2 DEF SpiState, SameMode
<1>4. e = IF s.frame THEN [t EXCEPT !.reply = w] ELSE S!Delivered(t, w)
  BY <1>1 DEF S!Answered
<1>5. Fly(s) = <<w>>
  BY <1>1, <1>2 DEF Fly
<1> HIDE DEF t, e, w
<1>6. CASE s.frame
  <2>1. e = [t EXCEPT !.reply = w]
    BY <1>4, <1>6
  <2>2. /\ e \in SpiState /\ SameMode(e, s) /\ e.tx = s.tx /\ e.rx = s.rx /\ e.frame /\ e.reply = w
        /\ e.owes = <<>> /\ e.busy = s.busy /\ e.up = s.up
    BY <1>2, <1>3, <1>6, <2>1 DEF SpiState, SameMode
  <2>3. w # None
    BY <1>2, SpiDmaAssumption DEF Word
  <2>4. Fly(e) = <<w>>
    BY <2>2, <2>3 DEF Fly
  <2>5. Sound(e)
    BY <1>1, <1>6, <2>2, <2>3, Fifos DEF Sound, SameMode
  <2>6. Moving(e) /\ Holds(e, a, b)
    BY <1>5, <2>2, <2>4, SameHolds DEF Moving, Orderly
  <2>7. e.up = S!Requested(e)
    BY <2>2 DEF Orderly, S!Requested, SameMode
  <2>8. Len(e.tx) <= Len(s.tx)
    BY <1>1, <2>2, FlyIs
  <2> QED BY <1>6, <2>2, <2>5, <2>6, <2>7, <2>8 DEF Orderly, e
<1>7. CASE ~ s.frame
  <2>1. e = S!Delivered(t, w)
    BY <1>4, <1>7
  <2> QED BY <1>1, <1>2, <1>3, <1>5, <1>7, <2>1, DeliveredKeeps DEF e
<1> QED BY <1>6, <1>7

\* The transmit channel's access.
LEMMA DrWrittenKeeps ==
  ASSUME NEW s, NEW a \in Nat, NEW b \in Nat, Orderly(s, a, b), b + 1 \in Word, s.sse, ~ S!Full(s.tx),
         s.timed \/ ~ S!Full(s.rx)
  PROVE  LET e == S!DrWritten(s, b + 1)
         IN  /\ Orderly(e, a, b + 1) /\ SameMode(e, s)
             /\ Len(e.rx) = Len(s.rx) + (IF s.timed THEN 0 ELSE 1) /\ Len(e.tx) <= Len(s.tx) + 1
             /\ s.busy => e.frame = s.frame /\ e.busy
             /\ ~ s.busy => (e.busy <=> e.frame)
<1> DEFINE t == [s EXCEPT !.tx = Append(s.tx, b + 1)]
           u == S!Pumped(t)
           e == S!FifosUpdated(u)
<1>1. Sound(s) /\ s \in SpiState /\ s.tx \in Seq(Word) /\ s.rx \in Seq(Word)
  BY DEF Orderly, Sound, SpiState
<1>2. Append(s.tx, b + 1) \in Seq(Word) /\ Len(Append(s.tx, b + 1)) = Len(s.tx) + 1
  BY <1>1, Fifos
<1>3. /\ t \in SpiState /\ SameMode(t, s) /\ t.tx = Append(s.tx, b + 1) /\ t.rx = s.rx /\ t.frame = s.frame
      /\ t.reply = s.reply /\ t.owes = s.owes /\ t.busy = s.busy
  BY <1>1, <1>2 DEF SpiState, SameMode
<1>4. S!DrWritten(s, b + 1) = e
  BY <1>1 DEF S!DrWritten
<1> HIDE DEF t
<1>5. Sound(t) /\ Fly(t) = Fly(s)
  BY <1>1, <1>3 DEF Sound, SameMode, Fly
<1>6. Holds(t, a, b + 1)
  BY <1>1, <1>3, <1>5, WrittenHolds DEF Orderly
<1>7. t.tx # <<>> /\ b + 1 \in Nat
  BY <1>1, <1>3, AppendProperties, SMTT(30)
<1>8. Ready(t)
  <2>1. CASE s.timed
    BY <1>3, <2>1 DEF Ready, SameMode
  <2>2. CASE ~ s.timed
    <3>1. ~ s.busy
      BY <1>1, <2>2 DEF Sound
    <3>2. Len(t.tx) = 0 + 1
      BY <1>1, <1>2, <1>3, <3>1, Fifos DEF Orderly, Moving
    <3> QED BY <1>3, <2>2, <3>2 DEF Ready, S!Full
  <2> QED BY <2>1, <2>2
<1>9. /\ Sound(u) /\ Moving(u) /\ SameMode(u, t) /\ Holds(u, a, b + 1)
      /\ Len(u.tx) <= Len(t.tx)
      /\ Len(u.rx) = Len(t.rx) + (IF t.timed \/ t.tx = <<>> THEN 0 ELSE 1)
      /\ t.busy => u = t
      /\ ~ t.busy => (u.busy <=> u.frame)
  BY <1>5, <1>6, <1>7, <1>8, PumpedKeeps
<1> HIDE DEF u
<1>10. e \in SpiState /\ SameMode(e, u) /\ SameWords(e, u) /\ e.up = S!Requested(e)
  BY <1>9, FifosUpdatedIs DEF Sound
<1> HIDE DEF e
<1>11. Sound(e) /\ Fly(e) = Fly(u) /\ Moving(e)
  BY <1>9, <1>10 DEF Sound, SameMode, SameWords, Fly, Moving
<1>12. Holds(e, a, b + 1)
  BY <1>9, <1>10, <1>11, SameHolds DEF SameWords
<1>13. SameMode(e, s) /\ t.timed = s.timed
  BY <1>3, <1>9, <1>10 DEF SameMode
<1>14. Len(e.rx) = Len(s.rx) + (IF s.timed THEN 0 ELSE 1)
  BY <1>3, <1>7, <1>9, <1>10, <1>13 DEF SameWords
<1>15. /\ s.busy => e.frame = s.frame /\ e.busy
       /\ ~ s.busy => (e.busy <=> e.frame)
  BY <1>3, <1>9, <1>10 DEF SameWords
<1>16. Len(e.tx) <= Len(s.tx) + 1
  BY <1>2, <1>3, <1>9, <1>10 DEF SameWords
<1> QED BY <1>4, <1>10, <1>11, <1>12, <1>13, <1>14, <1>15, <1>16 DEF Orderly

\* The receive channel's access.
LEMMA DrReadKeeps ==
  ASSUME NEW s, NEW a \in Nat, NEW b \in Nat, Orderly(s, a, b), s.rx # <<>>
  PROVE  LET e == S!DrRead(s)
         IN  /\ Orderly(e, a + 1, b) /\ SameMode(e, s) /\ Head(s.rx) = a + 1
             /\ Len(e.rx) = Len(s.rx) - 1 /\ e.tx = s.tx /\ e.busy = s.busy /\ e.frame = s.frame
<1> DEFINE t == [s EXCEPT !.rx = Tail(s.rx)]
           e == S!FifosUpdated(t)
<1>1. Sound(s) /\ s \in SpiState /\ s.rx \in Seq(Word)
  BY DEF Orderly, Sound, SpiState
<1>2. Tail(s.rx) \in Seq(Word) /\ Len(Tail(s.rx)) = Len(s.rx) - 1
  BY <1>1, Fifos
<1>3. /\ t \in SpiState /\ SameMode(t, s) /\ t.rx = Tail(s.rx) /\ t.tx = s.tx /\ t.frame = s.frame
      /\ t.reply = s.reply /\ t.owes = s.owes /\ t.busy = s.busy
  BY <1>1, <1>2 DEF SpiState, SameMode
<1>4. S!DrRead(s) = e
  BY <1>1 DEF S!DrRead
<1> HIDE DEF t
<1>5. e \in SpiState /\ SameMode(e, t) /\ SameWords(e, t) /\ e.up = S!Requested(e)
  BY <1>3, FifosUpdatedIs
<1> HIDE DEF e
<1>6. Sound(e) /\ Fly(e) = Fly(s) /\ Moving(e) /\ SameMode(e, s)
  BY <1>1, <1>3, <1>5 DEF Sound, SameMode, SameWords, Fly, Moving, Orderly
<1>7. Head(s.rx) = a + 1 /\ Holds(e, a + 1, b)
  BY <1>1, <1>3, <1>5, <1>6, ReadHolds DEF SameWords, Orderly
<1> QED BY <1>2, <1>3, <1>4, <1>5, <1>6, <1>7 DEF Orderly, SameWords

\* The two enables find the FIFOs empty.
LEMMA EnablesKeep ==
  ASSUME NEW s, NEW a \in Nat, NEW b \in Nat, Orderly(s, a, b)
  PROVE  /\ ~ s.sse => LET e == S!Cr1Written(s, TRUE, FALSE)
                       IN  Orderly(e, a, b) /\ e.sse /\ e.dmacr = s.dmacr /\ e.timed = s.timed /\ SameWords(e, s)
         /\ LET e == S!DmacrWritten(s, {16, 17})
            IN  Orderly(e, a, b) /\ e.sse = s.sse /\ e.timed = s.timed /\ SameWords(e, s)
<1>1. Sound(s) /\ s \in SpiState
  BY DEF Orderly, Sound
<1>2. ASSUME ~ s.sse
      PROVE  LET e == S!Cr1Written(s, TRUE, FALSE)
             IN  Orderly(e, a, b) /\ e.sse /\ e.dmacr = s.dmacr /\ e.timed = s.timed /\ SameWords(e, s)
  <2> DEFINE t == [s EXCEPT !.sse = TRUE, !.lbm = FALSE]
             e == S!FifosUpdated(t)
  <2>1. /\ t \in SpiState /\ SameWords(t, s) /\ t.sse /\ ~ t.lbm /\ t.timed = s.timed /\ t.prompt = s.prompt
        /\ t.dmacr = s.dmacr /\ t.lost = s.lost
    BY <1>1 DEF SpiState, SameWords
  <2>2. t.tx = <<>>
    BY <1>1, <1>2, <2>1 DEF Sound, SameWords
  <2>3. S!Cr1Written(s, TRUE, FALSE) = e
    BY <2>2, PumpRests DEF S!Cr1Written
  <2> HIDE DEF t
  <2>4. e \in SpiState /\ SameMode(e, t) /\ SameWords(e, t) /\ e.up = S!Requested(e)
    BY <2>1, FifosUpdatedIs
  <2> HIDE DEF e
  <2>5. Sound(e) /\ Fly(e) = Fly(s) /\ Moving(e)
    BY <1>1, <1>2, <2>1, <2>4 DEF Sound, SameMode, SameWords, Fly, Moving, Orderly
  <2>6. Holds(e, a, b)
    BY <2>1, <2>4, <2>5, SameHolds DEF SameWords, Orderly
  <2> QED BY <2>1, <2>3, <2>4, <2>5, <2>6 DEF Orderly, SameMode, SameWords
<1>3. LET e == S!DmacrWritten(s, {16, 17})
      IN  Orderly(e, a, b) /\ e.sse = s.sse /\ e.timed = s.timed /\ SameWords(e, s)
  <2> DEFINE t == [s EXCEPT !.dmacr = {16, 17}]
             e == S!DmacrWritten(s, {16, 17})
  <2>1. /\ t \in SpiState /\ SameWords(t, s) /\ t.sse = s.sse /\ t.timed = s.timed /\ t.prompt = s.prompt
        /\ t.lost = s.lost /\ t.lbm = s.lbm
    BY <1>1 DEF SpiState, SameWords
  <2>2. e = [t EXCEPT !.up = S!Requested(t)]
    BY DEF S!DmacrWritten, S!UpdateDma
  <2>3. S!Requested(t) \in SUBSET {16, 17}
    BY DEF S!Requested, S!TxRequest, S!RxRequest
  <2> HIDE DEF t, e
  <2>4. /\ e \in SpiState /\ SameWords(e, s) /\ e.sse = s.sse /\ e.timed = s.timed /\ e.prompt = s.prompt
        /\ e.lost = s.lost /\ e.lbm = s.lbm /\ e.up = S!Requested(t) /\ e.dmacr = t.dmacr
    BY <2>1, <2>2, <2>3 DEF SpiState, SameWords
  <2>5. e.up = S!Requested(e)
    BY <2>1, <2>4 DEF S!Requested, SameWords
  <2>6. Sound(e) /\ Fly(e) = Fly(s) /\ Moving(e)
    BY <1>1, <2>4 DEF Sound, SameWords, Fly, Moving, Orderly
  <2>7. Holds(e, a, b)
    BY <2>4, <2>6, SameHolds DEF SameWords, Orderly
  <2> QED BY <2>4, <2>5, <2>6, <2>7 DEF Orderly, e
<1> QED BY <1>2, <1>3

-----------------------------------------------------------------------------
(* The controller, as far as a transfer needs it.                          *)

\* The two channels before the trigger, and after it.
Set(d) ==
  /\ d.busy \subseteq {Tx, Rx}
  /\ d.asked[Rx] = 0 => d.busy = {} /\ d.raw = {} /\ d.moved[Tx] = 0 /\ d.moved[Rx] = 0
  /\ d.asked[Rx] # 0 => /\ d.asked[Rx] = Length /\ d.asked[Tx] = Length
                        /\ d.ctrl[Rx] = RxCtrl /\ d.ctrl[Tx] \in {TxCtrl, [TxCtrl EXCEPT !.en = FALSE]}
  /\ d.raw # {} => d.moved[Rx] = Length

\* The controller knows the requests of the SPI, and an armed channel has room for its word, or a word.
Fits(d, s) ==
  /\ d.up = s.up
  /\ Tx \in d.alarm => s.sse /\ s.dmacr # {} /\ ~ S!Full(s.tx)
  /\ Rx \in d.alarm => s.rx # <<>>

\* The two channels, their requests and their CTRL values.
LEMMA Ends ==
  /\ Tx \in Channels /\ Rx \in Channels /\ Tx # Rx /\ {16, 17} \subseteq Requests
  /\ S!TxRequest = 16 /\ S!RxRequest = 17
  /\ TxCtrl \in Ctrl /\ [TxCtrl EXCEPT !.en = FALSE] \in Ctrl /\ RxCtrl \in Ctrl
  /\ TxCtrl.treq = 16 /\ [TxCtrl EXCEPT !.en = FALSE].treq = 16 /\ RxCtrl.treq = 17
  /\ TxCtrl.chain = Tx /\ [TxCtrl EXCEPT !.en = FALSE].chain = Tx /\ RxCtrl.chain = Rx
  /\ TxCtrl.quiet /\ [TxCtrl EXCEPT !.en = FALSE].quiet /\ ~ RxCtrl.quiet
<1>1. Tx \in Channels /\ Rx \in Channels /\ Tx # Rx /\ {16, 17} \subseteq Requests
  BY SpiDmaAssumption DEF Tx, Rx
<1>2. S!TxRequest = 16 /\ S!RxRequest = 17
  BY DEF S!TxRequest, S!RxRequest
<1>3. /\ TxCtrl = [en |-> TRUE, treq |-> 16, chain |-> Tx, quiet |-> TRUE]
      /\ RxCtrl = [en |-> TRUE, treq |-> 17, chain |-> Rx, quiet |-> FALSE]
  BY <1>2 DEF TxCtrl, RxCtrl
<1>4. TxCtrl \in Ctrl /\ RxCtrl \in Ctrl
  BY <1>1, <1>3 DEF Ctrl
<1>5. /\ [TxCtrl EXCEPT !.en = FALSE] \in Ctrl
      /\ [TxCtrl EXCEPT !.en = FALSE].treq = TxCtrl.treq /\ [TxCtrl EXCEPT !.en = FALSE].chain = TxCtrl.chain
      /\ [TxCtrl EXCEPT !.en = FALSE].quiet = TxCtrl.quiet
  BY <1>4 DEF Ctrl
<1>6. TxCtrl.treq = 16 /\ TxCtrl.chain = Tx /\ TxCtrl.quiet /\ RxCtrl.treq = 17 /\ RxCtrl.chain = Rx /\ ~ RxCtrl.quiet
  BY <1>3
<1> QED BY <1>1, <1>2, <1>4, <1>5, <1>6

\* What a request means, in a block that tells it.
LEMMA RequestMeans ==
  ASSUME NEW s, s.up = S!Requested(s)
  PROVE  /\ 16 \in s.up <=> s.sse /\ 16 \in s.dmacr /\ ~ S!Full(s.tx)
         /\ 17 \in s.up <=> s.sse /\ 17 \in s.dmacr /\ s.rx # <<>>
         /\ s.up \in SUBSET Requests
BY Ends DEF S!Requested, S!TxRequest, S!RxRequest

\* A channel that is set up and active is one of the two, paced by its request.
LEMMA ActiveIs ==
  ASSUME NEW d, Set(d), NEW c \in Channels, Active(d, c)
  PROVE  /\ d.asked[Rx] # 0 /\ c \in {Tx, Rx} /\ d.ctrl[c].chain = c
         /\ d.ctrl[c].treq = (IF c = Tx THEN 16 ELSE 17) /\ (d.ctrl[c].quiet <=> c = Tx)
<1>1. d.asked[Rx] # 0 /\ c \in {Tx, Rx}
  BY DEF Set, Active
<1>2. d.ctrl[Rx] = RxCtrl /\ d.ctrl[Tx] \in {TxCtrl, [TxCtrl EXCEPT !.en = FALSE]}
  BY <1>1 DEF Set
<1>3. CASE c = Tx
  BY <1>1, <1>2, <1>3, Ends
<1>4. CASE c = Rx
  BY <1>1, <1>2, <1>4, Ends
<1> QED BY <1>1, <1>3, <1>4

\* The rest of transfer() of a channel that is chained to none.
LEMMA CountedIs ==
  ASSUME NEW d \in State, NEW c \in Channels, d.ctrl[c].chain = c, d.count[c] > 0
  PROVE  LET e == Counted(d, c)
         IN  /\ e.ctrl = d.ctrl /\ e.asked = d.asked /\ e.up = d.up
             /\ e.moved = [d.moved EXCEPT ![c] = d.moved[c] + 1]
             /\ d.alarm \subseteq e.alarm /\ e.alarm \subseteq d.alarm \cup {c}
             /\ c \in e.alarm => c \in d.alarm \/ Asks(d, d.ctrl[c].treq)
             /\ e.busy \subseteq d.busy
             /\ e.raw = d.raw \/ (~ d.ctrl[c].quiet /\ d.count[c] = 1)
<1> DEFINE f == [d EXCEPT !.count = [d.count EXCEPT ![c] = d.count[c] - 1],
                          !.moved = [d.moved EXCEPT ![c] = d.moved[c] + 1]]
           g == [f EXCEPT !.busy = f.busy \ {c}]
           h == IF g.ctrl[c].quiet THEN g ELSE Raised(g, c)
           e == Counted(d, c)
<1>1. /\ f.ctrl = d.ctrl /\ f.asked = d.asked /\ f.up = d.up /\ f.alarm = d.alarm /\ f.busy = d.busy
      /\ f.raw = d.raw /\ f.timer = d.timer /\ f.moved = [d.moved EXCEPT ![c] = d.moved[c] + 1]
      /\ f.count[c] = d.count[c] - 1 /\ f = [d EXCEPT !.count = f.count, !.moved = f.moved]
  BY DEF State
<1>2. e = IF f.count[c] > 0 THEN ScheduleTransfer(f, c) ELSE Completed(f, c)
  BY DEF Counted, State
<1>3. CASE f.count[c] > 0
  <2>1. e = IF Asks(d, d.ctrl[c].treq) THEN [f EXCEPT !.alarm = f.alarm \cup {c}] ELSE f
    BY <1>1, <1>2, <1>3 DEF ScheduleTransfer, Asks
  <2>2. CASE Asks(d, d.ctrl[c].treq)
    <3>1. /\ e.ctrl = f.ctrl /\ e.asked = f.asked /\ e.up = f.up /\ e.moved = f.moved /\ e.busy = f.busy
          /\ e.raw = f.raw /\ e.alarm = f.alarm \cup {c}
      BY <2>1, <2>2 DEF State
    <3> HIDE DEF e, f
    <3> QED BY <1>1, <2>2, <3>1 DEF e
  <2>3. CASE ~ Asks(d, d.ctrl[c].treq)
    BY <1>1, <2>1, <2>3
  <2> QED BY <2>2, <2>3
<1>4. CASE ~ (f.count[c] > 0)
  <2>1. d.count[c] = 1
    <3>1. d.count[c] \in Counts
      BY DEF State
    <3> QED BY <1>1, <1>4, <3>1, DmaAssumption DEF Counts
  <2>2. /\ g.ctrl = d.ctrl /\ g.asked = d.asked /\ g.up = d.up /\ g.alarm = d.alarm /\ g.busy = d.busy \ {c}
        /\ g.raw = d.raw /\ g.moved = f.moved
    BY DEF State
  <2>3. /\ Raised(g, c).ctrl = d.ctrl /\ Raised(g, c).asked = d.asked /\ Raised(g, c).up = d.up
        /\ Raised(g, c).alarm = d.alarm /\ Raised(g, c).busy = d.busy \ {c} /\ Raised(g, c).moved = f.moved
    BY <2>2 DEF Raised, CheckInterrupts, State
  <2>4. h.ctrl[c].chain = c
    BY <2>2, <2>3
  <2>5. e = h
    BY <1>2, <1>4, <2>4 DEF Completed
  <2> HIDE DEF e, f, g
  <2> QED BY <1>1, <2>1, <2>2, <2>3, <2>5 DEF e
<1> QED BY <1>3, <1>4

\* What set_dreq() and clear_dreq() leave alone.
LEMMA RequestsAreIs ==
  ASSUME NEW d \in State, NEW up
  PROVE  LET e == RequestsAre(d, up)
         IN  /\ e.ctrl = d.ctrl /\ e.asked = d.asked /\ e.moved = d.moved /\ e.busy = d.busy /\ e.raw = d.raw
             /\ e.count = d.count /\ e.timer = d.timer /\ e.up = up
             /\ e.alarm = d.alarm \cup {c \in Channels : Active(d, c) /\ d.ctrl[c].treq \in up \ d.up}
BY DEF RequestsAre, State

\* The SPI publishes its requests: whom they arm fits, and the others fit still.
LEMMA PublishedKeeps ==
  ASSUME NEW s, NEW r, Good(dma, {}), Set(dma), Fits(dma, s), r.up = S!Requested(r),
         s.sse => r.sse, s.dmacr # {} => r.dmacr # {}, ~ S!Full(s.tx) => ~ S!Full(r.tx), s.rx # <<>> => r.rx # <<>>
  PROVE  LET e == RequestsAre(dma, r.up)
         IN  Good(e, {}) /\ Set(e) /\ Fits(e, r) /\ e.asked = dma.asked /\ e.moved = dma.moved /\ e.raw = dma.raw
             /\ dma.alarm \subseteq e.alarm /\ e.ctrl = dma.ctrl /\ e.busy = dma.busy
<1> DEFINE e == RequestsAre(dma, r.up)
<1>1. dma \in State
  BY DEF Good
<1>2. r.up \in SUBSET Requests
  BY RequestMeans
<1>3. Good(e, {})
  BY <1>2, RequestsAreGood
<1>4. /\ e.ctrl = dma.ctrl /\ e.asked = dma.asked /\ e.moved = dma.moved /\ e.busy = dma.busy /\ e.raw = dma.raw
      /\ e.up = r.up
      /\ e.alarm = dma.alarm \cup {c \in Channels : Active(dma, c) /\ dma.ctrl[c].treq \in r.up \ dma.up}
  BY <1>1, RequestsAreIs
<1> HIDE DEF e
<1>5. Set(e)
  BY <1>4 DEF Set
<1>6. Fits(e, r)
  <2>1. \A c \in Channels : Active(dma, c) => dma.ctrl[c].treq = (IF c = Tx THEN 16 ELSE 17)
    BY ActiveIs
  <2>2. Tx \in e.alarm => Tx \in dma.alarm \/ 16 \in r.up
    BY <1>4, <2>1
  <2>3. Rx \in e.alarm => Rx \in dma.alarm \/ 17 \in r.up
    BY <1>4, <2>1, Ends
  <2> QED BY <1>4, <2>2, <2>3, RequestMeans DEF Fits
<1> QED BY <1>3, <1>4, <1>5, <1>6 DEF e

\* An armed channel has a word left to move.
LEMMA ArmedHasWords ==
  ASSUME Good(dma, {}), Set(dma), NEW c \in {Tx, Rx}, c \in dma.alarm
  PROVE  /\ dma.asked[Rx] # 0 /\ dma.count[c] \in Nat /\ dma.count[c] > 0 /\ dma.moved[c] \in Nat
         /\ dma.moved[c] + dma.count[c] = Length /\ dma.moved[c] + 1 \in 1 .. Length
<1>1. dma \in State /\ Active(dma, c) /\ c \in Channels
  BY DEF Good, State
<1>2. dma.count[c] > 0 /\ dma.moved[c] + dma.count[c] = dma.asked[c]
  BY <1>1 DEF Good, Exact, Active
<1>3. dma.asked[Rx] # 0 /\ dma.asked[c] = Length
  BY <1>1, ActiveIs DEF Set
<1>4. dma.count[c] \in Nat /\ dma.moved[c] \in Nat
  BY <1>1, DmaAssumption DEF State, Counts
<1>5. dma.moved[c] + 1 \in 1 .. Length
  BY <1>2, <1>3, <1>4, SpiDmaAssumption, DmaAssumption
<1> QED BY <1>2, <1>3, <1>4, <1>5

\* The transfer of channel c, whose access leaves the SPI in state r.
LEMMA TransferKeeps ==
  ASSUME NEW s, NEW r, Good(dma, {}), Set(dma), Fits(dma, s), s.up = S!Requested(s), r.up = S!Requested(r), SameMode(r, s),
         NEW c \in {Tx, Rx}, c \in dma.alarm,
         c = Tx => (s.rx # <<>> => r.rx # <<>>),
         c = Rx => (~ S!Full(s.tx) => ~ S!Full(r.tx)),
         dma' = Counted(RequestsAre([dma EXCEPT !.alarm = @ \ {c}], r.up), c)
  PROVE  /\ Good(dma', {}) /\ Set(dma') /\ Fits(dma', r)
         /\ dma'.asked = dma.asked /\ dma'.moved = [dma.moved EXCEPT ![c] = dma.moved[c] + 1]
         /\ dma.alarm \ {c} \subseteq dma'.alarm
<1> DEFINE d == [dma EXCEPT !.alarm = dma.alarm \ {c}]
           f == RequestsAre(d, r.up)
<1>1. dma \in State /\ Active(dma, c) /\ c \in Channels
  BY DEF Good, State
<1>2. /\ dma.asked[Rx] # 0 /\ dma.ctrl[c].chain = c
      /\ dma.ctrl[c].treq = (IF c = Tx THEN 16 ELSE 17) /\ (dma.ctrl[c].quiet <=> c = Tx)
  BY <1>1, ActiveIs
<1>3. dma.ctrl[c].treq \notin r.up \ s.up
  BY <1>2, RequestMeans, Ends DEF Fits, SameMode
<1>4. r.up \in SUBSET Requests
  BY RequestMeans
<1>5. /\ d.ctrl = dma.ctrl /\ d.timer = dma.timer /\ d.raw = dma.raw /\ d.busy = dma.busy
      /\ d.asked = dma.asked /\ d.up = dma.up /\ d.count = dma.count /\ d.moved = dma.moved
      /\ d.alarm = dma.alarm \ {c}
      /\ d \in State
  BY <1>1 DEF State
<1>6. Good(dma', {})
  <2>1. d.ctrl[c].treq \notin r.up \ d.up
    BY <1>3, <1>5 DEF Fits
  <2>2. Transfer(c)
    BY <1>4, <2>1 DEF Transfer
  <2> QED BY <1>1, <2>2, TransferIsGood
<1> HIDE DEF d
<1>7. /\ f.ctrl = d.ctrl /\ f.asked = d.asked /\ f.moved = d.moved /\ f.busy = d.busy /\ f.raw = d.raw
      /\ f.count = d.count /\ f.timer = d.timer /\ f.up = r.up
      /\ f.alarm = d.alarm \cup {k \in Channels : Active(d, k) /\ d.ctrl[k].treq \in r.up \ d.up}
  BY <1>5, RequestsAreIs
<1>8. f \in State
  <2>1. f = [d EXCEPT !.up = r.up, !.alarm = f.alarm]
    BY <1>5, <1>7 DEF RequestsAre, State
  <2>2. f.alarm \in SUBSET Channels
    BY <1>5, <1>7 DEF State
  <2> QED BY <1>4, <1>5, <2>1, <2>2 DEF State
<1>9. dma.count[c] \in Nat /\ dma.count[c] > 0 /\ dma.moved[c] \in Nat /\ dma.moved[c] + dma.count[c] = Length
  BY ArmedHasWords
<1>10. dma' = Counted(f, c)
  BY DEF d
<1> HIDE DEF f
<1>16. f.ctrl[c].chain = c /\ f.count[c] > 0
  BY <1>2, <1>5, <1>7, <1>9
<1>11. /\ dma'.ctrl = f.ctrl /\ dma'.asked = f.asked /\ dma'.up = f.up
       /\ dma'.moved = [f.moved EXCEPT ![c] = f.moved[c] + 1]
       /\ f.alarm \subseteq dma'.alarm /\ dma'.alarm \subseteq f.alarm \cup {c}
       /\ c \in dma'.alarm => c \in f.alarm \/ Asks(f, f.ctrl[c].treq)
       /\ dma'.busy \subseteq f.busy
       /\ dma'.raw = f.raw \/ (~ f.ctrl[c].quiet /\ f.count[c] = 1)
  <2> DEFINE g == Counted(f, c)
  <2>1. /\ g.ctrl = f.ctrl /\ g.asked = f.asked /\ g.up = f.up
        /\ g.moved = [f.moved EXCEPT ![c] = f.moved[c] + 1]
        /\ f.alarm \subseteq g.alarm /\ g.alarm \subseteq f.alarm \cup {c}
        /\ c \in g.alarm => c \in f.alarm \/ Asks(f, f.ctrl[c].treq)
        /\ g.busy \subseteq f.busy
        /\ g.raw = f.raw \/ (~ f.ctrl[c].quiet /\ f.count[c] = 1)
    BY <1>1, <1>8, <1>16, CountedIs
  <2> HIDE DEF g
  <2>2. dma' = g
    BY <1>10 DEF g
  <2> QED BY <2>1, <2>2
<1>12. dma'.moved[c] = dma.moved[c] + 1 /\ \A k \in {Tx, Rx} \ {c} : dma'.moved[k] = dma.moved[k]
  <2>1. dma'.moved = [dma.moved EXCEPT ![c] = dma.moved[c] + 1]
    BY <1>5, <1>7, <1>11
  <2>2. dma.moved \in [Channels -> Counts] /\ Tx \in Channels /\ Rx \in Channels
    BY <1>1, Ends DEF State
  <2> QED BY <1>1, <2>1, <2>2
<1>13. Set(dma')
  <2>1. dma'.busy \subseteq {Tx, Rx}
    BY <1>5, <1>7, <1>11 DEF Set
  <2>2. dma'.asked[Rx] # 0 /\ dma'.asked[Rx] = Length /\ dma'.asked[Tx] = Length
        /\ dma'.ctrl[Rx] = RxCtrl /\ dma'.ctrl[Tx] \in {TxCtrl, [TxCtrl EXCEPT !.en = FALSE]}
    <3>1. dma'.asked = dma.asked /\ dma'.ctrl = dma.ctrl
      BY <1>5, <1>7, <1>11
    <3> QED BY <1>2, <3>1 DEF Set
  <2>3. ASSUME dma'.raw # {} PROVE dma'.moved[Rx] = Length
    <3>1. CASE c = Tx
      <4>1. dma.raw # {}
        BY <1>2, <1>5, <1>7, <1>11, <2>3, <3>1
      <4> QED BY <1>12, <3>1, <4>1, Ends DEF Set
    <3>2. CASE c = Rx
      <4>1. dma.raw = {}
        BY <1>9, <3>2, SpiDmaAssumption DEF Set
      <4>2. dma.count[c] = 1
        BY <1>5, <1>7, <1>11, <2>3, <4>1
      <4> QED BY <1>9, <1>12, <3>2, <4>2
    <3> QED BY <3>1, <3>2
  <2> QED BY <2>1, <2>2, <2>3 DEF Set
<1>14. Fits(dma', r)
  <2>1. \A k \in Channels : Active(dma, k) => dma.ctrl[k].treq = (IF k = Tx THEN 16 ELSE 17)
    BY ActiveIs
  <2>2. \A k \in f.alarm : (k \in dma.alarm /\ k # c) \/ (k = Tx /\ 16 \in r.up) \/ (k # Tx /\ 17 \in r.up)
    BY <1>5, <1>7, <2>1 DEF Active
  <2>3. Asks(f, f.ctrl[c].treq) => (c = Tx /\ 16 \in r.up) \/ (c # Tx /\ 17 \in r.up)
    BY <1>2, <1>5, <1>7 DEF Asks, Permanent, Timer
  <2>4. \A k \in dma'.alarm : (k \in dma.alarm /\ k # c) \/ (k = Tx /\ 16 \in r.up) \/ (k # Tx /\ 17 \in r.up)
    BY <1>11, <2>2, <2>3
  <2>5. Tx \in dma'.alarm => r.sse /\ r.dmacr # {} /\ ~ S!Full(r.tx)
    BY <2>4, RequestMeans, Ends DEF Fits, SameMode
  <2>6. Rx \in dma'.alarm => r.rx # <<>>
    BY <2>4, RequestMeans, Ends DEF Fits
  <2> QED BY <1>7, <1>11, <2>5, <2>6 DEF Fits
<1> QED BY <1>5, <1>6, <1>7, <1>11, <1>13, <1>14, ZenonT(30)

-----------------------------------------------------------------------------
(* The invariant of the transfer, and its steps.                           *)

Sent == dma.moved[Tx]
Got == dma.moved[Rx]

\* The receive channel has still to run in this cycle.
Waits == IF Rx \in due THEN 1 ELSE 0

\* An answer may come to the receive FIFO before the next cycle.
Deliverable == IF spi.timed THEN spi.busy /\ (spi.frame => left = 0) ELSE Tx \in due

\* A cycle brings one answer at most, and takes one out if there was one: that is why no FIFO
\* of two entries or more is ever found full.
Paced ==
  /\ Len(spi.rx) <= 1 + Waits
  /\ Deliverable => Len(spi.rx) <= Waits

Enabled ==
  /\ spi.dmacr \in {{}, {16, 17}}
  /\ Sent # 0 => spi.sse /\ spi.dmacr # {}

Memory == mem \in Seq(Word) /\ Len(mem) = Got

SInv ==
  /\ Good(dma, {}) /\ Set(dma) /\ Fits(dma, spi)
  /\ Orderly(spi, Got, Sent)
  /\ Enabled /\ Memory /\ Paced /\ Len(spi.tx) <= FifoDepth
  /\ due \subseteq dma.alarm /\ left \in Nat

\* What most steps take from the invariant.
LEMMA InvFacts ==
  ASSUME SInv
  PROVE  /\ dma \in State /\ Got \in Nat /\ Sent \in Nat
         /\ Sound(spi) /\ spi.up = S!Requested(spi) /\ Len(spi.rx) \in Nat /\ Len(spi.tx) \in Nat
         /\ spi.rx \in Seq(Word) /\ spi.tx \in Seq(Word) /\ FifoDepth \in Nat /\ FifoDepth >= 2
<1>1. dma \in State /\ Sound(spi) /\ spi.up = S!Requested(spi)
  BY DEF SInv, Good, Orderly
<1>2. Got \in Nat /\ Sent \in Nat
  BY <1>1, Ends, DmaAssumption DEF State, Counts, Got, Sent
<1>3. FifoDepth \in Nat /\ FifoDepth >= 2
  BY SpiDmaAssumption
<1> QED BY <1>1, <1>2, <1>3, FlyIs

\* Room for an answer that may come now.
LEMMA RoomForAnswer ==
  ASSUME SInv, Deliverable
  PROVE  ~ S!Full(spi.rx)
<1> DEFINE r == Len(spi.rx)
<1>1. r \in Nat /\ r <= Waits /\ FifoDepth >= 2 /\ FifoDepth \in Nat
  BY InvFacts DEF SInv, Paced
<1>2. Waits \in {0, 1}
  BY DEF Waits
<1> HIDE DEF r
<1>3. r # FifoDepth
  BY <1>1, <1>2
<1> QED BY <1>3 DEF S!Full, r

\* What Timed means: a frame that begins lasts to the next cycle at least.
LEMMA TimedIs ==
  ASSUME NEW s, NEW running, left \in Nat, Timed(s, running)
  PROVE  left' \in Nat /\ (IF s.frame /\ ~ running THEN left' # 0 ELSE left' = left)
BY SpiDmaAssumption DEF Timed

\* A step that leaves the receive FIFO to the same cycle.
LEMMA PacedKeeps ==
  ASSUME SInv, Len(spi'.rx) = Len(spi.rx), Rx \in due' <=> Rx \in due, Deliverable' => Deliverable
  PROVE  Paced'
<1>1. Waits' = Waits
  BY DEF Waits
<1> QED BY <1>1 DEF SInv, Paced

\* A step that brings an answer.
LEMMA PacedDelivers ==
  ASSUME SInv, Len(spi'.rx) = Len(spi.rx) + 1, Rx \in due' <=> Rx \in due, Deliverable, ~ Deliverable'
  PROVE  Paced'
<1> DEFINE r == Len(spi.rx)
           n == Len(spi'.rx)
<1>1. Waits' = Waits /\ Waits \in {0, 1}
  BY DEF Waits
<1>2. r \in Nat /\ r <= Waits /\ n = r + 1
  BY InvFacts DEF SInv, Paced
<1> HIDE DEF r, n
<1>3. n <= 1 + Waits'
  BY <1>1, <1>2
<1> QED BY <1>3 DEF Paced, n

\* The transmit channel: without a bit clock its word brings an answer at once, so it may run
\* but once a cycle.
LEMMA TransmitWordKeeps ==
  ASSUME SInv, TransmitWord
  PROVE  SInv'
<1>1. /\ Tx \in due /\ Tx \in dma.alarm /\ spi' = S!DrWritten(spi, Sent + 1)
      /\ dma' = Counted(RequestsAre([dma EXCEPT !.alarm = @ \ {Tx}], spi'.up), Tx)
      /\ Timed(spi', spi.frame) /\ due' = due \ {Tx} /\ mem' = mem
  BY DEF TransmitWord, InTransfer, StillDue, Sent
<1>2. /\ Good(dma, {}) /\ Set(dma) /\ Fits(dma, spi) /\ Orderly(spi, Got, Sent)
      /\ spi.sse /\ spi.dmacr # {} /\ ~ S!Full(spi.tx) /\ left \in Nat
  BY <1>1 DEF SInv, Fits
<1>3. Sent + 1 \in Word
  BY <1>1, <1>2, ArmedHasWords DEF Sent, Word
<1>4. spi.timed \/ ~ S!Full(spi.rx)
  BY <1>1, RoomForAnswer DEF Deliverable
<1>5. /\ Orderly(spi', Got, Sent + 1) /\ SameMode(spi', spi)
      /\ Len(spi'.rx) = Len(spi.rx) + (IF spi.timed THEN 0 ELSE 1) /\ Len(spi'.tx) <= Len(spi.tx) + 1
      /\ spi.busy => spi'.frame = spi.frame /\ spi'.busy
      /\ ~ spi.busy => (spi'.busy <=> spi'.frame)
  BY <1>1, <1>2, <1>3, <1>4, InvFacts, DrWrittenKeeps
<1>6. spi.rx # <<>> => spi'.rx # <<>>
  <2> DEFINE r == Len(spi.rx)
             n == Len(spi'.rx)
  <2>1. r \in Nat /\ n \in Nat /\ (r = 0 <=> spi.rx = <<>>) /\ (n = 0 <=> spi'.rx = <<>>)
    BY <1>5, InvFacts, FlyIs, Fifos DEF Orderly
  <2>2. n = r + (IF spi.timed THEN 0 ELSE 1)
    BY <1>5
  <2> HIDE DEF r, n
  <2> QED BY <2>1, <2>2
<1>7. /\ Good(dma', {}) /\ Set(dma') /\ Fits(dma', spi')
      /\ dma'.moved = [dma.moved EXCEPT ![Tx] = dma.moved[Tx] + 1]
      /\ dma.alarm \ {Tx} \subseteq dma'.alarm
  <2>1. spi'.up = S!Requested(spi') /\ spi.up = S!Requested(spi) /\ Tx \in {Tx, Rx} /\ Tx # Rx
    BY <1>2, <1>5, Ends DEF Orderly
  <2> QED BY <1>1, <1>2, <1>5, <1>6, <2>1, TransferKeeps, ZenonT(30)
<1>8. Sent' = Sent + 1 /\ Got' = Got
  <2>1. dma.moved \in [Channels -> Counts]
    BY InvFacts DEF State
  <2> QED BY <1>7, <2>1, Ends DEF Sent, Got
<1>9. Orderly(spi', Got', Sent') /\ Enabled' /\ Memory'
  BY <1>1, <1>2, <1>5, <1>8 DEF Enabled, Memory, SameMode, SInv
<1>10. left' \in Nat /\ (IF spi'.frame /\ ~ spi.frame THEN left' # 0 ELSE left' = left)
  BY <1>1, <1>2, TimedIs
<1>11. (Rx \in due' <=> Rx \in due) /\ Tx \notin due' /\ due' \subseteq dma'.alarm
  BY <1>1, <1>7, Ends DEF SInv
<1>12. spi'.timed = spi.timed
  BY <1>5 DEF SameMode
<1>13. Paced'
  <2>1. CASE spi.timed
    <3>1. Deliverable' => Deliverable
      BY <1>5, <1>10, <1>12, <2>1, InvFacts DEF Deliverable, Sound
    <3>2. Len(spi'.rx) = Len(spi.rx)
      BY <1>5, <2>1, InvFacts
    <3> QED BY <1>11, <3>1, <3>2, PacedKeeps
  <2>2. CASE ~ spi.timed
    <3>1. Deliverable /\ ~ Deliverable'
      BY <1>1, <1>11, <1>12, <2>2 DEF Deliverable
    <3>2. Len(spi'.rx) = Len(spi.rx) + 1
      BY <1>5, <2>2
    <3> QED BY <1>11, <3>1, <3>2, PacedDelivers
  <2> QED BY <2>1, <2>2
<1>14. Len(spi'.tx) <= FifoDepth
  <2> DEFINE t == Len(spi.tx)
             m == Len(spi'.tx)
  <2>1. t \in Nat /\ m \in Nat /\ FifoDepth \in Nat /\ t <= FifoDepth /\ t # FifoDepth /\ m <= t + 1
    BY <1>2, <1>5, InvFacts, FlyIs DEF SInv, S!Full, Orderly
  <2> HIDE DEF t, m
  <2>2. m <= FifoDepth
    BY <2>1
  <2> QED BY <2>2 DEF m
<1> QED BY <1>7, <1>9, <1>10, <1>11, <1>13, <1>14 DEF SInv

\* The receive channel: the word it moves is the next answer.
LEMMA ReceiveWordKeeps ==
  ASSUME SInv, ReceiveWord
  PROVE  SInv' /\ E!Answer
<1>1. /\ Rx \in due /\ Rx \in dma.alarm /\ spi' = S!DrRead(spi)
      /\ mem' = Append(mem, IF spi.rx = <<>> THEN 0 ELSE Head(spi.rx))
      /\ dma' = Counted(RequestsAre([dma EXCEPT !.alarm = @ \ {Rx}], spi'.up), Rx)
      /\ due' = due \ {Rx} /\ left' = left
  BY DEF ReceiveWord, InTransfer, StillDue
<1>2. /\ Good(dma, {}) /\ Set(dma) /\ Fits(dma, spi) /\ Orderly(spi, Got, Sent)
      /\ spi.rx # <<>> /\ left \in Nat /\ mem \in Seq(Word) /\ Len(mem) = Got
  BY <1>1 DEF SInv, Fits, Memory
<1>3. Got + 1 \in Word
  BY <1>1, <1>2, ArmedHasWords DEF Got, Word
<1>4. /\ Orderly(spi', Got + 1, Sent) /\ SameMode(spi', spi) /\ Head(spi.rx) = Got + 1
      /\ Len(spi'.rx) = Len(spi.rx) - 1 /\ spi'.tx = spi.tx /\ spi'.busy = spi.busy /\ spi'.frame = spi.frame
  BY <1>1, <1>2, InvFacts, DrReadKeeps
<1>5. /\ Good(dma', {}) /\ Set(dma') /\ Fits(dma', spi')
      /\ dma'.moved = [dma.moved EXCEPT ![Rx] = dma.moved[Rx] + 1]
      /\ dma.alarm \ {Rx} \subseteq dma'.alarm
  <2>1. spi'.up = S!Requested(spi') /\ spi.up = S!Requested(spi) /\ Rx \in {Tx, Rx} /\ Tx # Rx
    BY <1>2, <1>4, Ends DEF Orderly
  <2>2. ~ S!Full(spi.tx) => ~ S!Full(spi'.tx)
    BY <1>4
  <2> QED BY <1>1, <1>2, <1>4, <2>1, <2>2, TransferKeeps
<1>6. Sent' = Sent /\ Got' = Got + 1
  <2>1. dma.moved \in [Channels -> Counts]
    BY InvFacts DEF State
  <2> QED BY <1>5, <2>1, Ends DEF Sent, Got
<1>7. mem' = Append(mem, Got + 1)
  BY <1>1, <1>2, <1>4
<1>8. Memory'
  BY <1>2, <1>3, <1>6, <1>7, Fifos DEF Memory
<1>9. Orderly(spi', Got', Sent') /\ Enabled'
  BY <1>2, <1>4, <1>6 DEF Enabled, SameMode, SInv
<1>10. Rx \notin due' /\ (Tx \in due' <=> Tx \in due) /\ due' \subseteq dma'.alarm
  BY <1>1, <1>5, Ends DEF SInv
<1>11. Paced'
  <2> DEFINE r == Len(spi.rx)
             n == Len(spi'.rx)
  <2>1. Waits = 1 /\ Waits' = 0
    BY <1>1, <1>10 DEF Waits
  <2>2. Deliverable' <=> Deliverable
    BY <1>1, <1>4, <1>10 DEF Deliverable, SameMode
  <2>3. r \in Nat /\ n = r - 1 /\ r <= 1 + 1 /\ (Deliverable => r <= 1)
    BY <1>4, <2>1, InvFacts DEF SInv, Paced
  <2> HIDE DEF r, n
  <2>4. n <= 1 + Waits' /\ (Deliverable' => n <= Waits')
    BY <2>1, <2>2, <2>3
  <2> QED BY <2>4 DEF Paced, n
<1>12. E!Answer
  <2>1. Len(mem) < Length
    BY <1>2, <1>3, InvFacts, SpiDmaAssumption DEF Word
  <2> QED BY <1>2, <1>7, <2>1 DEF E!Answer
<1>13. Len(spi'.tx) <= FifoDepth
  BY <1>4 DEF SInv
<1> QED BY <1>1, <1>2, <1>5, <1>8, <1>9, <1>10, <1>11, <1>12, <1>13 DEF SInv

\* The SPI changes by itself or by the program: the words keep their order, an answer may come.
LEMMA PublishedStep ==
  ASSUME SInv, Published, UNCHANGED <<mem, due>>, left' \in Nat,
         Orderly(spi', Got, Sent), spi.sse => spi'.sse, spi'.dmacr \in {spi.dmacr, {16, 17}},
         Len(spi'.tx) <= Len(spi.tx), Len(spi'.rx) >= Len(spi.rx), Paced'
  PROVE  SInv'
<1>1. /\ Good(dma, {}) /\ Set(dma) /\ Fits(dma, spi) /\ dma' = RequestsAre(dma, spi'.up)
      /\ spi'.up = S!Requested(spi') /\ due \subseteq dma.alarm
  BY DEF SInv, Published, Orderly
<1>2. spi.dmacr # {} => spi'.dmacr # {}
  OBVIOUS
<1>3. /\ ~ S!Full(spi.tx) => ~ S!Full(spi'.tx)
      /\ spi.rx # <<>> => spi'.rx # <<>>
      /\ Len(spi'.tx) <= FifoDepth
  <2> DEFINE r == Len(spi.rx)
             n == Len(spi'.rx)
             t == Len(spi.tx)
             m == Len(spi'.tx)
  <2>1. /\ r \in Nat /\ n \in Nat /\ t \in Nat /\ m \in Nat /\ FifoDepth \in Nat
        /\ (r = 0 <=> spi.rx = <<>>) /\ (n = 0 <=> spi'.rx = <<>>)
    BY InvFacts, FlyIs, Fifos DEF Orderly
  <2>2. t <= FifoDepth /\ m <= t /\ n >= r
    BY DEF SInv
  <2>3. (S!Full(spi.tx) <=> t = FifoDepth) /\ (S!Full(spi'.tx) <=> m = FifoDepth)
    BY DEF S!Full
  <2> HIDE DEF r, n, t, m
  <2>4. (t # FifoDepth => m # FifoDepth) /\ m <= FifoDepth /\ (r # 0 => n # 0)
    BY <2>1, <2>2
  <2> QED BY <2>1, <2>3, <2>4 DEF m
<1>4. /\ Good(dma', {}) /\ Set(dma') /\ Fits(dma', spi') /\ dma'.moved = dma.moved
      /\ dma.alarm \subseteq dma'.alarm
  BY <1>1, <1>2, <1>3, PublishedKeeps
<1>5. Got' = Got /\ Sent' = Sent
  BY <1>4 DEF Got, Sent
<1>6. Enabled' /\ Memory'
  BY <1>2, <1>5 DEF SInv, Enabled, Memory
<1> QED BY <1>1, <1>3, <1>4, <1>5, <1>6 DEF SInv

\* A frame ends: with it an answer comes, unless the device is late.
LEMMA FrameDoneKeeps ==
  ASSUME SInv, FrameDone
  PROVE  SInv'
<1>1. /\ spi.frame /\ left = 0 /\ spi' = S!FrameEnded(spi) /\ Published /\ Timed(spi', FALSE)
      /\ UNCHANGED <<mem, due>>
  BY DEF FrameDone
<1>2. Orderly(spi, Got, Sent) /\ Sound(spi) /\ spi.timed /\ spi.busy /\ left \in Nat
  BY <1>1 DEF SInv, Orderly, Sound
<1>3. Deliverable
  BY <1>1, <1>2 DEF Deliverable
<1>4. /\ Orderly(spi', Got, Sent) /\ SameMode(spi', spi) /\ Len(spi'.tx) <= Len(spi.tx)
      /\ \/ spi'.rx = spi.rx /\ ~ spi'.frame
         \/ Len(spi'.rx) = Len(spi.rx) + 1 /\ (spi'.busy <=> spi'.frame)
  BY <1>1, <1>2, <1>3, RoomForAnswer, InvFacts, FrameEndedKeeps
<1>5. left' \in Nat /\ (spi'.frame => left' # 0)
  BY <1>1, <1>2, TimedIs
<1>6. Paced' /\ Len(spi'.rx) >= Len(spi.rx)
  <2>1. CASE spi'.rx = spi.rx
    BY <1>1, <1>3, <2>1, PacedKeeps, InvFacts
  <2>2. CASE Len(spi'.rx) = Len(spi.rx) + 1 /\ (spi'.busy <=> spi'.frame)
    <3>1. ~ Deliverable'
      BY <1>2, <1>4, <1>5, <2>2 DEF Deliverable, SameMode
    <3>2. Len(spi'.rx) >= Len(spi.rx)
      BY <2>2, InvFacts
    <3> QED BY <1>1, <1>3, <2>2, <3>1, <3>2, PacedDelivers
  <2> QED BY <1>4, <2>1, <2>2
<1> QED BY <1>1, <1>4, <1>5, <1>6, PublishedStep DEF SameMode

\* The device answers: the answer waits for the end of the frame, or comes.
LEMMA DeviceAnswersKeeps ==
  ASSUME SInv, DeviceAnswers
  PROVE  SInv'
<1>1. /\ spi.owes # <<>> /\ spi' = S!Answered(spi) /\ Published /\ Timed(spi', spi.frame)
      /\ UNCHANGED <<mem, due>>
  BY DEF DeviceAnswers
<1>2. Orderly(spi, Got, Sent) /\ Sound(spi) /\ spi.timed /\ spi.busy /\ left \in Nat
  BY <1>1 DEF SInv, Orderly, Sound
<1>3. ~ spi.frame => Deliverable
  BY <1>2 DEF Deliverable
<1>4. /\ Orderly(spi', Got, Sent) /\ SameMode(spi', spi) /\ Len(spi'.tx) <= Len(spi.tx)
      /\ \/ spi.frame /\ spi'.frame /\ spi'.rx = spi.rx
         \/ ~ spi.frame /\ Len(spi'.rx) = Len(spi.rx) + 1 /\ (spi'.busy <=> spi'.frame)
  BY <1>1, <1>2, <1>3, RoomForAnswer, InvFacts, AnsweredKeeps
<1>5. left' \in Nat /\ (IF spi'.frame /\ ~ spi.frame THEN left' # 0 ELSE left' = left)
  BY <1>1, <1>2, TimedIs
<1>6. Paced' /\ Len(spi'.rx) >= Len(spi.rx)
  <2>1. CASE spi.frame /\ spi'.frame /\ spi'.rx = spi.rx
    <3>1. Deliverable' => Deliverable
      BY <1>2, <1>4, <1>5, <2>1 DEF Deliverable, SameMode
    <3> QED BY <1>1, <2>1, <3>1, PacedKeeps, InvFacts
  <2>2. CASE ~ spi.frame /\ Len(spi'.rx) = Len(spi.rx) + 1 /\ (spi'.busy <=> spi'.frame)
    <3>1. ~ Deliverable'
      BY <1>2, <1>4, <1>5, <2>2 DEF Deliverable, SameMode
    <3>2. Len(spi'.rx) >= Len(spi.rx)
      BY <2>2, InvFacts
    <3> QED BY <1>1, <1>3, <2>2, <3>1, <3>2, PacedDelivers
  <2> QED BY <1>4, <2>1, <2>2
<1> QED BY <1>1, <1>4, <1>5, <1>6, PublishedStep DEF SameMode

\* A word that has come is asked for: the receive channel is armed before the next cycle.
LEMMA AnswersAreAskedFor ==
  ASSUME SInv, spi.rx # <<>>
  PROVE  Rx \in dma.alarm
<1> DEFINE r == Len(spi.rx)
           f == Len(Fly(spi))
           t == Len(spi.tx)
           count == dma.count[Rx]
<1>1. Good(dma, {}) /\ Set(dma) /\ Fits(dma, spi) /\ Orderly(spi, Got, Sent) /\ Enabled
  BY DEF SInv
<1>2. /\ Got + r + f + t = Sent /\ Got \in Nat /\ Sent \in Nat /\ r \in Nat /\ f \in Nat /\ t \in Nat /\ r # 0
  BY <1>1, InvFacts, FlyIs, Fifos DEF Orderly, Holds
<1>3. /\ Sent + dma.count[Tx] = dma.asked[Tx] /\ Got + count = dma.asked[Rx]
      /\ dma.count[Tx] \in Nat /\ count \in Nat /\ (Rx \in dma.busy <=> count > 0)
  BY <1>1, InvFacts, Ends, DmaAssumption DEF Good, Exact, Sent, Got, State, Counts
<1> HIDE DEF r, f, t, count
<1>4. Sent # 0
  BY <1>2
<1>5. dma.asked[Rx] = Length /\ dma.asked[Tx] = Length /\ dma.ctrl[Rx] = RxCtrl
  BY <1>1, <1>4 DEF Set, Sent
<1>6. count > 0
  BY <1>2, <1>3, <1>5
<1>7. Active(dma, Rx) /\ dma.ctrl[Rx].treq = 17
  BY <1>3, <1>5, <1>6, Ends DEF Active, RxCtrl
<1>8. 17 \in dma.up
  <2>1. spi.sse /\ spi.dmacr = {16, 17}
    BY <1>1, <1>4 DEF Enabled
  <2> QED BY <1>1, <2>1, RequestMeans DEF Fits, Orderly
<1> QED BY <1>1, <1>7, <1>8, Ends DEF Good, Armed

\* The next cycle: by AnswersAreAskedFor the receive channel takes out what has come.
LEMMA CycleKeeps ==
  ASSUME SInv, Cycle
  PROVE  SInv'
<1>1. /\ due \cap dma.alarm = {} /\ ~ (spi.frame /\ left = 0) /\ due' = dma.alarm
      /\ left' = (IF spi.frame THEN left - 1 ELSE 0) /\ UNCHANGED <<dma, spi, mem>>
  BY DEF Cycle
<1>2. due = {} /\ left \in Nat
  BY <1>1 DEF SInv
<1>3. left' \in Nat
  BY <1>1, <1>2
<1>4. Paced'
  <2> DEFINE r == Len(spi.rx)
  <2>1. r \in Nat /\ r <= 1 + 0 /\ (r = 0 <=> spi.rx = <<>>)
    BY <1>2, InvFacts, Fifos DEF SInv, Paced, Waits
  <2>2. Waits' \in {0, 1} /\ (spi.rx # <<>> => Waits' = 1)
    BY <1>1, AnswersAreAskedFor DEF Waits
  <2> DEFINE w == Waits'
  <2>4. w \in {0, 1} /\ (r # 0 => w = 1) /\ r \in Nat /\ r <= 1
    BY <2>1, <2>2
  <2> HIDE DEF r, w
  <2>5. r <= w /\ r <= 1 + w
    BY <2>4
  <2>3. r <= Waits' /\ r <= 1 + Waits'
    BY <2>5 DEF w
  <2> QED BY <1>1, <2>3 DEF Paced, r
<1>5. Got' = Got /\ Sent' = Sent
  BY <1>1 DEF Got, Sent
<1>6. Enabled' /\ Memory'
  BY <1>1, <1>5 DEF SInv, Enabled, Memory
<1> QED BY <1>1, <1>3, <1>4, <1>5, <1>6 DEF SInv

\* The program's two enables.
LEMMA EnableSpiKeeps ==
  ASSUME SInv, EnableSpi
  PROVE  SInv'
<1>1. /\ ~ spi.sse /\ spi' = S!Cr1Written(spi, TRUE, FALSE) /\ Published
      /\ mem' = mem /\ due' = due /\ left' = left
  BY DEF EnableSpi
<1>2. Orderly(spi, Got, Sent) /\ Got \in Nat /\ Sent \in Nat /\ left \in Nat
  BY InvFacts DEF SInv
<1>3. /\ Orderly(spi', Got, Sent) /\ spi'.sse /\ spi'.dmacr = spi.dmacr /\ spi'.timed = spi.timed
      /\ SameWords(spi', spi)
  BY <1>1, <1>2, EnablesKeep
<1>4. Len(spi'.tx) <= Len(spi.tx) /\ Len(spi'.rx) >= Len(spi.rx) /\ spi'.rx = spi.rx
  BY <1>3, InvFacts DEF SameWords
<1>5. Paced'
  <2>1. Deliverable' => Deliverable
    BY <1>1, <1>3 DEF Deliverable, SameWords
  <2> QED BY <1>1, <1>4, <2>1, PacedKeeps
<1> QED BY <1>1, <1>2, <1>3, <1>4, <1>5, PublishedStep

LEMMA EnableRequestsKeeps ==
  ASSUME SInv, EnableRequests
  PROVE  SInv'
<1>1. /\ spi' = S!DmacrWritten(spi, {16, 17}) /\ Published
      /\ mem' = mem /\ due' = due /\ left' = left
  BY Ends DEF EnableRequests
<1>2. Orderly(spi, Got, Sent) /\ Got \in Nat /\ Sent \in Nat /\ left \in Nat
  BY InvFacts DEF SInv
<1>3. /\ Orderly(spi', Got, Sent) /\ spi'.sse = spi.sse /\ spi'.timed = spi.timed
      /\ SameWords(spi', spi)
  BY <1>1, <1>2, EnablesKeep
<1>4. Len(spi'.tx) <= Len(spi.tx) /\ Len(spi'.rx) >= Len(spi.rx) /\ spi'.rx = spi.rx
  BY <1>3, InvFacts DEF SameWords
<1>5. Paced'
  <2>1. Deliverable' => Deliverable
    BY <1>1, <1>3 DEF Deliverable, SameWords
  <2> QED BY <1>1, <1>4, <2>1, PacedKeeps
<1>6. spi'.dmacr = {16, 17}
  <2>1. spi \in SpiState
    BY <1>2 DEF Orderly, Sound
  <2> QED BY <1>1, <2>1 DEF S!DmacrWritten, S!UpdateDma, SpiState
<1> QED BY <1>1, <1>2, <1>3, <1>4, <1>5, <1>6, PublishedStep

\* The program's accesses to the controller leave the SPI and the memory alone.
LEMMA DriverStep ==
  ASSUME SInv, UNCHANGED <<spi, mem, left>>, Good(dma', {}), Set(dma'), Fits(dma', spi),
         Sent' = Sent, Got' = Got, due' \subseteq due, due' \subseteq dma'.alarm, Rx \in due' <=> Rx \in due
  PROVE  SInv'
<1>1. Paced'
  <2>1. Waits' = Waits
    BY DEF Waits
  <2>2. Deliverable' => Deliverable
    BY DEF Deliverable
  <2> QED BY <2>1, <2>2 DEF SInv, Paced
<1>2. Enabled' /\ Memory'
  BY DEF SInv, Enabled, Memory
<1> QED BY <1>1, <1>2 DEF SInv

\* Nothing is armed before the trigger.
LEMMA NotBegun ==
  ASSUME SInv, ~ Begun
  PROVE  /\ dma.busy = {} /\ dma.alarm = {} /\ due = {} /\ dma.raw = {}
         /\ Sent = 0 /\ Got = 0
<1>1. dma.busy = {} /\ dma.raw = {} /\ Sent = 0 /\ Got = 0
  BY DEF SInv, Set, Begun, Sent, Got
<1>2. dma.alarm = {}
  BY <1>1 DEF SInv, Good, Active
<1> QED BY <1>1, <1>2 DEF SInv

\* A reset of the controller keeps the requests, so it still fits the SPI.
LEMMA ResetDmaKeeps ==
  ASSUME SInv, ResetDma
  PROVE  SInv'
<1>1. ~ Begun /\ dma' = Clear(dma.up) /\ UNCHANGED <<spi, mem, due, left>>
  BY DEF ResetDma, Reset
<1>2. due = {} /\ Sent = 0 /\ Got = 0
  BY <1>1, NotBegun
<1>3. /\ dma'.busy = {} /\ dma'.alarm = {} /\ dma'.raw = {} /\ dma'.up = dma.up
      /\ dma'.asked[Rx] = 0 /\ dma'.moved[Rx] = 0 /\ dma'.moved[Tx] = 0
  BY <1>1, Ends DEF Clear
<1>4. Good(dma', {})
  BY <1>1, InvFacts, ClearIsGood DEF State
<1>5. Set(dma') /\ Fits(dma', spi)
  BY <1>3 DEF Set, Fits, SInv
<1>6. Sent' = Sent /\ Got' = Got
  BY <1>2, <1>3 DEF Sent, Got
<1> QED BY <1>1, <1>2, <1>4, <1>5, <1>6, DriverStep

\* The trigger arms the channels whose requests are up already.
LEMMA StartTransferKeeps ==
  ASSUME SInv, StartTransfer
  PROVE  SInv'
<1> DEFINE ctrl == [[dma.ctrl EXCEPT ![Tx] = TxCtrl] EXCEPT ![Rx] = RxCtrl]
           reload == [[dma.reload EXCEPT ![Tx] = Length] EXCEPT ![Rx] = Length]
           d == [dma EXCEPT !.ctrl = ctrl, !.reload = reload]
           e == Started(d, {Tx, Rx})
<1>1. ~ Begun /\ UNCHANGED <<spi, mem, due, left>>
  BY DEF StartTransfer
<1>2. dma \in State
  BY InvFacts
<1>3. dma' = e
  <2>1. [dma EXCEPT !.ctrl[Tx] = TxCtrl, !.ctrl[Rx] = RxCtrl, !.reload[Tx] = Length, !.reload[Rx] = Length] = d
    BY <1>2 DEF State
  <2> QED BY <2>1 DEF StartTransfer
<1>4. dma.busy = {} /\ dma.alarm = {} /\ due = {} /\ dma.raw = {} /\ Sent = 0 /\ Got = 0
  BY <1>1, NotBegun
<1>5. /\ ctrl \in [Channels -> Ctrl] /\ ctrl[Tx] = TxCtrl /\ ctrl[Rx] = RxCtrl
      /\ reload \in [Channels -> Counts] /\ reload[Tx] = Length /\ reload[Rx] = Length
      /\ Length \in Nat /\ Length # 0
  <2>1. Length \in Counts /\ Length \in Nat /\ Length # 0
    BY SpiDmaAssumption, DmaAssumption DEF Counts
  <2>2. dma.ctrl \in [Channels -> Ctrl] /\ dma.reload \in [Channels -> Counts]
    BY <1>2 DEF State
  <2> QED BY <2>1, <2>2, Ends
<1> HIDE DEF ctrl, reload
<1>6. /\ d \in State /\ d.ctrl = ctrl /\ d.reload = reload /\ d.busy = dma.busy /\ d.count = dma.count
      /\ d.alarm = dma.alarm /\ d.up = dma.up /\ d.timer = dma.timer /\ d.raw = dma.raw
      /\ d.enable = dma.enable /\ d.force = dma.force /\ d.line = dma.line
      /\ d.moved = dma.moved /\ d.asked = dma.asked
  BY <1>2, <1>5 DEF State
<1> HIDE DEF d
<1>7. Good(d, {})
  <2>1. Good(dma, {})
    BY DEF SInv
  <2>2. /\ \A c \in Channels : Armed(d, c)
        /\ \A c \in d.alarm : Active(d, c)
    BY <1>4, <1>6 DEF Armed, Active
  <2>3. \A c \in Channels : Exact(d, c)
    BY <1>6, <2>1 DEF Good, Exact
  <2>4. \A i \in Irqs : Told(d, i)
    BY <1>6, <2>1 DEF Good, Told, Status
  <2> QED BY <1>6, <2>2, <2>3, <2>4 DEF Good
<1>8. Good(e, {})
  <2>1. {Tx, Rx} \in SUBSET Channels
    BY Ends
  <2> QED BY <1>7, <2>1, StartedIsGood
<1>9. /\ e.ctrl = ctrl /\ e.busy = {Tx, Rx} /\ e.raw = {} /\ e.up = dma.up
      /\ e.asked[Rx] = Length /\ e.asked[Tx] = Length /\ e.moved[Rx] = 0 /\ e.moved[Tx] = 0
      /\ e.alarm = {c \in {Tx, Rx} : Asks(d, ctrl[c].treq)}
  <2>1. TxCtrl.en /\ RxCtrl.en
    BY DEF TxCtrl, RxCtrl
  <2>2. {c \in {Tx, Rx} : d.ctrl[c].en /\ c \notin d.busy} = {Tx, Rx}
    BY <1>4, <1>5, <1>6, <2>1
  <2>3. {c \in {Tx, Rx} : d.reload[c] # 0} = {Tx, Rx}
    BY <1>5, <1>6
  <2>4. e = [d EXCEPT !.count = [c \in Channels |-> IF c \in {Tx, Rx} THEN d.reload[c] ELSE d.count[c]],
                      !.busy = d.busy \cup {Tx, Rx},
                      !.alarm = d.alarm \cup {c \in {Tx, Rx} : Asks(d, d.ctrl[c].treq)},
                      !.asked = [c \in Channels |-> IF c \in {Tx, Rx} THEN d.reload[c] ELSE d.asked[c]],
                      !.moved = [c \in Channels |-> IF c \in {Tx, Rx} THEN 0 ELSE d.moved[c]]]
    BY <1>6, <2>2, <2>3 DEF Started, State
  <2>5. /\ e.ctrl = d.ctrl /\ e.busy = d.busy \cup {Tx, Rx} /\ e.raw = d.raw /\ e.up = d.up
        /\ e.alarm = d.alarm \cup {c \in {Tx, Rx} : Asks(d, d.ctrl[c].treq)}
        /\ e.asked = [c \in Channels |-> IF c \in {Tx, Rx} THEN d.reload[c] ELSE d.asked[c]]
        /\ e.moved = [c \in Channels |-> IF c \in {Tx, Rx} THEN 0 ELSE d.moved[c]]
    BY <1>6, <2>4 DEF State
  <2> HIDE DEF e
  <2> QED BY <1>4, <1>5, <1>6, <2>5, Ends
<1> HIDE DEF e
<1>10. Set(e)
  BY <1>5, <1>9 DEF Set
<1>11. Fits(e, spi)
  <2>1. \A c \in e.alarm : IF c = Tx THEN 16 \in dma.up ELSE c = Rx /\ 17 \in dma.up
    BY <1>5, <1>6, <1>9, Ends DEF Asks, Permanent, Timer
  <2>2. dma.up = spi.up /\ spi.up = S!Requested(spi)
    BY InvFacts DEF SInv, Fits
  <2> QED BY <1>9, <2>1, <2>2, RequestMeans, Ends DEF Fits
<1>12. Sent' = Sent /\ Got' = Got
  BY <1>3, <1>4, <1>9 DEF Sent, Got
<1> QED BY <1>1, <1>3, <1>4, <1>8, <1>10, <1>11, <1>12, DriverStep

\* What a write of CTRL does to an armed channel.
LEMMA CtrlWrittenIs ==
  ASSUME NEW d \in State, NEW c \in Channels, NEW value \in Ctrl
  PROVE  LET e == CtrlWritten(d, c, value)
         IN  /\ e.ctrl = [d.ctrl EXCEPT ![c] = value] /\ e.busy = d.busy /\ e.up = d.up /\ e.raw = d.raw
             /\ e.moved = d.moved /\ e.asked = d.asked
             /\ d.alarm \ {c} \subseteq e.alarm /\ e.alarm \subseteq d.alarm \cup {c}
             /\ c \in e.alarm => value.en /\ (c \in d.alarm \/ Asks(d, value.treq))
<1> DEFINE f == [d EXCEPT !.ctrl[c] = value]
           g == IF ~ value.en THEN [f EXCEPT !.alarm = f.alarm \ {c}]
                ELSE IF c \in d.busy /\ Asks(d, value.treq) THEN [f EXCEPT !.alarm = f.alarm \cup {c}] ELSE f
<1>1. /\ f.ctrl = [d.ctrl EXCEPT ![c] = value] /\ f.busy = d.busy /\ f.up = d.up /\ f.raw = d.raw
      /\ f.moved = d.moved /\ f.asked = d.asked /\ f.alarm = d.alarm /\ f.timer = d.timer /\ f.ctrl[c] = value
      /\ f \in State
  BY DEF State
<1>2. CtrlWritten(d, c, value) = g
  <2>1. ScheduleTransfer(f, c) = IF Asks(d, value.treq) THEN [f EXCEPT !.alarm = f.alarm \cup {c}] ELSE f
    BY <1>1 DEF ScheduleTransfer, Asks
  <2> QED BY <2>1 DEF CtrlWritten
<1> HIDE DEF f
<1>3. /\ g.ctrl = f.ctrl /\ g.busy = f.busy /\ g.up = f.up /\ g.raw = f.raw /\ g.moved = f.moved /\ g.asked = f.asked
      /\ g.alarm = IF ~ value.en THEN f.alarm \ {c}
                   ELSE IF c \in d.busy /\ Asks(d, value.treq) THEN f.alarm \cup {c} ELSE f.alarm
  BY <1>1 DEF State
<1> HIDE DEF g
<1> QED BY <1>1, <1>2, <1>3

\* A pause takes the transmit channel's alarm, and a resumption arms it if its request is up.
LEMMA PauseKeeps ==
  ASSUME SInv, Pause
  PROVE  SInv'
<1> DEFINE value == [TxCtrl EXCEPT !.en = FALSE]
           e == CtrlWritten(dma, Tx, value)
<1>1. Active(dma, Tx) /\ dma' = e /\ due' = due \ {Tx} /\ UNCHANGED <<spi, mem, left>>
  BY DEF Pause
<1>2. dma \in State /\ Good(dma, {}) /\ Set(dma) /\ Fits(dma, spi) /\ due \subseteq dma.alarm
  BY InvFacts DEF SInv
<1>4. value \in Ctrl /\ ~ value.en
  BY Ends DEF TxCtrl
<1> HIDE DEF value
<1>3. /\ e.ctrl = [dma.ctrl EXCEPT ![Tx] = value] /\ e.busy = dma.busy /\ e.up = dma.up /\ e.raw = dma.raw
      /\ e.moved = dma.moved /\ e.asked = dma.asked
      /\ dma.alarm \ {Tx} \subseteq e.alarm /\ e.alarm \subseteq dma.alarm \cup {Tx}
      /\ Tx \in e.alarm => value.en /\ (Tx \in dma.alarm \/ Asks(dma, value.treq))
      /\ Good(e, {})
  BY <1>2, <1>4, Ends, CtrlWrittenIs, CtrlWrittenIsGood
<1> HIDE DEF e
<1>5. e.ctrl[Tx] = value /\ e.ctrl[Rx] = dma.ctrl[Rx]
  BY <1>2, <1>3, Ends DEF State
<1>6. dma.asked[Rx] # 0
  BY <1>1, <1>2, ActiveIs, Ends
<1>7. Set(e)
  BY <1>2, <1>3, <1>5, <1>6 DEF Set, value
<1>8. Fits(e, spi)
  BY <1>2, <1>3, <1>4, Ends DEF Fits
<1>9. Sent' = Sent /\ Got' = Got
  BY <1>1, <1>3 DEF Sent, Got
<1> QED BY <1>1, <1>2, <1>3, <1>7, <1>8, <1>9, Ends, DriverStep

LEMMA ResumeKeeps ==
  ASSUME SInv, Resume
  PROVE  SInv'
<1> DEFINE e == CtrlWritten(dma, Tx, TxCtrl)
<1>1. Tx \in dma.busy /\ dma' = e /\ UNCHANGED <<spi, mem, due, left>>
  BY DEF Resume
<1>2. dma \in State /\ Good(dma, {}) /\ Set(dma) /\ Fits(dma, spi) /\ due \subseteq dma.alarm
  BY InvFacts DEF SInv
<1>3. /\ e.ctrl = [dma.ctrl EXCEPT ![Tx] = TxCtrl] /\ e.busy = dma.busy /\ e.up = dma.up /\ e.raw = dma.raw
      /\ e.moved = dma.moved /\ e.asked = dma.asked
      /\ dma.alarm \ {Tx} \subseteq e.alarm /\ e.alarm \subseteq dma.alarm \cup {Tx}
      /\ Tx \in e.alarm => Tx \in dma.alarm \/ Asks(dma, TxCtrl.treq)
      /\ Good(e, {})
  BY <1>2, Ends, CtrlWrittenIs, CtrlWrittenIsGood
<1>10. Tx \in dma.alarm => Tx \in e.alarm
  <2>1. TxCtrl.en
    BY DEF TxCtrl
  <2>3. CtrlWritten(dma, Tx, TxCtrl).alarm \in {dma.alarm, dma.alarm \cup {Tx}}
    BY <1>1, <1>2, <2>1, Ends DEF CtrlWritten, ScheduleTransfer, State
  <2> QED BY <2>3
<1> HIDE DEF e
<1>5. e.ctrl[Tx] = TxCtrl /\ e.ctrl[Rx] = dma.ctrl[Rx]
  BY <1>2, <1>3, Ends DEF State
<1>6. dma.asked[Rx] # 0
  BY <1>1, <1>2 DEF Set
<1>7. Set(e)
  BY <1>2, <1>3, <1>5, <1>6 DEF Set
<1>8. Fits(e, spi)
  <2>1. Asks(dma, TxCtrl.treq) => 16 \in dma.up
    BY Ends DEF Asks, Permanent, Timer
  <2>2. 16 \in dma.up => spi.sse /\ spi.dmacr # {} /\ ~ S!Full(spi.tx)
    BY <1>2, InvFacts, RequestMeans DEF Fits
  <2> QED BY <1>2, <1>3, <2>1, <2>2, Ends DEF Fits
<1>9. Sent' = Sent /\ Got' = Got
  BY <1>1, <1>3 DEF Sent, Got
<1>11. due' \subseteq e.alarm
  BY <1>1, <1>2, <1>3, <1>10
<1> QED BY <1>1, <1>3, <1>7, <1>8, <1>9, <1>11, DriverStep

\* The invariant of the transfer holds in every reachable state.
THEOREM TransferInvariant == SpiDmaSpec => []SInv
<1>1. SpiDmaInit => SInv
  <2> SUFFICES ASSUME SpiDmaInit PROVE SInv
    OBVIOUS
  <2>1. PICK prompt \in Prompts, timed \in BOOLEAN :
          (prompt \/ timed) /\ spi = [S!Clear(<<>>, prompt, FALSE) EXCEPT !.timed = timed]
    BY DEF SpiDmaInit
  <2>2. dma = Clear({}) /\ mem = <<>> /\ due = {} /\ left = 0
    BY DEF SpiDmaInit, Init
  <2>3. /\ spi.tx = <<>> /\ spi.rx = <<>> /\ ~ spi.busy /\ ~ spi.frame /\ spi.reply = None /\ spi.timed = timed
        /\ ~ spi.sse /\ ~ spi.lbm /\ spi.dmacr = {} /\ spi.up = {} /\ spi.owes = <<>> /\ spi.prompt = prompt
        /\ ~ spi.lost
        /\ spi = [tx |-> <<>>, rx |-> <<>>, busy |-> FALSE, frame |-> FALSE, reply |-> None, timed |-> timed,
                  sse |-> FALSE, lbm |-> FALSE, dmacr |-> {}, raw |-> {"TX"}, imsc |-> {}, line |-> FALSE,
                  up |-> {}, owes |-> <<>>, prompt |-> prompt, lost |-> FALSE, stale |-> FALSE]
    BY <2>1 DEF S!Clear
  <2>4. /\ dma.busy = {} /\ dma.alarm = {} /\ dma.raw = {} /\ dma.up = {}
        /\ dma.asked[Rx] = 0 /\ dma.moved[Rx] = 0 /\ dma.moved[Tx] = 0
    BY <2>2, Ends DEF Clear
  <2>5. Good(dma, {})
    BY <2>2, ClearIsGood
  <2>6. Set(dma) /\ Fits(dma, spi) /\ Got = 0 /\ Sent = 0
    BY <2>3, <2>4 DEF Set, Fits, Got, Sent
  <2>7. <<>> \in Seq(Word) /\ Len(<<>>) = 0
    OBVIOUS
  <2>8. Sound(spi)
    <3>1. prompt \in BOOLEAN
      BY SpiDmaAssumption
    <3>2. spi \in SpiState
      BY <2>3, <2>7, <3>1 DEF SpiState, S!Interrupts
    <3>3. spi.prompt \/ spi.timed
      BY <2>1, <2>3, Zenon
    <3>4. Len(spi.owes) <= 1
      BY <2>3, <2>7
    <3> QED BY <2>3, <3>2, <3>3, <3>4 DEF Sound
  <2>9. Orderly(spi, 0, 0)
    <3>1. Holds(spi, 0, 0)
      BY <2>3, <2>7 DEF Holds, Fly, InOrder
    <3>2. spi.up = S!Requested(spi)
      BY <2>3 DEF S!Requested
    <3> QED BY <2>3, <2>8, <3>1, <3>2 DEF Orderly, Moving
  <2>10. Paced /\ Len(spi.tx) <= FifoDepth
    BY <2>2, <2>3, SpiDmaAssumption DEF Paced, Waits
  <2>11. Enabled /\ Memory
    BY <2>2, <2>3, <2>6, <2>7 DEF Enabled, Memory
  <2> QED BY <2>2, <2>4, <2>5, <2>6, <2>9, <2>10, <2>11 DEF SInv
<1>2. SInv /\ [SpiDmaNext]_vars => SInv'
  <2> SUFFICES ASSUME SInv, [SpiDmaNext]_vars PROVE SInv'
    OBVIOUS
  <2>1. CASE Hardware
    BY <2>1, TransmitWordKeeps, ReceiveWordKeeps, FrameDoneKeeps, DeviceAnswersKeeps, CycleKeeps DEF Hardware
  <2>2. CASE Driver
    BY <2>2, EnableSpiKeeps, EnableRequestsKeeps, ResetDmaKeeps, StartTransferKeeps, PauseKeeps, ResumeKeeps
       DEF Driver
  <2>3. CASE UNCHANGED vars
    BY <2>3 DEF vars, SInv, Paced, Waits, Deliverable, Enabled, Memory, Got, Sent
  <2> QED BY <2>1, <2>2, <2>3 DEF SpiDmaNext
<1> QED
  BY <1>1, <1>2, PTL DEF SpiDmaSpec

\* No answer finds the receive FIFO full, however the two channels' alarms are ordered within their
\* cycle and whatever time a frame takes.
THEOREM NothingOverruns == SpiDmaSpec => []NoOverrun
<1>1. SInv => NoOverrun
  BY DEF SInv, Orderly, Sound, NoOverrun
<1> QED
  BY <1>1, TransferInvariant, PTL

\* The interrupt of the receive channel finds every answer in memory.
THEOREM DoneWhenTold == SpiDmaSpec => []InterruptMeansDone
<1>1. SInv => InterruptMeansDone
  BY DEF SInv, Set, Memory, Got, InterruptMeansDone
<1> QED
  BY <1>1, TransferInvariant, PTL

\* A channel whose alarm is armed finds room for its word, or a word, when it runs.
THEOREM AlarmsFindTheirWord == SpiDmaSpec => []AlarmsMatchFifos
<1>1. SInv => AlarmsMatchFifos
  BY DEF SInv, Fits, AlarmsMatchFifos
<1> QED
  BY <1>1, TransferInvariant, PTL

\* Every step of the transfer is a step of the exchange of words, or leaves the memory alone: the
\* answers come to memory in the order of their words, none missing and none twice.
THEOREM TransferIsAnExchange == SpiDmaSpec => E!Safety
<1>1. SpiDmaInit => E!Init
  BY DEF SpiDmaInit, E!Init
<1>2. SInv /\ [SpiDmaNext]_vars => [E!Answer]_mem
  <2> SUFFICES ASSUME SInv, [SpiDmaNext]_vars PROVE E!Answer \/ mem' = mem
    OBVIOUS
  <2>1. CASE Hardware
    BY <2>1, ReceiveWordKeeps DEF Hardware, TransmitWord, FrameDone, DeviceAnswers, Cycle
  <2>2. CASE Driver
    BY <2>2 DEF Driver, EnableSpi, EnableRequests, ResetDma, StartTransfer, Pause, Resume
  <2>3. CASE UNCHANGED vars
    BY <2>3 DEF vars
  <2> QED BY <2>1, <2>2, <2>3 DEF SpiDmaNext
<1> QED
  BY <1>1, <1>2, TransferInvariant, PTL DEF SpiDmaSpec, E!Safety

=============================================================================
