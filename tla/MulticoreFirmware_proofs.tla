---------------------- MODULE MulticoreFirmware_proofs ----------------------
(***************************************************************************)
(* Proofs about the chip of Multicore, for every depth of the FIFOs, every *)
(* set of words and any programs: the lines, the mailbox and the launch.   *)
(* Then about the two programs, for any messages and whatever core 0 gives *)
(* up or core 1 returns from: the answers core 0 receives are those of its *)
(* messages, in order, and no core sleeps through a w.                  *)
(***************************************************************************)
EXTENDS MulticoreFirmware, SequenceTheorems, TLAPS

-----------------------------------------------------------------------------
(* The chip, whatever its programs. *)

SleepStates == {"awake", "wfi", "wfe"}

-----------------------------------------------------------------------------
(* Telling the lines *)

\* `_update_fifo_irqs` makes the lines what FIFO_ST shows, keeps every pending bit justified by
\* a line, tells nothing to a core that does not run, and tells a core that had exactly the high
\* lines pending exactly the lines that are high now.
LEMMA UpdateTells ==
  ASSUME NEW run \in BOOLEAN,
         NEW pend \in [Core -> SUBSET Core], NEW on \in [Core -> SUBSET Core],
         NEW slp \in [Core -> SleepStates], NEW evt \in [Core -> BOOLEAN],
         line \in [Core -> BOOLEAN],
         \A c \in Core : FifoStatus(c)' \in BOOLEAN,
         \A c \in Core : \A l \in pend[c] : line[l],
         ~ run => pend[1] = {},
         UpdateFifoIrqs(run, pend, on, slp, evt)
  PROVE  /\ LineTellsStatus'
         /\ line' \in [Core -> BOOLEAN]
         /\ pending' \in [Core -> SUBSET Core]
         /\ enabled' \in [Core -> SUBSET Core]
         /\ sleep' \in [Core -> SleepStates]
         /\ event' \in [Core -> BOOLEAN]
         /\ \A c \in Core : \A l \in pending'[c] : line'[l]
         /\ ~ run => pending'[1] = {}
         /\ (\A c \in Core : (c = 1 => run) => pend[c] = {l \in Core : line[l]})
              => \A c \in Core : (c = 1 => run) => pending'[c] = {l \in Core : line'[l]}
<1> DEFINE risen == {c \in Core : FifoStatus(c)' /\ ~ line[c]}
           fallen == {c \in Core : ~ FifoStatus(c)' /\ line[c]}
           wakes(c) == /\ c = 1 => run
                       /\ slp[c] # "awake"
                       /\ risen \ pend[c] # {}
                       /\ on[c] \cap (pend[c] \cup risen) # {}
<1>1. line' = [c \in Core |-> FifoStatus(c)']
  BY DEF UpdateFifoIrqs
<1>2. pending' = [c \in Core |-> IF c = 1 => run THEN (pend[c] \ fallen) \cup risen ELSE pend[c]]
  BY DEF UpdateFifoIrqs
<1>3. /\ sleep' = [c \in Core |-> IF wakes(c) THEN "awake" ELSE slp[c]]
      /\ event' = [c \in Core |-> wakes(c) \/ evt[c]]
      /\ enabled' = on
  BY DEF UpdateFifoIrqs
<1> HIDE DEF wakes
<1>4. \A c \in Core : wakes(c) \in BOOLEAN
  BY DEF wakes
<1>5. /\ LineTellsStatus'
      /\ line' \in [Core -> BOOLEAN]
  BY <1>1 DEF LineTellsStatus
<1>6. pending' \in [Core -> SUBSET Core]
  BY <1>2
<1>7. /\ enabled' \in [Core -> SUBSET Core]
      /\ sleep' \in [Core -> SleepStates]
      /\ event' \in [Core -> BOOLEAN]
  BY <1>3, <1>4 DEF SleepStates
<1>8. \A c \in Core : \A l \in pending'[c] : line'[l]
  BY <1>1, <1>2 DEF Core
<1>9. ~ run => pending'[1] = {}
  BY <1>2 DEF Core
<1>10. ASSUME \A c \in Core : (c = 1 => run) => pend[c] = {l \in Core : line[l]},
              NEW c \in Core, c = 1 => run
       PROVE  pending'[c] = {l \in Core : line'[l]}
  <2>1. pending'[c] = ({l \in Core : line[l]} \ fallen) \cup risen
    BY <1>2, <1>10
  <2>2. \A l \in Core : line'[l] = FifoStatus(l)'
    BY <1>1
  <2> QED
    BY <2>1, <2>2
<1> QED
  BY <1>5, <1>6, <1>7, <1>8, <1>9, <1>10


-----------------------------------------------------------------------------
(* The inductive invariant *)

SioType ==
  /\ fifo \in [Core -> Seq(Words)]
  /\ roe \in [Core -> BOOLEAN]
  /\ wof \in [Core -> BOOLEAN]
  /\ seq \in 0 .. 5
  /\ words \in [0 .. 2 -> Words]
  /\ launched \in BOOLEAN

CoresType ==
  /\ line \in [Core -> BOOLEAN]
  /\ sleep \in [Core -> SleepStates]
  /\ event \in [Core -> BOOLEAN]
  /\ pending \in [Core -> SUBSET Core]
  /\ enabled \in [Core -> SUBSET Core]

ChipType == running \in BOOLEAN /\ held \in BOOLEAN /\ heard \in Seq(Words)

\* Every pending bit has its line, and core 1 has none while it does not run.
PendingJustified ==
  /\ \A c \in Core : \A l \in pending[c] : line[l]
  /\ ~ running => pending[1] = {}

LinesInv == CoresType /\ LineTellsStatus /\ PendingJustified

IInv == SioType /\ ChipType /\ LinesInv /\ RomOwnsMailbox /\ OutboundFits

\* What the cores keep when a handler ends by telling the lines.
LEMMA LinesAfterUpdate ==
  ASSUME NEW run \in BOOLEAN,
         NEW pend \in [Core -> SUBSET Core], NEW on \in [Core -> SUBSET Core],
         NEW slp \in [Core -> SleepStates], NEW evt \in [Core -> BOOLEAN],
         LinesInv, SioType', running' = run,
         \A c \in Core : \A l \in pend[c] : line[l],
         ~ run => pend[1] = {},
         UpdateFifoIrqs(run, pend, on, slp, evt)
  PROVE  LinesInv'
<1>1. line \in [Core -> BOOLEAN]
  BY DEF LinesInv, CoresType
<1>2. \A c \in Core : FifoStatus(c)' \in BOOLEAN
  BY DEF SioType, FifoStatus, Core
<1> QED
  BY <1>1, <1>2, UpdateTells, ZenonT(30) DEF LinesInv, CoresType, PendingJustified

\* A reset of some cores keeps a pending bit only where it was.
LEMMA ClearedPending ==
  ASSUME NEW S \in SUBSET Core, CoresType, PendingJustified
  PROVE  /\ Cleared(S, pending, {}) \in [Core -> SUBSET Core]
         /\ Cleared(S, enabled, {}) \in [Core -> SUBSET Core]
         /\ Cleared(S, sleep, "awake") \in [Core -> SleepStates]
         /\ Cleared(S, event, FALSE) \in [Core -> BOOLEAN]
         /\ \A c \in Core : \A l \in Cleared(S, pending, {})[c] : line[l]
         /\ 1 \in S => Cleared(S, pending, {})[1] = {}
BY DEF Cleared, CoresType, PendingJustified, SleepStates, Core

LEMMA LaunchTypes ==
  ASSUME CoresType, PendingJustified
  PROVE  /\ Cleared({1}, pending, pending[0]) \in [Core -> SUBSET Core]
         /\ Cleared({1}, enabled, {}) \in [Core -> SUBSET Core]
         /\ Cleared({1}, sleep, "awake") \in [Core -> SleepStates]
         /\ Cleared({1}, SentEvent(0), FALSE) \in [Core -> BOOLEAN]
         /\ \A c \in Core : \A l \in Cleared({1}, pending, pending[0])[c] : line[l]
BY DEF Cleared, CoresType, PendingJustified, SleepStates, SentEvent, Core

LEMMA SentTypes ==
  ASSUME NEW c \in Core, CoresType
  PROVE  /\ SentSleep(c) \in [Core -> SleepStates]
         /\ SentEvent(c) \in [Core -> BOOLEAN]
BY DEF SentSleep, SentEvent, CoresType, SleepStates

LEMMA WordSeqs ==
  /\ <<>> \in Seq(Words) /\ Len(<<>>) = 0
  /\ \A s \in Seq(Words) :
       /\ Len(s) \in Nat
       /\ s # <<>> => Tail(s) \in Seq(Words) /\ Len(Tail(s)) = Len(s) - 1
       /\ \A w \in Words : Append(s, w) \in Seq(Words) /\ Len(Append(s, w)) = Len(s) + 1
<1>1. <<>> \in Seq(Words) /\ Len(<<>>) = 0
  OBVIOUS
<1>2. ASSUME NEW s \in Seq(Words)
      PROVE  /\ Len(s) \in Nat
             /\ s # <<>> => Tail(s) \in Seq(Words) /\ Len(Tail(s)) = Len(s) - 1
             /\ \A w \in Words : Append(s, w) \in Seq(Words) /\ Len(Append(s, w)) = Len(s) + 1
  OBVIOUS
<1> QED
  BY <1>1, <1>2

\* Each of the actions below ends in UpdateFifoIrqs: its own part is what the SIO becomes.
LEMMA StepKeepsIInv ==
  ASSUME IInv, Next
  PROVE  IInv'
<1> USE MulticoreAssumption
<1>0. /\ SioType /\ ChipType /\ LinesInv /\ RomOwnsMailbox /\ OutboundFits
      /\ CoresType /\ PendingJustified
      /\ sleep \in [Core -> SleepStates] /\ event \in [Core -> BOOLEAN]
      /\ pending \in [Core -> SUBSET Core] /\ enabled \in [Core -> SUBSET Core]
      /\ \A c \in Core : \A l \in pending[c] : line[l]
      /\ ~ running => pending[1] = {}
      /\ running \in BOOLEAN
  BY DEF IInv, LinesInv, CoresType, PendingJustified, ChipType
<1> DEFINE Sio == SioType /\ ChipType /\ RomOwnsMailbox /\ OutboundFits
<1>1. ASSUME NEW c \in Core, FifoRead(c)
      PROVE  IInv'
  <2>1. Sio'
    <3>1. SioType'
      <4>1. fifo' \in [Core -> Seq(Words)]
        <5>1. fifo \in [Core -> Seq(Words)] /\ Other(c) \in Core
          BY <1>0 DEF SioType, Other, Core
        <5>2. CASE fifo[Other(c)] # <<>>
          <6>1. Tail(fifo[Other(c)]) \in Seq(Words)
            BY <5>1, <5>2, WordSeqs
          <6> QED
            BY <1>1, <5>1, <5>2, <6>1 DEF FifoRead
        <5>3. CASE fifo[Other(c)] = <<>>
          BY <1>1, <5>1, <5>3 DEF FifoRead
        <5> QED
          BY <5>2, <5>3
      <4> QED
        BY <1>0, <1>1, <4>1 DEF FifoRead, SioType
    <3>2. ChipType'
      BY <1>0, <1>1, WordSeqs DEF FifoRead, ChipType
    <3>3. RomOwnsMailbox'
      BY <1>0, <1>1 DEF FifoRead, Awake, SioType, RomOwnsMailbox, Core, Other
    <3>4. OutboundFits'
      BY <1>0, <1>1, WordSeqs DEF FifoRead, Awake, SioType, OutboundFits, Core, Other
    <3> QED
      BY <3>1, <3>2, <3>3, <3>4
  <2>2. LinesInv'
    BY <1>0, <1>1, <2>1, LinesAfterUpdate DEF FifoRead
  <2> QED
    BY <2>1, <2>2 DEF IInv
<1>2. ASSUME NEW c \in Core, FifoClear(c)
      PROVE  IInv'
  <2>1. Sio'
    <3>1. SioType'
      BY <1>0, <1>2, WordSeqs DEF FifoClear, Awake, SioType, Core, Other
    <3>2. ChipType'
      BY <1>0, <1>2, WordSeqs DEF FifoClear, ChipType
    <3>3. RomOwnsMailbox'
      BY <1>0, <1>2 DEF FifoClear, Awake, SioType, RomOwnsMailbox, Core, Other
    <3>4. OutboundFits'
      BY <1>0, <1>2, WordSeqs DEF FifoClear, Awake, SioType, OutboundFits, Core, Other
    <3> QED
      BY <3>1, <3>2, <3>3, <3>4
  <2>2. LinesInv'
    BY <1>0, <1>2, <2>1, LinesAfterUpdate DEF FifoClear
  <2> QED
    BY <2>1, <2>2 DEF IInv
<1>3. ASSUME NEW c \in Core, NEW w \in Words, FifoWrite(c, w)
      PROVE  IInv'
  <2>1. Sio'
    <3>1. SioType'
      <4>1. fifo' \in [Core -> Seq(Words)]
        <5>1. fifo \in [Core -> Seq(Words)] /\ Append(fifo[c], w) \in Seq(Words)
          BY <1>0, WordSeqs DEF SioType
        <5> QED
          BY <1>3, <5>1 DEF FifoWrite
      <4> QED
        BY <1>0, <1>3, <4>1 DEF FifoWrite, SioType
    <3>2. ChipType'
      BY <1>0, <1>3, WordSeqs DEF FifoWrite, ChipType
    <3>3. RomOwnsMailbox'
      BY <1>0, <1>3 DEF FifoWrite, Awake, SioType, RomOwnsMailbox, Core, Other
    <3>4. OutboundFits'
      BY <1>0, <1>3, WordSeqs DEF FifoWrite, Awake, SioType, OutboundFits, Core, Other
    <3> QED
      BY <3>1, <3>2, <3>3, <3>4
  <2>2. LinesInv'
    BY <1>0, <1>3, <2>1, LinesAfterUpdate DEF FifoWrite
  <2> QED
    BY <2>1, <2>2 DEF IInv
<1>4. ASSUME HoldCore1, held' \in BOOLEAN
      PROVE  IInv'
  <2>1. Sio'
    <3>1. SioType'
      <4>1. fifo' \in [Core -> Seq(Words)]
        BY <1>4, WordSeqs DEF HoldCore1, ResetCore1
      <4>2. ResetCore1
        BY <1>4 DEF HoldCore1
      <4>3. SioType
        BY <1>0
      <4>4. roe' \in [Core -> BOOLEAN] /\ wof' \in [Core -> BOOLEAN]
        <5>1. [c \in Core |-> FALSE] \in [Core -> BOOLEAN]
          OBVIOUS
        <5> QED
          BY <4>2, <5>1, Zenon DEF ResetCore1
      <4>5. seq' \in 0 .. 5 /\ words' \in [0 .. 2 -> Words]
        BY <4>2, <4>3 DEF ResetCore1, SioType
      <4>6. launched' \in BOOLEAN
        BY <4>2, Zenon DEF ResetCore1
      <4> QED
        BY <4>1, <4>4, <4>5, <4>6 DEF SioType
    <3>2. ChipType'
      BY <1>0, <1>4, WordSeqs DEF HoldCore1, ResetCore1, ChipType
    <3>3. RomOwnsMailbox'
      BY <1>0, <1>4 DEF HoldCore1, ResetCore1, Awake, SioType, RomOwnsMailbox, Core, Other
    <3>4. OutboundFits'
      BY <1>0, <1>4, WordSeqs DEF HoldCore1, ResetCore1, Awake, SioType, OutboundFits, Core, Other
    <3> QED
      BY <3>1, <3>2, <3>3, <3>4
  <2>2. LinesInv'
    BY <1>0, <1>4, <2>1, LinesAfterUpdate, ClearedPending DEF HoldCore1, Core
  <2> QED
    BY <2>1, <2>2 DEF IInv
<1>5. ASSUME NEW c \in Core, LetGo(c)
      PROVE  IInv'
  <2>1. Sio'
    <3>1. SioType'
      BY <1>0, <1>5, WordSeqs DEF LetGo, Awake, SioType, Core, Other
    <3>2. ChipType'
      BY <1>0, <1>5, WordSeqs DEF LetGo, ChipType
    <3>3. RomOwnsMailbox'
      BY <1>0, <1>5 DEF LetGo, Awake, SioType, RomOwnsMailbox, Core, Other
    <3>4. OutboundFits'
      BY <1>0, <1>5, WordSeqs DEF LetGo, Awake, SioType, OutboundFits, Core, Other
    <3> QED
      BY <3>1, <3>2, <3>3, <3>4
  <2>2. LinesInv'
    BY <1>0, <1>5, <2>1, LinesAfterUpdate, SentTypes DEF LetGo, Core
  <2> QED
    BY <2>1, <2>2 DEF IInv
<1>6. ASSUME NEW w \in Words, Answer(w)
      PROVE  /\ fifo' \in [Core -> Seq(Words)] /\ fifo'[0] = fifo[0]
             /\ words' \in [0 .. 2 -> Words]
             /\ heard' \in Seq(Words)
             /\ NextSeq(w) \in 0 .. 6
             /\ UNCHANGED <<roe, wof, held>>
  <2>1. fifo \in [Core -> Seq(Words)] /\ Append(fifo[1], w) \in Seq(Words)
    BY <1>0, WordSeqs DEF SioType, Core
  <2>2. fifo' \in [Core -> Seq(Words)] /\ fifo'[0] = fifo[0]
    BY <1>6, <2>1 DEF Answer, Core
  <2>3. words' \in [0 .. 2 -> Words]
    BY <1>0, <1>6 DEF Answer, SioType
  <2>4. heard' \in Seq(Words)
    <3>1. Append(heard, w) \in Seq(Words) /\ Len(Append(heard, w)) \in Nat
      BY <1>0, WordSeqs DEF ChipType
    <3>2. \A s \in Seq(Words) : LastSix(s) \in Seq(Words)
      BY DEF LastSix
    <3> QED
      BY <1>6, <3>1, <3>2 DEF Answer
  <2>5. NextSeq(w) \in 0 .. 6
    BY <1>0 DEF SioType, NextSeq
  <2> QED
    BY <1>6, <2>2, <2>3, <2>4, <2>5 DEF Answer
<1>7. ASSUME NEW w \in Words, BootRomAnswer(w) \/ LaunchCore1(w)
      PROVE  IInv'
  <2>1. Answer(w)
    BY <1>7 DEF BootRomAnswer, LaunchCore1
  <2>2. SioType' /\ ChipType'
    <3>1. launched' \in BOOLEAN /\ running' \in BOOLEAN
      BY <1>0, <1>7, Zenon DEF BootRomAnswer, LaunchCore1, SioType
    <3>2. seq' \in 0 .. 5
      <4>1. NextSeq(w) \in 0 .. 6
        BY <1>6, <2>1
      <4>2. (seq' = NextSeq(w) /\ NextSeq(w) < 6) \/ seq' = 0
        BY <1>7, Zenon DEF BootRomAnswer, LaunchCore1
      <4> QED
        BY <4>1, <4>2
    <3>3. /\ fifo' \in [Core -> Seq(Words)] /\ words' \in [0 .. 2 -> Words]
          /\ heard' \in Seq(Words) /\ UNCHANGED <<roe, wof, held>>
      BY <1>6, <2>1
    <3> QED
      BY <1>0, <3>1, <3>2, <3>3 DEF SioType, ChipType
  <2>3. RomOwnsMailbox' /\ OutboundFits'
    <3>1. ~ launched /\ fifo'[0] = fifo[0] /\ UNCHANGED wof
      BY <1>6, <2>1 DEF Answer
    <3>2. running' => launched'
      BY <1>0, <1>7, <3>1, Zenon DEF BootRomAnswer, LaunchCore1, RomOwnsMailbox
    <3> QED
      BY <1>0, <3>1, <3>2 DEF RomOwnsMailbox, OutboundFits
  <2>4. LinesInv'
    <3>1. CASE BootRomAnswer(w)
      BY <1>0, <2>2, <3>1, LinesAfterUpdate, SentTypes DEF BootRomAnswer, Core
    <3>2. CASE LaunchCore1(w)
      BY <1>0, <2>2, <3>2, LinesAfterUpdate, LaunchTypes DEF LaunchCore1
    <3> QED
      BY <1>7, <3>1, <3>2
  <2> QED
    BY <2>2, <2>3, <2>4 DEF IInv
<1>8. CASE ChipReset
  <2>1. Sio'
    <3>1. SioType'
      <4>1. fifo' \in [Core -> Seq(Words)]
        BY <1>8, WordSeqs DEF ChipReset, ResetCore1
      <4>2. ResetCore1
        BY <1>8 DEF ChipReset
      <4>3. SioType
        BY <1>0
      <4>4. roe' \in [Core -> BOOLEAN] /\ wof' \in [Core -> BOOLEAN]
        <5>1. [c \in Core |-> FALSE] \in [Core -> BOOLEAN]
          OBVIOUS
        <5> QED
          BY <4>2, <5>1, Zenon DEF ResetCore1
      <4>5. seq' \in 0 .. 5 /\ words' \in [0 .. 2 -> Words]
        BY <4>2, <4>3 DEF ResetCore1, SioType
      <4>6. launched' \in BOOLEAN
        BY <4>2, Zenon DEF ResetCore1
      <4> QED
        BY <4>1, <4>4, <4>5, <4>6 DEF SioType
    <3>2. ChipType'
      BY <1>0, <1>8, WordSeqs DEF ChipReset, ResetCore1, ChipType
    <3>3. RomOwnsMailbox'
      BY <1>0, <1>8 DEF ChipReset, ResetCore1, Awake, SioType, RomOwnsMailbox, Core, Other
    <3>4. OutboundFits'
      BY <1>0, <1>8, WordSeqs DEF ChipReset, ResetCore1, Awake, SioType, OutboundFits, Core, Other
    <3> QED
      BY <3>1, <3>2, <3>3, <3>4
  <2>2. LinesInv'
    BY <1>0, <1>8, <2>1, LinesAfterUpdate, ClearedPending DEF ChipReset, Core
  <2> QED
    BY <2>1, <2>2 DEF IInv
<1>9. ASSUME NEW S \in SUBSET Core, 1 \in S \/ running' = running,
             sleep' = Cleared(S, sleep, "awake"), event' = Cleared(S, event, FALSE),
             pending' = Cleared(S, pending, {}), enabled' = Cleared(S, enabled, {}),
             running' = running \/ running' = FALSE, UNCHANGED <<sio, line, held, heard>>
      PROVE  IInv'
  <2>1. SioType' /\ RomOwnsMailbox' /\ OutboundFits'
    BY <1>0, <1>9 DEF SioType, RomOwnsMailbox, OutboundFits, sio
  <2>2. ChipType'
    BY <1>0, <1>9, Zenon DEF ChipType
  <2>3. CoresType'
    BY <1>0, <1>9, ClearedPending DEF CoresType
  <2>4. PendingJustified'
    <3>1. \A c \in Core : \A l \in pending'[c] : line'[l]
      BY <1>0, <1>9, ClearedPending
    <3>2. CASE 1 \in S
      BY <1>0, <1>9, <3>1, <3>2, ClearedPending DEF PendingJustified
    <3>3. CASE 1 \notin S
      <4>1. pending'[1] = pending[1] /\ running' = running
        BY <1>0, <1>9, <3>3 DEF Cleared, Core
      <4> QED
        BY <1>0, <3>1, <4>1 DEF PendingJustified
    <3> QED
      BY <3>2, <3>3
  <2>5. LineTellsStatus'
    BY <1>0, <1>9 DEF LinesInv, LineTellsStatus, FifoStatus, sio
  <2> QED
    BY <2>1, <2>2, <2>3, <2>4, <2>5 DEF IInv, LinesInv
<1>10. ASSUME NEW c \in Core,
              \/ Wfe(c) \/ Wfi(c) \/ Sev(c) \/ TakeInterrupt(c)
              \/ \E lines \in Enables : Enable(c, lines)
       PROVE  IInv'
  <2>1. UNCHANGED <<sio, line, running, held, heard, pending>>
    BY <1>10 DEF Wfe, Wfi, Sev, TakeInterrupt, Enable
  <2>2. sleep' \in [Core -> SleepStates] /\ event' \in [Core -> BOOLEAN]
    <3>1. Other(c) \in Core
      BY DEF Other, Core
    <3> QED
      BY <1>0, <1>10, <3>1, SentTypes DEF Wfe, Wfi, Sev, TakeInterrupt, Enable, SleepStates
  <2>3. enabled' \in [Core -> SUBSET Core]
    <3>1. Core = {0, 1}
      BY DEF Core
    <3>2. CASE Wfe(c) \/ Wfi(c) \/ Sev(c) \/ TakeInterrupt(c)
      BY <1>0, <3>2 DEF Wfe, Wfi, Sev, TakeInterrupt
    <3>3. CASE \E lines \in Enables : Enable(c, lines)
      <4>1. PICK lines \in Enables : Enable(c, lines)
        BY <3>3
      <4>2. lines \in SUBSET Core
        BY <3>1, EnablesAssumption
      <4> QED
        BY <1>0, <4>1, <4>2 DEF Enable
    <3> QED
      BY <1>10, <3>2, <3>3
  <2>4. SioType' /\ ChipType' /\ RomOwnsMailbox' /\ OutboundFits'
    BY <1>0, <2>1 DEF SioType, ChipType, RomOwnsMailbox, OutboundFits, sio
  <2>5. CoresType' /\ PendingJustified' /\ LineTellsStatus'
    BY <1>0, <2>1, <2>2, <2>3
       DEF CoresType, PendingJustified, LinesInv, LineTellsStatus, FifoStatus, sio
  <2> QED
    BY <2>4, <2>5 DEF IInv, LinesInv
<1>11. CASE WatchdogReset
  BY <1>9, <1>11 DEF WatchdogReset, Core
<1>12. ASSUME NEW c \in Core, SystemReset(c)
       PROVE  IInv'
  BY <1>9, <1>12 DEF SystemReset
<1> QED
  BY <1>1, <1>2, <1>3, <1>4, <1>5, <1>6, <1>7, <1>8, <1>9, <1>10, <1>11, <1>12
     DEF Next, Instruction, Handshake, Park, ForceOff, IInv, ChipType

LEMMA InitIInv ==
  ASSUME Init
  PROVE  IInv
<1>1. SioType /\ ChipType
  BY WordSeqs DEF Init, SioType, ChipType, Core
<1>2. CoresType /\ PendingJustified
  BY DEF Init, CoresType, PendingJustified, SleepStates, Core
<1>3. LineTellsStatus
  <2>1. \A c \in Core : Other(c) \in Core
    BY DEF Core, Other
  <2>2. \A c \in Core : FifoStatus(c) = FALSE
    BY <2>1 DEF Init, FifoStatus
  <2>3. \A c \in Core : line[c] = FALSE
    BY DEF Init
  <2> QED
    BY <2>2, <2>3 DEF LineTellsStatus
<1>4. RomOwnsMailbox
  BY DEF Init, RomOwnsMailbox, Core
<1>5. OutboundFits
  BY WordSeqs, MulticoreAssumption DEF Init, OutboundFits, Core
<1> QED
  BY <1>1, <1>2, <1>3, <1>4, <1>5 DEF IInv, LinesInv

LEMMA StutterKeepsIInv ==
  ASSUME IInv, UNCHANGED vars
  PROVE  IInv'
BY DEF IInv, SioType, ChipType, LinesInv, CoresType, PendingJustified, LineTellsStatus, FifoStatus,
       RomOwnsMailbox, OutboundFits, vars, sio, cores

\* The invariant holds in every behaviour, whatever resets there are.
THEOREM SioInvariantHolds == Spec => []IInv
<1>1. Init => IInv
  BY InitIInv
<1>2. IInv /\ [Next]_vars => IInv'
  BY StepKeepsIInv, StutterKeepsIInv
<1> QED
  BY <1>1, <1>2, PTL DEF Spec

-----------------------------------------------------------------------------
(* What follows for the properties that the runs check *)

\* Every variable has its type.
THEOREM TypeCorrect == Spec => []TypeOK
<1>1. IInv => TypeOK
  BY DEF IInv, SioType, ChipType, LinesInv, CoresType, SleepStates, TypeOK
<1> QED
  BY <1>1, SioInvariantHolds, PTL

\* The FIFO interrupt lines always show what FIFO_ST shows.
THEOREM LinesAreRefreshed == Spec => []LineTellsStatus
<1>1. IInv => LineTellsStatus
  BY DEF IInv, LinesInv
<1> QED
  BY <1>1, SioInvariantHolds, PTL

\* No reset leaves a FIFO interrupt pending whose cause it has taken away.
THEOREM NoPhantoms == Spec => []NoPhantomInterrupt
<1>1. IInv => NoPhantomInterrupt
  BY DEF IInv, LinesInv, CoresType, LineTellsStatus, PendingJustified, NoPhantomInterrupt
<1> QED
  BY <1>1, SioInvariantHolds, PTL

\* Core 1 runs only after a launch, and before it the SIO keeps no word for it.
THEOREM MailboxIsTheRoms == Spec => []RomOwnsMailbox
<1>1. IInv => RomOwnsMailbox
  BY DEF IInv
<1> QED
  BY <1>1, SioInvariantHolds, PTL

\* The FIFO towards core 1 never overflows.
THEOREM OutboundNeverOverflows == Spec => []OutboundFits
<1>1. IInv => OutboundFits
  BY DEF IInv
<1> QED
  BY <1>1, SioInvariantHolds, PTL

-----------------------------------------------------------------------------
(* Interrupts that are pending *)

LEMMA TracksAfterUpdate ==
  ASSUME NEW run \in BOOLEAN,
         NEW pend \in [Core -> SUBSET Core], NEW on \in [Core -> SUBSET Core],
         NEW slp \in [Core -> SleepStates], NEW evt \in [Core -> BOOLEAN],
         LinesInv, SioType', running' = run,
         \A c \in Core : \A l \in pend[c] : line[l],
         ~ run => pend[1] = {},
         \A c \in Core : (c = 1 => run) => pend[c] = {l \in Core : line[l]},
         UpdateFifoIrqs(run, pend, on, slp, evt)
  PROVE  PendingTracksLine'
<1>1. line \in [Core -> BOOLEAN]
  BY DEF LinesInv, CoresType
<1>2. \A c \in Core : FifoStatus(c)' \in BOOLEAN
  BY DEF SioType, FifoStatus, Core
<1> QED
  BY <1>1, <1>2, UpdateTells, ZenonT(30) DEF PendingTracksLine

LEMMA StepKeepsTracking ==
  ASSUME IInv, IInv', PendingTracksLine, Next, Resets \subseteq {"chip"}
  PROVE  PendingTracksLine'
<1>0. /\ LinesInv /\ SioType' /\ CoresType /\ PendingJustified
      /\ sleep \in [Core -> SleepStates] /\ event \in [Core -> BOOLEAN]
      /\ pending \in [Core -> SUBSET Core] /\ enabled \in [Core -> SUBSET Core]
      /\ \A c \in Core : \A l \in pending[c] : line[l]
      /\ ~ running => pending[1] = {}
      /\ running \in BOOLEAN
      /\ \A c \in Core : (c = 1 => running) => pending[c] = {l \in Core : line[l]}
  BY DEF IInv, LinesInv, CoresType, PendingJustified, ChipType, PendingTracksLine
<1>1. ASSUME NEW c \in Core,
             FifoRead(c) \/ FifoClear(c) \/ \E w \in Words : FifoWrite(c, w)
      PROVE  PendingTracksLine'
  BY <1>0, <1>1, TracksAfterUpdate DEF FifoRead, FifoClear, FifoWrite
<1>2. ASSUME HoldCore1
      PROVE  PendingTracksLine'
  <2>1. \A c \in Core : (c = 1 => FALSE)
          => Cleared({1}, pending, {})[c] = {l \in Core : line[l]}
    BY <1>0 DEF Cleared, Core
  <2> QED
    BY <1>0, <1>2, <2>1, TracksAfterUpdate, ClearedPending DEF HoldCore1, Core
<1>3. ASSUME NEW c \in Core, LetGo(c)
      PROVE  PendingTracksLine'
  BY <1>0, <1>3, TracksAfterUpdate, SentTypes DEF LetGo, Core
<1>4. ASSUME NEW w \in Words, BootRomAnswer(w)
      PROVE  PendingTracksLine'
  BY <1>0, <1>4, TracksAfterUpdate, SentTypes DEF BootRomAnswer, Core
<1>5. ASSUME NEW w \in Words, LaunchCore1(w)
      PROVE  PendingTracksLine'
  <2>1. \A c \in Core : Cleared({1}, pending, pending[0])[c] = {l \in Core : line[l]}
    BY <1>0 DEF Cleared, Core
  <2> QED
    BY <1>0, <1>5, <2>1, TracksAfterUpdate, LaunchTypes DEF LaunchCore1
<1>6. CASE ChipReset
  <2>1. \A c \in Core : FifoStatus(c)' = FALSE
    BY <1>6 DEF ChipReset, ResetCore1, FifoStatus, Core, Other
  <2>2. \A c \in Core : line'[c] = FALSE
    BY <2>1 DEF IInv, LinesInv, LineTellsStatus
  <2>3. \A c \in Core : pending'[c] = {}
    BY <2>2 DEF IInv, LinesInv, PendingJustified, CoresType
  <2> QED
    BY <2>2, <2>3 DEF PendingTracksLine
<1>7. ASSUME NEW c \in Core,
             \/ Wfe(c) \/ Wfi(c) \/ Sev(c) \/ TakeInterrupt(c)
             \/ \E lines \in Enables : Enable(c, lines)
      PROVE  PendingTracksLine'
  BY <1>7 DEF Wfe, Wfi, Sev, TakeInterrupt, Enable, PendingTracksLine
<1>8. ASSUME NEW c \in Core
      PROVE  ~ WatchdogReset /\ ~ SystemReset(c)
  BY DEF WatchdogReset, SystemReset
<1> QED
  BY <1>1, <1>2, <1>3, <1>4, <1>5, <1>6, <1>7, <1>8
     DEF Next, Instruction, Handshake, Park, ForceOff, Core

\* As long as the cores are reset only together with the SIO, each running core has pending
\* exactly the FIFO lines that are high.
THEOREM PendingIsExact ==
  ASSUME Resets \subseteq {"chip"}
  PROVE  Spec => []PendingTracksLine
<1>1. Init => PendingTracksLine
  BY DEF Init, PendingTracksLine, Core
<1>2. IInv /\ IInv' /\ PendingTracksLine /\ [Next]_vars => PendingTracksLine'
  <2>1. ASSUME PendingTracksLine, UNCHANGED vars
        PROVE  PendingTracksLine'
    BY <2>1 DEF PendingTracksLine, vars, cores
  <2> QED
    BY <2>1, StepKeepsTracking
<1> QED
  BY <1>1, <1>2, SioInvariantHolds, PTL DEF Spec

-----------------------------------------------------------------------------
(* The handshake *)

\* The last k words of h are the first k of the handshake, with the data of w.
HeardSoFar(k, h, w) ==
  /\ k <= Len(h)
  /\ Len(h) <= 6
  /\ \A i \in 1 .. k :
       LET x == h[Len(h) - k + i]
       IN  /\ i <= 2 => x = 0
           /\ i = 3 => x = 1
           /\ i > 3 => x = w[i - 4] /\ x # 0

HeardInv == HeardSoFar(seq, heard, words)

\* What the history shows of one word more.
LEMMA OneWordMore ==
  ASSUME NEW h \in Seq(Words), NEW w \in Words, Len(h) <= 6
  PROVE  LET g == LastSix(Append(h, w))
         IN  /\ Len(g) = IF Len(h) = 6 THEN 6 ELSE Len(h) + 1
             /\ g[Len(g)] = w
             /\ \A j \in 1 .. 5 : j <= Len(h) => g[Len(g) - j] = h[Len(h) + 1 - j]
<1> DEFINE a == Append(h, w)
<1>1. Len(a) = Len(h) + 1 /\ a[Len(h) + 1] = w /\ \A i \in 1 .. Len(h) : a[i] = h[i]
  OBVIOUS
<1>2. CASE Len(h) < 6
  <2>1. LastSix(a) = a
    BY <1>1, <1>2 DEF LastSix
  <2>2. \A j \in 1 .. 5 : j <= Len(h) => a[Len(a) - j] = h[Len(h) + 1 - j]
    BY <1>1
  <2> QED
    BY <1>1, <1>2, <2>1, <2>2, SMTT(30)
<1>3. CASE Len(h) = 6
  <2>1. LastSix(a) = SubSeq(a, 2, 7)
    BY <1>1, <1>3 DEF LastSix
  <2>2. Len(SubSeq(a, 2, 7)) = 6 /\ \A i \in 1 .. 6 : SubSeq(a, 2, 7)[i] = a[i + 1]
    BY <1>1, <1>3
  <2> QED
    BY <1>1, <1>3, <2>1, <2>2
<1> QED
  <2>1. PICK n \in Nat : n = Len(h)
    OBVIOUS
  <2>2. n < 6 \/ n = 6
    BY <2>1
  <2> QED
    BY <1>2, <1>3, <2>1, <2>2

\* A word takes the boot ROM to where the history is.
LEMMA AnswerHears ==
  ASSUME IInv, HeardInv, NEW w \in Words, Answer(w)
  PROVE  HeardSoFar(NextSeq(w), heard', words')
<1> DEFINE g == heard'
           k == NextSeq(w)
<1>0. /\ heard \in Seq(Words) /\ Len(heard) <= 6 /\ seq <= Len(heard) /\ seq \in 0 .. 5
      /\ words \in [0 .. 2 -> Words]
  BY DEF IInv, ChipType, SioType, HeardInv, HeardSoFar
<1>n. PICK n \in Nat : n = Len(heard)
  BY <1>0
<1>m. PICK m \in 1 .. 6 : m = Len(g) /\ m = IF n = 6 THEN 6 ELSE n + 1
  <2>1. n <= 6
    BY <1>0, <1>n
  <2>2. Len(g) = IF n = 6 THEN 6 ELSE n + 1
    BY <1>0, <1>n, OneWordMore DEF Answer
  <2> QED
    BY <2>1, <2>2
<1>1. /\ g[m] = w
      /\ \A j \in 1 .. 5 : j <= n => g[m - j] = heard[n + 1 - j]
  <2>1. g = LastSix(Append(heard, w))
    BY DEF Answer
  <2>2. /\ g[Len(g)] = w
        /\ \A j \in 1 .. 5 : j <= Len(heard) => g[Len(g) - j] = heard[Len(heard) + 1 - j]
    BY <1>0, <2>1, OneWordMore
  <2> QED
    BY <1>n, <1>m, <2>2
<1>2. words' = IF seq >= 3 /\ w # 0 THEN [words EXCEPT ![seq - 3] = w] ELSE words
  BY DEF Answer
<1>3. CASE k = 0
  BY <1>m, <1>3 DEF HeardSoFar
<1>4. CASE k = 1 /\ w = 0
  BY <1>m, <1>1, <1>4 DEF HeardSoFar
<1>5. CASE /\ k = seq + 1
           /\ seq < 3 => w = <<0, 0, 1>>[seq + 1]
           /\ seq >= 3 => w # 0
  <2>1. k <= m /\ m <= 6
    BY <1>0, <1>n, <1>m, <1>5, SMTT(30)
  <2>2. ASSUME NEW i \in 1 .. k, i # k
        PROVE  g[m - k + i] = heard[n - seq + i] /\ (i > 3 => words'[i - 4] = words[i - 4])
    <3>1. k - i \in 1 .. 5 /\ k - i <= n
      BY <1>0, <1>n, <1>5, <2>2
    <3>2. g[m - (k - i)] = heard[n + 1 - (k - i)]
      BY <1>1, <3>1
    <3>3. m - (k - i) = m - k + i /\ n + 1 - (k - i) = n - seq + i
      BY <1>0, <1>n, <1>m, <1>5, <2>2
    <3>4. i > 3 => words'[i - 4] = words[i - 4]
      BY <1>0, <1>2, <1>5, <2>2
    <3> QED
      BY <3>2, <3>3, <3>4
  <2>3. ASSUME NEW i \in 1 .. k
        PROVE  LET x == g[m - k + i]
               IN  /\ i <= 2 => x = 0
                   /\ i = 3 => x = 1
                   /\ i > 3 => x = words'[i - 4] /\ x # 0
    <3>1. CASE i # k
      <4>1. i \in 1 .. seq
        BY <1>0, <1>5, <3>1
      <4>2. LET x == heard[n - seq + i]
            IN  /\ i <= 2 => x = 0
                /\ i = 3 => x = 1
                /\ i > 3 => x = words[i - 4] /\ x # 0
        BY <1>n, <4>1 DEF HeardInv, HeardSoFar
      <4> QED
        BY <2>2, <3>1, <4>2
    <3>2. CASE i = k
      <4>1. g[m - k + i] = w
        BY <1>m, <1>1, <3>2
      <4>2. i > 3 => words'[i - 4] = w
        BY <1>0, <1>2, <1>5, <3>2
      <4> QED
        BY <1>0, <1>5, <3>2, <4>1, <4>2
    <3> QED
      BY <3>1, <3>2
  <2> QED
    BY <1>m, <2>1, <2>3 DEF HeardSoFar
<1> QED
  BY <1>0, <1>3, <1>4, <1>5 DEF NextSeq

\* Nothing but an answer adds to the history, and whatever resets the one resets the other.
LEMMA StepKeepsHeard ==
  ASSUME IInv, HeardInv, Next
  PROVE  HeardInv'
<1>1. ASSUME UNCHANGED <<seq, words, heard>>
      PROVE  HeardInv'
  BY <1>1 DEF HeardInv
<1>2. ASSUME seq' = 0, heard' = <<>>
      PROVE  HeardInv'
  BY <1>2 DEF HeardInv, HeardSoFar
<1>3. ASSUME NEW w \in Words, BootRomAnswer(w)
      PROVE  HeardInv'
  BY <1>3, AnswerHears DEF BootRomAnswer, HeardInv
<1>4. ASSUME NEW w \in Words, LaunchCore1(w)
      PROVE  HeardInv'
  <2>1. seq' = 0 /\ HeardSoFar(NextSeq(w), heard', words')
    BY <1>4, AnswerHears DEF LaunchCore1
  <2>2. heard' \in Seq(Words)
    BY StepKeepsIInv DEF IInv, ChipType
  <2> QED
    BY <2>1, <2>2 DEF HeardInv, HeardSoFar
<1>5. ASSUME NEW c \in Core, Instruction(c)
      PROVE  UNCHANGED <<seq, words, heard>> \/ (seq' = 0 /\ heard' = <<>>)
  BY <1>5 DEF Instruction, FifoRead, FifoClear, FifoWrite, ForceOff, HoldCore1, ResetCore1, LetGo,
              Wfe, Wfi, Sev, TakeInterrupt, SystemReset, Enable, sio
<1>6. Park \/ ChipReset => seq' = 0 /\ heard' = <<>>
  BY DEF Park, ChipReset, HoldCore1, ResetCore1
<1>7. WatchdogReset => UNCHANGED <<seq, words, heard>>
  BY DEF WatchdogReset, sio
<1> QED
  BY <1>1, <1>2, <1>3, <1>4, <1>5, <1>6, <1>7 DEF Next, Handshake

\* Core 1 is launched only by the six words of the handshake, sent without a gap.
THEOREM LaunchNeedsHandshake == Spec => LaunchedByHandshake
<1>1. Init => HeardInv
  BY DEF Init, HeardInv, HeardSoFar
<1>2. IInv /\ HeardInv /\ [Next]_vars => HeardInv'
  <2>1. ASSUME HeardInv, UNCHANGED vars
        PROVE  HeardInv'
    BY <2>1 DEF HeardInv, vars, sio
  <2> QED
    BY <2>1, StepKeepsHeard
<1>3. IInv /\ HeardInv /\ [Next]_vars =>
        [~ running /\ running' =>
           /\ Len(heard') = 6
           /\ \A i \in 1 .. 3 : heard'[i] = <<0, 0, 1>>[i]
           /\ \A i \in 0 .. 2 : words'[i] = heard'[i + 4] /\ words'[i] # 0]_vars
  <2> SUFFICES ASSUME IInv, HeardInv, Next, ~ running, running'
               PROVE  /\ Len(heard') = 6
                      /\ \A i \in 1 .. 3 : heard'[i] = <<0, 0, 1>>[i]
                      /\ \A i \in 0 .. 2 : words'[i] = heard'[i + 4] /\ words'[i] # 0
    OBVIOUS
  <2>1. PICK w \in Words : LaunchCore1(w)
    BY DEF Next, Handshake, Instruction, BootRomAnswer, FifoRead, FifoClear, FifoWrite, ForceOff,
           HoldCore1, LetGo, Wfe, Wfi, Sev, TakeInterrupt, SystemReset, Enable, Park, ChipReset,
           WatchdogReset
  <2>2. HeardSoFar(NextSeq(w), heard', words') /\ NextSeq(w) >= 6
    BY <2>1, AnswerHears DEF LaunchCore1
  <2>3. NextSeq(w) = 6
    BY <2>2 DEF NextSeq, IInv, SioType
  <2>4. heard' \in Seq(Words)
    BY StepKeepsIInv DEF IInv, ChipType
  <2>5. /\ Len(heard') = 6
        /\ heard'[1] = 0 /\ heard'[2] = 0 /\ heard'[3] = 1
        /\ \A i \in 4 .. 6 : heard'[i] = words'[i - 4] /\ heard'[i] # 0
    <3>1. PICK n \in Nat : n = Len(heard')
      BY <2>4
    <3>2. n = 6
      BY <2>2, <2>3, <3>1 DEF HeardSoFar
    <3> QED
      BY <2>2, <2>3, <3>1, <3>2 DEF HeardSoFar
  <2>6. \A i \in 1 .. 3 : heard'[i] = <<0, 0, 1>>[i]
    BY <2>5
  <2>7. \A i \in 0 .. 2 : words'[i] = heard'[i + 4] /\ words'[i] # 0
    BY <2>5
  <2> QED
    BY <2>5, <2>6, <2>7
<1> QED
  BY <1>1, <1>2, <1>3, SioInvariantHolds, PTL DEF Spec, LaunchedByHandshake

-----------------------------------------------------------------------------
(* The invariant. *)

\* Core 1 is launched and core 0 has seen it: only then do messages travel.
Talking == launched /\ step = 6

Bit(b) == IF b THEN 1 ELSE 0

\* The message core 1 has read and not answered yet, and all that is on its way between `sent` and `got`.
Holding == Bit(pc1 = "push")
Flight == Len(fifo[1]) + Holding + Len(fifo[0])

Sleeps == {"awake", "wfe"}

Types ==
  /\ fifo \in [Core -> Seq(Nat)] /\ word \in Nat /\ taken \in Nat
  /\ step \in 0 .. 6 /\ sent \in 0 .. Len(Messages)
  /\ launched \in BOOLEAN /\ running = launched
  /\ sleep \in [Core -> Sleeps] /\ event \in [Core -> BOOLEAN]
  /\ \A c \in Core : enabled[c] = {}

Kept ==
  /\ got \in Seq(Nat) /\ Len(got) <= sent
  /\ \A i \in 1 .. Len(got) : got[i] = Messages[i] + 1

\* Before core 0 talks nothing is on its way to core 1, and it begins with the first message or has none to send.
Quiet == ~ Talking =>
  /\ fifo[0] = <<>>
  /\ launched => pc1 \in {"look", "wfe"} /\ taken = 0
  /\ (sent = 0 /\ got = <<>>) \/ sent = Len(Messages)

\* What is on its way is what was sent and is not yet received, in order, in three stages.
InFlight ==
  /\ \A k \in 1 .. Len(fifo[1]) : fifo[1][k] = Messages[Len(got) + k] + 1
  /\ pc1 = "push" => word = Messages[Len(got) + Len(fifo[1]) + 1]
  /\ \A k \in 1 .. Len(fifo[0]) : fifo[0][k] = Messages[Len(got) + Len(fifo[1]) + Holding + k]

Counted ==
  \/ /\ sent = Len(got) + Flight
     /\ taken + Bit(pc1 = "sev") = Len(got) + Len(fifo[1])
     /\ pc1 = "return" => taken = Len(Messages)
  \/ Flight = 0 /\ sent = Len(Messages) /\ pc1 \in {"look", "wfe"}  \* launched again after a return

Pipeline == Talking => InFlight /\ Counted /\ (pc1 = "pop" => fifo[0] # <<>>)

\* What each point of core 0's program may rely on: a word to pop, and an empty FIFO for the next echo.
Ways ==
  /\ pc0 = "talk" => step = 6
  /\ pc0 \in {"begin", "push", "let_go"} => step < 6
  /\ step < 6 => Len(fifo[1]) <= 1
  /\ step = 6 /\ ~ launched => fifo[1] = <<>>
  /\ pc0 = "push" \/ (pc0 = "begin" /\ Handshaking[step + 1] # 0) => fifo[1] = <<>>
  /\ pc0 = "let_go" => fifo[1] = <<>> /\ ~ launched
  /\ pc0 = "pop" => fifo[1] # <<>> \/ (~ launched /\ heard = <<>>)

\* A core about to execute its WFE with a word waiting finds its event register set, or its peer at the SEV.
Events ==
  /\ pc0 = "wfe" /\ Vld(0) /\ ~ event[0] => running /\ pc1 = "sev"
  /\ running /\ pc1 = "wfe" /\ Vld(1) /\ ~ event[1] => pc0 = "push_sev"
  /\ sleep[0] = "wfe" => pc0 = "look"
  /\ running /\ sleep[1] = "wfe" => pc1 = "look"

FInv == Types /\ Kept /\ Quiet /\ Pipeline /\ Ways /\ Events /\ NoLostWakeup

-----------------------------------------------------------------------------
(* Sequences, and what the instructions do. *)

LEMMA Queues ==
  /\ <<>> \in Seq(Nat) /\ Len(<<>>) = 0
  /\ \A s \in Seq(Nat) :
       /\ Len(s) \in Nat /\ (Len(s) = 0 <=> s = <<>>)
       /\ \A k \in 1 .. Len(s) : s[k] \in Nat
       /\ s # <<>> => /\ Tail(s) \in Seq(Nat) /\ Len(Tail(s)) = Len(s) - 1 /\ Len(s) >= 1
                      /\ Head(s) = s[1]
                      /\ \A k \in 1 .. Len(s) - 1 : Tail(s)[k] = s[k + 1]
       /\ \A w \in Nat : /\ Append(s, w) \in Seq(Nat) /\ Len(Append(s, w)) = Len(s) + 1
                         /\ Append(s, w)[Len(s) + 1] = w
                         /\ \A k \in 1 .. Len(s) : Append(s, w)[k] = s[k]
<1>1. <<>> \in Seq(Nat) /\ Len(<<>>) = 0
  BY EmptySeq
<1>2. ASSUME NEW s \in Seq(Nat)
      PROVE  /\ Len(s) \in Nat /\ (Len(s) = 0 <=> s = <<>>)
             /\ \A k \in 1 .. Len(s) : s[k] \in Nat
  BY LenProperties, EmptySeq, ElementOfSeq
<1>3. ASSUME NEW s \in Seq(Nat), s # <<>>
      PROVE  /\ Tail(s) \in Seq(Nat) /\ Len(Tail(s)) = Len(s) - 1 /\ Len(s) >= 1
             /\ Head(s) = s[1]
             /\ \A k \in 1 .. Len(s) - 1 : Tail(s)[k] = s[k + 1]
  BY <1>2, <1>3, HeadTailProperties
<1>4. ASSUME NEW s \in Seq(Nat), NEW w \in Nat
      PROVE  /\ Append(s, w) \in Seq(Nat) /\ Len(Append(s, w)) = Len(s) + 1
             /\ Append(s, w)[Len(s) + 1] = w
             /\ \A k \in 1 .. Len(s) : Append(s, w)[k] = s[k]
  BY AppendProperties
<1> QED BY <1>1, <1>2, <1>3, <1>4

LEMMA MessageIsAWord == ASSUME NEW i \in 1 .. Len(Messages) PROVE Messages[i] \in Nat
BY FirmwareAssumption, MulticoreAssumption, ElementOfSeq

LEMMA MessagesAreCounted == Len(Messages) \in Nat
BY FirmwareAssumption, LenProperties

LEMMA HandshakeWords ==
  ASSUME NEW i \in 0 .. 5
  PROVE  Handshaking[i + 1] \in Nat /\ (Handshaking[i + 1] # 0 <=> i >= 2)
<1>1. Handshaking[1] = 0 /\ Handshaking[2] = 0 /\ Handshaking[3] = 1 /\ Handshaking[4] = 2 /\ Handshaking[5] = 2
      /\ Handshaking[6] = 2
  BY DEF Handshaking
<1>2. i = 0 \/ i = 1 \/ i = 2 \/ i = 3 \/ i = 4 \/ i = 5
  OBVIOUS
<1> QED BY <1>1, <1>2

\* Neither program enables an interrupt, so that a change of the lines wakes nobody.
LEMMA LinesWakeNobody ==
  ASSUME NEW run, NEW pend, NEW on, NEW slp \in [Core -> Sleeps], NEW evt \in [Core -> BOOLEAN],
         \A c \in Core : on[c] = {}, UpdateFifoIrqs(run, pend, on, slp, evt)
  PROVE  sleep' = slp /\ event' = evt /\ \A c \in Core : enabled'[c] = {}
<1> DEFINE risen == {c \in Core : FifoStatus(c)' /\ ~ line[c]}
           Wakes(c) == /\ c = 1 => run
                       /\ slp[c] # "awake"
                       /\ risen \ pend[c] # {}
                       /\ on[c] \cap (pend[c] \cup risen) # {}
<1>1. /\ sleep' = [c \in Core |-> IF Wakes(c) THEN "awake" ELSE slp[c]]
      /\ event' = [c \in Core |-> Wakes(c) \/ evt[c]]
      /\ enabled' = on
  BY DEF UpdateFifoIrqs
<1>2. \A c \in Core : ~ Wakes(c)
  OBVIOUS
<1> HIDE DEF Wakes
<1>3. sleep' = [c \in Core |-> slp[c]] /\ event' = [c \in Core |-> evt[c]]
  BY <1>1, <1>2
<1> QED BY <1>1, <1>3

\* No core wakes or falls asleep, and nobody is launched or stopped.
Calm == UNCHANGED <<sleep, event, launched, running>> /\ \A c \in Core : enabled'[c] = {}

LEMMA Reading ==
  ASSUME Types, NEW c \in Core, FifoRead(c), fifo[Other(c)] # <<>>
  PROVE  Calm /\ fifo' = [fifo EXCEPT ![Other(c)] = Tail(@)]
BY LinesWakeNobody DEF FifoRead, Types, Calm

LEMMA Writing ==
  ASSUME Types, NEW c \in Core, NEW w, FifoWrite(c, w), Len(fifo[c]) < FifoDepth
  PROVE  Calm /\ fifo' = [fifo EXCEPT ![c] = Append(@, w)]
BY LinesWakeNobody DEF FifoWrite, Types, Calm

\* The boot ROM speaks: core 0, which is awake, has an event.
LEMMA Telling ==
  ASSUME Types, NEW w, BootRomAnswer(w) \/ (LetGo(0) /\ w = 0)
  PROVE  /\ fifo' = [fifo EXCEPT ![1] = Append(@, w)]
         /\ sleep' = sleep /\ event' = [event EXCEPT ![0] = TRUE]
         /\ UNCHANGED <<launched, running>> /\ \A c \in Core : enabled'[c] = {}
<1>1. /\ fifo' = [fifo EXCEPT ![1] = Append(@, w)] /\ UNCHANGED <<launched, running>> /\ sleep[0] = "awake"
      /\ UpdateFifoIrqs(running, pending, enabled, SentSleep(0), SentEvent(0))
  BY DEF BootRomAnswer, Answer, LetGo, Awake
<1>2. SentSleep(0) = sleep /\ SentEvent(0) = [event EXCEPT ![0] = TRUE]
  BY <1>1 DEF SentSleep, SentEvent
<1>3. [event EXCEPT ![0] = TRUE] \in [Core -> BOOLEAN] /\ sleep \in [Core -> Sleeps] /\ \A c \in Core : enabled[c] = {}
  BY DEF Types
<1> QED BY <1>1, <1>2, <1>3, LinesWakeNobody

LEMMA Launching ==
  ASSUME Types, NEW w, LaunchCore1(w)
  PROVE  /\ fifo' = [fifo EXCEPT ![1] = Append(@, w)] /\ launched' = TRUE /\ running' = TRUE /\ ~ launched
         /\ sleep' = [c \in Core |-> "awake"] /\ event' = [c \in Core |-> c = 0]
         /\ \A c \in Core : enabled'[c] = {}
<1> DEFINE slp == Cleared({1}, sleep, "awake")
           evt == Cleared({1}, SentEvent(0), FALSE)
           on == Cleared({1}, enabled, {})
<1>1. /\ fifo' = [fifo EXCEPT ![1] = Append(@, w)] /\ launched' = TRUE /\ running' = TRUE /\ ~ launched
      /\ sleep[0] = "awake" /\ UpdateFifoIrqs(TRUE, Cleared({1}, pending, pending[0]), on, slp, evt)
  BY DEF LaunchCore1, Answer, Awake
<1>2. SentEvent(0) = [event EXCEPT ![0] = TRUE]
  BY <1>1 DEF SentEvent
<1>3. slp = [c \in Core |-> "awake"] /\ evt = [c \in Core |-> c = 0] /\ \A c \in Core : on[c] = {}
  BY <1>1, <1>2, SMTT(30) DEF Cleared, Types, Core
<1> HIDE DEF slp, evt, on
<1>4. slp \in [Core -> Sleeps] /\ evt \in [Core -> BOOLEAN]
  BY <1>3 DEF Sleeps
<1> QED BY <1>1, <1>3, <1>4, LinesWakeNobody, ZenonT(30)

LEMMA Stopping ==
  ASSUME Types, HoldCore1
  PROVE  /\ fifo' = [c \in Core |-> <<>>] /\ launched' = FALSE /\ running' = FALSE /\ heard' = <<>>
         /\ sleep' = [c \in Core |-> IF c = 1 THEN "awake" ELSE sleep[c]]
         /\ event' = [c \in Core |-> IF c = 1 THEN FALSE ELSE event[c]]
         /\ \A c \in Core : enabled'[c] = {}
<1> DEFINE slp == Cleared({1}, sleep, "awake")
           evt == Cleared({1}, event, FALSE)
           on == Cleared({1}, enabled, {})
<1>1. /\ fifo' = [c \in Core |-> <<>>] /\ launched' = FALSE /\ running' = FALSE /\ heard' = <<>>
      /\ UpdateFifoIrqs(FALSE, Cleared({1}, pending, {}), on, slp, evt)
  BY DEF HoldCore1, ResetCore1
<1>2. /\ slp = [c \in Core |-> IF c = 1 THEN "awake" ELSE sleep[c]]
      /\ evt = [c \in Core |-> IF c = 1 THEN FALSE ELSE event[c]] /\ \A c \in Core : on[c] = {}
  BY DEF Cleared, Types, Core
<1> HIDE DEF slp, evt, on
<1>3. slp \in [Core -> Sleeps] /\ evt \in [Core -> BOOLEAN]
  BY <1>2 DEF Types, Sleeps
<1> QED BY <1>1, <1>2, <1>3, LinesWakeNobody, ZenonT(30)

LEMMA Signalling ==
  ASSUME Types, NEW c \in Core, Sev(c)
  PROVE  /\ sleep[c] = "awake" /\ sleep' = [d \in Core |-> "awake"]
         /\ event' = [d \in Core |-> IF d = c THEN TRUE ELSE sleep[d] = "wfe" => event[d]]
         /\ UNCHANGED <<fifo, launched, running, heard>> /\ \A d \in Core : enabled'[d] = {}
<1>1. /\ sleep[c] = "awake" /\ sleep' = SentSleep(Other(c)) /\ event' = [SentEvent(Other(c)) EXCEPT ![c] = TRUE]
      /\ UNCHANGED <<fifo, launched, running, heard, enabled>>
  BY DEF Sev, Awake, sio
<1>2. Other(c) \in Core /\ Other(c) # c /\ \A d \in Core : d = c \/ d = Other(c)
  BY DEF Core, Other
<1>3. sleep' = [d \in Core |-> "awake"]
  BY <1>1, <1>2 DEF SentSleep, Types, Sleeps
<1>4. event' = [d \in Core |-> IF d = c THEN TRUE ELSE sleep[d] = "wfe" => event[d]]
  BY <1>1, <1>2 DEF SentEvent, Types, Sleeps
<1> QED BY <1>1, <1>3, <1>4 DEF Types

LEMMA Waiting ==
  ASSUME Types, NEW c \in Core, Wfe(c)
  PROVE  /\ event' = [event EXCEPT ![c] = FALSE]
         /\ sleep' = [sleep EXCEPT ![c] = IF event[c] THEN "awake" ELSE "wfe"]
         /\ UNCHANGED <<fifo, launched, running, heard>> /\ \A d \in Core : enabled'[d] = {}
BY DEF Wfe, sio, Types

-----------------------------------------------------------------------------
(* Core 0. *)

LEMMA Ends == Core = {0, 1} /\ Other(0) = 1 /\ Other(1) = 0 /\ 0 \in Core /\ 1 \in Core /\ 0 # 1
BY DEF Core, Other

\* A step of core 0 that leaves what is on its way alone.
LEMMA MovesKeep ==
  ASSUME FInv, UNCHANGED <<fifo, launched, running, pc1, step, sent, taken, word, got>>,
         sleep' \in [Core -> Sleeps], event' \in [Core -> BOOLEAN], \A c \in Core : enabled'[c] = {},
         Ways', Events', NoLostWakeup'
  PROVE  FInv'
<1>1. Types'
  BY DEF FInv, Types
<1>2. Kept'
  BY DEF FInv, Kept
<1>3. Quiet'
  BY DEF FInv, Quiet, Talking
<1>4. Pipeline'
  BY DEF FInv, Pipeline, Talking, InFlight, Counted, Flight, Holding, Bit
<1> QED BY <1>1, <1>2, <1>3, <1>4 DEF FInv

\* multicore_reset_core1 leaves nothing behind.
LEMMA ForceOffKeeps ==
  ASSUME FInv, At0("force_off", "let_go"), ForceOff(0), ResetCore1OfSdk
  PROVE  FInv'
<1>1. Types /\ Kept
  BY DEF FInv
<1>2. /\ pc0' = "let_go" /\ step' = 0 /\ sent' = 0 /\ taken' = 0 /\ got' = <<>> /\ UNCHANGED <<pc1, word>>
      /\ sleep[0] = "awake"
  BY DEF At0, ResetCore1OfSdk, ForceOff, Awake
<1>3. /\ fifo' = [c \in Core |-> <<>>] /\ launched' = FALSE /\ running' = FALSE /\ heard' = <<>>
      /\ sleep' = [c \in Core |-> IF c = 1 THEN "awake" ELSE sleep[c]]
      /\ event' = [c \in Core |-> IF c = 1 THEN FALSE ELSE event[c]]
      /\ \A c \in Core : enabled'[c] = {}
  BY <1>1, Stopping DEF ForceOff
<1>4. fifo'[0] = <<>> /\ fifo'[1] = <<>> /\ sleep'[0] = "awake"
  BY <1>2, <1>3, Ends
<1>5. Types'
  <2>1. fifo' \in [Core -> Seq(Nat)]
    BY <1>3, Queues
  <2>2. sleep' \in [Core -> Sleeps] /\ event' \in [Core -> BOOLEAN]
    BY <1>1, <1>3 DEF Types, Sleeps
  <2>3. step' \in 0 .. 6 /\ sent' \in 0 .. Len(Messages) /\ taken' \in Nat /\ word' \in Nat
    BY <1>1, <1>2, MessagesAreCounted DEF Types
  <2> QED BY <1>3, <2>1, <2>2, <2>3 DEF Types
<1>6. Kept'
  BY <1>2, Queues DEF Kept
<1>7. Quiet' /\ Pipeline'
  BY <1>2, <1>3, <1>4 DEF Quiet, Pipeline, Talking
<1>8. Ways'
  BY <1>2, <1>3, <1>4, Queues DEF Ways
<1>9. Events' /\ NoLostWakeup'
  BY <1>2, <1>3, <1>4 DEF Events, NoLostWakeup, Vld
<1> QED BY <1>5, <1>6, <1>7, <1>8, <1>9 DEF FInv

LEMMA LetGoKeeps ==
  ASSUME FInv, pc0 = "let_go", pc0' \in {"look", "begin"}, LetGo(0), ResetCore1OfSdk
  PROVE  FInv'
<1>1. Types /\ Kept /\ Quiet /\ Ways /\ Events
  BY DEF FInv
<1>2. /\ step' = 0 /\ sent' = 0 /\ taken' = 0 /\ got' = <<>> /\ UNCHANGED <<pc1, word>>
      /\ sleep[0] = "awake"
  BY DEF ResetCore1OfSdk, LetGo, Awake
<1>3. /\ fifo' = [fifo EXCEPT ![1] = Append(@, 0)]
      /\ sleep' = sleep /\ event' = [event EXCEPT ![0] = TRUE]
      /\ UNCHANGED <<launched, running>> /\ \A c \in Core : enabled'[c] = {}
  BY <1>1, Telling
<1>4. fifo[1] = <<>> /\ ~ launched /\ ~ running /\ fifo[0] = <<>>
  BY <1>1 DEF Types, Ways, Quiet, Talking
<1>5. fifo'[0] = <<>> /\ fifo'[1] = Append(<<>>, 0) /\ Len(fifo'[1]) = 1 /\ fifo' \in [Core -> Seq(Nat)]
  BY <1>1, <1>3, <1>4, Ends, Queues DEF Types
<1>6. Types'
  <2>1. step' \in 0 .. 6 /\ sent' \in 0 .. Len(Messages) /\ taken' \in Nat /\ word' \in Nat
    BY <1>1, <1>2, MessagesAreCounted DEF Types
  <2>2. sleep' \in [Core -> Sleeps] /\ event' \in [Core -> BOOLEAN]
    BY <1>1, <1>3 DEF Types
  <2> QED BY <1>1, <1>3, <1>5, <2>1, <2>2 DEF Types
<1>7. Kept'
  BY <1>2, Queues DEF Kept
<1>8. Quiet' /\ Pipeline'
  BY <1>2, <1>3, <1>4, <1>5 DEF Quiet, Pipeline, Talking
<1>9. Ways'
  <2>1. Handshaking[step' + 1] = 0
    BY <1>2, HandshakeWords
  <2> QED BY <1>2, <1>5, <2>1 DEF Ways
<1>10. Events' /\ NoLostWakeup'
  BY <1>2, <1>3, <1>4 DEF Events, NoLostWakeup
<1> QED BY <1>6, <1>7, <1>8, <1>9, <1>10 DEF FInv

LEMMA DrainKeeps ==
  ASSUME FInv, Drain
  PROVE  FInv'
<1>1. Types /\ Kept /\ Quiet /\ Pipeline /\ Ways /\ Events /\ NoLostWakeup
  BY DEF FInv
<1>2. UNCHANGED <<pc1, step, sent, taken, word, got>> /\ pc0 = "begin" /\ step \in 0 .. 5
  BY <1>1 DEF Drain, At0, Ways, Types
<1>3. CASE At0("begin", "push") /\ Handshaking[step + 1] # 0 /\ Awake(0) /\ UNCHANGED vars
  <2>1. pc0' = "push" /\ sleep[0] = "awake" /\ UNCHANGED <<fifo, launched, running, sleep, event, enabled>>
    BY <1>3 DEF At0, Awake, vars, sio, cores
  <2>2. Ways'
    BY <1>1, <1>2, <1>3, <2>1 DEF Ways
  <2>3. Events' /\ NoLostWakeup'
    BY <1>1, <1>2, <2>1 DEF Events, NoLostWakeup, Vld
  <2>4. sleep' \in [Core -> Sleeps] /\ event' \in [Core -> BOOLEAN] /\ \A c \in Core : enabled'[c] = {}
    BY <1>1, <2>1 DEF Types
  <2> QED BY <1>2, <2>1, <2>2, <2>3, <2>4, MovesKeep
<1>4. CASE At0("begin", "push") /\ Handshaking[step + 1] = 0 /\ ~ Vld(0) /\ Sev(0)
  <2>1. pc0' = "push"
    BY <1>4 DEF At0
  <2>2. /\ sleep[0] = "awake" /\ sleep' = [d \in Core |-> "awake"]
        /\ event' = [d \in Core |-> IF d = 0 THEN TRUE ELSE sleep[d] = "wfe" => event[d]]
        /\ UNCHANGED <<fifo, launched, running, heard>> /\ \A d \in Core : enabled'[d] = {}
    BY <1>1, <1>4, Ends, Signalling
  <2>3. Ways'
    BY <1>1, <1>2, <1>4, <2>1, <2>2, Ends DEF Ways, Vld
  <2>4. sleep'[0] = "awake" /\ sleep'[1] = "awake" /\ event'[1] = (sleep[1] = "wfe" => event[1])
    BY <2>2, Ends
  <2>5. Events' /\ NoLostWakeup'
    BY <1>1, <1>2, <2>1, <2>2, <2>4 DEF Events, NoLostWakeup, Vld
  <2>6. sleep' \in [Core -> Sleeps] /\ event' \in [Core -> BOOLEAN]
    BY <1>1, <2>2 DEF Types, Sleeps
  <2> QED BY <1>2, <2>2, <2>3, <2>5, <2>6, MovesKeep
<1>5. CASE At0("begin", "begin") /\ Handshaking[step + 1] = 0 /\ Vld(0) /\ FifoRead(0)
  <2>1. pc0' = "begin" /\ fifo[1] # <<>> /\ sleep[0] = "awake"
    BY <1>5, Ends DEF At0, Vld, FifoRead, Awake
  <2>2. Calm /\ fifo' = [fifo EXCEPT ![1] = Tail(@)]
    BY <1>1, <1>5, <2>1, Ends, Reading
  <2>3. fifo'[0] = fifo[0] /\ fifo'[1] = <<>> /\ fifo' \in [Core -> Seq(Nat)]
    <3>1. fifo[1] \in Seq(Nat) /\ fifo[0] \in Seq(Nat) /\ Len(fifo[1]) <= 1
      BY <1>1, <1>2, Ends DEF Types, Ways
    <3>2. Tail(fifo[1]) \in Seq(Nat) /\ Len(Tail(fifo[1])) = 0
      <4> DEFINE q == fifo[1]
      <4>1. q \in Seq(Nat) /\ q # <<>> /\ Len(q) <= 1
        BY <2>1, <3>1
      <4> HIDE DEF q
      <4>2. Len(q) \in Nat /\ Len(q) >= 1 /\ Tail(q) \in Seq(Nat) /\ Len(Tail(q)) = Len(q) - 1
        BY <4>1, Queues
      <4>3. Len(Tail(q)) = 0
        BY <4>1, <4>2
      <4> QED BY <4>2, <4>3 DEF q
    <3>3. Tail(fifo[1]) = <<>>
      BY <3>2, Queues
    <3> QED BY <1>1, <2>2, <3>2, <3>3, Ends DEF Types
  <2>4. Types'
    BY <1>1, <1>2, <2>2, <2>3 DEF Types, Calm
  <2>5. Kept'
    BY <1>1, <1>2 DEF Kept
  <2>6. Quiet' /\ Pipeline'
    BY <1>1, <1>2, <2>2, <2>3 DEF Quiet, Pipeline, Talking, Calm
  <2>7. Ways'
    BY <1>1, <1>2, <1>5, <2>1, <2>2, <2>3, Queues DEF Ways, Calm
  <2>8. Events' /\ NoLostWakeup'
    BY <1>1, <1>2, <2>1, <2>2, <2>3, Ends DEF Events, NoLostWakeup, Vld, Calm
  <2> QED BY <2>4, <2>5, <2>6, <2>7, <2>8 DEF FInv
<1> QED BY <1>3, <1>4, <1>5 DEF Drain

\* A word of the handshake: it is echoed, and the last one launches core 1, which finds nothing.
LEMMA PushKeeps ==
  ASSUME FInv, Push
  PROVE  FInv'
<1> DEFINE cmd == Handshaking[step + 1]
<1>1. Types /\ Kept /\ Quiet /\ Pipeline /\ Ways /\ Events /\ NoLostWakeup
  BY DEF FInv
<1>2. UNCHANGED <<step, sent, word, got>> /\ pc0 = "push" /\ pc0' = "push_sev" /\ step \in 0 .. 5
  BY <1>1 DEF Push, At0, Ways, Types
<1>3. cmd \in Nat
  BY <1>2, HandshakeWords
<1>4. fifo[1] = <<>> /\ fifo[0] = <<>> /\ ~ Talking
  BY <1>1, <1>2 DEF Ways, Quiet, Talking
<1>5. \/ BootRomAnswer(cmd) /\ UNCHANGED <<pc1, taken>>
      \/ LaunchCore1(cmd) /\ pc1' = "look" /\ taken' = 0
  BY DEF Push
<1> HIDE DEF cmd
<1>6. fifo' = [fifo EXCEPT ![1] = Append(@, cmd)] /\ sleep'[0] = "awake" /\ \A c \in Core : enabled'[c] = {}
  BY <1>1, <1>5, Telling, Launching, Ends DEF BootRomAnswer, Answer, Awake
<1>7. fifo'[0] = <<>> /\ fifo'[1] # <<>> /\ Len(fifo'[1]) = 1 /\ fifo' \in [Core -> Seq(Nat)]
  <2>1. Append(<<>>, cmd) \in Seq(Nat) /\ Len(Append(<<>>, cmd)) = 1
    BY <1>3, Queues
  <2>2. Append(<<>>, cmd) # <<>>
    BY <2>1, Queues
  <2> QED BY <1>1, <1>4, <1>6, <2>1, <2>2, Ends DEF Types
<1>8. Kept'
  BY <1>1, <1>2 DEF Kept
<1>9. CASE BootRomAnswer(cmd) /\ UNCHANGED <<pc1, taken>>
  <2>1. sleep' = sleep /\ event' = [event EXCEPT ![0] = TRUE] /\ UNCHANGED <<launched, running>>
    BY <1>1, <1>9, Telling
  <2>2. Types'
    <3>1. event' \in [Core -> BOOLEAN]
      BY <1>1, <2>1 DEF Types
    <3> QED BY <1>1, <1>2, <1>6, <1>7, <1>9, <2>1, <3>1 DEF Types
  <2>3. Quiet' /\ Pipeline'
    BY <1>1, <1>2, <1>4, <1>7, <1>9, <2>1 DEF Quiet, Pipeline, Talking
  <2>4. Ways'
    BY <1>2, <1>7 DEF Ways
  <2>5. Events' /\ NoLostWakeup'
    BY <1>1, <1>2, <1>6, <1>7, <1>9, <2>1, Ends DEF Events, NoLostWakeup, Vld
  <2> QED BY <1>8, <2>2, <2>3, <2>4, <2>5 DEF FInv
<1>10. CASE LaunchCore1(cmd) /\ pc1' = "look" /\ taken' = 0
  <2>1. /\ launched' = TRUE /\ running' = TRUE
        /\ sleep' = [c \in Core |-> "awake"] /\ event' = [c \in Core |-> c = 0]
    BY <1>1, <1>10, Launching
  <2>2. Types'
    <3>1. sleep' \in [Core -> Sleeps] /\ event' \in [Core -> BOOLEAN]
      BY <2>1 DEF Sleeps
    <3> QED BY <1>1, <1>2, <1>6, <1>7, <1>10, <2>1, <3>1 DEF Types
  <2>3. Quiet' /\ Pipeline'
    BY <1>1, <1>2, <1>4, <1>7, <1>10, <2>1 DEF Quiet, Pipeline, Talking
  <2>4. Ways'
    BY <1>2, <1>7 DEF Ways
  <2>5. sleep'[1] = "awake"
    BY <2>1, Ends
  <2>6. Events' /\ NoLostWakeup'
    BY <1>2, <1>6, <1>10, <2>5 DEF Events, NoLostWakeup
  <2> QED BY <1>8, <2>2, <2>3, <2>4, <2>6 DEF FInv
<1> QED BY <1>5, <1>9, <1>10

LEMMA PushSevKeeps ==
  ASSUME FInv, PushSev
  PROVE  FInv'
<1>1. Types /\ Kept /\ Quiet /\ Pipeline /\ Ways /\ Events /\ NoLostWakeup
  BY DEF FInv
<1>2. /\ UNCHANGED <<pc1, step, sent, taken, word, got>> /\ pc0 = "push_sev" /\ step \in 0 .. 6
      /\ pc0' = (IF step < 6 THEN "look" ELSE "talk")
  BY <1>1 DEF PushSev, At0, Types
<1>3. /\ sleep[0] = "awake" /\ sleep' = [d \in Core |-> "awake"]
      /\ event' = [d \in Core |-> IF d = 0 THEN TRUE ELSE sleep[d] = "wfe" => event[d]]
      /\ UNCHANGED <<fifo, launched, running, heard>> /\ \A d \in Core : enabled'[d] = {}
  BY <1>1, Ends, Signalling DEF PushSev
<1>4. Ways'
  BY <1>1, <1>2, <1>3 DEF Ways
<1>5. sleep'[0] = "awake" /\ sleep'[1] = "awake" /\ event'[1] = (sleep[1] = "wfe" => event[1])
  BY <1>3, Ends
<1>6. Events' /\ NoLostWakeup'
  BY <1>1, <1>2, <1>3, <1>5 DEF Events, NoLostWakeup, Vld
<1>7. sleep' \in [Core -> Sleeps] /\ event' \in [Core -> BOOLEAN]
  BY <1>1, <1>3 DEF Types, Sleeps
<1> QED BY <1>2, <1>3, <1>4, <1>6, <1>7, MovesKeep

\* The next message joins the end of what is on its way.
LEMMA SendKeeps ==
  ASSUME FInv, At0("talk", "push_sev"), sent < Len(Messages), Rdy(0), FifoWrite(0, Messages[sent + 1]),
         sent' = sent + 1, UNCHANGED <<pc1, step, taken, word, got>>
  PROVE  FInv'
<1> DEFINE q0 == fifo[0]
           n1 == Len(fifo[1])
           n0 == Len(q0)
           r == Append(q0, Messages[sent + 1])
           m == Messages[sent + 1]
           g == Len(got)
           total == Len(Messages)
<1>1. Types /\ Kept /\ Quiet /\ Pipeline /\ Ways /\ Events /\ NoLostWakeup
  BY DEF FInv
<1>2. pc0 = "talk" /\ pc0' = "push_sev" /\ step = 6 /\ launched /\ running /\ sleep[0] = "awake" /\ Talking
  BY <1>1 DEF At0, Ways, FifoWrite, Awake, Types, Talking
<1>3. Calm /\ fifo' = [fifo EXCEPT ![0] = Append(@, m)]
  BY <1>1, Ends, Writing DEF Rdy
<1>4. total \in Nat /\ sent \in Nat /\ sent < total /\ m \in Nat
  BY <1>1, MessagesAreCounted, MessageIsAWord DEF Types
<1>5. q0 \in Seq(Nat) /\ fifo[1] \in Seq(Nat) /\ got \in Seq(Nat)
  BY <1>1, Ends DEF Types, Kept
<1>6. n0 \in Nat /\ n1 \in Nat /\ g \in Nat
  BY <1>5, Queues
<1>7. /\ r \in Seq(Nat) /\ Len(r) = n0 + 1 /\ r[n0 + 1] = m /\ \A k \in 1 .. n0 : r[k] = q0[k]
  <2> HIDE DEF q0, m
  <2> QED BY <1>4, <1>5, Queues DEF m
<1>8. fifo'[0] = r /\ fifo'[1] = fifo[1] /\ fifo' \in [Core -> Seq(Nat)]
  BY <1>1, <1>3, <1>7, Ends DEF Types
<1>9. InFlight /\ Counted /\ (pc1 = "pop" => q0 # <<>>)
  BY <1>1, <1>2 DEF Pipeline
<1>10. Holding \in Nat /\ Flight = n1 + Holding + n0
  BY DEF Holding, Bit, Flight
<1>11. /\ sent = g + (n1 + Holding + n0) /\ taken + Bit(pc1 = "sev") = g + n1 /\ (pc1 = "return" => taken = total)
  <2> HIDE DEF n0, n1, g, total, q0, m, r
  <2>1. ~ (sent = total)
    BY <1>4
  <2> QED BY <1>9, <1>10, <2>1 DEF Counted, n1, g, total
<1>12. r # <<>>
  <2> HIDE DEF r
  <2>1. Len(r) # 0
    BY <1>6, <1>7
  <2> QED BY <1>7, <2>1, Queues
<1>13. UNCHANGED Holding
  BY DEF Holding
<1> HIDE DEF r, q0, n0, n1, g, total, m
<1>14. Types'
  <2>1. sent + 1 \in 0 .. total
    BY <1>4
  <2> QED BY <1>1, <1>3, <1>8, <2>1 DEF Types, Calm, total
<1>15. Kept'
  <2>1. g <= sent + 1
    BY <1>1, <1>4, <1>6 DEF Kept, g
  <2> QED BY <1>1, <2>1 DEF Kept, g
<1>16. Quiet'
  BY <1>2, <1>3 DEF Quiet, Talking, Calm
<1>17. InFlight'
  <2>1. \A k \in 1 .. n0 + 1 : r[k] = Messages[g + n1 + Holding + k]
    <3> TAKE k \in 1 .. n0 + 1
    <3>1. CASE k \in 1 .. n0
      BY <1>7, <1>9, <3>1 DEF InFlight, n0, n1, g, q0
    <3>2. CASE k = n0 + 1
      <4>1. g + n1 + Holding + k = sent + 1
        BY <1>6, <1>10, <1>11, <3>2
      <4> QED BY <1>7, <3>2, <4>1 DEF m
    <3> QED BY <1>6, <3>1, <3>2
  <2>2. \A k \in 1 .. Len(fifo'[0]) : fifo'[0][k] = Messages[Len(got') + Len(fifo'[1]) + Holding' + k]
    BY <1>7, <1>8, <1>13, <2>1 DEF g, n1
  <2>3. \A k \in 1 .. Len(fifo'[1]) : fifo'[1][k] = Messages[Len(got') + k] + 1
    BY <1>8, <1>9 DEF InFlight
  <2>4. pc1' = "push" => word' = Messages[Len(got') + Len(fifo'[1]) + 1]
    BY <1>8, <1>9 DEF InFlight
  <2> QED BY <2>2, <2>3, <2>4 DEF InFlight
<1>18. Counted'
  <2>1. Flight' = n1 + Holding + (n0 + 1)
    BY <1>7, <1>8, <1>13 DEF Flight, n1
  <2>2. sent' = Len(got') + Flight'
    <3>1. sent + 1 = g + (n1 + Holding + (n0 + 1))
      BY <1>6, <1>10, <1>11
    <3> QED BY <2>1, <3>1 DEF g
  <2>3. taken' + Bit(pc1' = "sev") = Len(got') + Len(fifo'[1])
    BY <1>8, <1>11 DEF g, n1
  <2> QED BY <1>11, <2>2, <2>3 DEF Counted, Bit, total
<1>19. Pipeline'
  BY <1>8, <1>12, <1>17, <1>18 DEF Pipeline
<1>20. Ways'
  BY <1>1, <1>2, <1>3, <1>8 DEF Ways, Calm
<1>21. Events' /\ NoLostWakeup'
  BY <1>1, <1>2, <1>3, <1>8, Ends DEF Events, NoLostWakeup, Vld, Calm
<1> QED BY <1>14, <1>15, <1>16, <1>19, <1>20, <1>21 DEF FInv

\* A read of the empty FIFO.
LEMMA ReadingNothing ==
  ASSUME Types, NEW c \in Core, FifoRead(c), fifo[Other(c)] = <<>>
  PROVE  Calm /\ fifo' = fifo
BY LinesWakeNobody DEF FifoRead, Types, Calm

\* The answer that core 0 pops is the oldest on its way.
LEMMA ReceiveKeeps ==
  ASSUME FInv, Pop0, pc0 = "pop", FifoRead(0), fifo[1] # <<>>, Talking
  PROVE  FInv'
<1> DEFINE q1 == fifo[1]
           n1 == Len(q1)
           n0 == Len(fifo[0])
           r == Tail(q1)
           w == Head(q1)
           g == Len(got)
<1>1. Types /\ Kept /\ Quiet /\ Pipeline /\ Ways /\ Events /\ NoLostWakeup
  BY DEF FInv
<1>2. /\ pc0' = "talk" /\ got' = Append(got, w) /\ UNCHANGED <<step, pc1, sent, taken, word>>
      /\ step = 6 /\ launched /\ sleep[0] = "awake"
  BY DEF Pop0, Talking, At0, FifoRead, Awake
<1>3. Calm /\ fifo' = [fifo EXCEPT ![1] = r]
  BY <1>1, Ends, Reading
<1>4. q1 \in Seq(Nat) /\ fifo[0] \in Seq(Nat) /\ got \in Seq(Nat) /\ q1 # <<>>
  BY <1>1, Ends DEF Types, Kept
<1>5. n1 \in Nat /\ n0 \in Nat /\ g \in Nat /\ n1 >= 1 /\ sent \in Nat
  <2>1. sent \in Nat
    BY <1>1, MessagesAreCounted DEF Types
  <2> HIDE DEF q1
  <2> QED BY <1>4, <2>1, Queues
<1>6. r \in Seq(Nat) /\ Len(r) = n1 - 1 /\ w = q1[1] /\ \A k \in 1 .. n1 - 1 : r[k] = q1[k + 1]
  <2> HIDE DEF q1
  <2> QED BY <1>4, Queues
<1>7. fifo'[1] = r /\ fifo'[0] = fifo[0] /\ fifo' \in [Core -> Seq(Nat)]
  BY <1>1, <1>3, <1>6, Ends DEF Types
<1>8. InFlight /\ Counted /\ (pc1 = "pop" => fifo[0] # <<>>)
  BY <1>1 DEF Pipeline
<1>9. Holding \in Nat /\ Flight = n1 + Holding + n0 /\ UNCHANGED Holding
  BY <1>2 DEF Holding, Bit, Flight
<1>10. sent = g + (n1 + Holding + n0) /\ taken + Bit(pc1 = "sev") = g + n1 /\ (pc1 = "return" => taken = Len(Messages))
  <2> HIDE DEF n0, n1, g, q1, r, w
  <2>1. ~ (Flight = 0)
    BY <1>5, <1>9
  <2> QED BY <1>8, <1>9, <2>1 DEF Counted, n1, g, q1
<1>11. w = Messages[g + 1] + 1 /\ w \in Nat
  <2>1. 1 \in 1 .. n1
    BY <1>5
  <2>2. w = Messages[g + 1] + 1
    BY <1>6, <1>8, <2>1 DEF InFlight
  <2> HIDE DEF q1, n1
  <2>3. q1[1] \in Nat
    BY <1>4, <2>1, Queues DEF n1
  <2> QED BY <1>6, <2>2, <2>3
<1>12. /\ got' \in Seq(Nat) /\ Len(got') = g + 1 /\ got'[g + 1] = w /\ \A k \in 1 .. g : got'[k] = got[k]
  <2> HIDE DEF w
  <2> QED BY <1>2, <1>4, <1>11, Queues
<1> HIDE DEF r, q1, n0, n1, g, w
<1>13. Types'
  BY <1>1, <1>2, <1>3, <1>7 DEF Types, Calm
<1>14. Kept'
  <2>1. g + 1 <= sent
    BY <1>5, <1>9, <1>10
  <2>2. \A i \in 1 .. g + 1 : got'[i] = Messages[i] + 1
    <3> TAKE i \in 1 .. g + 1
    <3>1. CASE i = g + 1
      BY <1>11, <1>12, <3>1
    <3>2. CASE i \in 1 .. g
      BY <1>1, <1>12, <3>2 DEF Kept, g
    <3> QED BY <1>5, <3>1, <3>2
  <2> QED BY <1>2, <1>12, <2>1, <2>2 DEF Kept
<1>15. Quiet'
  BY <1>2, <1>3 DEF Quiet, Talking, Calm
<1>16. InFlight'
  <2>1. \A k \in 1 .. n1 - 1 : r[k] = Messages[g + 1 + k] + 1
    <3> TAKE k \in 1 .. n1 - 1
    <3>1. k + 1 \in 1 .. n1 /\ g + (k + 1) = g + 1 + k
      BY <1>5
    <3> QED BY <1>6, <1>8, <3>1 DEF InFlight, n1, g, q1
  <2>2. (g + 1) + (n1 - 1) = g + n1
    BY <1>5
  <2>3. pc1 = "push" => word = Messages[g + n1 + 1]
    BY <1>8 DEF InFlight, g, n1, q1
  <2>4. \A k \in 1 .. n0 : fifo[0][k] = Messages[g + n1 + Holding + k]
    BY <1>8 DEF InFlight, g, n1, n0, q1
  <2>5. Len(got') + Len(fifo'[1]) = g + n1
    BY <1>6, <1>7, <1>12, <2>2
  <2>6. \A k \in 1 .. Len(fifo'[1]) : fifo'[1][k] = Messages[Len(got') + k] + 1
    BY <1>6, <1>7, <1>12, <2>1
  <2>7. pc1' = "push" => word' = Messages[Len(got') + Len(fifo'[1]) + 1]
    BY <1>2, <2>3, <2>5
  <2>8. \A k \in 1 .. Len(fifo'[0]) : fifo'[0][k] = Messages[Len(got') + Len(fifo'[1]) + Holding' + k]
    BY <1>7, <1>9, <2>4, <2>5 DEF n0
  <2> QED BY <2>6, <2>7, <2>8 DEF InFlight
<1>17. Counted'
  <2>1. Flight' = (n1 - 1) + Holding + n0
    BY <1>6, <1>7, <1>9 DEF Flight, n0
  <2>2. sent = (g + 1) + ((n1 - 1) + Holding + n0) /\ g + n1 = (g + 1) + (n1 - 1)
    BY <1>5, <1>9, <1>10, SMTT(30)
  <2>3. sent' = Len(got') + Flight'
    BY <1>2, <1>12, <2>1, <2>2
  <2>4. taken' + Bit(pc1' = "sev") = Len(got') + Len(fifo'[1])
    BY <1>2, <1>6, <1>7, <1>10, <1>12, <2>2
  <2> QED BY <1>2, <1>10, <2>3, <2>4 DEF Counted
<1>18. Pipeline'
  BY <1>2, <1>7, <1>8, <1>16, <1>17 DEF Pipeline
<1>19. Ways'
  BY <1>2, <1>3 DEF Ways, Calm
<1>20. Events' /\ NoLostWakeup'
  BY <1>1, <1>2, <1>3, <1>7, Ends DEF Events, NoLostWakeup, Vld, Calm
<1> QED BY <1>13, <1>14, <1>15, <1>18, <1>19, <1>20 DEF FInv

\* An echo of the handshake, or the word of a core 1 that has returned.
LEMMA EchoKeeps ==
  ASSUME FInv, Pop0, pc0 = "pop", FifoRead(0), ~ Talking
  PROVE  FInv'
<1>1. Types /\ Kept /\ Quiet /\ Pipeline /\ Ways /\ Events /\ NoLostWakeup
  BY DEF FInv
<1>2. /\ step' \in {0, step + 1} /\ (heard = <<>> => step' = 0)
      /\ pc0' = (IF step' = 6 THEN "talk" ELSE "begin") /\ UNCHANGED <<got, pc1, sent, taken, word>>
      /\ sleep[0] = "awake"
  BY DEF Pop0, Talking, At0, FifoRead, Awake
<1>3. fifo'[1] = <<>> /\ fifo'[0] = fifo[0] /\ fifo' \in [Core -> Seq(Nat)] /\ Calm /\ step' \in 0 .. 6
  <2>1. CASE fifo[1] = <<>>
    <3>1. Calm /\ fifo' = fifo
      BY <1>1, <2>1, Ends, ReadingNothing
    <3>2. step' = 0
      BY <1>1, <1>2, <2>1 DEF Ways
    <3> QED BY <1>1, <2>1, <3>1, <3>2 DEF Types
  <2>2. CASE fifo[1] # <<>>
    <3>1. Calm /\ fifo' = [fifo EXCEPT ![1] = Tail(@)]
      BY <1>1, <2>2, Ends, Reading
    <3>2. step < 6 /\ Len(fifo[1]) <= 1
      BY <1>1, <2>2 DEF Ways, Talking, Types
    <3>3. Tail(fifo[1]) = <<>> /\ Tail(fifo[1]) \in Seq(Nat)
      <4> DEFINE q == fifo[1]
      <4>1. q \in Seq(Nat) /\ q # <<>> /\ Len(q) <= 1
        BY <1>1, <2>2, <3>2, Ends DEF Types
      <4> HIDE DEF q
      <4>2. Len(q) \in Nat /\ Len(q) >= 1 /\ Tail(q) \in Seq(Nat) /\ Len(Tail(q)) = Len(q) - 1
        BY <4>1, Queues
      <4>3. Len(Tail(q)) = 0
        BY <4>1, <4>2
      <4>4. Tail(q) = <<>>
        BY <4>2, <4>3, Queues
      <4> QED BY <4>2, <4>4 DEF q
    <3>4. step' \in 0 .. 6
      BY <1>1, <1>2, <3>2 DEF Types
    <3> QED BY <1>1, <3>1, <3>3, <3>4, Ends DEF Types
  <2> QED BY <2>1, <2>2
<1>4. Types'
  BY <1>1, <1>2, <1>3 DEF Types, Calm
<1>5. Kept'
  BY <1>1, <1>2 DEF Kept
<1>6. /\ fifo[0] = <<>> /\ (launched => pc1 \in {"look", "wfe"} /\ taken = 0)
      /\ (sent = 0 /\ got = <<>>) \/ sent = Len(Messages)
  BY <1>1 DEF Quiet
<1>7. Quiet'
  BY <1>2, <1>3, <1>6 DEF Quiet, Calm
<1>8. Pipeline'
  <2> SUFFICES ASSUME Talking' PROVE Pipeline'
    BY DEF Pipeline
  <2>1. pc1' \in {"look", "wfe"} /\ taken' = 0
    BY <1>2, <1>3, <1>6 DEF Talking, Calm
  <2>2. Len(fifo'[0]) = 0 /\ Len(fifo'[1]) = 0 /\ Holding' = 0 /\ Flight' = 0
    BY <1>3, <1>6, <2>1, Queues DEF Holding, Flight, Bit
  <2>3. InFlight'
    BY <2>1, <2>2 DEF InFlight
  <2>4. Counted'
    <3>1. CASE sent = 0 /\ got = <<>>
      <4>1. sent' = 0 /\ Len(got') = 0
        BY <1>2, <3>1, Queues
      <4> QED BY <2>1, <2>2, <4>1 DEF Counted, Bit
    <3>2. CASE sent = Len(Messages)
      BY <1>2, <2>1, <2>2, <3>2 DEF Counted
    <3> QED BY <1>6, <3>1, <3>2
  <2> QED BY <2>1, <2>3, <2>4 DEF Pipeline
<1>9. Ways'
  BY <1>2, <1>3, Queues DEF Ways, Calm
<1>10. Events' /\ NoLostWakeup'
  BY <1>1, <1>2, <1>3, Ends DEF Events, NoLostWakeup, Vld, Calm
<1> QED BY <1>4, <1>5, <1>7, <1>8, <1>9, <1>10 DEF FInv

LEMMA PopKeeps ==
  ASSUME FInv, Pop0
  PROVE  FInv'
<1>1. Types /\ Kept /\ Quiet /\ Pipeline /\ Ways /\ Events /\ NoLostWakeup
  BY DEF FInv
<1>2. UNCHANGED <<pc1, sent, taken, word>>
  BY DEF Pop0
<1>3. CASE At0("look", IF Vld(0) THEN "pop" ELSE "wfe") /\ Awake(0) /\ UNCHANGED <<vars, step, got>>
  <2>1. /\ pc0' = (IF fifo[1] # <<>> THEN "pop" ELSE "wfe") /\ sleep[0] = "awake" /\ pc0 = "look"
        /\ UNCHANGED <<fifo, launched, running, sleep, event, enabled, heard, step, got>>
    BY <1>3, Ends DEF At0, Awake, vars, sio, cores, Vld
  <2>2. Ways'
    BY <1>1, <2>1 DEF Ways
  <2>3. Events' /\ NoLostWakeup'
    BY <1>1, <1>2, <2>1, Ends DEF Events, NoLostWakeup, Vld
  <2>4. sleep' \in [Core -> Sleeps] /\ event' \in [Core -> BOOLEAN] /\ \A c \in Core : enabled'[c] = {}
    BY <1>1, <2>1 DEF Types
  <2> QED BY <1>2, <2>1, <2>2, <2>3, <2>4, MovesKeep
<1>4. CASE At0("wfe", "look") /\ Wfe(0) /\ UNCHANGED <<step, got>>
  <2>1. pc0 = "wfe" /\ pc0' = "look" /\ UNCHANGED <<step, got>>
    BY <1>4 DEF At0
  <2>2. /\ event' = [event EXCEPT ![0] = FALSE]
        /\ sleep' = [sleep EXCEPT ![0] = IF event[0] THEN "awake" ELSE "wfe"]
        /\ UNCHANGED <<fifo, launched, running, heard>> /\ \A d \in Core : enabled'[d] = {}
    BY <1>1, <1>4, Ends, Waiting
  <2>3. Ways'
    BY <1>1, <2>1, <2>2 DEF Ways
  <2>4. event'[1] = event[1] /\ sleep'[1] = sleep[1] /\ sleep'[0] = (IF event[0] THEN "awake" ELSE "wfe")
    BY <1>1, <2>2, Ends DEF Types
  <2>5. Events' /\ NoLostWakeup'
    BY <1>1, <1>2, <2>1, <2>2, <2>4, Ends DEF Events, NoLostWakeup, Vld
  <2>6. sleep' \in [Core -> Sleeps] /\ event' \in [Core -> BOOLEAN]
    BY <1>1, <2>2 DEF Types, Sleeps
  <2> QED BY <1>2, <2>1, <2>2, <2>3, <2>5, <2>6, MovesKeep
<1>5. CASE pc0 = "pop" /\ FifoRead(0)
  <2>1. CASE Talking
    <3>1. fifo[1] # <<>>
      BY <1>1, <1>5, <2>1 DEF Ways, Talking
    <3> QED BY <1>5, <2>1, <3>1, ReceiveKeeps
  <2>2. CASE ~ Talking
    BY <1>5, <2>2, EchoKeeps
  <2> QED BY <2>1, <2>2
<1> QED BY <1>3, <1>4, <1>5 DEF Pop0

LEMMA TalkKeeps ==
  ASSUME FInv, Talk
  PROVE  FInv'
<1>1. Types /\ Ways /\ Events /\ NoLostWakeup
  BY DEF FInv
<1>2. UNCHANGED <<pc1, step, taken, word, got>>
  BY DEF Talk
<1>3. CASE /\ At0("talk", "push_sev") /\ sent < Len(Messages) /\ Rdy(0)
           /\ FifoWrite(0, Messages[sent + 1]) /\ sent' = sent + 1
  BY <1>2, <1>3, SendKeeps
<1>4. CASE pc0 = "talk" /\ pc0' \in {"look", "force_off"} /\ Awake(0) /\ UNCHANGED <<vars, sent>>
  <2>1. /\ sleep[0] = "awake"
        /\ UNCHANGED <<fifo, launched, running, sleep, event, enabled, heard, sent>>
    BY <1>4 DEF Awake, vars, sio, cores
  <2>2. Ways'
    BY <1>1, <1>2, <1>4, <2>1 DEF Ways
  <2>3. Events' /\ NoLostWakeup'
    BY <1>1, <1>2, <1>4, <2>1, Ends DEF Events, NoLostWakeup, Vld
  <2>4. sleep' \in [Core -> Sleeps] /\ event' \in [Core -> BOOLEAN] /\ \A c \in Core : enabled'[c] = {}
    BY <1>1, <2>1 DEF Types
  <2> QED BY <1>2, <2>1, <2>2, <2>3, <2>4, MovesKeep
<1> QED BY <1>3, <1>4 DEF Talk, At0

-----------------------------------------------------------------------------
(* Core 1. *)

\* A message leaves the FIFO to core 1, which holds it.
LEMMA TakeKeeps ==
  ASSUME FInv, At1("pop", "push"), FifoRead(1), word' = Head(fifo[0]),
         UNCHANGED <<pc0, step, sent, taken, got>>
  PROVE  FInv'
<1> DEFINE q0 == fifo[0]
           n1 == Len(fifo[1])
           n0 == Len(q0)
           r == Tail(q0)
           w == Head(q0)
           g == Len(got)
<1>1. Types /\ Kept /\ Quiet /\ Pipeline /\ Ways /\ Events /\ NoLostWakeup
  BY DEF FInv
<1>2. pc1 = "pop" /\ pc1' = "push" /\ running /\ launched /\ sleep[1] = "awake"
  BY <1>1 DEF At1, FifoRead, Awake, Types
<1>3. Talking
  BY <1>1, <1>2 DEF Quiet
<1>4. InFlight /\ Counted /\ q0 # <<>>
  BY <1>1, <1>2, <1>3 DEF Pipeline
<1>5. Calm /\ fifo' = [fifo EXCEPT ![0] = r]
  BY <1>1, <1>4, Ends, Reading
<1>6. q0 \in Seq(Nat) /\ fifo[1] \in Seq(Nat) /\ got \in Seq(Nat)
  BY <1>1, Ends DEF Types, Kept
<1>7. n1 \in Nat /\ n0 \in Nat /\ g \in Nat /\ n0 >= 1
  <2> HIDE DEF q0
  <2> QED BY <1>4, <1>6, Queues
<1>8. r \in Seq(Nat) /\ Len(r) = n0 - 1 /\ w = q0[1] /\ w \in Nat /\ \A k \in 1 .. n0 - 1 : r[k] = q0[k + 1]
  <2> HIDE DEF q0
  <2>1. 1 \in 1 .. Len(q0)
    BY <1>7
  <2> QED BY <1>4, <1>6, <2>1, Queues
<1>9. fifo'[0] = r /\ fifo'[1] = fifo[1] /\ fifo' \in [Core -> Seq(Nat)]
  BY <1>1, <1>5, <1>8, Ends DEF Types
<1>10. Holding = 0 /\ Holding' = 1 /\ Flight = n1 + n0
  BY <1>2, <1>6, <1>7 DEF Holding, Bit, Flight
<1>11. sent = g + (n1 + n0) /\ taken = g + n1
  <2>1. Bit(pc1 = "sev") = 0 /\ pc1 \notin {"look", "wfe"}
    BY <1>2 DEF Bit
  <2> HIDE DEF n0, n1, g, q0, r, w
  <2>2. taken + 0 = taken
    BY <1>1 DEF Types
  <2> QED BY <1>4, <1>10, <2>1, <2>2 DEF Counted, n1, g
<1> HIDE DEF r, q0, n0, n1, g, w
<1>12. Types'
  BY <1>1, <1>5, <1>8, <1>9 DEF Types, Calm, w, q0
<1>13. Kept'
  BY <1>1 DEF Kept
<1>14. Quiet'
  BY <1>3, <1>5 DEF Quiet, Talking, Calm
<1>15. InFlight'
  <2>1. word' = Messages[g + n1 + 1]
    <3>1. 1 \in 1 .. n0 /\ g + n1 + 0 + 1 = g + n1 + 1
      BY <1>7
    <3>2. q0[1] = Messages[g + n1 + 0 + 1]
      BY <1>4, <1>10, <3>1 DEF InFlight, n1, g, n0, q0
    <3> QED BY <1>8, <3>1, <3>2 DEF w, q0
  <2>2. \A k \in 1 .. n0 - 1 : r[k] = Messages[g + n1 + 1 + k]
    <3> TAKE k \in 1 .. n0 - 1
    <3>1. k + 1 \in 1 .. n0 /\ g + n1 + 0 + (k + 1) = g + n1 + 1 + k
      BY <1>7
    <3>2. q0[k + 1] = Messages[g + n1 + 0 + (k + 1)]
      BY <1>4, <1>10, <3>1 DEF InFlight, n1, g, n0, q0
    <3> QED BY <1>8, <3>1, <3>2
  <2>3. \A k \in 1 .. Len(fifo'[0]) : fifo'[0][k] = Messages[Len(got') + Len(fifo'[1]) + Holding' + k]
    BY <1>8, <1>9, <1>10, <2>2 DEF g, n1
  <2>4. \A k \in 1 .. Len(fifo'[1]) : fifo'[1][k] = Messages[Len(got') + k] + 1
    BY <1>4, <1>9 DEF InFlight
  <2>5. word' = Messages[Len(got') + Len(fifo'[1]) + 1]
    BY <1>9, <2>1 DEF g, n1
  <2> QED BY <2>3, <2>4, <2>5 DEF InFlight
<1>16. Counted'
  <2>1. Flight' = n1 + 1 + (n0 - 1)
    BY <1>8, <1>9, <1>10 DEF Flight, n1
  <2>2. sent = g + (n1 + 1 + (n0 - 1)) /\ taken + 0 = g + n1
    BY <1>7, <1>11
  <2>3. sent' = Len(got') + Flight'
    BY <2>1, <2>2 DEF g
  <2>4. taken' + Bit(pc1' = "sev") = Len(got') + Len(fifo'[1]) /\ pc1' # "return"
    BY <1>2, <1>9, <2>2 DEF Bit, g, n1
  <2> QED BY <2>3, <2>4 DEF Counted
<1>17. Pipeline'
  BY <1>2, <1>15, <1>16 DEF Pipeline
<1>18. Ways'
  <2>1. step = 6 /\ launched' = launched
    BY <1>3, <1>5 DEF Talking, Calm
  <2> QED BY <1>1, <1>2, <1>9, <2>1 DEF Ways
<1>19. Events' /\ NoLostWakeup'
  BY <1>1, <1>2, <1>5, <1>9, Ends DEF Events, NoLostWakeup, Vld, Calm
<1> QED BY <1>12, <1>13, <1>14, <1>17, <1>18, <1>19 DEF FInv

\* The successor of the message joins the answers.
LEMMA AnswerKeeps ==
  ASSUME FInv, At1("push", "sev"), Rdy(1), FifoWrite(1, word + 1),
         UNCHANGED <<pc0, step, sent, taken, got, word>>
  PROVE  FInv'
<1> DEFINE q1 == fifo[1]
           n1 == Len(q1)
           n0 == Len(fifo[0])
           w == word + 1
           r == Append(q1, w)
           g == Len(got)
<1>1. Types /\ Kept /\ Quiet /\ Pipeline /\ Ways /\ Events /\ NoLostWakeup
  BY DEF FInv
<1>2. pc1 = "push" /\ pc1' = "sev" /\ running /\ launched /\ sleep[1] = "awake"
  BY <1>1 DEF At1, FifoWrite, Awake, Types
<1>3. Talking
  BY <1>1, <1>2 DEF Quiet
<1>4. InFlight /\ Counted
  BY <1>1, <1>3 DEF Pipeline
<1>5. Calm /\ fifo' = [fifo EXCEPT ![1] = r]
  BY <1>1, Ends, Writing DEF Rdy
<1>6. q1 \in Seq(Nat) /\ fifo[0] \in Seq(Nat) /\ got \in Seq(Nat) /\ w \in Nat
  BY <1>1, Ends DEF Types, Kept
<1>7. n1 \in Nat /\ n0 \in Nat /\ g \in Nat
  <2> HIDE DEF q1
  <2> QED BY <1>6, Queues
<1>8. r \in Seq(Nat) /\ Len(r) = n1 + 1 /\ r[n1 + 1] = w /\ (\A k \in 1 .. n1 : r[k] = q1[k]) /\ r # <<>>
  <2> HIDE DEF q1, w
  <2>1. r \in Seq(Nat) /\ Len(r) = n1 + 1 /\ r[n1 + 1] = w /\ \A k \in 1 .. n1 : r[k] = q1[k]
    BY <1>6, Queues
  <2> HIDE DEF r
  <2>2. Len(r) # 0
    BY <1>7, <2>1
  <2> QED BY <2>1, <2>2, Queues
<1>9. fifo'[1] = r /\ fifo'[0] = fifo[0] /\ fifo' \in [Core -> Seq(Nat)]
  BY <1>1, <1>5, <1>8, Ends DEF Types
<1>10. Holding = 1 /\ Holding' = 0 /\ Flight = n1 + 1 + n0
  BY <1>2 DEF Holding, Bit, Flight
<1>11. sent = g + (n1 + 1 + n0) /\ taken = g + n1
  <2>1. Bit(pc1 = "sev") = 0 /\ pc1 \notin {"look", "wfe"}
    BY <1>2 DEF Bit
  <2> HIDE DEF n0, n1, g, q1, r, w
  <2>2. taken + 0 = taken
    BY <1>1 DEF Types
  <2> QED BY <1>4, <1>10, <2>1, <2>2 DEF Counted, n1, g, q1
<1>12. w = Messages[g + n1 + 1] + 1
  BY <1>2, <1>4 DEF InFlight
<1> HIDE DEF r, q1, n0, n1, g, w
<1>13. Types'
  BY <1>1, <1>5, <1>9 DEF Types, Calm
<1>14. Kept'
  BY <1>1 DEF Kept
<1>15. Quiet'
  BY <1>3, <1>5 DEF Quiet, Talking, Calm
<1>16. InFlight'
  <2>1. \A k \in 1 .. n1 + 1 : r[k] = Messages[g + k] + 1
    <3> TAKE k \in 1 .. n1 + 1
    <3>1. CASE k \in 1 .. n1
      BY <1>4, <1>8, <3>1 DEF InFlight, n1, g, q1
    <3>2. CASE k = n1 + 1
      <4>1. g + k = g + n1 + 1
        BY <1>7, <3>2
      <4> QED BY <1>8, <1>12, <3>2, <4>1
    <3> QED BY <1>7, <3>1, <3>2
  <2>2. \A k \in 1 .. n0 : fifo[0][k] = Messages[g + (n1 + 1) + 0 + k]
    <3> TAKE k \in 1 .. n0
    <3>1. g + n1 + 1 + k = g + (n1 + 1) + 0 + k
      BY <1>7
    <3>2. fifo[0][k] = Messages[g + n1 + 1 + k]
      BY <1>4, <1>10 DEF InFlight, n1, g, n0, q1
    <3> QED BY <3>1, <3>2
  <2>3. \A k \in 1 .. Len(fifo'[1]) : fifo'[1][k] = Messages[Len(got') + k] + 1
    BY <1>8, <1>9, <2>1 DEF g
  <2>4. \A k \in 1 .. Len(fifo'[0]) : fifo'[0][k] = Messages[Len(got') + Len(fifo'[1]) + Holding' + k]
    BY <1>8, <1>9, <1>10, <2>2 DEF g, n0
  <2> QED BY <1>2, <2>3, <2>4 DEF InFlight
<1>17. Counted'
  <2>1. Flight' = (n1 + 1) + 0 + n0
    BY <1>8, <1>9, <1>10 DEF Flight, n0
  <2>2. sent = g + ((n1 + 1) + 0 + n0) /\ taken + 1 = g + (n1 + 1)
    BY <1>7, <1>11
  <2>3. sent' = Len(got') + Flight'
    BY <2>1, <2>2 DEF g
  <2>4. taken' + Bit(pc1' = "sev") = Len(got') + Len(fifo'[1]) /\ pc1' # "return"
    BY <1>2, <1>8, <1>9, <2>2 DEF Bit, g
  <2> QED BY <2>3, <2>4 DEF Counted
<1>18. Pipeline'
  BY <1>2, <1>16, <1>17 DEF Pipeline
<1>19. Ways'
  <2>1. step = 6 /\ launched' = launched
    BY <1>3, <1>5 DEF Talking, Calm
  <2> QED BY <1>1, <1>2, <1>3, <1>8, <1>9, <2>1 DEF Ways, Talking
<1>20. Events' /\ NoLostWakeup'
  BY <1>1, <1>2, <1>5, <1>9, Ends DEF Events, NoLostWakeup, Vld, Calm
<1> QED BY <1>13, <1>14, <1>15, <1>18, <1>19, <1>20 DEF FInv

LEMMA LookKeeps ==
  ASSUME FInv, At1("look", IF Vld(1) THEN "pop" ELSE "wfe"), Awake(1),
         UNCHANGED <<vars, pc0, step, sent, taken, word, got>>
  PROVE  FInv'
<1>1. Types /\ Kept /\ Quiet /\ Pipeline /\ Ways /\ Events /\ NoLostWakeup
  BY DEF FInv
<1>2. /\ pc1 = "look" /\ pc1' = (IF fifo[0] # <<>> THEN "pop" ELSE "wfe") /\ sleep[1] = "awake" /\ running /\ launched
      /\ UNCHANGED <<fifo, launched, running, sleep, event, enabled, heard>>
  BY <1>1, Ends DEF At1, Awake, Vld, vars, sio, cores, Types
<1>3. Types' /\ Kept'
  BY <1>1, <1>2 DEF Types, Kept
<1>4. Quiet'
  BY <1>1, <1>2 DEF Quiet, Talking
<1>5. Pipeline'
  <2> SUFFICES ASSUME Talking' PROVE Pipeline'
    BY DEF Pipeline
  <2>1. Talking /\ InFlight /\ Counted
    BY <1>1, <1>2 DEF Talking, Pipeline
  <2>2. Holding = 0 /\ Holding' = 0 /\ Flight' = Flight
    BY <1>2 DEF Holding, Bit, Flight
  <2>3. InFlight'
    BY <1>2, <2>1, <2>2 DEF InFlight
  <2>4. Counted'
    <3>1. CASE fifo[0] = <<>>
      BY <1>2, <2>1, <2>2, <3>1 DEF Counted, Bit
    <3>2. CASE fifo[0] # <<>>
      <4>1. Flight # 0
        <5> DEFINE n0 == Len(fifo[0])
                   n1 == Len(fifo[1])
        <5>1. n0 \in Nat /\ n1 \in Nat /\ n0 # 0
          BY <1>1, <3>2, Ends, Queues DEF Types
        <5>2. Flight = n1 + 0 + n0
          BY <2>2 DEF Flight
        <5> HIDE DEF n0, n1
        <5> QED BY <5>1, <5>2
      <4> QED BY <1>2, <2>1, <2>2, <4>1 DEF Counted, Bit
    <3> QED BY <3>1, <3>2
  <2> QED BY <1>2, <2>3, <2>4 DEF Pipeline
<1>6. Ways'
  BY <1>1, <1>2 DEF Ways
<1>7. Events' /\ NoLostWakeup'
  BY <1>1, <1>2, Ends DEF Events, NoLostWakeup, Vld
<1> QED BY <1>3, <1>4, <1>5, <1>6, <1>7 DEF FInv

LEMMA WfeKeeps ==
  ASSUME FInv, At1("wfe", "look"), Wfe(1), UNCHANGED <<pc0, step, sent, taken, word, got>>
  PROVE  FInv'
<1>1. Types /\ Kept /\ Quiet /\ Pipeline /\ Ways /\ Events /\ NoLostWakeup
  BY DEF FInv
<1>2. pc1 = "wfe" /\ pc1' = "look" /\ sleep[1] = "awake" /\ running /\ launched
  BY <1>1 DEF At1, Wfe, Awake, Types
<1>3. /\ event' = [event EXCEPT ![1] = FALSE]
      /\ sleep' = [sleep EXCEPT ![1] = IF event[1] THEN "awake" ELSE "wfe"]
      /\ UNCHANGED <<fifo, launched, running, heard>> /\ \A d \in Core : enabled'[d] = {}
  BY <1>1, Ends, Waiting
<1>4. event'[0] = event[0] /\ sleep'[0] = sleep[0] /\ sleep'[1] = (IF event[1] THEN "awake" ELSE "wfe")
  BY <1>1, <1>3, Ends DEF Types
<1>5. Types'
  <2>1. sleep' \in [Core -> Sleeps] /\ event' \in [Core -> BOOLEAN]
    BY <1>1, <1>3 DEF Types, Sleeps
  <2> QED BY <1>1, <1>3, <2>1 DEF Types
<1>6. Kept' /\ Quiet'
  BY <1>1, <1>2, <1>3 DEF Kept, Quiet, Talking
<1>7. Pipeline'
  BY <1>1, <1>2, <1>3 DEF Pipeline, Talking, InFlight, Counted, Flight, Holding, Bit
<1>8. Ways'
  BY <1>1, <1>3 DEF Ways
<1>9. Events' /\ NoLostWakeup'
  BY <1>1, <1>2, <1>3, <1>4, Ends DEF Events, NoLostWakeup, Vld
<1> QED BY <1>5, <1>6, <1>7, <1>8, <1>9 DEF FInv

LEMMA SevKeeps ==
  ASSUME FInv, At1("sev", IF Returns /\ taken + 1 = Len(Messages) THEN "return" ELSE "look"), Sev(1),
         taken' = taken + 1, UNCHANGED <<pc0, step, sent, word, got>>
  PROVE  FInv'
<1>1. Types /\ Kept /\ Quiet /\ Pipeline /\ Ways /\ Events /\ NoLostWakeup
  BY DEF FInv
<1>2. /\ pc1 = "sev" /\ (pc1' = "look" \/ (pc1' = "return" /\ taken' = Len(Messages))) /\ running /\ launched
      /\ pc1' \notin {"push", "pop", "sev", "wfe"}
  BY <1>1 DEF At1, Sev, Awake, Types
<1>3. /\ sleep[1] = "awake" /\ sleep' = [d \in Core |-> "awake"]
      /\ event' = [d \in Core |-> IF d = 1 THEN TRUE ELSE sleep[d] = "wfe" => event[d]]
      /\ UNCHANGED <<fifo, launched, running, heard>> /\ \A d \in Core : enabled'[d] = {}
  BY <1>1, Ends, Signalling
<1>4. sleep'[0] = "awake" /\ sleep'[1] = "awake" /\ event'[0] = (sleep[0] = "wfe" => event[0])
  BY <1>3, Ends
<1>5. Talking /\ Talking'
  BY <1>1, <1>2, <1>3 DEF Quiet, Talking
<1>6. Types'
  <2>1. taken' \in Nat
    BY <1>1 DEF Types
  <2>2. sleep' \in [Core -> Sleeps] /\ event' \in [Core -> BOOLEAN]
    BY <1>1, <1>3 DEF Types, Sleeps
  <2> QED BY <1>1, <1>3, <2>1, <2>2 DEF Types
<1>7. Kept' /\ Quiet'
  BY <1>1, <1>5 DEF Kept, Quiet
<1>8. Pipeline'
  <2>1. InFlight /\ Counted
    BY <1>1, <1>5 DEF Pipeline
  <2>2. Holding = 0 /\ Holding' = 0 /\ Flight' = Flight
    BY <1>2, <1>3 DEF Holding, Bit, Flight
  <2>3. InFlight'
    BY <1>2, <1>3, <2>1, <2>2 DEF InFlight
  <2>4. Counted'
    <3>1. sent = Len(got) + Flight /\ taken + 1 = Len(got) + Len(fifo[1])
      BY <1>2, <2>1 DEF Counted, Bit
    <3>2. Bit(pc1' = "sev") = 0 /\ taken' \in Nat
      BY <1>2, <1>6 DEF Bit, Types
    <3>3. sent' = Len(got') + Flight'
      BY <2>2, <3>1
    <3>4. taken' + Bit(pc1' = "sev") = Len(got') + Len(fifo'[1])
      BY <1>3, <3>1, <3>2
    <3> QED BY <1>2, <3>3, <3>4 DEF Counted
  <2> QED BY <1>2, <2>3, <2>4 DEF Pipeline
<1>9. Ways'
  BY <1>1, <1>3 DEF Ways
<1>10. Events' /\ NoLostWakeup'
  BY <1>1, <1>2, <1>3, <1>4, Ends DEF Events, NoLostWakeup, Vld
<1> QED BY <1>6, <1>7, <1>8, <1>9, <1>10 DEF FInv

\* Core 1 returns when it has answered every message, so core 0 has none to send to the next one.
LEMMA ReturnKeeps ==
  ASSUME FInv, At1("return", "look"), Park, UNCHANGED <<pc0, step, sent, taken, word, got>>
  PROVE  FInv'
<1>1. Types /\ Kept /\ Quiet /\ Pipeline /\ Ways /\ Events /\ NoLostWakeup
  BY DEF FInv
<1>2. pc1 = "return" /\ pc1' = "look" /\ running /\ launched
  BY <1>1 DEF At1, Park, Awake, Types
<1>3. /\ fifo' = [c \in Core |-> <<>>] /\ launched' = FALSE /\ running' = FALSE /\ heard' = <<>>
      /\ sleep' = [c \in Core |-> IF c = 1 THEN "awake" ELSE sleep[c]]
      /\ event' = [c \in Core |-> IF c = 1 THEN FALSE ELSE event[c]]
      /\ \A c \in Core : enabled'[c] = {}
  BY <1>1, Stopping DEF Park
<1>4. fifo'[0] = <<>> /\ fifo'[1] = <<>> /\ sleep'[0] = sleep[0]
  BY <1>3, Ends
<1>5. Talking /\ ~ Talking'
  BY <1>1, <1>2, <1>3 DEF Quiet, Talking
<1>6. sent = Len(Messages)
  <2> DEFINE n0 == Len(fifo[0])
             n1 == Len(fifo[1])
             g == Len(got)
             total == Len(Messages)
  <2>1. sent = g + Flight /\ taken + 0 = g + n1 /\ taken = total
    BY <1>1, <1>2, <1>5 DEF Pipeline, Counted, Bit
  <2>2. Flight = n1 + 0 + n0
    BY <1>2 DEF Holding, Bit, Flight
  <2>3. n1 \in Nat /\ n0 \in Nat /\ g \in Nat
    BY <1>1, Ends, Queues DEF Types, Kept
  <2>4. sent \in 0 .. total /\ total \in Nat
    BY <1>1, MessagesAreCounted DEF Types
  <2> HIDE DEF n0, n1, g, total
  <2>5. sent = total
    BY <2>1, <2>2, <2>3, <2>4
  <2> QED BY <2>5 DEF total
<1>7. Types'
  <2>1. fifo' \in [Core -> Seq(Nat)]
    BY <1>3, Queues
  <2>2. sleep' \in [Core -> Sleeps] /\ event' \in [Core -> BOOLEAN]
    BY <1>1, <1>3 DEF Types, Sleeps
  <2> QED BY <1>1, <1>3, <2>1, <2>2 DEF Types
<1>8. Kept'
  BY <1>1 DEF Kept
<1>9. Quiet' /\ Pipeline'
  BY <1>3, <1>4, <1>5, <1>6 DEF Quiet, Pipeline
<1>10. Ways'
  <2>1. step = 6
    BY <1>5 DEF Talking
  <2> QED BY <1>1, <1>3, <1>4, <2>1 DEF Ways
<1>11. Events' /\ NoLostWakeup'
  BY <1>1, <1>2, <1>3, <1>4, Ends DEF Events, NoLostWakeup, Vld
<1> QED BY <1>7, <1>8, <1>9, <1>10, <1>11 DEF FInv

-----------------------------------------------------------------------------
(* The theorems. *)

LEMMA Core0Keeps ==
  ASSUME FInv, Core0
  PROVE  FInv'
<1>1. CASE ResetCore1OfSdk
  BY <1>1, ForceOffKeeps, LetGoKeeps DEF ResetCore1OfSdk, At0
<1> QED BY <1>1, DrainKeeps, PushKeeps, TalkKeeps, PushSevKeeps, PopKeeps DEF Core0

LEMMA Core1Keeps ==
  ASSUME FInv, Core1
  PROVE  FInv'
<1>1. UNCHANGED <<pc0, step, sent, got>>
  BY DEF Core1
<1>2. CASE At1("look", IF Vld(1) THEN "pop" ELSE "wfe") /\ Awake(1) /\ UNCHANGED <<vars, taken, word>>
  BY <1>1, <1>2, LookKeeps
<1>3. CASE At1("wfe", "look") /\ Wfe(1) /\ UNCHANGED <<taken, word>>
  BY <1>1, <1>3, WfeKeeps
<1>4. CASE At1("pop", "push") /\ FifoRead(1) /\ word' = Head(fifo[0]) /\ UNCHANGED taken
  BY <1>1, <1>4, TakeKeeps
<1>5. CASE At1("push", "sev") /\ Rdy(1) /\ FifoWrite(1, word + 1) /\ UNCHANGED <<taken, word>>
  BY <1>1, <1>5, AnswerKeeps
<1>6. CASE /\ At1("sev", IF Returns /\ taken + 1 = Len(Messages) THEN "return" ELSE "look")
           /\ Sev(1) /\ taken' = taken + 1 /\ UNCHANGED word
  BY <1>1, <1>6, SevKeeps
<1>7. CASE At1("return", "look") /\ Park /\ UNCHANGED <<taken, word>>
  BY <1>1, <1>7, ReturnKeeps
<1> QED BY <1>2, <1>3, <1>4, <1>5, <1>6, <1>7 DEF Core1

LEMMA InitHolds == FirmwareInit => FInv
<1> SUFFICES ASSUME FirmwareInit PROVE FInv
  OBVIOUS
<1>1. /\ fifo = [c \in Core |-> <<>>] /\ launched = FALSE /\ running = FALSE
      /\ sleep = [c \in Core |-> "awake"] /\ event = [c \in Core |-> FALSE] /\ enabled = [c \in Core |-> {}]
      /\ pc0 = "force_off" /\ pc1 = "look" /\ step = 0 /\ sent = 0 /\ taken = 0 /\ word = 0 /\ got = <<>>
  BY DEF FirmwareInit, Init
<1>2. fifo[0] = <<>> /\ fifo[1] = <<>> /\ sleep[0] = "awake" /\ sleep[1] = "awake"
  BY <1>1, Ends
<1>3. Types
  <2>1. fifo \in [Core -> Seq(Nat)]
    BY <1>1, Queues
  <2>2. sleep \in [Core -> Sleeps] /\ event \in [Core -> BOOLEAN] /\ \A c \in Core : enabled[c] = {}
    BY <1>1 DEF Sleeps
  <2>3. step \in 0 .. 6 /\ sent \in 0 .. Len(Messages) /\ taken \in Nat /\ word \in Nat
    BY <1>1, MessagesAreCounted
  <2> QED BY <1>1, <2>1, <2>2, <2>3 DEF Types
<1>4. Kept
  BY <1>1, Queues DEF Kept
<1>5. Quiet /\ Pipeline
  BY <1>1, <1>2 DEF Quiet, Pipeline, Talking
<1>6. Ways
  BY <1>1, <1>2, Queues DEF Ways
<1>7. Events /\ NoLostWakeup
  BY <1>1, <1>2 DEF Events, NoLostWakeup
<1> QED BY <1>3, <1>4, <1>5, <1>6, <1>7 DEF FInv

\* What is on its way is what was sent and not yet received, and the rest of FInv.
THEOREM InvariantHolds == FirmwareSpec => []FInv
<1>1. FInv /\ [FirmwareNext]_allVars => FInv'
  <2>1. CASE UNCHANGED allVars
    <3>1. UNCHANGED <<fifo, launched, running, heard, sleep, event, enabled, pc0, pc1, step, sent, taken, word, got>>
      BY <2>1 DEF allVars, vars, sio, cores, program
    <3> QED BY <3>1 DEF FInv, Types, Kept, Quiet, Pipeline, Ways, Events, NoLostWakeup, Talking, InFlight, Counted,
                        Flight, Holding, Vld
  <2> QED BY <2>1, Core0Keeps, Core1Keeps DEF FirmwareNext
<1> QED BY <1>1, InitHolds, PTL DEF FirmwareSpec

\* The answers core 0 receives are those of its messages, one by one, for any messages and any depth of the
\* FIFOs, and also when core 0 gives up in the middle or core 1 returns to the boot ROM (reset_core1).
THEOREM AnswersAreTheMessages == FirmwareSpec => []AnswersInOrder
<1>1. FInv => AnswersInOrder
  <2> SUFFICES ASSUME FInv PROVE AnswersInOrder
    OBVIOUS
  <2>1. DOMAIN got = 1 .. Len(got)
    BY LenProperties DEF FInv, Kept
  <2> QED BY <2>1 DEF FInv, Kept, AnswersInOrder
<1> QED BY <1>1, InvariantHolds, PTL

\* A core sleeps on a word that waits for it only until the SEV that follows the word: the event register keeps
\* one that comes between the look and the WFE.
THEOREM WordsWake == FirmwareSpec => []NoLostWakeup
<1>1. FInv => NoLostWakeup
  BY DEF FInv
<1> QED BY <1>1, InvariantHolds, PTL
=============================================================================
