------------------------------ MODULE DualBatch ------------------------------
(***************************************************************************)
(* The batch loop for two cores on one clock (_execute_batch.py,           *)
(* _run_batch_dual).  Each core has a time of its own and runs ahead of    *)
(* the clock in quanta, core 0 before core 1; an access to the SIO, the    *)
(* PPB or a word of a peripheral first lets the other core, if it is       *)
(* behind, execute up to this core's time, from inside the access, and     *)
(* brings the clock there.  A store of a byte or a halfword to a           *)
(* peripheral, and an access to the USB controller's RAM, do not: they     *)
(* happen at the clock's time.                                             *)
(*                                                                         *)
(* Every time is the distance from the clock's, so that the clock stands   *)
(* at 0 and a tick moves everything else back.  Times further back than    *)
(* the clock are told apart from it and not from one another.  Of the      *)
(* alarms the next one is kept, of the instructions their accesses and     *)
(* cycles; a cycle is one tick.                                            *)
(***************************************************************************)
EXTENDS Integers, Sequences

CONSTANTS
  Quanta,        \* the values of quantum_cycles
  Costs,         \* the cycles an instruction takes
  Delays,        \* the delays with which alarms are armed
  Accesses,      \* the accesses an instruction may make (LDM and STM make eight)
  Rounds,        \* the quanta of a batch after which its iterations or its real time may be used up (256)
  PacedIdle      \* the longest idle jump while a device waits on the real world

ASSUME DualAssumption ==
  /\ Quanta \subseteq Nat \ {0} /\ Costs \subseteq Nat \ {0} /\ Costs # {} /\ Delays \subseteq Nat
  /\ Accesses \in Nat /\ Rounds \in Nat /\ PacedIdle \in Nat

VARIABLE dual

Cores == {0, 1}
Other(c) == 1 - c
Never == -2       \* no alarm
Between == 2      \* no core's turn

Least(a, b) == IF a < b THEN a ELSE b
Most(a, b) == IF a < b THEN b ELSE a
-----------------------------------------------------------------------------
(* The functions of the loop, of its state d. *)

\* tick_ticks(t), and the PIO's cycles of it: an alarm due fires; what it and the PIO do is to
\* wake some cores and to arm the next alarm.
Tick(d, t, woken, next) ==
  LET from(x) == Most(x - t, -1)
      fires == d.alarm <= t
  IN  [d EXCEPT !.local = [c \in Cores |-> from(@[c])], !.wake = [c \in Cores |-> from(@[c])],
                !.horizon = from(@), !.alarm = IF fires THEN next ELSE @ - t,
                !.waiting = @ \ woken]

AdvanceTo(d, t, woken, next) == IF t > 0 THEN Tick(d, t, woken, next) ELSE d

NoteWake(d) == [d EXCEPT !.wake = [c \in Cores |-> Most(@[c], 0)]]

\* A core whose turn it is starts no earlier than the clock and what woke it.
Enter(d, c) ==
  IF c \in d.waiting THEN d ELSE [d EXCEPT !.local[c] = Most(@, Most(0, d.wake[c]))]

\* (slip: the quantum is not cut at the next alarm)
Horizon_Uncut(d) == d.quantum
\* (slip: the quantum begins where the faster core stands)
Horizon_FromTheCores(d) == Most(d.local[0], d.local[1]) + d.quantum
\* (slip: a quantum may be empty)
Horizon_Empty(d) == IF d.alarm = Never THEN d.quantum ELSE Least(d.quantum, d.alarm)

Horizon(d) == IF d.alarm = Never THEN d.quantum ELSE Most(1, Least(d.quantum, d.alarm))

Runs(d, c) == c \notin d.waiting /\ d.local[c] < d.horizon /\ ~ d.ceiling

\* execute_one(): core 1 may find that it is back in the boot ROM, and is parked.
Execute(d, c, parked) ==
  IF parked THEN [d EXCEPT !.waiting = @ \cup {c}, !.parked = TRUE, !.ended = TRUE]
  ELSE [d EXCEPT !.calls = Append(@, [core |-> c, left |-> Accesses, syncs |-> FALSE])]

\* Whether c has come back to the ROM: core 1 may have, and stays there.
Parks(d, c) == IF d.parked /\ c = 1 THEN {TRUE} ELSE IF c = 1 THEN BOOLEAN ELSE {FALSE}

\* (slip: the other core is not waited for)
Behind_Never(d, c) == FALSE
\* The nested catch-up of an access by c.
Behind(d, c) == Other(c) \notin d.waiting /\ d.local[Other(c)] < d.local[c]

Sync(d, c) ==
  IF Other(c) \in d.waiting THEN d
  ELSE [d EXCEPT !.local[Other(c)] = Most(@, d.wake[Other(c)])]

\* The end of sync(): the clock is where the access is, and so is the earliest time of the other core.
Synced(d, c, woken, next) ==
  LET t == AdvanceTo(d, d.local[c], woken, next)
      u == [t EXCEPT !.horizon = IF t.alarm = Never THEN @ ELSE Least(@, t.alarm), !.uncut = FALSE]
      v == NoteWake(u)
  IN  [v EXCEPT !.wake[Other(c)] = Most(@, v.local[c])]

\* What an access may do that the loop is about.
Arms(d, delay) ==
  IF d.alarm = Never \/ delay < d.alarm THEN [d EXCEPT !.alarm = delay, !.uncut = TRUE] ELSE d
Wakes(d, c) == [d EXCEPT !.waiting = @ \ {c}]
\* PSM.FRCE_OFF: core 1 is reset, which also ends its sleep, and the batch is to end.
Holds(d) == [d EXCEPT !.held = TRUE, !.parked = FALSE, !.ended = TRUE, !.waiting = @ \ {1}]
\* The frame on top is through with an access.
Done(frame) == [frame EXCEPT !.syncs = FALSE, !.left = @ - 1]

\* The clock goes to the earlier of the cores still running, or to the later of two sleeps.
Goal(d) ==
  IF d.waiting = {} THEN Least(d.local[0], d.local[1])
  ELSE IF d.waiting = Cores THEN Most(d.local[0], d.local[1])
  ELSE d.local[CHOOSE c \in Cores : c \notin d.waiting]

Start(quantum, waiting, alarm) ==
  [quantum |-> quantum, local |-> [c \in Cores |-> 0], wake |-> [c \in Cores |-> 0],
   waiting |-> waiting, held |-> FALSE, parked |-> FALSE, horizon |-> 0, alarm |-> alarm, uncut |-> FALSE,
   turn |-> Between, calls |-> << >>, rounds |-> 0, ceiling |-> FALSE, ended |-> FALSE]
-----------------------------------------------------------------------------
Init == \E q \in Quanta : dual = Start(q, {}, Never)

Calm == dual.calls = << >>
Top == dual.calls[Len(dual.calls)]
Pop == SubSeq(dual.calls, 1, Len(dual.calls) - 1)
With(d, frame) == [d EXCEPT !.calls[Len(d.calls)] = frame]

BeginQuantum ==
  /\ dual.turn = Between /\ ~ dual.ended /\ ~ dual.ceiling /\ dual.waiting # Cores
  /\ dual' = Enter([dual EXCEPT !.horizon = Horizon(dual), !.turn = 0, !.uncut = FALSE], 0)

\* Both asleep: the clock jumps to the next alarm, or part of the way, and the PIO runs at least a cycle.
IdleJump ==
  /\ dual.turn = Between /\ ~ dual.ended /\ ~ dual.ceiling /\ dual.waiting = Cores
  /\ \E paced \in BOOLEAN, woken \in SUBSET Cores, next \in Delays \cup {Never} :
       LET idle == IF dual.alarm = Never THEN 0 ELSE dual.alarm
           t == Tick(dual, IF paced THEN Least(idle, PacedIdle) ELSE idle, woken, next)
       IN  dual' = [NoteWake(t) EXCEPT !.ended = paced]

\* The loop of the core whose turn it is, an instruction at a time.
Step ==
  /\ Calm /\ dual.turn \in Cores /\ Runs(dual, dual.turn)
  /\ \E parked \in Parks(dual, dual.turn) : dual' = Execute(dual, dual.turn, parked)

\* What an access of core c comes to: it may wake the other core, arm an alarm, hold core 1 or end the batch.
Outcome(d, c) ==
  \/ dual' = d
  \/ dual' = Wakes(d, Other(c))
  \/ \E delay \in Delays : dual' = Arms(d, delay)
  \/ c = 0 /\ dual' = Holds(d)
  \/ dual' = [d EXCEPT !.ended = TRUE]

\* An access that synchronises begins: one to the SIO, the PPB or a word of a peripheral.
Access ==
  /\ ~ Calm /\ ~ Top.syncs /\ Top.left > 0
  /\ dual' = With(Sync(dual, Top.core), [Top EXCEPT !.syncs = TRUE])

CatchUp ==
  /\ ~ Calm /\ Top.syncs /\ Behind(dual, Top.core)
  /\ \E parked \in Parks(dual, Other(Top.core)) : dual' = Execute(dual, Other(Top.core), parked)

\* The access itself, once the other core has caught up.
Happens ==
  /\ ~ Calm /\ Top.syncs /\ ~ Behind(dual, Top.core)
  /\ \E woken \in SUBSET dual.waiting, next \in Delays \cup {Never} :
       Outcome(With(Synced(dual, Top.core, woken, next), Done(Top)), Top.core)

\* An access that does not synchronise: a store of a byte or a halfword to a peripheral, which goes to
\* write_uint32_atomic() directly, or one to the USB controller's RAM.
HappensEarly ==
  /\ ~ Calm /\ ~ Top.syncs /\ Top.left > 0
  /\ Outcome(With(dual, Done(Top)), Top.core)

\* SEV reaches the other core without synchronising.
Sev == ~ Calm /\ ~ Top.syncs /\ dual' = Wakes(dual, Other(Top.core))

\* The end of an instruction, perhaps of one that sleeps.
Retire ==
  /\ ~ Calm /\ ~ Top.syncs
  /\ \E cost \in Costs, sleeps \in SUBSET {Top.core} :
       dual' = [dual EXCEPT !.local[Top.core] = @ + cost, !.waiting = @ \cup sleeps, !.calls = Pop]

\* The iterations of the batch are used up.
Ceiling ==
  /\ Calm /\ dual.turn \in Cores /\ dual.rounds = Rounds /\ ~ dual.ceiling
  /\ dual' = [dual EXCEPT !.ceiling = TRUE]

NextCore ==
  /\ Calm /\ dual.turn = 0 /\ ~ Runs(dual, 0)
  /\ dual' = Enter([dual EXCEPT !.turn = 1], 1)

EndQuantum ==
  /\ Calm /\ dual.turn = 1 /\ ~ Runs(dual, 1)
  /\ \E woken \in SUBSET dual.waiting, next \in Delays \cup {Never} :
       dual' = NoteWake([AdvanceTo(dual, Goal(dual), woken, next) EXCEPT !.turn = Between,
                                                               !.rounds = Least(@ + 1, Rounds)])

\* The batch ends, for these reasons or for the real time it took; the next one begins with both
\* cores at the clock's time, once a core 1 that was held or parked has been launched again.
NextBatch ==
  /\ dual.turn = Between
  /\ dual.ended \/ dual.ceiling \/ dual.rounds = Rounds
  /\ dual' = Start(dual.quantum, dual.waiting \ (IF dual.held \/ dual.parked THEN {1} ELSE {}), dual.alarm)

Next ==
  \/ BeginQuantum \/ IdleJump \/ Step \/ Access \/ CatchUp \/ Happens \/ HappensEarly
  \/ Sev \/ Retire \/ Ceiling \/ NextCore \/ EndQuantum \/ NextBatch

\* The loop never waits: there is always a next step, and it is taken.
Spec == Init /\ [][Next]_dual /\ WF_dual(Next)
-----------------------------------------------------------------------------
(* Properties. *)

\* No core executes an instruction inside another of its own.
TypeOK ==
  /\ dual.quantum \in Quanta /\ dual.waiting \subseteq Cores /\ dual.turn \in Cores \cup {Between}
  /\ dual.local \in [Cores -> Int] /\ dual.wake \in [Cores -> Int] /\ dual.horizon \in Int
  /\ dual.alarm \in Nat \cup {Never} /\ dual.rounds \in 0 .. Rounds
  /\ {dual.held, dual.parked, dual.uncut, dual.ceiling, dual.ended} \subseteq BOOLEAN
  /\ Len(dual.calls) <= 2 /\ \A m, n \in 1 .. Len(dual.calls) : m # n => dual.calls[m].core # dual.calls[n].core

Running(c) == \E n \in 1 .. Len(dual.calls) : dual.calls[n].core = c
Earliest(c) == Most(dual.local[c], dual.wake[c])

\* When an access that synchronises happens its core is not behind the clock,
\* and the other core, unless asleep, has executed up to that time: "the access
\* is ordered by time exactly as the exact scheduler would order it"
\* (_run_batch_dual).  One that does not synchronise takes effect at the clock's
\* time, less than a quantum before its core's.
AccessesAreOrdered ==
  [][LET c == Top.core
     IN  /\ Happens => /\ dual.local[c] >= 0
                       /\ Other(c) \notin dual.waiting => Earliest(Other(c)) >= dual.local[c]
         /\ HappensEarly => 0 <= dual.local[c] /\ dual.local[c] < dual.quantum]_dual

\* The end of a quantum brings the clock past no core that is awake, and none
\* is passed in the middle of an instruction: its time would be lost.
ClockWaitsForTheCores ==
  [][/\ EndQuantum => \A c \in Cores \ dual.waiting : Earliest(c) >= Goal(dual)
     /\ \A c \in Cores : Running(c)' => dual'.local[c] >= 0]_dual

\* What one core does in RAM the other sees at most one quantum, and the
\* instruction that ends it, late (record 0104): no core runs further ahead.
CoresStayTogether ==
  \A c \in Cores : \E cost \in Costs : dual.local[c] < dual.quantum + cost

Begins(c) == Len(dual'.calls) > Len(dual.calls) /\ dual'.calls[Len(dual'.calls)].core = c

\* No core's turn lets it begin an instruction past an alarm that was set when
\* the horizon was last looked at; past one that this quantum armed, or to
\* catch up, a core begins one by less than a quantum.
AlarmsAreKept ==
  [][\A c \in Cores :
       Begins(c) /\ dual.alarm # Never => dual'.local[c] - dual.alarm < IF dual.uncut \/ ~ Calm THEN dual.quantum ELSE 1]_dual

\* Once no access ends its batch any more, a core that is not asleep executes
\* again and again, whatever the other one does, wherever their times were
\* left, and also when an alarm is due at the very moment a quantum begins.
EveryCoreRuns ==
  <>[](~ dual.ended) => \A c \in Cores : []<>(c \in dual.waiting \/ Running(c))

\* "Every access that leaves RAM and flash ... is a SYNCHRONISATION POINT", so
\* it "is ordered by time" (_run_batch_dual): the other core has executed up to
\* the access's time, whatever its width and address.
EveryAccessIsOrdered ==
  [][Happens \/ HappensEarly =>
       (Other(Top.core) \notin dual.waiting => Earliest(Other(Top.core)) >= dual.local[Top.core])]_dual

\* "Exact: the alarms and the interrupts" (record 0104): no core begins an
\* instruction past an alarm.
AlarmsAreExact ==
  [][\A c \in Cores : Begins(c) /\ dual.alarm # Never => dual'.local[c] <= dual.alarm]_dual

\* "Exact: the event instructions" (record 0104): a core that the other one
\* wakes starts no earlier than the instruction that woke it.
WokenNoEarlier ==
  [][\A c \in dual.waiting \ dual'.waiting :
       Running(Other(c)) => Earliest(c)' >= dual'.local[Other(c)]]_dual

\* "It stops" (hold_core1): a core 1 that is held begins no instruction.
HeldCoreStops == [][dual.held => ~ Begins(1)]_dual
=============================================================================
