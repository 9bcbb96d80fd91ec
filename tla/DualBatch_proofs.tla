-------------------------- MODULE DualBatch_proofs --------------------------
(***************************************************************************)
(* Proofs about the batch loop for two cores, for every quantum, every set *)
(* of costs and delays and every bound: the cores stay within a quantum of *)
(* one another, accesses that synchronise happen in the order of time, and *)
(* no core's turn lets it begin an instruction past an alarm that was set  *)
(* when the horizon was last looked at.                                    *)
(***************************************************************************)
EXTENDS DualBatch, SequenceTheorems, TLAPS

-----------------------------------------------------------------------------
(* The invariant, of a state d of the loop. *)

Frames == [core : Cores, left : Int, syncs : BOOLEAN]

Duals ==
  [quantum : Quanta, local : [Cores -> Int], wake : [Cores -> Int], waiting : SUBSET Cores,
   held : BOOLEAN, parked : BOOLEAN, horizon : Int, alarm : Nat \cup {Never}, uncut : BOOLEAN,
   turn : Cores \cup {Between}, calls : Seq(Frames), rounds : 0 .. Rounds, ceiling : BOOLEAN, ended : BOOLEAN]

RunningIn(d, c) == \E n \in 1 .. Len(d.calls) : d.calls[n].core = c

\* The instruction under way is one of the core whose turn it is; inside an access of it
\* the other core may be in one, as long as it is behind.
Stacked(d) ==
  \/ d.calls = << >>
  \/ d.turn \in Cores /\ Len(d.calls) = 1 /\ d.calls[1].core = d.turn
  \/ /\ d.turn \in Cores /\ Len(d.calls) = 2 /\ d.calls[1].core = d.turn
     /\ d.calls[1].syncs /\ d.calls[2].core = Other(d.turn)
     /\ d.local[Other(d.turn)] < d.local[d.turn]

\* What woke a core is no older than the clock and less than a quantum ahead of it.
WakesAreNear(d) == \A c \in Cores : 0 <= d.wake[c] /\ d.wake[c] < d.quantum

\* A core in an instruction is awake, not behind the clock and less than a quantum ahead of it.
RunsAreNear(d) ==
  \A c \in Cores : RunningIn(d, c) => c \notin d.waiting /\ 0 <= d.local[c] /\ d.local[c] < d.quantum

\* Whose turn it is has caught up with the clock, unless asleep, and so has whom an access waits for.
Caught(d) ==
  /\ \A c \in Cores : d.turn = c /\ c \notin d.waiting => 0 <= d.local[c]
  /\ d.calls # << >> =>
       LET top == d.calls[Len(d.calls)]
       IN  top.syncs /\ Other(top.core) \notin d.waiting => 0 <= d.local[Other(top.core)]

Together(d) == \A c \in Cores : \E cost \in Costs : d.local[c] < d.quantum + cost

\* The horizon is a quantum away at most, and no further than the alarm it was cut at.
HorizonIsNear(d) ==
  /\ d.horizon <= d.quantum
  /\ d.turn \in Cores /\ ~ d.uncut /\ d.alarm # Never => d.horizon <= d.alarm + 1

DInv(d) ==
  /\ d \in Duals
  /\ Stacked(d) /\ WakesAreNear(d) /\ RunsAreNear(d) /\ Caught(d) /\ Together(d) /\ HorizonIsNear(d)

-----------------------------------------------------------------------------
(* Arithmetic of the loop's functions. *)

LEMMA QuantaAreWhole ==
  ASSUME NEW d \in Duals
  PROVE  d.quantum \in Nat /\ d.quantum >= 1
<1>1. d.quantum \in Quanta
  BY DEF Duals
<1>2. \A q \in Quanta : q \in Nat /\ q >= 1
  BY DualAssumption
<1> QED BY <1>1, <1>2

LEMMA DualFields ==
  ASSUME NEW d \in Duals
  PROVE  /\ d.local \in [Cores -> Int] /\ d.wake \in [Cores -> Int]
         /\ \A c \in Cores : d.local[c] \in Int /\ d.wake[c] \in Int
         /\ d.horizon \in Int /\ d.alarm \in Nat \cup {Never} /\ d.waiting \subseteq Cores
         /\ d.calls \in Seq(Frames) /\ d.turn \in Cores \cup {Between}
<1>1. /\ d.local \in [Cores -> Int] /\ d.wake \in [Cores -> Int]
      /\ d.horizon \in Int /\ d.alarm \in Nat \cup {Never} /\ d.waiting \subseteq Cores
      /\ d.calls \in Seq(Frames) /\ d.turn \in Cores \cup {Between}
  BY DEF Duals
<1> QED BY <1>1

LEMMA TwoCores ==
  /\ Cores = {0, 1}
  /\ \A c \in Cores : Other(c) \in Cores /\ Other(c) # c /\ Other(Other(c)) = c
  /\ \A c, x \in Cores : x # c => x = Other(c)
<1>1. \A c \in {0, 1} : 1 - c \in {0, 1} /\ 1 - c # c /\ 1 - (1 - c) = c
  OBVIOUS
<1>2. \A c, x \in {0, 1} : x # c => x = 1 - c
  OBVIOUS
<1> QED BY <1>1, <1>2 DEF Cores, Other

LEMMA MostLeast ==
  ASSUME NEW a \in Int, NEW b \in Int
  PROVE  /\ Most(a, b) \in Int /\ Most(a, b) >= a /\ Most(a, b) >= b /\ (Most(a, b) = a \/ Most(a, b) = b)
         /\ Least(a, b) \in Int /\ Least(a, b) <= a /\ Least(a, b) <= b /\ (Least(a, b) = a \/ Least(a, b) = b)
  BY DEF Most, Least

\* What a step of the functions leaves alone.
SameCalls(d, e) == e.quantum = d.quantum /\ e.calls = d.calls /\ e.turn = d.turn

\* A tick moves every time back, but none further than just behind the clock.
LEMMA TickState ==
  ASSUME NEW d \in Duals, NEW t \in Nat, NEW woken, NEW next \in Delays \cup {Never}
  PROVE  /\ Tick(d, t, woken, next) \in Duals
         /\ SameCalls(d, Tick(d, t, woken, next))
         /\ \A c \in Cores : /\ Tick(d, t, woken, next).local[c] = Most(d.local[c] - t, -1)
                             /\ Tick(d, t, woken, next).wake[c] = Most(d.wake[c] - t, -1)
         /\ Tick(d, t, woken, next).horizon = Most(d.horizon - t, -1)
         /\ Tick(d, t, woken, next).waiting = d.waiting \ woken
<1> DEFINE from(x) == Most(x - t, -1)
           alarm == IF d.alarm <= t THEN next ELSE d.alarm - t
           local == [c \in Cores |-> from(d.local[c])]
           wake == [c \in Cores |-> from(d.wake[c])]
           e == [d EXCEPT !.local = local, !.wake = wake, !.horizon = from(d.horizon), !.alarm = alarm,
                          !.waiting = d.waiting \ woken]
<1>1. \A x \in Int : from(x) \in Int
  BY MostLeast
<1>2. alarm \in Nat \cup {Never}
  BY DualAssumption DEF Duals, Never
<1>3. local \in [Cores -> Int] /\ wake \in [Cores -> Int] /\ from(d.horizon) \in Int
  BY <1>1 DEF Duals
<1>4. Tick(d, t, woken, next) = e
  BY DEF Tick
<1>5. /\ \A c \in Cores : local[c] = Most(d.local[c] - t, -1) /\ wake[c] = Most(d.wake[c] - t, -1)
      /\ from(d.horizon) = Most(d.horizon - t, -1)
  OBVIOUS
<1> HIDE DEF from, alarm, local, wake
<1>6. e \in Duals /\ SameCalls(d, e) /\ e.local = local /\ e.wake = wake /\ e.horizon = from(d.horizon)
      /\ e.waiting = d.waiting \ woken
  BY <1>2, <1>3 DEF Duals, SameCalls
<1> QED BY <1>4, <1>5, <1>6

LEMMA NoteWakeState ==
  ASSUME NEW d \in Duals
  PROVE  /\ NoteWake(d) \in Duals
         /\ SameCalls(d, NoteWake(d))
         /\ NoteWake(d).local = d.local /\ NoteWake(d).horizon = d.horizon /\ NoteWake(d).waiting = d.waiting
         /\ NoteWake(d).alarm = d.alarm /\ NoteWake(d).uncut = d.uncut
         /\ \A c \in Cores : NoteWake(d).wake[c] = Most(d.wake[c], 0)
<1> DEFINE wake == [c \in Cores |-> Most(d.wake[c], 0)]
<1>1. wake \in [Cores -> Int] /\ \A c \in Cores : wake[c] = Most(d.wake[c], 0)
  BY MostLeast DEF Duals
<1>2. NoteWake(d) = [d EXCEPT !.wake = wake]
  BY DEF NoteWake, Duals
<1> HIDE DEF wake
<1> QED BY <1>1, <1>2 DEF Duals, SameCalls

LEMMA EnterState ==
  ASSUME NEW d \in Duals, NEW c \in Cores
  PROVE  /\ Enter(d, c) \in Duals
         /\ SameCalls(d, Enter(d, c))
         /\ Enter(d, c).wake = d.wake /\ Enter(d, c).horizon = d.horizon /\ Enter(d, c).waiting = d.waiting
         /\ Enter(d, c).alarm = d.alarm /\ Enter(d, c).uncut = d.uncut
         /\ \A x \in Cores : x # c => Enter(d, c).local[x] = d.local[x]
         /\ c \in d.waiting => Enter(d, c).local[c] = d.local[c]
         /\ c \notin d.waiting => Enter(d, c).local[c] = Most(d.local[c], Most(0, d.wake[c]))
<1>1. CASE c \in d.waiting
  BY <1>1 DEF Enter, SameCalls
<1>2. CASE c \notin d.waiting
  <2> DEFINE begin == Most(d.local[c], Most(0, d.wake[c]))
             local == [d.local EXCEPT ![c] = begin]
  <2>0. begin \in Int
    <3>1. d.local[c] \in Int /\ d.wake[c] \in Int
      BY DualFields
    <3>2. Most(0, d.wake[c]) \in Int
      BY <3>1 DEF Most
    <3> QED BY <3>1, <3>2, MostLeast, Zenon
  <2>1. /\ local \in [Cores -> Int]
        /\ local[c] = Most(d.local[c], Most(0, d.wake[c]))
        /\ \A x \in Cores : x # c => local[x] = d.local[x]
    <3> HIDE DEF begin
    <3> SUFFICES local \in [Cores -> Int] /\ local[c] = begin /\ \A x \in Cores : x # c => local[x] = d.local[x]
      BY DEF begin
    <3> QED BY <2>0 DEF Duals
  <2>2. Enter(d, c) = [d EXCEPT !.local = local]
    BY <1>2 DEF Enter, Duals
  <2> HIDE DEF local
  <2>3. /\ Enter(d, c) \in Duals /\ SameCalls(d, Enter(d, c)) /\ Enter(d, c).local = local
        /\ Enter(d, c).wake = d.wake /\ Enter(d, c).horizon = d.horizon /\ Enter(d, c).waiting = d.waiting
        /\ Enter(d, c).alarm = d.alarm /\ Enter(d, c).uncut = d.uncut
    BY <2>1, <2>2 DEF Duals, SameCalls
  <2> QED BY <1>2, <2>1, <2>3
<1> QED BY <1>1, <1>2

\* What an access leaves behind when it happens: the clock where its core is, the horizon no further than the
\* next alarm, and the other core to start no earlier.
LEMMA SyncedState ==
  ASSUME NEW d \in Duals, NEW c \in Cores, NEW woken, NEW next \in Delays \cup {Never},
         0 <= d.local[c], WakesAreNear(d), d.horizon <= d.quantum
  PROVE  /\ Synced(d, c, woken, next) \in Duals
         /\ SameCalls(d, Synced(d, c, woken, next))
         /\ Synced(d, c, woken, next).local[c] = 0
         /\ \A x \in Cores : LET y == Synced(d, c, woken, next).local[x]
                             IN  /\ y <= d.local[x] \/ y = -1
                                 /\ d.local[x] >= d.local[c] => y >= 0
                                 /\ d.local[x] > d.local[c] => y > 0
         /\ WakesAreNear(Synced(d, c, woken, next))
         /\ Synced(d, c, woken, next).waiting \subseteq d.waiting
         /\ HorizonIsNear(Synced(d, c, woken, next))
<1> DEFINE time == d.local[c]
           t == AdvanceTo(d, time, woken, next)
           h == IF t.alarm = Never THEN t.horizon ELSE Least(t.horizon, t.alarm)
           u == [t EXCEPT !.horizon = h, !.uncut = FALSE]
           v == NoteWake(u)
           w == [v.wake EXCEPT ![Other(c)] = Most(v.wake[Other(c)], v.local[c])]
           e == [v EXCEPT !.wake = w]
<1>1. time \in Nat /\ d.quantum \in Nat /\ d.quantum >= 1
  BY DualFields, QuantaAreWhole
<1>2. /\ t \in Duals /\ SameCalls(d, t) /\ t.waiting \subseteq d.waiting
      /\ t.local[c] = 0
      /\ \A x \in Cores : /\ t.local[x] <= d.local[x] \/ t.local[x] = -1
                          /\ d.local[x] >= d.local[c] => t.local[x] >= 0
                          /\ d.local[x] > d.local[c] => t.local[x] > 0
                          /\ t.wake[x] < d.quantum
      /\ t.horizon <= d.quantum
  <2>1. CASE time > 0
    <3>1. t = Tick(d, time, woken, next)
      BY <2>1 DEF AdvanceTo
    <3>2. /\ t \in Duals /\ SameCalls(d, t) /\ t.waiting = d.waiting \ woken
          /\ \A x \in Cores : t.local[x] = Most(d.local[x] - time, -1) /\ t.wake[x] = Most(d.wake[x] - time, -1)
          /\ t.horizon = Most(d.horizon - time, -1)
      BY <1>1, <3>1, TickState
    <3> HIDE DEF t
    <3>3. \A x \in Cores : d.local[x] \in Int /\ d.wake[x] \in Int /\ d.wake[x] < d.quantum
      BY DualFields DEF WakesAreNear
    <3>4. d.horizon \in Int
      BY DualFields
    <3> HIDE DEF time
    <3>5. d.local[c] = time
      BY DEF time
    <3>6. \A x \in Cores : /\ t.local[x] <= d.local[x] \/ t.local[x] = -1
                           /\ d.local[x] >= d.local[c] => t.local[x] >= 0
                           /\ d.local[x] > d.local[c] => t.local[x] > 0
                           /\ t.wake[x] < d.quantum
      BY <1>1, <2>1, <3>2, <3>3, <3>5 DEF Most
    <3>7. t.horizon <= d.quantum
      BY <1>1, <2>1, <3>2, <3>4 DEF Most
    <3>8. t.local[c] = 0
      BY <1>1, <2>1, <3>2, <3>5 DEF Most
    <3>9. t.waiting \subseteq d.waiting
      BY <3>2
    <3>10. t \in Duals /\ SameCalls(d, t) /\ t.waiting \subseteq d.waiting
      BY <3>2, <3>9
    <3>11. t.local[c] = 0 /\ t.horizon <= d.quantum
      BY <3>7, <3>8
    <3> QED BY <3>6, <3>10, <3>11
  <2>2. CASE time = 0
    <3>1. t = d
      BY <2>2 DEF AdvanceTo
    <3>2. \A x \in Cores : d.local[x] \in Int
      BY DualFields
    <3> HIDE DEF t
    <3> QED BY <2>2, <3>1, <3>2 DEF SameCalls, WakesAreNear
  <2> QED BY <1>1, <2>1, <2>2
<1> HIDE DEF t, time
<1>3. t.horizon \in Int /\ t.alarm \in Nat \cup {Never}
  BY <1>2, DualFields
<1>4. h \in Int /\ h <= d.quantum /\ (t.alarm # Never => h <= t.alarm)
  BY <1>1, <1>2, <1>3 DEF Least
<1> HIDE DEF h
<1>5. /\ u \in Duals /\ SameCalls(t, u) /\ u.waiting = t.waiting /\ u.local = t.local /\ u.wake = t.wake
      /\ u.horizon = h /\ u.uncut = FALSE /\ u.alarm = t.alarm
  BY <1>2, <1>4 DEF Duals, SameCalls
<1> HIDE DEF u
<1>6. /\ v \in Duals /\ SameCalls(u, v) /\ v.waiting = u.waiting /\ v.local = u.local
      /\ v.horizon = h /\ v.uncut = FALSE /\ v.alarm = t.alarm
      /\ \A x \in Cores : v.wake[x] = Most(u.wake[x], 0)
  BY <1>5, NoteWakeState
<1> HIDE DEF v
<1>7. /\ v.local[c] = 0
      /\ \A x \in Cores : v.wake[x] \in Int /\ 0 <= v.wake[x] /\ v.wake[x] < d.quantum
  <2>1. \A x \in Cores : t.wake[x] \in Int
    BY <1>2, DualFields
  <2> QED BY <1>1, <1>2, <1>5, <1>6, <2>1 DEF Most
<1>8. w \in [Cores -> Int] /\ \A x \in Cores : w[x] = v.wake[x]
  <2>1. v.wake \in [Cores -> Int] /\ Other(c) \in Cores
    BY <1>6, DualFields, TwoCores
  <2>2. Most(v.wake[Other(c)], v.local[c]) = v.wake[Other(c)]
    BY <1>7, <2>1 DEF Most
  <2> QED BY <2>1, <2>2
<1> HIDE DEF w
<1>9. /\ e \in Duals /\ SameCalls(v, e) /\ e.waiting = v.waiting /\ e.local = v.local /\ e.wake = w
      /\ e.horizon = h /\ e.uncut = FALSE /\ e.alarm = t.alarm
  BY <1>6, <1>8 DEF Duals, SameCalls
<1>10. Synced(d, c, woken, next) = e
  <2>1. v \in Duals
    BY <1>6
  <2> QED BY <2>1 DEF Synced, e, w, v, u, h, t, time, Duals
<1> HIDE DEF e
<1>11. WakesAreNear(e)
  BY <1>2, <1>5, <1>6, <1>7, <1>8, <1>9 DEF WakesAreNear, SameCalls
<1>12. HorizonIsNear(e)
  BY <1>2, <1>3, <1>4, <1>5, <1>6, <1>9 DEF HorizonIsNear, SameCalls
<1> QED BY <1>2, <1>5, <1>6, <1>9, <1>10, <1>11, <1>12 DEF SameCalls

-----------------------------------------------------------------------------
(* The stack of instructions. *)

Depth(d) == Len(d.calls)
TopOf(d) == d.calls[Len(d.calls)]

LEMMA StackFacts ==
  ASSUME NEW d \in Duals, Stacked(d)
  PROVE  /\ d.calls \in Seq(Frames) /\ Depth(d) \in 0 .. 2
         /\ d.calls = << >> <=> Depth(d) = 0
         /\ \A n \in 1 .. Depth(d) : d.calls[n] \in Frames
         /\ Depth(d) > 0 => d.turn \in Cores /\ TopOf(d) \in Frames /\ d.calls[1].core = d.turn
         /\ Depth(d) = 1 => TopOf(d).core = d.turn
         /\ Depth(d) = 2 => /\ TopOf(d).core = Other(d.turn) /\ d.calls[1].syncs
                            /\ d.local[Other(d.turn)] < d.local[d.turn]
         /\ \A c \in Cores : RunningIn(d, c) <=> (Depth(d) = 1 /\ c = d.turn) \/ Depth(d) = 2
<1>1. d.calls \in Seq(Frames) /\ Depth(d) \in Nat /\ Depth(d) \in 0 .. 2
  <2>1. d.calls \in Seq(Frames)
    BY DualFields
  <2>2. Len(d.calls) = 0 \/ Len(d.calls) = 1 \/ Len(d.calls) = 2
    BY DEF Stacked
  <2> QED BY <2>1, <2>2 DEF Depth
<1>2. d.calls = << >> <=> Depth(d) = 0
  BY <1>1 DEF Depth
<1>3. \A n \in 1 .. Depth(d) : d.calls[n] \in Frames
  BY <1>1 DEF Depth
<1>4. Depth(d) > 0 => d.turn \in Cores /\ d.calls[1].core = d.turn /\ TopOf(d) \in Frames
  BY <1>1, <1>2, <1>3 DEF Stacked, Depth, TopOf
<1>5. Depth(d) = 1 => TopOf(d).core = d.turn
  BY <1>4 DEF Depth, TopOf
<1>6. Depth(d) = 2 => /\ TopOf(d).core = Other(d.turn) /\ d.calls[1].syncs
                      /\ d.local[Other(d.turn)] < d.local[d.turn]
  BY <1>2 DEF Stacked, Depth, TopOf
<1>7. ASSUME NEW c \in Cores
      PROVE  RunningIn(d, c) <=> (Depth(d) = 1 /\ c = d.turn) \/ Depth(d) = 2
  <2>1. CASE Depth(d) = 0
    BY <2>1 DEF RunningIn, Depth
  <2>2. CASE Depth(d) = 1
    <3>1. RunningIn(d, c) <=> d.calls[1].core = c
      BY <2>2 DEF RunningIn, Depth
    <3> QED BY <2>2, <3>1, <1>4
  <2>3. CASE Depth(d) = 2
    <3>1. RunningIn(d, c) <=> d.calls[1].core = c \/ d.calls[2].core = c
      BY <2>3 DEF RunningIn, Depth
    <3>2. d.calls[1].core = d.turn /\ d.calls[2].core = Other(d.turn) /\ d.turn \in Cores
      BY <1>4, <1>6, <2>3 DEF Depth, TopOf
    <3>3. c = d.turn \/ c = Other(d.turn)
      BY <3>2, TwoCores
    <3> QED BY <2>3, <3>1, <3>2, <3>3
  <2> QED BY <1>1, <2>1, <2>2, <2>3
<1> QED BY <1>1, <1>2, <1>3, <1>4, <1>5, <1>6, <1>7

\* Where the core on top of the stack is.
LEMMA TopIsNear ==
  ASSUME NEW d, DInv(d), Depth(d) > 0
  PROVE  /\ TopOf(d) \in Frames /\ TopOf(d).core \in Cores
         /\ TopOf(d).core \notin d.waiting
         /\ 0 <= d.local[TopOf(d).core] /\ d.local[TopOf(d).core] < d.quantum
         /\ RunningIn(d, TopOf(d).core)
<1>1. d \in Duals /\ Stacked(d) /\ RunsAreNear(d)
  BY DEF DInv
<1>2. TopOf(d) \in Frames /\ TopOf(d).core \in Cores
  BY <1>1, StackFacts DEF Frames
<1>3. RunningIn(d, TopOf(d).core)
  <2>1. Depth(d) \in Nat /\ Depth(d) \in 1 .. Depth(d)
    BY <1>1, StackFacts
  <2> QED BY <2>1 DEF RunningIn, TopOf, Depth
<1> QED BY <1>1, <1>2, <1>3 DEF RunsAreNear

\* An instruction begins on top of the stack.
LEMMA Pushes ==
  ASSUME NEW d \in Duals, Stacked(d), NEW c \in Cores
  PROVE  LET f == [core |-> c, left |-> Accesses, syncs |-> FALSE]
             e == [d EXCEPT !.calls = Append(@, f)]
         IN  /\ e \in Duals /\ e.calls = Append(d.calls, f) /\ e.quantum = d.quantum /\ e.turn = d.turn
             /\ e.local = d.local /\ e.wake = d.wake /\ e.waiting = d.waiting /\ e.horizon = d.horizon
             /\ e.uncut = d.uncut /\ e.alarm = d.alarm
             /\ Depth(e) = Depth(d) + 1 /\ TopOf(e) = f
             /\ \A n \in 1 .. Depth(d) : e.calls[n] = d.calls[n]
<1> DEFINE f == [core |-> c, left |-> Accesses, syncs |-> FALSE]
           e == [d EXCEPT !.calls = Append(@, f)]
<1>1. f \in Frames
  BY DualAssumption DEF Frames
<1>2. d.calls \in Seq(Frames)
  BY DualFields
<1>3. /\ Append(d.calls, f) \in Seq(Frames) /\ Len(Append(d.calls, f)) = Len(d.calls) + 1
      /\ Append(d.calls, f)[Len(d.calls) + 1] = f
      /\ \A n \in 1 .. Len(d.calls) : Append(d.calls, f)[n] = d.calls[n]
  BY <1>1, <1>2, AppendProperties
<1> HIDE DEF f
<1>4. /\ e \in Duals /\ e.calls = Append(d.calls, f) /\ e.quantum = d.quantum /\ e.turn = d.turn
      /\ e.local = d.local /\ e.wake = d.wake /\ e.waiting = d.waiting /\ e.horizon = d.horizon
      /\ e.uncut = d.uncut /\ e.alarm = d.alarm
  BY <1>3 DEF Duals
<1> HIDE DEF e
<1>5. Depth(e) = Depth(d) + 1 /\ TopOf(e) = f /\ \A n \in 1 .. Depth(d) : e.calls[n] = d.calls[n]
  BY <1>3, <1>4 DEF Depth, TopOf
<1> QED BY <1>4, <1>5 DEF e, f

-----------------------------------------------------------------------------
(* Every step keeps the invariant. *)

LEMMA ExecuteKeeps ==
  ASSUME NEW d, DInv(d), NEW c \in Cores, c \notin d.waiting, 0 <= d.local[c], d.local[c] < d.quantum,
         \/ Depth(d) = 0 /\ d.turn = c
         \/ Depth(d) = 1 /\ c = Other(d.turn) /\ TopOf(d).syncs /\ d.local[c] < d.local[d.turn],
         NEW parked \in BOOLEAN
  PROVE  DInv(Execute(d, c, parked))
<1> USE DEF Depth
<1>1. d \in Duals /\ Stacked(d) /\ WakesAreNear(d) /\ RunsAreNear(d) /\ Caught(d) /\ Together(d) /\ HorizonIsNear(d)
  BY DEF DInv
<1>2. CASE parked
  <2> DEFINE e == [d EXCEPT !.waiting = @ \cup {c}, !.parked = TRUE, !.ended = TRUE]
  <2>1. Execute(d, c, parked) = e
    BY <1>2 DEF Execute
  <2>2. /\ e \in Duals /\ e.calls = d.calls /\ e.quantum = d.quantum /\ e.turn = d.turn
        /\ e.local = d.local /\ e.wake = d.wake /\ e.waiting = d.waiting \cup {c} /\ e.horizon = d.horizon
        /\ e.uncut = d.uncut /\ e.alarm = d.alarm
    BY <1>1 DEF Duals
  <2> HIDE DEF e
  <2>3. ~ RunningIn(d, c)
    <3>1. d.turn \in Cores
      BY <1>1, StackFacts
    <3> QED BY <1>1, <3>1, StackFacts, TwoCores
  <2>4. Stacked(e) /\ WakesAreNear(e) /\ Together(e) /\ HorizonIsNear(e)
    BY <1>1, <2>2 DEF Stacked, WakesAreNear, Together, HorizonIsNear
  <2>5. RunsAreNear(e)
    BY <1>1, <2>2, <2>3 DEF RunsAreNear, RunningIn
  <2>6. Caught(e)
    BY <1>1, <2>2 DEF Caught
  <2> QED BY <2>1, <2>2, <2>4, <2>5, <2>6 DEF DInv
<1>3. CASE ~parked
  <2> DEFINE f == [core |-> c, left |-> Accesses, syncs |-> FALSE]
             e == [d EXCEPT !.calls = Append(@, f)]
  <2>1. Execute(d, c, parked) = e
    BY <1>3 DEF Execute
  <2>2. /\ e \in Duals /\ e.calls = Append(d.calls, f) /\ e.quantum = d.quantum /\ e.turn = d.turn
        /\ e.local = d.local /\ e.wake = d.wake /\ e.waiting = d.waiting /\ e.horizon = d.horizon
        /\ e.uncut = d.uncut /\ e.alarm = d.alarm
        /\ Len(e.calls) = Len(d.calls) + 1 /\ e.calls[Len(e.calls)] = f
        /\ \A n \in 1 .. Len(d.calls) : e.calls[n] = d.calls[n]
    BY <1>1, Pushes DEF TopOf
  <2>3. f.core = c /\ f.syncs = FALSE
    OBVIOUS
  <2> HIDE DEF e, f
  <2>4. /\ d.calls \in Seq(Frames) /\ d.turn \in Cores
        /\ Len(d.calls) = 1 => d.calls[1].core = d.turn /\ d.calls[1].syncs
    BY <1>1, StackFacts DEF TopOf
  <2>5. Stacked(e)
    <3>1. CASE Len(d.calls) = 0 /\ d.turn = c
      BY <2>2, <2>3, <3>1 DEF Stacked
    <3>2. CASE Len(d.calls) = 1 /\ c = Other(d.turn) /\ d.local[c] < d.local[d.turn]
      <4>1. Len(e.calls) = 2 /\ e.calls[2] = f /\ e.calls[1] = d.calls[1]
        BY <2>2, <3>2
      <4> QED BY <2>2, <2>3, <2>4, <3>2, <4>1 DEF Stacked
    <3> QED BY <3>1, <3>2
  <2>6. RunsAreNear(e)
    <3> SUFFICES ASSUME NEW x \in Cores, RunningIn(e, x)
                 PROVE  x \notin d.waiting /\ 0 <= d.local[x] /\ d.local[x] < d.quantum
      BY <2>2 DEF RunsAreNear
    <3>1. PICK n \in 1 .. Len(e.calls) : e.calls[n].core = x
      BY DEF RunningIn
    <3>2. CASE n = Len(e.calls)
      BY <2>2, <2>3, <3>1, <3>2
    <3>3. CASE n # Len(e.calls)
      <4>1. n \in 1 .. Len(d.calls)
        BY <2>2, <2>4, <3>3
      <4>2. RunningIn(d, x)
        BY <2>2, <3>1, <4>1 DEF RunningIn
      <4> QED BY <1>1, <4>2 DEF RunsAreNear
    <3> QED BY <3>2, <3>3
  <2>7. Caught(e)
    BY <1>1, <2>2, <2>3 DEF Caught
  <2>8. WakesAreNear(e) /\ Together(e) /\ HorizonIsNear(e)
    BY <1>1, <2>2 DEF WakesAreNear, Together, HorizonIsNear
  <2> QED BY <2>1, <2>2, <2>5, <2>6, <2>7, <2>8 DEF DInv
<1> QED BY <1>2, <1>3

LEMMA StepKeeps ==
  ASSUME DInv(dual), Step
  PROVE  DInv(dual')
<1> DEFINE d == dual
           c == dual.turn
<1>1. PICK parked \in Parks(d, c) : dual' = Execute(d, c, parked)
  BY DEF Step
<1>2. parked \in BOOLEAN
  BY DEF Parks
<1>3. c \in Cores /\ c \notin d.waiting /\ d.local[c] < d.horizon /\ d.calls = << >>
  BY DEF Step, Runs, Calm
<1>4. d \in Duals /\ d.horizon <= d.quantum /\ 0 <= d.local[c]
  BY <1>3 DEF DInv, HorizonIsNear, Caught
<1>5. d.local[c] < d.quantum
  <2>1. d.local[c] \in Int /\ d.horizon \in Int /\ d.quantum \in Int
    BY <1>3, <1>4, DualFields, QuantaAreWhole
  <2> QED BY <1>3, <1>4, <2>1
<1>6. Depth(d) = 0
  BY <1>3 DEF Depth
<1> QED BY <1>1, <1>2, <1>3, <1>4, <1>5, <1>6, ExecuteKeeps

LEMMA CatchUpKeeps ==
  ASSUME DInv(dual), CatchUp
  PROVE  DInv(dual')
<1> DEFINE d == dual
           t == Top.core
           c == Other(t)
<1>1. PICK parked \in Parks(d, c) : dual' = Execute(d, c, parked)
  BY DEF CatchUp
<1>2. parked \in BOOLEAN
  BY DEF Parks
<1>3. /\ d.calls # << >> /\ TopOf(d).syncs /\ TopOf(d).core = t
      /\ c \notin d.waiting /\ d.local[c] < d.local[t]
  BY DEF CatchUp, Calm, Behind, TopOf, Top
<1> HIDE DEF d
<1>4. d \in Duals /\ Stacked(d) /\ Caught(d) /\ DInv(d)
  BY DEF DInv, d
<1>5. Depth(d) \in 0 .. 2 /\ Depth(d) > 0
  BY <1>3, <1>4, StackFacts
<1> HIDE DEF t
<1>6. t \in Cores /\ c \in Cores /\ d.local[t] < d.quantum
  BY <1>3, <1>4, <1>5, TopIsNear, TwoCores
<1>7. 0 <= d.local[c]
  BY <1>3, <1>4 DEF Caught, TopOf
<1>8. d.local[t] \in Int /\ d.local[c] \in Int /\ d.quantum \in Int
  BY <1>4, <1>6, DualFields, QuantaAreWhole
<1>9. Depth(d) = 1
  <2> SUFFICES ASSUME Depth(d) = 2 PROVE FALSE
    BY <1>5
  <2>1. t = Other(d.turn) /\ d.turn \in Cores /\ d.local[Other(d.turn)] < d.local[d.turn]
    BY <1>3, <1>4, StackFacts
  <2>2. c = d.turn
    BY <2>1, TwoCores
  <2> QED BY <1>3, <1>8, <2>1, <2>2
<1>10. t = d.turn
  BY <1>3, <1>4, <1>9, StackFacts
<1>11. d.local[c] < d.quantum
  BY <1>3, <1>6, <1>8
<1> QED BY <1>1, <1>2, <1>3, <1>4, <1>6, <1>7, <1>9, <1>10, <1>11, ExecuteKeeps


NoNew == Len(dual'.calls) <= Len(dual.calls)

\* Between two instructions the stack says nothing.
LEMMA CalmKeeps ==
  ASSUME NEW e \in Duals, e.calls = << >>, WakesAreNear(e), Together(e), HorizonIsNear(e),
         \A c \in Cores : e.turn = c /\ c \notin e.waiting => 0 <= e.local[c]
  PROVE  DInv(e)
<1>1. Stacked(e)
  BY DEF Stacked
<1>2. \A c \in Cores : ~ RunningIn(e, c)
  BY DEF RunningIn
<1> QED BY <1>1, <1>2 DEF DInv, RunsAreNear, Caught

\* Less sleep disturbs nothing of an instruction whose access waits for nobody.
LEMMA WakingKeeps ==
  ASSUME NEW d, DInv(d), Depth(d) > 0, ~ TopOf(d).syncs,
         NEW e \in Duals, SameCalls(d, e), e.local = d.local, e.wake = d.wake, e.waiting \subseteq d.waiting,
         HorizonIsNear(e)
  PROVE  DInv(e)
<1>1. d \in Duals /\ Stacked(d) /\ WakesAreNear(d) /\ RunsAreNear(d) /\ Together(d)
  BY DEF DInv
<1>2. Stacked(e) /\ WakesAreNear(e) /\ Together(e)
  BY <1>1 DEF Stacked, WakesAreNear, Together, SameCalls
<1>3. RunsAreNear(e)
  BY <1>1 DEF RunsAreNear, RunningIn, SameCalls
<1>4. Caught(e)
  <2>1. d.turn \in Cores /\ RunningIn(d, d.turn) /\ Depth(d) \in 0 .. 2
    BY <1>1, StackFacts
  <2>2. 0 <= e.local[e.turn]
    BY <1>1, <2>1 DEF RunsAreNear, SameCalls
  <2>3. ~ e.calls[Len(e.calls)].syncs
    BY DEF SameCalls, TopOf
  <2> QED BY <2>2, <2>3 DEF Caught
<1> QED BY <1>1, <1>2, <1>3, <1>4 DEF DInv

LEMMA StartHolds ==
  ASSUME NEW q \in Quanta, NEW waiting \in SUBSET Cores, NEW alarm \in Nat \cup {Never}
  PROVE  DInv(Start(q, waiting, alarm))
<1> DEFINE zero == [c \in Cores |-> 0]
           e == Start(q, waiting, alarm)
<1>1. zero \in [Cores -> Int] /\ (\A c \in Cores : zero[c] = 0) /\ << >> \in Seq(Frames)
  OBVIOUS
<1>2. 0 \in 0 .. Rounds
  BY DualAssumption
<1>3. e = [quantum |-> q, local |-> zero, wake |-> zero, waiting |-> waiting, held |-> FALSE, parked |-> FALSE,
           horizon |-> 0, alarm |-> alarm, uncut |-> FALSE, turn |-> Between, calls |-> << >>, rounds |-> 0,
           ceiling |-> FALSE, ended |-> FALSE]
  BY DEF Start
<1> HIDE DEF zero, e
<1>4. /\ e \in Duals /\ e.quantum = q /\ e.calls = << >> /\ e.turn = Between /\ e.local = zero /\ e.wake = zero
      /\ e.horizon = 0
  BY <1>1, <1>2, <1>3 DEF Duals
<1>5. q \in Nat /\ q >= 1
  BY <1>4, QuantaAreWhole
<1>6. WakesAreNear(e)
  BY <1>1, <1>4, <1>5 DEF WakesAreNear
<1>7. Together(e)
  <2>1. PICK cost \in Costs : cost \in Nat
    BY DualAssumption
  <2> QED BY <1>1, <1>4, <1>5, <2>1 DEF Together
<1>8. \A c \in Cores : c # Between
  BY DEF Cores, Between
<1>9. HorizonIsNear(e)
  BY <1>4, <1>5, <1>8 DEF HorizonIsNear
<1> QED BY <1>4, <1>6, <1>7, <1>8, <1>9, CalmKeeps DEF e

\* A core that enters has caught up with the clock and runs less than a quantum ahead.
LEMMA EnterKeeps ==
  ASSUME NEW d \in Duals, d.calls = << >>, WakesAreNear(d), Together(d), HorizonIsNear(d), NEW c \in Cores,
         d.turn = c
  PROVE  DInv(Enter(d, c)) /\ Enter(d, c).calls = d.calls
<1> DEFINE e == Enter(d, c)
<1>1. /\ e \in Duals /\ SameCalls(d, e)
      /\ e.wake = d.wake /\ e.horizon = d.horizon /\ e.waiting = d.waiting /\ e.alarm = d.alarm /\ e.uncut = d.uncut
      /\ \A x \in Cores : x # c => e.local[x] = d.local[x]
      /\ c \in d.waiting => e.local[c] = d.local[c]
      /\ c \notin d.waiting => e.local[c] = Most(d.local[c], Most(0, d.wake[c]))
  BY EnterState
<1> HIDE DEF e
<1>2. /\ d.local[c] \in Int /\ d.wake[c] \in Int /\ 0 <= d.wake[c] /\ d.wake[c] < d.quantum
      /\ d.quantum \in Nat
  BY DualFields, QuantaAreWhole DEF WakesAreNear
<1>3. c \notin d.waiting => 0 <= e.local[c] /\ (e.local[c] = d.local[c] \/ e.local[c] < d.quantum)
  BY <1>1, <1>2 DEF Most
<1>4. Together(e)
  <2> SUFFICES ASSUME NEW x \in Cores PROVE \E cost \in Costs : e.local[x] < d.quantum + cost
    BY <1>1 DEF Together, SameCalls
  <2>1. CASE e.local[x] = d.local[x]
    BY <2>1 DEF Together
  <2>2. CASE e.local[x] < d.quantum
    <3>1. PICK cost \in Costs : cost \in Nat
      BY DualAssumption
    <3>2. e.local[x] \in Int
      BY <1>1, DualFields
    <3> QED BY <1>2, <2>2, <3>1, <3>2
  <2> QED BY <1>1, <1>3, <2>1, <2>2
<1>5. WakesAreNear(e) /\ HorizonIsNear(e)
  BY <1>1 DEF WakesAreNear, HorizonIsNear, SameCalls
<1>6. \A x \in Cores : e.turn = x /\ x \notin e.waiting => 0 <= e.local[x]
  BY <1>1, <1>3 DEF SameCalls
<1> QED BY <1>1, <1>4, <1>5, <1>6, CalmKeeps DEF SameCalls, e

\* A tick between two quanta keeps the invariant, once the cores' wake times are noted.
LEMMA TickKeeps ==
  ASSUME NEW d \in Duals, d.calls = << >>, WakesAreNear(d), Together(d), d.horizon <= d.quantum,
         NEW t \in Nat, NEW woken, NEW next \in Delays \cup {Never}
  PROVE  LET e == Tick(d, t, woken, next)
         IN  /\ e \in Duals /\ e.calls = << >> /\ Together(e) /\ e.horizon <= e.quantum /\ e.turn = d.turn
             /\ \A c \in Cores : e.wake[c] < e.quantum
<1> DEFINE e == Tick(d, t, woken, next)
<1> HIDE DEF e
<1>1. /\ e \in Duals /\ SameCalls(d, e)
      /\ \A c \in Cores : e.local[c] = Most(d.local[c] - t, -1) /\ e.wake[c] = Most(d.wake[c] - t, -1)
      /\ e.horizon = Most(d.horizon - t, -1)
  <2>1. /\ Tick(d, t, woken, next) \in Duals
        /\ SameCalls(d, Tick(d, t, woken, next))
        /\ \A c \in Cores : /\ Tick(d, t, woken, next).local[c] = Most(d.local[c] - t, -1)
                            /\ Tick(d, t, woken, next).wake[c] = Most(d.wake[c] - t, -1)
        /\ Tick(d, t, woken, next).horizon = Most(d.horizon - t, -1)
    BY TickState
  <2>2. e = Tick(d, t, woken, next)
    BY DEF e
  <2> QED BY <2>1, <2>2
<1>2. d.quantum \in Nat /\ d.quantum >= 1
  BY QuantaAreWhole
<1>3. \A c \in Cores : e.wake[c] < d.quantum
  <2>1. \A c \in Cores : d.wake[c] \in Int /\ d.wake[c] < d.quantum
    BY DualFields DEF WakesAreNear
  <2> QED BY <1>1, <1>2, <2>1 DEF Most
<1>4. Together(e)
  <2> SUFFICES ASSUME NEW x \in Cores PROVE \E cost \in Costs : e.local[x] < d.quantum + cost
    BY <1>1 DEF Together, SameCalls
  <2>1. PICK cost \in Costs : d.local[x] < d.quantum + cost
    BY DEF Together
  <2>2. d.local[x] \in Int /\ cost \in Nat
    BY DualAssumption, DualFields
  <2> QED BY <1>1, <1>2, <2>1, <2>2 DEF Most
<1>5. e.horizon <= d.quantum
  <2>1. d.horizon \in Int
    BY DualFields
  <2> QED BY <1>1, <1>2, <2>1 DEF Most
<1> QED BY <1>1, <1>3, <1>4, <1>5 DEF SameCalls, e

LEMMA RestKeeps ==
  ASSUME NEW d \in Duals, d.calls = << >>, Together(d), d.horizon <= d.quantum, d.turn = Between,
         \A c \in Cores : d.wake[c] < d.quantum
  PROVE  DInv(NoteWake(d)) /\ NoteWake(d).calls = d.calls
<1> DEFINE e == NoteWake(d)
<1>1. /\ e \in Duals /\ SameCalls(d, e) /\ e.local = d.local /\ e.horizon = d.horizon
      /\ \A c \in Cores : e.wake[c] = Most(d.wake[c], 0)
  BY NoteWakeState
<1> HIDE DEF e
<1>2. WakesAreNear(e)
  <2>1. \A c \in Cores : d.wake[c] \in Int
    BY DualFields
  <2>2. d.quantum \in Nat /\ d.quantum >= 1
    BY QuantaAreWhole
  <2> QED BY <1>1, <2>1, <2>2 DEF Most, WakesAreNear, SameCalls
<1>3. Between \notin Cores
  BY DEF Cores, Between
<1>4. Together(e) /\ HorizonIsNear(e)
  BY <1>1, <1>3 DEF Together, HorizonIsNear, SameCalls
<1> QED BY <1>1, <1>2, <1>3, <1>4, CalmKeeps DEF SameCalls, e


\* The frame on top of the stack changes, its core does not.
LEMMA WithState ==
  ASSUME NEW d \in Duals, Depth(d) > 0, NEW f \in Frames, f.core = TopOf(d).core
  PROVE  LET e == With(d, f)
         IN  /\ e \in Duals /\ e.quantum = d.quantum /\ e.turn = d.turn
             /\ e.local = d.local /\ e.wake = d.wake /\ e.waiting = d.waiting /\ e.horizon = d.horizon
             /\ e.uncut = d.uncut /\ e.alarm = d.alarm
             /\ Depth(e) = Depth(d) /\ TopOf(e) = f
             /\ \A n \in 1 .. Depth(d) : /\ e.calls[n].core = d.calls[n].core
                                         /\ n # Depth(d) => e.calls[n] = d.calls[n]
<1> DEFINE e == With(d, f)
           n0 == Len(d.calls)
           calls == [d.calls EXCEPT ![n0] = f]
<1>1. d.calls \in Seq(Frames) /\ n0 \in Nat /\ n0 > 0
  BY DualFields DEF Depth
<1>2. /\ calls \in Seq(Frames) /\ Len(calls) = n0 /\ calls[n0] = f
      /\ \A n \in 1 .. n0 : n # n0 => calls[n] = d.calls[n]
  BY <1>1, ExceptSeq
<1>3. e = [d EXCEPT !.calls = calls]
  BY DEF With, Duals
<1> HIDE DEF calls, e
<1>4. /\ e \in Duals /\ e.quantum = d.quantum /\ e.turn = d.turn
      /\ e.local = d.local /\ e.wake = d.wake /\ e.waiting = d.waiting /\ e.horizon = d.horizon
      /\ e.uncut = d.uncut /\ e.alarm = d.alarm /\ e.calls = calls
  BY <1>2, <1>3 DEF Duals
<1>5. /\ Depth(e) = Depth(d) /\ TopOf(e) = f
      /\ \A n \in 1 .. Depth(d) : /\ e.calls[n].core = d.calls[n].core
                                  /\ n # Depth(d) => e.calls[n] = d.calls[n]
  BY <1>1, <1>2, <1>4 DEF Depth, TopOf
<1> QED BY <1>4, <1>5 DEF e

\* A core's time may grow as long as it stays within a quantum; the tops of two stacks may differ in
\* what they do, not in whose they are.
LEMMA SameStack ==
  ASSUME NEW d \in Duals, Stacked(d), NEW e \in Duals, e.turn = d.turn, Depth(e) = Depth(d),
         \A n \in 1 .. Depth(d) : /\ e.calls[n].core = d.calls[n].core
                                  /\ n # Depth(d) => e.calls[n] = d.calls[n],
         d.turn \in Cores /\ d.local[Other(d.turn)] < d.local[d.turn] => e.local[Other(d.turn)] < e.local[d.turn]
  PROVE  Stacked(e) /\ \A c \in Cores : RunningIn(e, c) <=> RunningIn(d, c)
<1>1. Depth(d) \in 0 .. 2 /\ Len(e.calls) = Len(d.calls)
  BY StackFacts DEF Depth
<1>2. Stacked(e)
  <2>1. CASE Depth(d) = 0
    <3>1. e.calls = << >>
      BY <2>1, DualFields DEF Depth
    <3> QED BY <3>1 DEF Stacked
  <2>2. CASE Depth(d) = 1
    <3>1. d.turn \in Cores /\ d.calls[1].core = d.turn
      BY <2>2, StackFacts
    <3>2. e.calls[1].core = d.calls[1].core
      BY <2>2
    <3> QED BY <2>2, <3>1, <3>2 DEF Stacked, Depth
  <2>3. CASE Depth(d) = 2
    <3>1. /\ d.turn \in Cores /\ d.calls[1].core = d.turn /\ d.calls[1].syncs
          /\ d.calls[2].core = Other(d.turn) /\ d.local[Other(d.turn)] < d.local[d.turn]
      BY <2>3, StackFacts DEF TopOf, Depth
    <3>2. e.calls[1] = d.calls[1] /\ e.calls[2].core = d.calls[2].core
      BY <2>3
    <3> QED BY <2>3, <3>1, <3>2 DEF Stacked, Depth
  <2> QED BY <1>1, <2>1, <2>2, <2>3
<1>3. \A c \in Cores : RunningIn(e, c) <=> RunningIn(d, c)
  BY <1>1 DEF RunningIn, Depth
<1> QED BY <1>2, <1>3

LEMMA AccessKeeps ==
  ASSUME DInv(dual), Access
  PROVE  DInv(dual') /\ NoNew
<1> DEFINE d == dual
           c == TopOf(d).core
           f == [TopOf(d) EXCEPT !.syncs = TRUE]
           y == Sync(d, c)
           e == With(y, f)
<1>1. Depth(d) > 0 /\ dual' = e
  <2>1. d \in Duals /\ Stacked(d) /\ d.calls # << >>
    BY DEF DInv, Access, Calm
  <2>2. Depth(d) > 0
    BY <2>1, StackFacts
  <2> QED BY <2>2 DEF Access, Top, TopOf
<1> HIDE DEF d
<1>2. DInv(d)
  BY DEF d
<1>3. d \in Duals /\ Stacked(d) /\ WakesAreNear(d) /\ RunsAreNear(d) /\ Caught(d) /\ Together(d) /\ HorizonIsNear(d)
  BY <1>2 DEF DInv
<1>4. TopOf(d) \in Frames /\ c \in Cores
  BY <1>1, <1>2, TopIsNear
<1>5. f \in Frames /\ f.core = c /\ f.syncs = TRUE
  BY <1>4 DEF Frames
<1>6. /\ y \in Duals /\ SameCalls(d, y) /\ y.wake = d.wake /\ y.waiting = d.waiting /\ y.horizon = d.horizon
      /\ y.uncut = d.uncut /\ y.alarm = d.alarm
      /\ y.local[c] = d.local[c]
      /\ Other(c) \in d.waiting => y.local[Other(c)] = d.local[Other(c)]
      /\ Other(c) \notin d.waiting => y.local[Other(c)] = Most(d.local[Other(c)], d.wake[Other(c)])
  <2> HIDE DEF c
  <2>1. CASE Other(c) \in d.waiting
    BY <1>3, <2>1 DEF Sync, SameCalls
  <2>2. CASE Other(c) \notin d.waiting
    <3> DEFINE m == Most(d.local[Other(c)], d.wake[Other(c)])
               local == [d.local EXCEPT ![Other(c)] = m]
    <3>1. Other(c) \in Cores /\ Other(c) # c
      BY <1>4, TwoCores
    <3>2. m \in Int /\ d.local \in [Cores -> Int]
      BY <1>3, <3>1, DualFields, MostLeast
    <3> HIDE DEF m
    <3>3. local \in [Cores -> Int] /\ local[Other(c)] = m /\ local[c] = d.local[c]
      BY <1>4, <3>1, <3>2
    <3>4. y = [d EXCEPT !.local = local]
      BY <1>3, <2>2 DEF Sync, Duals, m
    <3> HIDE DEF local, y
    <3>5. /\ y \in Duals /\ SameCalls(d, y) /\ y.wake = d.wake /\ y.waiting = d.waiting /\ y.horizon = d.horizon
          /\ y.uncut = d.uncut /\ y.alarm = d.alarm /\ y.local = local
      BY <1>3, <3>3, <3>4 DEF Duals, SameCalls
    <3> QED BY <2>2, <3>3, <3>5 DEF m
  <2> QED BY <2>1, <2>2
<1> HIDE DEF y, f
<1>7. /\ e \in Duals /\ e.quantum = d.quantum /\ e.turn = d.turn
      /\ e.local = y.local /\ e.wake = d.wake /\ e.waiting = d.waiting /\ e.horizon = d.horizon
      /\ e.uncut = d.uncut /\ e.alarm = d.alarm
      /\ Depth(e) = Depth(d) /\ TopOf(e) = f
      /\ \A n \in 1 .. Depth(d) : /\ e.calls[n].core = d.calls[n].core
                                  /\ n # Depth(d) => e.calls[n] = d.calls[n]
  <2>1. y.calls = d.calls /\ Depth(y) = Depth(d) /\ TopOf(y) = TopOf(d)
    BY <1>6 DEF SameCalls, Depth, TopOf
  <2> QED BY <1>1, <1>5, <1>6, <2>1, WithState DEF SameCalls
<1> HIDE DEF e
<1>8. \A x \in Cores : x = c \/ x = Other(c)
  BY <1>4, TwoCores
<1>9. \A x \in Cores : /\ d.local[x] \in Int /\ e.local[x] \in Int /\ d.wake[x] \in Int
                       /\ 0 <= d.wake[x] /\ d.wake[x] < d.quantum
  BY <1>3, <1>7, DualFields DEF WakesAreNear
<1>10. \A x \in Cores : /\ e.local[x] >= d.local[x]
                        /\ e.local[x] = d.local[x] \/ e.local[x] < d.quantum
                        /\ x = c => e.local[x] = d.local[x]
  BY <1>6, <1>7, <1>8, <1>9 DEF Most
<1>11. Other(c) \notin d.waiting => 0 <= e.local[Other(c)]
  BY <1>4, <1>6, <1>7, <1>9, TwoCores DEF Most
<1>12. Stacked(e) /\ \A x \in Cores : RunningIn(e, x) <=> RunningIn(d, x)
  <2> SUFFICES ASSUME d.turn \in Cores, d.local[Other(d.turn)] < d.local[d.turn], Depth(d) > 0
               PROVE  e.local[Other(d.turn)] < e.local[d.turn] \/ Depth(d) = 1
    <3>1. CASE Depth(d) = 1
      <4>1. e.calls[1].core = d.turn /\ Len(e.calls) = 1 /\ d.turn \in Cores
        BY <1>3, <1>7, <3>1, StackFacts DEF Depth
      <4>2. Stacked(e)
        BY <1>7, <4>1 DEF Stacked
      <4> QED BY <1>7, <4>2, <3>1 DEF RunningIn, Depth
    <3>2. CASE Depth(d) # 1
      BY <1>1, <1>3, <1>7, <3>2, SameStack
    <3> QED BY <3>1, <3>2
  <2>1. CASE Depth(d) # 1
    <3>1. c = Other(d.turn) /\ d.turn # c
      BY <1>1, <1>3, <2>1, StackFacts, TwoCores
    <3> QED BY <1>4, <1>9, <1>10, <3>1
  <2> QED BY <2>1
<1>13. RunsAreNear(e)
  BY <1>3, <1>7, <1>9, <1>10, <1>12, QuantaAreWhole DEF RunsAreNear
<1>14. Caught(e)
  <2>1. \A x \in Cores : e.turn = x /\ x \notin e.waiting => 0 <= e.local[x]
    BY <1>3, <1>7, <1>9, <1>10 DEF Caught
  <2>2. e.calls[Len(e.calls)].core = c
    BY <1>5, <1>7 DEF TopOf
  <2> QED BY <1>7, <1>11, <2>1, <2>2 DEF Caught
<1>15. Together(e)
  <2> SUFFICES ASSUME NEW x \in Cores PROVE \E cost \in Costs : e.local[x] < d.quantum + cost
    BY <1>7 DEF Together
  <2>1. CASE e.local[x] = d.local[x]
    BY <1>3, <2>1 DEF Together
  <2>2. CASE e.local[x] < d.quantum
    <3>1. PICK cost \in Costs : cost \in Nat
      BY DualAssumption
    <3> QED BY <1>3, <1>9, <2>2, <3>1, QuantaAreWhole
  <2> QED BY <1>10, <2>1, <2>2
<1>16. WakesAreNear(e) /\ HorizonIsNear(e)
  BY <1>3, <1>7 DEF WakesAreNear, HorizonIsNear
<1>17. Len(d.calls) \in Nat /\ Len(e.calls) = Len(d.calls)
  BY <1>3, <1>7, DualFields DEF Depth
<1> QED BY <1>1, <1>7, <1>12, <1>13, <1>14, <1>15, <1>16, <1>17 DEF DInv, NoNew, d


\* The frame on top is through with an access, and its core the same.
LEMMA DoneState ==
  ASSUME NEW g \in Frames
  PROVE  Done(g) \in Frames /\ Done(g).core = g.core /\ Done(g).syncs = FALSE
<1> DEFINE left == g.left - 1
<1>1. left \in Int
  BY DEF Frames
<1>2. Done(g) = [g EXCEPT !.syncs = FALSE, !.left = left]
  BY DEF Done
<1> HIDE DEF left
<1> QED BY <1>1, <1>2 DEF Frames

\* What an access comes to keeps the invariant, once its frame waits for nobody.
LEMMA OutcomeKeeps ==
  ASSUME NEW e, DInv(e), Depth(e) > 0, ~ TopOf(e).syncs, NEW c \in Cores, Outcome(e, c)
  PROVE  DInv(dual') /\ Len(dual'.calls) <= Len(e.calls)
<1>1. e \in Duals /\ HorizonIsNear(e)
  BY DEF DInv
<1>2. Len(e.calls) \in Nat
  BY <1>1, DualFields
<1>3. CASE dual' = e
  BY <1>2, <1>3
<1>4. CASE dual' = Wakes(e, Other(c))
  <2>1. /\ dual' \in Duals /\ SameCalls(e, dual') /\ dual'.local = e.local /\ dual'.wake = e.wake
        /\ dual'.waiting \subseteq e.waiting /\ dual'.horizon = e.horizon /\ dual'.alarm = e.alarm
        /\ dual'.uncut = e.uncut
    BY <1>1, <1>4 DEF Wakes, Duals, SameCalls
  <2>2. HorizonIsNear(dual')
    BY <1>1, <2>1 DEF HorizonIsNear, SameCalls
  <2> QED BY <1>2, <2>1, <2>2, WakingKeeps DEF SameCalls
<1>5. ASSUME NEW delay \in Delays, dual' = Arms(e, delay)
       PROVE  DInv(dual') /\ Len(dual'.calls) <= Len(e.calls)
  <2>1. CASE e.alarm = Never \/ delay < e.alarm
    <3>0. delay \in Nat
      BY DualAssumption
    <3>1. /\ dual' \in Duals /\ SameCalls(e, dual') /\ dual'.local = e.local /\ dual'.wake = e.wake
          /\ dual'.waiting = e.waiting /\ dual'.horizon = e.horizon /\ dual'.uncut
      BY <1>1, <1>5, <2>1, <3>0 DEF Arms, Duals, SameCalls
    <3>2. HorizonIsNear(dual')
      BY <1>1, <3>1 DEF HorizonIsNear, SameCalls
    <3> QED BY <1>2, <3>1, <3>2, WakingKeeps DEF SameCalls
  <2>2. CASE ~ (e.alarm = Never \/ delay < e.alarm)
    BY <1>2, <1>5, <2>2 DEF Arms
  <2> QED BY <2>1, <2>2
<1>6. CASE dual' = Holds(e)
  <2>1. /\ dual' \in Duals /\ SameCalls(e, dual') /\ dual'.local = e.local /\ dual'.wake = e.wake
        /\ dual'.waiting \subseteq e.waiting /\ dual'.horizon = e.horizon /\ dual'.alarm = e.alarm
        /\ dual'.uncut = e.uncut
    BY <1>1, <1>6 DEF Holds, Duals, SameCalls
  <2>2. HorizonIsNear(dual')
    BY <1>1, <2>1 DEF HorizonIsNear, SameCalls
  <2> QED BY <1>2, <2>1, <2>2, WakingKeeps DEF SameCalls
<1>7. CASE dual' = [e EXCEPT !.ended = TRUE]
  <2>1. /\ dual' \in Duals /\ SameCalls(e, dual') /\ dual'.local = e.local /\ dual'.wake = e.wake
        /\ dual'.waiting = e.waiting /\ dual'.horizon = e.horizon /\ dual'.alarm = e.alarm
        /\ dual'.uncut = e.uncut
    BY <1>1, <1>7 DEF Duals, SameCalls
  <2>2. HorizonIsNear(dual')
    BY <1>1, <2>1 DEF HorizonIsNear, SameCalls
  <2> QED BY <1>2, <2>1, <2>2, WakingKeeps DEF SameCalls
<1> QED BY <1>3, <1>4, <1>5, <1>6, <1>7 DEF Outcome

LEMMA HappensKeeps ==
  ASSUME DInv(dual), Happens
  PROVE  DInv(dual') /\ NoNew
<1> DEFINE d == dual
           c == TopOf(d).core
           f == Done(TopOf(d))
<1>1. Depth(d) > 0
  <2>1. d \in Duals /\ Stacked(d) /\ d.calls # << >>
    BY DEF DInv, Happens, Calm
  <2> QED BY <2>1, StackFacts
<1>2. PICK woken \in SUBSET d.waiting, next \in Delays \cup {Never} : Outcome(With(Synced(d, c, woken, next), f), c)
  BY DEF Happens, Top, TopOf
<1> DEFINE y == Synced(d, c, woken, next)
           e == With(y, f)
<1>3. ~ Behind(d, c)
  BY DEF Happens, Top, TopOf
<1> HIDE DEF d
<1>4. DInv(d)
  BY DEF d
<1>5. d \in Duals /\ Stacked(d) /\ WakesAreNear(d) /\ RunsAreNear(d) /\ Caught(d) /\ Together(d) /\ HorizonIsNear(d)
  BY <1>4 DEF DInv
<1>6. /\ TopOf(d) \in Frames /\ c \in Cores
      /\ c \notin d.waiting /\ 0 <= d.local[c] /\ d.local[c] < d.quantum /\ RunningIn(d, c)
  BY <1>1, <1>4, TopIsNear
<1>7. f \in Frames /\ f.core = c /\ f.syncs = FALSE
  BY <1>6, DoneState
<1>8. /\ y \in Duals /\ SameCalls(d, y) /\ y.waiting \subseteq d.waiting
      /\ \A x \in Cores : /\ y.local[x] <= d.local[x] \/ y.local[x] = -1
                          /\ d.local[x] >= d.local[c] => y.local[x] >= 0
                          /\ d.local[x] > d.local[c] => y.local[x] > 0
      /\ y.local[c] = 0 /\ WakesAreNear(y) /\ HorizonIsNear(y)
  <2>1. d.horizon <= d.quantum
    BY <1>5 DEF HorizonIsNear
  <2> HIDE DEF c
  <2> QED BY <1>5, <1>6, <2>1, SyncedState
<1> HIDE DEF y, f
<1>9. /\ e \in Duals /\ e.quantum = d.quantum /\ e.turn = d.turn
      /\ e.local = y.local /\ e.wake = y.wake /\ e.waiting = y.waiting /\ e.horizon = y.horizon
      /\ e.uncut = y.uncut /\ e.alarm = y.alarm
      /\ Depth(e) = Depth(d) /\ TopOf(e) = f
      /\ \A n \in 1 .. Depth(d) : /\ e.calls[n].core = d.calls[n].core
                                  /\ n # Depth(d) => e.calls[n] = d.calls[n]
  <2>1. y.calls = d.calls /\ Depth(y) = Depth(d) /\ TopOf(y) = TopOf(d)
    BY <1>8 DEF SameCalls, Depth, TopOf
  <2> QED BY <1>1, <1>7, <1>8, <2>1, WithState DEF SameCalls
<1> HIDE DEF e
<1>10. \A x \in Cores : d.local[x] \in Int /\ e.local[x] \in Int
  BY <1>5, <1>9, DualFields
<1>11. d.quantum \in Nat /\ d.quantum >= 1
  BY <1>5, QuantaAreWhole
<1>12. d.turn \in Cores /\ (d.turn = c \/ (d.turn = Other(c) /\ d.local[d.turn] > d.local[c]))
  <2>1. Depth(d) = 1 \/ Depth(d) = 2
    BY <1>1, <1>5, StackFacts
  <2>2. d.turn \in Cores
    BY <1>1, <1>5, StackFacts
  <2>3. CASE Depth(d) = 1
    <3>1. TopOf(d).core = d.turn
      BY <1>5, <2>3, StackFacts
    <3> QED BY <2>2, <3>1
  <2>4. CASE Depth(d) = 2
    <3>1. c = Other(d.turn) /\ d.local[c] < d.local[d.turn]
      BY <1>5, <2>4, StackFacts
    <3> QED BY <1>6, <1>10, <2>2, <3>1, TwoCores
  <2> QED BY <2>1, <2>3, <2>4
<1>13. Stacked(e) /\ \A x \in Cores : RunningIn(e, x) <=> RunningIn(d, x)
  <2>1. d.local[Other(d.turn)] < d.local[d.turn] /\ d.turn # c => e.local[Other(d.turn)] < e.local[d.turn]
    <3> SUFFICES ASSUME d.turn # c PROVE e.local[Other(d.turn)] < e.local[d.turn]
      OBVIOUS
    <3>1. Other(d.turn) = c /\ d.local[d.turn] > d.local[c]
      BY <1>6, <1>12, TwoCores
    <3> QED BY <1>8, <1>9, <1>12, <3>1
  <2>2. CASE d.turn # c
    BY <1>5, <1>9, <2>1, <2>2, SameStack
  <2>3. CASE d.turn = c
    <3>1. Depth(d) = 1
      <4> SUFFICES ASSUME Depth(d) = 2 PROVE FALSE
        BY <1>1, <1>5, StackFacts
      <4>1. c = Other(d.turn)
        BY <1>5, StackFacts
      <4> QED BY <1>12, <2>3, <4>1, TwoCores
    <3>2. e.calls[1].core = d.turn /\ d.calls[1].core = d.turn /\ Len(e.calls) = 1 /\ Len(d.calls) = 1
      BY <1>5, <1>9, <3>1, StackFacts DEF Depth
    <3> QED BY <1>9, <1>12, <3>2 DEF Stacked, RunningIn
  <2> QED BY <2>2, <2>3
<1>14. RunsAreNear(e)
  <2> SUFFICES ASSUME NEW x \in Cores, RunningIn(e, x)
               PROVE  x \notin e.waiting /\ 0 <= e.local[x] /\ e.local[x] < d.quantum
    BY <1>9 DEF RunsAreNear
  <2>1. RunningIn(d, x) /\ x \notin d.waiting /\ 0 <= d.local[x] /\ d.local[x] < d.quantum
    BY <1>5, <1>13 DEF RunsAreNear
  <2>2. d.local[x] >= d.local[c]
    <3>1. CASE x = c
      BY <1>10, <3>1
    <3>2. CASE x # c
      <4>1. x = Other(c) /\ Other(c) \notin d.waiting
        BY <1>6, <2>1, <3>2, TwoCores
      <4> QED BY <1>3, <1>6, <1>10, <4>1 DEF Behind
    <3> QED BY <3>1, <3>2
  <2> QED BY <1>8, <1>9, <1>10, <1>11, <2>1, <2>2
<1>15. Caught(e)
  <2>1. ~ e.calls[Len(e.calls)].syncs
    BY <1>7, <1>9 DEF TopOf
  <2>2. 0 <= e.local[e.turn]
    <3>1. d.local[d.turn] >= d.local[c]
      BY <1>6, <1>10, <1>12
    <3> QED BY <1>8, <1>9, <1>12, <3>1
  <2> QED BY <2>1, <2>2 DEF Caught
<1>16. Together(e)
  <2> SUFFICES ASSUME NEW x \in Cores PROVE \E cost \in Costs : e.local[x] < d.quantum + cost
    BY <1>9 DEF Together
  <2>1. PICK cost \in Costs : d.local[x] < d.quantum + cost
    BY <1>5 DEF Together
  <2>2. cost \in Nat
    BY DualAssumption
  <2> QED BY <1>8, <1>9, <1>10, <1>11, <2>1, <2>2
<1>17. WakesAreNear(e) /\ HorizonIsNear(e)
  BY <1>8, <1>9 DEF WakesAreNear, HorizonIsNear, SameCalls
<1>18. DInv(e)
  BY <1>9, <1>13, <1>14, <1>15, <1>16, <1>17 DEF DInv
<1>19. Depth(e) > 0 /\ ~ TopOf(e).syncs
  BY <1>1, <1>7, <1>9
<1>0. Len(d.calls) \in Nat /\ Len(e.calls) = Len(d.calls)
  BY <1>5, <1>9, DualFields DEF Depth
<1>20. Outcome(e, c)
  BY <1>2 DEF e, y
<1> HIDE DEF c
<1>21. DInv(dual') /\ Len(dual'.calls) <= Len(e.calls)
  BY <1>6, <1>18, <1>19, <1>20, OutcomeKeeps
<1> QED BY <1>0, <1>21 DEF NoNew, d


\* An access that does not synchronise moves no time.
LEMMA HappensEarlyKeeps ==
  ASSUME DInv(dual), HappensEarly
  PROVE  DInv(dual') /\ NoNew
<1> DEFINE d == dual
           c == TopOf(d).core
           f == Done(TopOf(d))
           e == With(d, f)
<1>1. d \in Duals /\ Stacked(d) /\ WakesAreNear(d) /\ RunsAreNear(d) /\ Caught(d) /\ Together(d) /\ HorizonIsNear(d)
  BY DEF DInv
<1>2. d.calls # << >> /\ Outcome(e, c)
  BY DEF HappensEarly, Calm, Top, TopOf
<1>3. Depth(d) > 0
  BY <1>1, <1>2, StackFacts
<1>4. TopOf(d) \in Frames /\ c \in Cores
  BY <1>3, TopIsNear
<1> HIDE DEF d
<1>5. f \in Frames /\ f.core = c /\ f.syncs = FALSE
  BY <1>4, DoneState
<1> HIDE DEF f
<1>6. /\ e \in Duals /\ e.quantum = d.quantum /\ e.turn = d.turn
      /\ e.local = d.local /\ e.wake = d.wake /\ e.waiting = d.waiting /\ e.horizon = d.horizon
      /\ e.uncut = d.uncut /\ e.alarm = d.alarm
      /\ Depth(e) = Depth(d) /\ TopOf(e) = f
      /\ \A n \in 1 .. Depth(d) : /\ e.calls[n].core = d.calls[n].core
                                  /\ n # Depth(d) => e.calls[n] = d.calls[n]
  BY <1>1, <1>3, <1>5, WithState
<1> HIDE DEF e
<1>7. Stacked(e) /\ \A x \in Cores : RunningIn(e, x) <=> RunningIn(d, x)
  BY <1>1, <1>6, SameStack
<1>8. RunsAreNear(e) /\ Together(e) /\ WakesAreNear(e) /\ HorizonIsNear(e)
  BY <1>1, <1>6, <1>7 DEF RunsAreNear, Together, WakesAreNear, HorizonIsNear
<1>9. ~ TopOf(e).syncs /\ Depth(e) > 0
  BY <1>3, <1>5, <1>6
<1>10. Caught(e)
  BY <1>1, <1>6, <1>9 DEF Caught, TopOf
<1>11. DInv(e)
  BY <1>6, <1>7, <1>8, <1>10 DEF DInv
<1> HIDE DEF c
<1>12. DInv(dual') /\ Len(dual'.calls) <= Len(e.calls)
  BY <1>2, <1>4, <1>9, <1>11, OutcomeKeeps
<1> QED BY <1>6, <1>12 DEF NoNew, Depth, d


LEMMA SevKeeps ==
  ASSUME DInv(dual), Sev
  PROVE  DInv(dual') /\ NoNew
<1> DEFINE d == dual
<1>1. d \in Duals /\ Stacked(d) /\ d.calls # << >> /\ ~ TopOf(d).syncs /\ HorizonIsNear(d)
  BY DEF DInv, Sev, Calm, Top, TopOf
<1>2. Depth(d) > 0
  BY <1>1, StackFacts
<1>3. dual' = Wakes(d, Other(TopOf(d).core))
  BY DEF Sev, Top, TopOf
<1> HIDE DEF d
<1>4. /\ dual' \in Duals /\ SameCalls(d, dual') /\ dual'.local = d.local /\ dual'.wake = d.wake
      /\ dual'.waiting \subseteq d.waiting /\ dual'.horizon = d.horizon /\ dual'.alarm = d.alarm
      /\ dual'.uncut = d.uncut
  BY <1>1, <1>3 DEF Wakes, Duals, SameCalls
<1>5. HorizonIsNear(dual')
  BY <1>1, <1>4 DEF HorizonIsNear, SameCalls
<1>6. DInv(d)
  BY DEF d
<1>7. Len(d.calls) \in Nat
  BY <1>1, DualFields
<1> QED BY <1>1, <1>2, <1>4, <1>5, <1>6, <1>7, WakingKeeps DEF NoNew, SameCalls, d

LEMMA RetireKeeps ==
  ASSUME DInv(dual), Retire
  PROVE  DInv(dual') /\ NoNew
<1> DEFINE d == dual
           c == TopOf(d).core
           calls == SubSeq(d.calls, 1, Len(d.calls) - 1)
<1>1. d \in Duals /\ Stacked(d) /\ WakesAreNear(d) /\ RunsAreNear(d) /\ Caught(d) /\ Together(d) /\ HorizonIsNear(d)
  BY DEF DInv
<1>2. d.calls # << >>
  BY DEF Retire, Calm
<1>3. Depth(d) > 0
  BY <1>1, <1>2, StackFacts
<1>4. PICK cost \in Costs, sleeps \in SUBSET {c} :
        dual' = [d EXCEPT !.local[c] = @ + cost, !.waiting = @ \cup sleeps, !.calls = calls]
  BY DEF Retire, Top, TopOf, Pop
<1> DEFINE local == [d.local EXCEPT ![c] = @ + cost]
<1>5. DInv(d)
  OBVIOUS
<1> HIDE DEF d
<1>6. /\ c \in Cores /\ c \notin d.waiting /\ 0 <= d.local[c] /\ d.local[c] < d.quantum
  BY <1>3, <1>5, TopIsNear
<1>7. d.calls \in Seq(Frames) /\ (Len(d.calls) = 1 \/ Len(d.calls) = 2)
  BY <1>1, <1>3, StackFacts DEF Depth
<1>8. /\ calls \in Seq(Frames) /\ Len(calls) = Len(d.calls) - 1
      /\ \A n \in 1 .. Len(calls) : calls[n] = d.calls[n]
  <2> DEFINE m == Len(d.calls) - 1
  <2>1. m \in 0 .. 1 /\ m \in Int /\ \A n \in 1 .. m : d.calls[n] \in Frames
    BY <1>7
  <2> HIDE DEF m
  <2>2. /\ SubSeq(d.calls, 1, m) \in Seq(Frames)
        /\ Len(SubSeq(d.calls, 1, m)) = IF 1 <= m THEN m - 1 + 1 ELSE 0
        /\ \A n \in 1 .. m - 1 + 1 : SubSeq(d.calls, 1, m)[n] = d.calls[1 + n - 1]
    BY <2>1, SubSeqProperties
  <2>3. m - 1 + 1 = m /\ \A n \in 1 .. m : 1 + n - 1 = n
    BY <2>1
  <2>4. Len(SubSeq(d.calls, 1, m)) = m
    BY <2>1, <2>2
  <2>5. \A n \in 1 .. m : SubSeq(d.calls, 1, m)[n] = d.calls[n]
    BY <2>2, <2>3
  <2> QED BY <2>2, <2>4, <2>5 DEF m
<1> HIDE DEF c, calls
<1>9. cost \in Nat /\ cost >= 1 /\ d.local \in [Cores -> Int] /\ d.quantum \in Nat
  BY <1>1, DualAssumption, DualFields, QuantaAreWhole
<1>10. /\ local \in [Cores -> Int] /\ local[c] = d.local[c] + cost
       /\ \A x \in Cores : x # c => local[x] = d.local[x]
  BY <1>6, <1>9
<1> DEFINE e == [d EXCEPT !.local = local, !.waiting = @ \cup sleeps, !.calls = calls]
<1>11. dual' = e
  BY <1>1, <1>4 DEF Duals
<1> HIDE DEF local
<1>12. /\ e \in Duals /\ e.quantum = d.quantum /\ e.turn = d.turn
       /\ e.local = local /\ e.wake = d.wake /\ e.waiting = d.waiting \cup sleeps /\ e.horizon = d.horizon
       /\ e.uncut = d.uncut /\ e.alarm = d.alarm /\ e.calls = calls
  BY <1>1, <1>6, <1>8, <1>10 DEF Duals
<1> HIDE DEF e
<1>13. \A x \in Cores : d.local[x] \in Int
  BY <1>9
<1>14. WakesAreNear(e) /\ HorizonIsNear(e)
  BY <1>1, <1>12 DEF WakesAreNear, HorizonIsNear
<1>15. Together(e)
  <2> SUFFICES ASSUME NEW x \in Cores PROVE \E k \in Costs : e.local[x] < d.quantum + k
    BY <1>12 DEF Together
  <2>1. CASE x = c
    BY <1>6, <1>9, <1>10, <1>12, <1>13, <2>1
  <2>2. CASE x # c
    BY <1>1, <1>10, <1>12, <2>2 DEF Together
  <2> QED BY <2>1, <2>2
<1>16. \A x \in Cores : e.turn = x /\ x \notin e.waiting => 0 <= e.local[x]
  BY <1>1, <1>6, <1>9, <1>10, <1>12, <1>13 DEF Caught
<1>17. CASE Len(d.calls) = 1
  <2>1. calls = << >>
    BY <1>8, <1>17, EmptySeq
  <2> QED BY <1>11, <1>12, <1>14, <1>15, <1>16, <1>17, <2>1, CalmKeeps DEF NoNew, d
<1>18. CASE Len(d.calls) = 2
  <2>1. Len(calls) = 1 /\ calls[1] = d.calls[1]
    BY <1>8, <1>18
  <2>2. d.turn \in Cores /\ d.calls[1].core = d.turn /\ d.calls[1].syncs /\ c = Other(d.turn)
    BY <1>1, <1>18, StackFacts DEF Depth, c
  <2>3. RunningIn(d, d.turn)
    BY <1>1, <1>18, <2>2, StackFacts DEF Depth
  <2>4. d.turn # c
    BY <2>2, TwoCores
  <2>5. Stacked(e)
    BY <1>12, <2>1, <2>2 DEF Stacked
  <2>6. \A x \in Cores : RunningIn(e, x) <=> x = d.turn
    BY <1>12, <2>1, <2>2 DEF RunningIn
  <2>7. RunsAreNear(e)
    BY <1>1, <1>10, <1>12, <2>2, <2>3, <2>4, <2>6 DEF RunsAreNear
  <2>8. 0 <= e.local[c]
    BY <1>6, <1>9, <1>10, <1>12, <1>13
  <2>9. Caught(e)
    BY <1>12, <1>16, <2>1, <2>2, <2>8 DEF Caught
  <2> QED BY <1>11, <1>12, <1>14, <1>15, <1>18, <2>1, <2>5, <2>7, <2>9 DEF DInv, NoNew, d
<1> QED BY <1>7, <1>11, <1>17, <1>18

LEMMA CeilingKeeps ==
  ASSUME DInv(dual), Ceiling
  PROVE  DInv(dual') /\ NoNew
<1> DEFINE d == dual
<1>1. d \in Duals /\ d.calls = << >> /\ WakesAreNear(d) /\ Caught(d) /\ Together(d) /\ HorizonIsNear(d)
  BY DEF DInv, Ceiling, Calm
<1>2. dual' = [d EXCEPT !.ceiling = TRUE]
  BY DEF Ceiling
<1> HIDE DEF d
<1>3. /\ dual' \in Duals /\ SameCalls(d, dual') /\ dual'.local = d.local /\ dual'.wake = d.wake
      /\ dual'.waiting = d.waiting /\ dual'.horizon = d.horizon /\ dual'.alarm = d.alarm /\ dual'.uncut = d.uncut
  BY <1>1, <1>2 DEF Duals, SameCalls
<1>4. WakesAreNear(dual') /\ Together(dual') /\ HorizonIsNear(dual')
  BY <1>1, <1>3 DEF WakesAreNear, Together, HorizonIsNear, SameCalls
<1> QED BY <1>1, <1>3, <1>4, CalmKeeps DEF Caught, SameCalls, NoNew, d

LEMMA NextCoreKeeps ==
  ASSUME DInv(dual), NextCore
  PROVE  DInv(dual') /\ NoNew
<1> DEFINE d == dual
           e == [d EXCEPT !.turn = 1]
<1>1. d \in Duals /\ d.calls = << >> /\ WakesAreNear(d) /\ Together(d) /\ HorizonIsNear(d) /\ d.turn = 0
  BY DEF DInv, NextCore, Calm
<1>2. dual' = Enter(e, 1)
  BY DEF NextCore
<1> HIDE DEF d
<1>3. 0 \in Cores /\ 1 \in Cores
  BY DEF Cores
<1>4. /\ e \in Duals /\ e.calls = d.calls /\ e.quantum = d.quantum /\ e.turn = 1 /\ e.local = d.local
      /\ e.wake = d.wake /\ e.horizon = d.horizon /\ e.alarm = d.alarm /\ e.uncut = d.uncut
  BY <1>1, <1>3 DEF Duals
<1> HIDE DEF e
<1>5. WakesAreNear(e) /\ Together(e) /\ HorizonIsNear(e)
  BY <1>1, <1>3, <1>4 DEF WakesAreNear, Together, HorizonIsNear
<1> QED BY <1>1, <1>2, <1>3, <1>4, <1>5, EnterKeeps DEF NoNew, d

LEMMA BeginQuantumKeeps ==
  ASSUME DInv(dual), BeginQuantum
  PROVE  DInv(dual') /\ NoNew
<1> DEFINE d == dual
           h == Horizon(d)
           e == [d EXCEPT !.horizon = h, !.turn = 0, !.uncut = FALSE]
<1>1. d \in Duals /\ Stacked(d) /\ WakesAreNear(d) /\ Together(d) /\ d.turn = Between
  BY DEF DInv, BeginQuantum
<1>2. dual' = Enter(e, 0)
  BY DEF BeginQuantum
<1>3. 0 \in Cores /\ Between \notin Cores
  BY DEF Cores, Between
<1>4. d.calls = << >>
  BY <1>1, <1>3 DEF Stacked
<1> HIDE DEF d
<1>5. d.quantum \in Nat /\ d.quantum >= 1 /\ d.alarm \in Nat \cup {Never}
  BY <1>1, QuantaAreWhole, DualFields
<1>6. h \in Int /\ h <= d.quantum /\ (d.alarm # Never => h <= d.alarm + 1)
  BY <1>5 DEF Horizon, Most, Least
<1> HIDE DEF h
<1>7. /\ e \in Duals /\ e.calls = d.calls /\ e.quantum = d.quantum /\ e.turn = 0 /\ e.local = d.local
      /\ e.wake = d.wake /\ e.horizon = h /\ e.alarm = d.alarm /\ e.uncut = FALSE
  BY <1>1, <1>3, <1>6 DEF Duals
<1> HIDE DEF e
<1>8. WakesAreNear(e) /\ Together(e) /\ HorizonIsNear(e)
  BY <1>1, <1>6, <1>7 DEF WakesAreNear, Together, HorizonIsNear
<1> QED BY <1>2, <1>3, <1>4, <1>7, <1>8, EnterKeeps DEF NoNew, d

LEMMA IdleJumpKeeps ==
  ASSUME DInv(dual), IdleJump
  PROVE  DInv(dual') /\ NoNew
<1> DEFINE d == dual
           idle == IF d.alarm = Never THEN 0 ELSE d.alarm
<1>1. d \in Duals /\ Stacked(d) /\ WakesAreNear(d) /\ Together(d) /\ HorizonIsNear(d) /\ d.turn = Between
  BY DEF DInv, IdleJump
<1>2. PICK paced \in BOOLEAN, woken \in SUBSET Cores, next \in Delays \cup {Never} :
        dual' = [NoteWake(Tick(d, IF paced THEN Least(idle, PacedIdle) ELSE idle, woken, next))
                   EXCEPT !.ended = paced]
  BY DEF IdleJump
<1> DEFINE t == IF paced THEN Least(idle, PacedIdle) ELSE idle
           y == Tick(d, t, woken, next)
           e == NoteWake(y)
<1> HIDE DEF d
<1>3. d.calls = << >>
  BY <1>1 DEF Stacked, Cores, Between
<1>4. idle \in Nat
  BY <1>1, DualFields
<1>5. t \in Nat
  BY <1>4, DualAssumption DEF Least
<1> HIDE DEF t, idle
<1>6. d.horizon <= d.quantum
  BY <1>1 DEF HorizonIsNear
<1>7. /\ y \in Duals /\ y.calls = << >> /\ Together(y) /\ y.horizon <= y.quantum /\ y.turn = Between
      /\ \A c \in Cores : y.wake[c] < y.quantum
  BY <1>1, <1>3, <1>5, <1>6, TickKeeps
<1> HIDE DEF y
<1>8. DInv(e) /\ SameCalls(y, e)
  BY <1>7, RestKeeps, NoteWakeState
<1>9. dual' = [e EXCEPT !.ended = paced]
  BY <1>2 DEF y, t
<1> HIDE DEF e
<1>10. e \in Duals /\ WakesAreNear(e) /\ Together(e) /\ HorizonIsNear(e) /\ e.calls = << >> /\ e.turn = Between
  BY <1>7, <1>8 DEF DInv, SameCalls
<1>11. /\ dual' \in Duals /\ SameCalls(e, dual') /\ dual'.local = e.local /\ dual'.wake = e.wake
       /\ dual'.waiting = e.waiting /\ dual'.horizon = e.horizon /\ dual'.alarm = e.alarm /\ dual'.uncut = e.uncut
  BY <1>9, <1>10 DEF Duals, SameCalls
<1>12. WakesAreNear(dual') /\ Together(dual') /\ HorizonIsNear(dual')
  BY <1>10, <1>11 DEF WakesAreNear, Together, HorizonIsNear, SameCalls
<1>13. Between \notin Cores
  BY DEF Cores, Between
<1> QED BY <1>3, <1>10, <1>11, <1>12, <1>13, CalmKeeps DEF SameCalls, NoNew, d

LEMMA GoalIsATime ==
  ASSUME NEW d \in Duals
  PROVE  Goal(d) \in Int
<1>1. 0 \in Cores /\ 1 \in Cores /\ \A c \in Cores : d.local[c] \in Int
  BY DualFields DEF Cores
<1>2. CASE d.waiting = {} \/ d.waiting = Cores
  BY <1>1, <1>2, MostLeast DEF Goal
<1>3. CASE d.waiting # {} /\ d.waiting # Cores
  <2>1. \E c \in Cores : c \notin d.waiting
    BY <1>3, DualFields
  <2>2. (CHOOSE c \in Cores : c \notin d.waiting) \in Cores
    BY <2>1
  <2> QED BY <1>1, <1>3, <2>2 DEF Goal
<1> QED BY <1>2, <1>3

LEMMA EndQuantumKeeps ==
  ASSUME DInv(dual), EndQuantum
  PROVE  DInv(dual') /\ NoNew
<1> DEFINE d == dual
           g == Goal(d)
<1>1. d \in Duals /\ d.calls = << >> /\ WakesAreNear(d) /\ Together(d) /\ HorizonIsNear(d)
  BY DEF DInv, EndQuantum, Calm
<1>2. PICK woken \in SUBSET d.waiting, next \in Delays \cup {Never} :
        dual' = NoteWake([AdvanceTo(d, g, woken, next) EXCEPT !.turn = Between, !.rounds = Least(@ + 1, Rounds)])
  BY DEF EndQuantum
<1> DEFINE y == AdvanceTo(d, g, woken, next)
           e == [y EXCEPT !.turn = Between, !.rounds = Least(@ + 1, Rounds)]
<1> HIDE DEF d
<1>3. g \in Int /\ d.horizon <= d.quantum
  BY <1>1, GoalIsATime DEF HorizonIsNear
<1> HIDE DEF g
<1>4. d.quantum \in Nat /\ d.quantum >= 1
  BY <1>1, QuantaAreWhole
<1>5. /\ y \in Duals /\ y.calls = << >> /\ Together(y) /\ y.horizon <= y.quantum
      /\ \A c \in Cores : y.wake[c] < y.quantum
  <2>1. CASE g > 0
    <3>1. g \in Nat /\ y = Tick(d, g, woken, next)
      BY <1>3, <2>1 DEF AdvanceTo
    <3> HIDE DEF y
    <3> QED BY <1>1, <1>3, <3>1, TickKeeps
  <2>2. CASE ~ g > 0
    <3>1. y = d
      BY <2>2 DEF AdvanceTo
    <3> HIDE DEF y
    <3> QED BY <1>1, <1>3, <3>1 DEF WakesAreNear
  <2> QED BY <2>1, <2>2
<1> HIDE DEF y
<1>6. Least(y.rounds + 1, Rounds) \in 0 .. Rounds
  <2>1. y.rounds \in 0 .. Rounds
    BY <1>5 DEF Duals
  <2> QED BY <2>1, DualAssumption DEF Least
<1>7. /\ e \in Duals /\ e.calls = y.calls /\ e.quantum = y.quantum /\ e.turn = Between /\ e.local = y.local
      /\ e.wake = y.wake /\ e.horizon = y.horizon
  BY <1>5, <1>6 DEF Duals
<1>8. dual' = NoteWake(e)
  BY <1>2 DEF y
<1> HIDE DEF e
<1>9. Together(e)
  BY <1>5, <1>7 DEF Together
<1> QED BY <1>1, <1>5, <1>7, <1>8, <1>9, RestKeeps DEF NoNew, d

LEMMA NextBatchKeeps ==
  ASSUME DInv(dual), NextBatch
  PROVE  DInv(dual') /\ NoNew
<1>1. dual \in Duals
  BY DEF DInv
<1>2. /\ dual.quantum \in Quanta /\ dual.alarm \in Nat \cup {Never}
      /\ dual.waiting \ (IF dual.held \/ dual.parked THEN {1} ELSE {}) \in SUBSET Cores
  BY <1>1 DEF Duals
<1>3. dual' = Start(dual.quantum, dual.waiting \ (IF dual.held \/ dual.parked THEN {1} ELSE {}), dual.alarm)
  BY DEF NextBatch
<1>4. Len(dual.calls) \in Nat
  BY <1>1, DualFields
<1>5. Start(dual.quantum, dual.waiting \ (IF dual.held \/ dual.parked THEN {1} ELSE {}), dual.alarm).calls = << >>
  BY DEF Start
<1>6. dual'.calls = << >>
  BY <1>3, <1>5
<1>7. NoNew
  BY <1>4, <1>6 DEF NoNew
<1> QED BY <1>2, <1>3, <1>7, StartHolds


LEMMA NextKeeps ==
  ASSUME DInv(dual), [Next]_dual
  PROVE  DInv(dual') /\ (Step \/ CatchUp \/ NoNew)
<1>1. CASE UNCHANGED dual
  <2>1. Len(dual.calls) \in Nat
    BY DualFields DEF DInv
  <2> QED BY <1>1, <2>1 DEF NoNew
<1>2. CASE BeginQuantum
  BY <1>2, BeginQuantumKeeps
<1>3. CASE IdleJump
  BY <1>3, IdleJumpKeeps
<1>4. CASE Step
  BY <1>4, StepKeeps
<1>5. CASE Access
  BY <1>5, AccessKeeps
<1>6. CASE CatchUp
  BY <1>6, CatchUpKeeps
<1>7. CASE Happens
  BY <1>7, HappensKeeps
<1>8. CASE Sev
  BY <1>8, SevKeeps
<1>9. CASE Retire
  BY <1>9, RetireKeeps
<1>10. CASE Ceiling
  BY <1>10, CeilingKeeps
<1>11. CASE NextCore
  BY <1>11, NextCoreKeeps
<1>12. CASE EndQuantum
  BY <1>12, EndQuantumKeeps
<1>13. CASE NextBatch
  BY <1>13, NextBatchKeeps
<1>14. CASE HappensEarly
  BY <1>14, HappensEarlyKeeps
<1> QED BY <1>1, <1>2, <1>3, <1>4, <1>5, <1>6, <1>7, <1>8, <1>9, <1>10, <1>11, <1>12, <1>13, <1>14 DEF Next

\* The invariant holds throughout, whatever the quantum, the costs, the delays and the bounds.
THEOREM InvariantHolds == Spec => []DInv(dual)
<1>1. Init => DInv(dual)
  <2> SUFFICES ASSUME Init PROVE DInv(dual)
    OBVIOUS
  <2>1. PICK q \in Quanta : dual = Start(q, {}, Never)
    BY DEF Init
  <2> QED BY <2>1, StartHolds
<1>2. DInv(dual) /\ [Next]_dual => DInv(dual)'
  <2> SUFFICES ASSUME DInv(dual), [Next]_dual PROVE DInv(dual')
    BY DEF DInv, Duals, Stacked, WakesAreNear, RunsAreNear, Caught, Together, HorizonIsNear, RunningIn, Frames,
           Cores, Other, Between, Never
  <2> QED BY NextKeeps
<1> QED BY <1>1, <1>2, PTL DEF Spec

-----------------------------------------------------------------------------
(* What the invariant gives. *)

\* Types, and no core executes an instruction inside another of its own.
THEOREM TypeCorrect == Spec => []TypeOK
<1>1. DInv(dual) => TypeOK
  <2> SUFFICES ASSUME DInv(dual) PROVE TypeOK
    OBVIOUS
  <2>1. dual \in Duals /\ Stacked(dual)
    BY DEF DInv
  <2>2. Len(dual.calls) <= 2
    BY <2>1, StackFacts DEF Depth
  <2>3. \A m, n \in 1 .. Len(dual.calls) : m # n => dual.calls[m].core # dual.calls[n].core
    <3>1. CASE Len(dual.calls) < 2
      BY <2>1, <3>1, DualFields
    <3>2. CASE Len(dual.calls) = 2
      <4>1. dual.turn \in Cores /\ dual.calls[1].core = dual.turn /\ dual.calls[2].core = Other(dual.turn)
        BY <2>1, <3>2, StackFacts DEF Depth, TopOf
      <4>2. dual.calls[1].core # dual.calls[2].core
        BY <4>1, TwoCores
      <4> QED BY <3>2, <4>2
    <3>3. Depth(dual) < 2 \/ Depth(dual) = 2
      BY <2>1, StackFacts
    <3> QED BY <3>1, <3>2, <3>3 DEF Depth
  <2>4. /\ dual.quantum \in Quanta /\ dual.waiting \subseteq Cores /\ dual.turn \in Cores \cup {Between}
        /\ dual.local \in [Cores -> Int] /\ dual.wake \in [Cores -> Int] /\ dual.horizon \in Int
        /\ dual.alarm \in Nat \cup {Never} /\ dual.rounds \in 0 .. Rounds
        /\ {dual.held, dual.parked, dual.uncut, dual.ceiling, dual.ended} \subseteq BOOLEAN
    BY <2>1 DEF Duals
  <2> QED BY <2>2, <2>3, <2>4 DEF TypeOK
<1> QED BY <1>1, InvariantHolds, PTL

\* What one core does in RAM the other sees at most a quantum, and the instruction that ends it, late.
THEOREM NoCoreRunsAhead == Spec => []CoresStayTogether
<1>1. DInv(dual) => CoresStayTogether
  BY DEF DInv, Together, CoresStayTogether
<1> QED BY <1>1, InvariantHolds, PTL

\* An access that synchronises happens at its time: not before the clock's, and when the other core has executed
\* that far (sync() of _run_batch_dual).  One that does not is early by less than a quantum.
THEOREM AccessesComeInOrder == Spec => AccessesAreOrdered
<1> DEFINE A == LET c == Top.core
                IN  /\ Happens => /\ dual.local[c] >= 0
                                  /\ Other(c) \notin dual.waiting => Earliest(Other(c)) >= dual.local[c]
                    /\ HappensEarly => 0 <= dual.local[c] /\ dual.local[c] < dual.quantum
<1>1. ASSUME DInv(dual), Happens
      PROVE  LET c == Top.core
             IN  /\ dual.local[c] >= 0
                 /\ Other(c) \notin dual.waiting => Earliest(Other(c)) >= dual.local[c]
  <2> DEFINE c == Top.core
  <2>1. dual \in Duals /\ Stacked(dual) /\ dual.calls # << >> /\ ~ Behind(dual, c)
    BY <1>1 DEF DInv, Happens, Calm
  <2>2. Depth(dual) > 0 /\ TopOf(dual) = Top
    BY <2>1, StackFacts DEF Top, TopOf
  <2>3. c \in Cores /\ Other(c) \in Cores /\ 0 <= dual.local[c]
    BY <1>1, <2>2, TopIsNear, TwoCores
  <2> HIDE DEF c
  <2>4. /\ dual.local[c] \in Int /\ dual.local[Other(c)] \in Int /\ dual.wake[Other(c)] \in Int
    BY <2>1, <2>3, DualFields
  <2>5. Other(c) \notin dual.waiting => Earliest(Other(c)) >= dual.local[c]
    BY <2>1, <2>4 DEF Behind, Earliest, Most
  <2> QED BY <2>3, <2>4, <2>5 DEF c
<1>2. ASSUME DInv(dual), HappensEarly
      PROVE  0 <= dual.local[Top.core] /\ dual.local[Top.core] < dual.quantum
  <2>1. dual \in Duals /\ Stacked(dual) /\ dual.calls # << >>
    BY <1>2 DEF DInv, HappensEarly, Calm
  <2>2. Depth(dual) > 0 /\ TopOf(dual) = Top
    BY <2>1, StackFacts DEF Top, TopOf
  <2> QED BY <1>2, <2>2, TopIsNear
<1>3. DInv(dual) /\ [Next]_dual => [A]_dual
  BY <1>1, <1>2
<1> QED BY <1>3, InvariantHolds, PTL DEF Spec, AccessesAreOrdered

\* The end of a quantum passes no core that is awake, and no core is passed in the middle of an instruction.
THEOREM NoCoreIsPassed == Spec => ClockWaitsForTheCores
<1>1. DInv(dual) /\ DInv(dual)' /\ [Next]_dual =>
        [/\ EndQuantum => \A c \in Cores \ dual.waiting : Earliest(c) >= Goal(dual)
         /\ \A c \in Cores : Running(c)' => dual'.local[c] >= 0]_dual
  <2> SUFFICES ASSUME DInv(dual), DInv(dual)'
               PROVE  /\ EndQuantum => \A c \in Cores \ dual.waiting : Earliest(c) >= Goal(dual)
                      /\ \A c \in Cores : Running(c)' => dual'.local[c] >= 0
    OBVIOUS
  <2>1. ASSUME NEW c \in Cores \ dual.waiting
        PROVE  Earliest(c) >= Goal(dual)
    <3>1. dual \in Duals
      BY DEF DInv
    <3>2. 0 \in Cores /\ 1 \in Cores /\ \A x \in Cores : dual.local[x] \in Int /\ dual.wake[x] \in Int
      BY <3>1, DualFields DEF Cores
    <3>3. dual.local[c] >= Goal(dual)
      <4>1. CASE dual.waiting = {}
        BY <3>2, <4>1, MostLeast DEF Goal, Cores
      <4>2. CASE dual.waiting # {}
        <5>1. \A x \in Cores : x \notin dual.waiting <=> x = c
          BY <3>1, <4>2, TwoCores DEF Duals
        <5>2. (CHOOSE x \in Cores : x \notin dual.waiting) = c
          BY <5>1
        <5>3. dual.waiting # Cores
          OBVIOUS
        <5>4. Goal(dual) = dual.local[c]
          BY <4>2, <5>2, <5>3 DEF Goal
        <5> QED BY <3>2, <5>4
      <4> QED BY <4>1, <4>2
    <3>4. Earliest(c) >= dual.local[c]
      BY <3>2 DEF Earliest, Most
    <3>5. Goal(dual) \in Int /\ dual.local[c] \in Int /\ Earliest(c) \in Int
      BY <3>1, <3>2, GoalIsATime, MostLeast DEF Earliest
    <3> QED BY <3>3, <3>4, <3>5
  <2>2. ASSUME NEW c \in Cores, Running(c)'
        PROVE  dual'.local[c] >= 0
    <3>1. RunsAreNear(dual)' /\ RunningIn(dual, c)'
      BY <2>2 DEF DInv, Running, RunningIn
    <3>2. 0 <= dual'.local[c]
      BY <3>1 DEF RunsAreNear
    <3> QED BY <3>2
  <2> QED BY <2>1, <2>2
<1> QED BY <1>1, InvariantHolds, PTL DEF Spec, ClockWaitsForTheCores

\* No core's turn lets it begin an instruction past an alarm that was set when the horizon was last looked at; past
\* one armed since, or to catch up, a core begins one by less than a quantum.  (The clock itself may step past an
\* alarm: it then fires late.)
THEOREM AlarmsAreNotOvertaken == Spec => AlarmsAreKept
<1> DEFINE A == \A c \in Cores :
                  Begins(c) /\ dual.alarm # Never =>
                    dual'.local[c] - dual.alarm < IF dual.uncut \/ ~ Calm THEN dual.quantum ELSE 1
<1>1. ASSUME DInv(dual), [Next]_dual, NEW c \in Cores, Begins(c), dual.alarm # Never
      PROVE  dual'.local[c] - dual.alarm < IF dual.uncut \/ ~ Calm THEN dual.quantum ELSE 1
  <2> DEFINE d == dual
  <2>1. d \in Duals /\ HorizonIsNear(d) /\ Stacked(d)
    BY <1>1 DEF DInv
  <2>2. d.alarm \in Nat /\ d.quantum \in Nat /\ d.quantum >= 1 /\ d.horizon \in Int /\ d.local[c] \in Int
    BY <1>1, <2>1, DualFields, QuantaAreWhole
  <2>3. Len(d.calls) \in Nat
    BY <2>1, DualFields
  <2>4. Step \/ CatchUp
    <3>1. Step \/ CatchUp \/ NoNew
      BY <1>1, NextKeeps
    <3>2. ~ NoNew
      <4>1. Len(dual'.calls) \in Nat /\ Len(dual'.calls) > Len(dual.calls)
        <5>1. dual' \in Duals
          BY <1>1, NextKeeps DEF DInv
        <5> QED BY <1>1, <5>1, DualFields DEF Begins
      <4> QED BY <2>3, <4>1 DEF NoNew
    <3> QED BY <3>1, <3>2
  <2>5. PICK x \in Cores, parked \in BOOLEAN :
          /\ dual' = Execute(d, x, parked)
          /\ \/ Calm /\ d.turn = x /\ d.local[x] < d.horizon
             \/ ~ Calm /\ d.local[x] < d.quantum
    <3>1. CASE Step
      <4>1. PICK parked \in Parks(d, d.turn) : dual' = Execute(d, d.turn, parked)
        BY <3>1 DEF Step
      <4>2. parked \in BOOLEAN
        BY DEF Parks
      <4>3. d.turn \in Cores /\ Calm /\ d.local[d.turn] < d.horizon
        BY <3>1 DEF Step, Runs
      <4> QED BY <4>1, <4>2, <4>3
    <3>2. CASE CatchUp
      <4> DEFINE t == Top.core
                 y == Other(t)
      <4>1. PICK parked \in Parks(d, y) : dual' = Execute(d, y, parked)
        BY <3>2 DEF CatchUp
      <4>2. parked \in BOOLEAN
        BY DEF Parks
      <4>3. ~ Calm /\ d.local[y] < d.local[t]
        BY <3>2 DEF CatchUp, Behind
      <4>4. Depth(d) > 0 /\ TopOf(d).core = t
        BY <2>1, <4>3, StackFacts DEF Calm, TopOf, Top
      <4>5. t \in Cores /\ d.local[t] < d.quantum
        BY <1>1, <4>4, TopIsNear
      <4> HIDE DEF t
      <4>6. y \in Cores
        BY <4>5, TwoCores
      <4>7. d.local[t] \in Int /\ d.local[y] \in Int
        BY <2>1, <4>5, <4>6, DualFields
      <4>8. d.local[y] < d.quantum
        BY <2>2, <4>3, <4>5, <4>7
      <4> QED BY <4>1, <4>2, <4>3, <4>6, <4>8
    <3> QED BY <2>4, <3>1, <3>2
  <2>6. x = c /\ dual'.local = d.local
    <3>1. CASE parked
      <4>1. dual'.calls = d.calls
        BY <2>1, <2>5, <3>1 DEF Execute, Duals
      <4> QED BY <1>1, <2>3, <4>1 DEF Begins
    <3>2. CASE ~ parked
      <4> DEFINE f == [core |-> x, left |-> Accesses, syncs |-> FALSE]
      <4>1. dual' = [d EXCEPT !.calls = Append(@, f)]
        BY <2>5, <3>2 DEF Execute
      <4>2. f.core = x
        OBVIOUS
      <4> HIDE DEF f
      <4>3. dual'.local = d.local /\ dual'.calls = Append(d.calls, f)
        BY <2>1, <4>1 DEF Duals
      <4>4. dual'.calls[Len(dual'.calls)] = f
        BY <2>1, <4>3, DualFields
      <4> QED BY <1>1, <4>2, <4>3, <4>4 DEF Begins
    <3> QED BY <3>1, <3>2
  <2>7. CASE Calm /\ ~ d.uncut
    <3>1. d.turn \in Cores /\ d.local[c] < d.horizon
      BY <2>5, <2>6, <2>7
    <3>2. d.horizon <= d.alarm + 1
      BY <1>1, <2>1, <2>7, <3>1 DEF HorizonIsNear
    <3>3. d.local[c] - d.alarm < 1
      BY <2>2, <3>1, <3>2
    <3> QED BY <2>6, <2>7, <3>3
  <2>8. CASE ~ Calm \/ d.uncut
    <3>1. d.local[c] < d.quantum
      <4>1. d.horizon <= d.quantum
        BY <2>1 DEF HorizonIsNear
      <4> QED BY <2>2, <2>5, <2>6, <4>1
    <3>2. d.local[c] - d.alarm < d.quantum
      BY <2>2, <3>1
    <3> QED BY <2>6, <2>8, <3>2
  <2> QED BY <2>7, <2>8
<1>2. DInv(dual) /\ [Next]_dual => [A]_dual
  BY <1>1
<1> QED BY <1>2, InvariantHolds, PTL DEF Spec, AlarmsAreKept
=============================================================================
