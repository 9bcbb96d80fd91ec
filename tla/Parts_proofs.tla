---------------------------- MODULE Parts_proofs ----------------------------
(***************************************************************************)
(* Properties of Parts as theorems: what each part keeps to, as a          *)
(* behaviour of one part, and the exceptions of a core, for every set of   *)
(* interrupts and priorities.  A core enters the most urgent handler,      *)
(* skips its scan only while it would find nothing, and nests its handlers *)
(* by rising priority; what the last two ask of the firmware is in their   *)
(* theorems.                                                               *)
(***************************************************************************)
EXTENDS Parts, Devices_proofs

-----------------------------------------------------------------------------
(* The scan. *)

\* The states of a core, TypeOK's.
Cores ==
  [pending : SUBSET X!Handlers, enabled : SUBSET Irqs,
   level : [Irqs \cup X!System -> 0..(X!LOWEST_PRIORITY - 1)],
   pm : BOOLEAN, ipsr : X!Handlers \cup {X!THREAD},
   active : Seq(X!Handlers \cup {X!THREAD}), interrupts_updated : BOOLEAN,
   waiting : BOOLEAN, event_wait : BOOLEAN, event_registered : BOOLEAN]

\* The exceptions that interrupts_updated speaks of: those the core would enter were it awake.
Awaits(c) == X!Interrupted([c EXCEPT !.waiting = FALSE])

LEMMA IrqNumbers ==
  ASSUME X!ExceptionsAssumption
  PROVE  Irqs \subseteq 16..47
  BY DEF X!ExceptionsAssumption

LEMMA NoHandlerIsThread ==
  ASSUME X!ExceptionsAssumption
  PROVE
  /\ X!NMI \notin Irqs \cup X!System
  /\ X!THREAD \notin X!Handlers
  /\ X!NMI # X!THREAD
  /\ X!System \subseteq Nat /\ Irqs \subseteq Nat
  BY IrqNumbers DEF X!Handlers, X!System, X!NMI, X!SVCALL, X!PENDSV, X!SYSTICK, X!THREAD

\* Candidates can all be compared: they are pending, and have a level.
LEMMA CandidatesHaveLevels ==
  ASSUME X!ExceptionsAssumption, NEW c \in Cores
  PROVE  /\ X!Candidates(c) \subseteq Irqs \cup X!System
         /\ X!Due(c) \subseteq X!Candidates(c)
         /\ X!NMI \notin X!Due(c)
         /\ \A n \in X!Candidates(c) : c.level[n] \in 0..3 /\ n \in Nat
  BY NoHandlerIsThread, Z3 DEF Cores, X!Candidates, X!Due, X!LOWEST_PRIORITY

\* Level by level, and at a level by number: of several exceptions one comes first.
LEMMA OneComesFirst ==
  ASSUME X!ExceptionsAssumption, NEW c \in Cores, NEW Those \in SUBSET X!Candidates(c), Those # {}
  PROVE  \E n \in Those : \A m \in Those : X!Before(c, n, m)
<1> DEFINE levels == {c.level[n] : n \in Those}
<1>1. \A n \in Those : c.level[n] \in Nat /\ n \in Nat
  BY CandidatesHaveLevels
<1>2. levels \in SUBSET Nat /\ levels # {}
  BY <1>1
<1>3. PICK l \in levels : \A k \in levels : l <= k
  <2> HIDE DEF levels
  <2> QED BY <1>2, LeastElement
<1> DEFINE first == {n \in Those : c.level[n] = l}
<1>4. first \in SUBSET Nat /\ first # {}
  BY <1>1, <1>3
<1>5. PICK n \in first : \A m \in first : n <= m
  <2> HIDE DEF first
  <2> QED BY <1>4, LeastElement
<1>6. ASSUME NEW m \in Those
      PROVE  X!Before(c, n, m)
  <2>1. n \in Those /\ c.level[n] = l /\ c.level[m] \in levels
    BY <1>5
  <2>2. c.level[n] <= c.level[m]
    BY <2>1, <1>3
  <2>3. c.level[m] = c.level[n] => n <= m
    BY <2>1, <1>5
  <2>4. c.level[n] \in Nat /\ c.level[m] \in Nat
    BY <1>1, <2>1
  <2> HIDE DEF first, levels
  <2> QED BY <2>2, <2>3, <2>4 DEF X!Before
<1> QED BY <1>5, <1>6

\* What it is to enter the handler n: the stack grows by the handler that is left, and the flag stays.
Enters(c, d, n) ==
  /\ d.ipsr = n
  /\ d.active = Append(c.active, c.ipsr)
  /\ d.pending \subseteq c.pending
  /\ d.interrupts_updated = c.interrupts_updated

\* What no scan changes.
SameSettings(c, d) ==
  /\ d.level = c.level
  /\ d.enabled = c.enabled
  /\ d.pm = c.pm
  /\ d.waiting = c.waiting

LEMMA TakeEnters ==
  ASSUME X!ExceptionsAssumption, NEW c \in Cores, NEW n \in X!Handlers
  PROVE  /\ X!Take(c, n) \in Cores
         /\ Enters(c, X!Take(c, n), n)
         /\ SameSettings(c, X!Take(c, n))
         /\ n = X!NMI => X!NMI \notin X!Take(c, n).pending
<1> DEFINE b == IF X!TakenClears(n) THEN [c EXCEPT !.pending = @ \ {n}] ELSE c
           d == [b EXCEPT !.active = Append(@, b.ipsr), !.ipsr = n, !.event_registered = TRUE]
<1>1. n = X!NMI => X!TakenClears(n)
  BY DEF X!TakenClears, X!NMI
<1>2. /\ b \in Cores /\ b.ipsr = c.ipsr /\ b.active = c.active /\ b.pending \subseteq c.pending
      /\ b.interrupts_updated = c.interrupts_updated /\ SameSettings(c, b)
      /\ n = X!NMI => X!NMI \notin b.pending
  BY <1>1 DEF Cores, SameSettings
<1>3. X!Take(c, n) = d
  BY DEF X!Take, X!exception_entry
<1> HIDE DEF b
<1>4. Append(b.active, b.ipsr) \in Seq(X!Handlers \cup {X!THREAD})
  BY <1>2 DEF Cores
<1>5. /\ d \in Cores /\ d.ipsr = n /\ d.active = Append(b.active, b.ipsr) /\ d.pending = b.pending
      /\ d.interrupts_updated = b.interrupts_updated /\ SameSettings(b, d)
  BY <1>2, <1>4 DEF Cores, SameSettings
<1> HIDE DEF d
<1> QED BY <1>2, <1>3, <1>5 DEF Enters, SameSettings

\* The scan enters NMI, or else the first of the exceptions that are due, or else finds none and clears the flag.
LEMMA ScanEntersTheFirst ==
  ASSUME X!ExceptionsAssumption, NEW c \in Cores, NEW d, d = X!check_for_interrupts(c)
  PROVE  /\ d \in Cores
         /\ SameSettings(c, d)
         /\ X!NMI \notin d.pending
         /\ \/ X!NMI \in c.pending /\ Enters(c, d, X!NMI)
            \/ /\ X!NMI \notin c.pending
               /\ \E n \in X!Due(c) :
                    Enters(c, d, n) /\ \A m \in X!Due(c) : X!Before(c, n, m)
            \/ /\ X!NMI \notin c.pending
               /\ X!Due(c) = {}
               /\ d = [c EXCEPT !.interrupts_updated = FALSE]
<1>1. CASE X!NMI \in c.pending
  <2>1. d = X!Take(c, X!NMI)
    BY <1>1 DEF X!check_for_interrupts
  <2>2. X!NMI \in X!Handlers
    BY DEF X!Handlers
  <2> QED BY <1>1, <2>1, <2>2, TakeEnters
<1>2. CASE X!NMI \notin c.pending /\ X!Due(c) = {}
  BY <1>2 DEF X!check_for_interrupts, Cores, SameSettings
<1>3. CASE X!NMI \notin c.pending /\ X!Due(c) # {}
  <2> DEFINE n == CHOOSE n \in X!Due(c) : \A m \in X!Due(c) : X!Before(c, n, m)
  <2>1. d = X!Take(c, n)
    BY <1>3 DEF X!check_for_interrupts
  <2>2. n \in X!Due(c) /\ \A m \in X!Due(c) : X!Before(c, n, m)
    <3>1. X!Due(c) \in SUBSET X!Candidates(c)
      BY DEF X!Due
    <3> QED BY <1>3, <3>1, OneComesFirst, Zenon
  <2> HIDE DEF n
  <2>3. n \in X!Handlers
    BY <2>2, CandidatesHaveLevels DEF X!Handlers
  <2>4. Enters(c, d, n) /\ d \in Cores /\ SameSettings(c, d)
    BY <2>1, <2>3, TakeEnters
  <2>5. X!NMI \notin d.pending
    BY <1>3, <2>4 DEF Enters
  <2> QED BY <1>3, <2>2, <2>4, <2>5
<1> QED BY <1>1, <1>2, <1>3

\* The scan before an instruction: skipped, without result, or an entry.
LEMMA FetchedScans ==
  ASSUME X!ExceptionsAssumption, X!TypeOK, NEW g, g = X!Fetched
  PROVE  /\ g \in Cores
         /\ SameSettings(state, g)
         /\ \/ ~state.interrupts_updated /\ g = state
            \/ /\ ~X!Interrupted(state)
               /\ g = [state EXCEPT !.interrupts_updated = FALSE]
            \/ /\ state.interrupts_updated
               /\ X!NMI \notin g.pending
               /\ X!NMI \in state.pending
               /\ Enters(state, g, X!NMI)
            \/ /\ state.interrupts_updated
               /\ X!NMI \notin g.pending
               /\ X!NMI \notin state.pending
               /\ \E n \in X!Due(state) :
                    Enters(state, g, n) /\ \A m \in X!Due(state) : X!Before(state, n, m)
<1>1. state \in Cores
  BY DEF X!TypeOK, Cores
<1>2. CASE ~state.interrupts_updated
  <2>1. g = state
    BY <1>2 DEF X!Fetched
  <2> QED BY <1>1, <1>2, <2>1 DEF SameSettings
<1>3. CASE state.interrupts_updated
  <2>1. g = X!check_for_interrupts(state)
    BY <1>3 DEF X!Fetched
  <2> QED BY <1>1, <1>3, <2>1, ScanEntersTheFirst DEF X!Interrupted
<1> QED BY <1>2, <1>3

(* What an instruction does after its scan, in the four ways that matter here. *)

SameStack(g, d) == d.ipsr = g.ipsr /\ d.active = g.active

\* The return from a handler.
Returns(g, d) ==
  /\ g.ipsr # X!THREAD
  /\ d.ipsr = X!Last(g.active)
  /\ d.active = X!Front(g.active)
  /\ d.interrupts_updated = TRUE
  /\ d.pending = g.pending
  /\ d.level = g.level
  /\ d.waiting = g.waiting

\* Whatever asks for a scan.
Asks(g, d) ==
  /\ SameStack(g, d)
  /\ d.interrupts_updated = TRUE
  /\ X!NMI \in d.pending => X!NMI \in g.pending \/ g.ipsr = X!THREAD
  /\ d.level = g.level \/ TunesInHandlers \/ g.ipsr = X!THREAD
  /\ d.waiting = g.waiting

\* Whatever does not, for it makes nothing due.
Hushes(g, d) ==
  /\ SameStack(g, d)
  /\ d.interrupts_updated = g.interrupts_updated
  /\ d.pending \subseteq g.pending
  /\ d.enabled \subseteq g.enabled
  /\ d.level = g.level
  /\ g.pm => d.pm
  /\ d.waiting => g.waiting \/ SleepsInHandlers \/ g.ipsr = X!THREAD

\* The stores to SHPR2 and SHPR3, which ask for no scan either.
Retunes(g, d) ==
  /\ SameStack(g, d)
  /\ TunesInHandlers \/ g.ipsr = X!THREAD
  /\ Tunable \cap X!System # {}
  /\ d.interrupts_updated = g.interrupts_updated
  /\ d.pending = g.pending
  /\ d.enabled = g.enabled
  /\ d.pm = g.pm
  /\ d.waiting = g.waiting

LEMMA InstructionSteps ==
  ASSUME X!ExceptionsAssumption, X!TypeOK, X!Instruction, NEW g, g = X!Fetched
  PROVE  /\ ~state.waiting
         /\ \/ state' = X!PowerOn
            \/ Returns(g, state') /\ (g.active # <<>> => state' \in Cores)
            \/ state' \in Cores /\ (Asks(g, state') \/ Hushes(g, state') \/ Retunes(g, state'))
<1>1. g \in Cores
  BY FetchedScans
<1>2. CASE X!Plain
  BY <1>1, <1>2 DEF X!Plain, X!Executes, Hushes, SameStack
<1>3. CASE X!Cpsid
  BY <1>1, <1>3 DEF X!Cpsid, X!Executes, Hushes, SameStack, Cores
<1>4. CASE X!Svc
  BY <1>1, <1>4, NoHandlerIsThread DEF X!Svc, X!Executes, Asks, SameStack, Cores, X!Handlers, X!System
<1>5. CASE X!Sev
  BY <1>1, <1>5 DEF X!Sev, X!Executes, Hushes, SameStack, Cores
<1>6. CASE X!Wfi
  BY <1>1, <1>6 DEF X!Wfi, X!MaySleep, X!Executes, Hushes, SameStack, Cores
<1>7. CASE X!Wfe
  <2>1. CASE g.event_registered
    BY <1>1, <1>7, <2>1 DEF X!Wfe, X!MaySleep, X!Executes, Hushes, SameStack, Cores
  <2>2. CASE ~g.event_registered
    BY <1>1, <1>7, <2>2 DEF X!Wfe, X!MaySleep, X!Executes, Hushes, SameStack, Cores
  <2> QED BY <2>1, <2>2
<1>8. CASE X!ExceptionReturn
  <2>1. /\ ~state.waiting /\ g.ipsr # X!THREAD
        /\ state' = [g EXCEPT !.ipsr = X!Last(g.active), !.active = X!Front(@),
                              !.interrupts_updated = TRUE, !.event_registered = TRUE]
    BY <1>8 DEF X!ExceptionReturn, X!Executes
  <2>2. Returns(g, state')
    BY <1>1, <2>1 DEF Returns, Cores
  <2>3. ASSUME g.active # <<>>
        PROVE  state' \in Cores
    <3>1. /\ X!Last(g.active) \in X!Handlers \cup {X!THREAD}
          /\ X!Front(g.active) \in Seq(X!Handlers \cup {X!THREAD})
      BY <1>1, <2>3 DEF Cores, X!Last, X!Front
    <3> QED BY <1>1, <2>1, <3>1 DEF Cores
  <2> QED BY <2>1, <2>2, <2>3
<1>9. CASE X!SystemReset
  BY <1>9 DEF X!SystemReset
<1>10. CASE \E value \in BOOLEAN : X!WritePrimask(value)
  BY <1>1, <1>10 DEF X!WritePrimask, X!Executes, Asks, SameStack, Cores
<1>11. CASE \E n \in Irqs \cup X!System \cup {X!NMI} : X!Pend(n)
  <2>1. PICK n \in X!Handlers : X!Pend(n)
    BY <1>11 DEF X!Handlers
  <2>2. /\ ~state.waiting
        /\ n = X!NMI => g.ipsr = X!THREAD
        /\ state' = [g EXCEPT !.pending = @ \cup {n}, !.interrupts_updated = TRUE]
    BY <2>1 DEF X!Pend, X!Executes
  <2> QED BY <1>1, <2>2 DEF Asks, SameStack, Cores
<1>12. CASE \E n \in Irqs \cup X!System : X!Unpend(n)
  <2>1. PICK n \in Irqs \cup X!System : X!Unpend(n)
    BY <1>12
  <2>2. ~state.waiting /\ state' = [g EXCEPT !.pending = @ \ {n}]
    BY <2>1 DEF X!Unpend, X!Executes
  <2> QED BY <1>1, <2>2 DEF Hushes, SameStack, Cores
<1>13. CASE \E n \in Irqs : X!Enable(n) \/ X!Disable(n)
  <2>1. CASE \E n \in Irqs : X!Enable(n)
    <3>1. PICK n \in Irqs : X!Enable(n)
      BY <2>1
    <3>2. ~state.waiting /\ state' = [g EXCEPT !.enabled = @ \cup {n}, !.interrupts_updated = TRUE]
      BY <3>1 DEF X!Enable, X!Executes
    <3> QED BY <1>1, <3>2 DEF Asks, SameStack, Cores
  <2>2. CASE \E n \in Irqs : X!Disable(n)
    <3>1. PICK n \in Irqs : X!Disable(n)
      BY <2>2
    <3>2. ~state.waiting /\ state' = [g EXCEPT !.enabled = @ \ {n}]
      BY <3>1 DEF X!Disable, X!Executes
    <3> QED BY <1>1, <3>2 DEF Hushes, SameStack, Cores
  <2> QED BY <1>13, <2>1, <2>2
<1>14. CASE \E n \in Tunable, p \in Levels : X!SetPriority(n, p)
  <2>1. PICK n \in Tunable, p \in Levels : X!SetPriority(n, p)
    BY <1>14
  <2>2. /\ n \in Irqs \cup X!System /\ p \in 0..(X!LOWEST_PRIORITY - 1)
    BY DEF X!ExceptionsAssumption
  <2>3. /\ ~state.waiting
        /\ TunesInHandlers \/ g.ipsr = X!THREAD
        /\ state' = [g EXCEPT !.level[n] = p, !.interrupts_updated = IF n \in Irqs THEN TRUE ELSE @]
    BY <2>1 DEF X!SetPriority, X!Executes
  <2>4. [g.level EXCEPT ![n] = p] \in [Irqs \cup X!System -> 0..(X!LOWEST_PRIORITY - 1)]
    BY <1>1, <2>2 DEF Cores
  <2> DEFINE asks == IF n \in Irqs THEN TRUE ELSE g.interrupts_updated
  <2>5. asks \in BOOLEAN
    BY <1>1 DEF Cores
  <2>6. state' = [g EXCEPT !.level = [g.level EXCEPT ![n] = p], !.interrupts_updated = asks]
    BY <1>1, <2>3 DEF Cores
  <2> HIDE DEF asks
  <2>7. state' \in Cores
    BY <1>1, <2>4, <2>5, <2>6 DEF Cores
  <2>8. /\ SameStack(g, state') /\ state'.interrupts_updated = asks /\ state'.pending = g.pending
        /\ state'.enabled = g.enabled /\ state'.pm = g.pm /\ state'.waiting = g.waiting
    BY <1>1, <2>6 DEF Cores, SameStack
  <2>9. CASE n \in Irqs
    BY <2>3, <2>7, <2>8, <2>9 DEF Asks, asks
  <2>10. CASE n \notin Irqs
    BY <2>2, <2>3, <2>7, <2>8, <2>10 DEF Retunes, asks
  <2> QED BY <2>9, <2>10
<1> QED
  BY <1>2, <1>3, <1>4, <1>5, <1>6, <1>7, <1>8, <1>9, <1>10, <1>11, <1>12, <1>13, <1>14 DEF X!Instruction

-----------------------------------------------------------------------------
(* The type, and the bottom of the stack. *)

Stack(c) == Append(c.active, c.ipsr)

LEMMA StackElements ==
  ASSUME NEW c \in Cores
  PROVE  /\ c.active \in Seq(X!Handlers \cup {X!THREAD}) /\ Len(c.active) \in Nat
         /\ Len(Stack(c)) = Len(c.active) + 1
         /\ \A i \in 1..Len(c.active) : Stack(c)[i] = c.active[i]
         /\ Stack(c)[Len(c.active) + 1] = c.ipsr
         /\ \A i \in 1..(Len(c.active) + 1) : Stack(c)[i] \in X!Handlers \cup {X!THREAD}
<1>1. c.active \in Seq(X!Handlers \cup {X!THREAD}) /\ c.ipsr \in X!Handlers \cup {X!THREAD}
  BY DEF Cores
<1> QED BY <1>1, AppendProperties DEF Stack

\* An entry puts one more element on the stack.
LEMMA EntryPushes ==
  ASSUME NEW c \in Cores, NEW d \in Cores, NEW n, Enters(c, d, n)
  PROVE  /\ Len(d.active) = Len(c.active) + 1
         /\ \A i \in 1..(Len(c.active) + 1) : Stack(d)[i] = Stack(c)[i]
         /\ Stack(d)[Len(c.active) + 2] = n
<1>1. d.active = Stack(c) /\ d.ipsr = n
  BY DEF Enters, Stack
<1>2. Len(d.active) = Len(c.active) + 1 /\ Len(c.active) \in Nat
  BY <1>1, StackElements
<1>3. /\ \A i \in 1..(Len(c.active) + 1) : Stack(d)[i] = Stack(c)[i]
      /\ Stack(d)[Len(c.active) + 1 + 1] = n
  BY <1>1, <1>2, StackElements
<1> QED BY <1>2, <1>3

\* A return takes the last one off.
LEMMA ReturnPops ==
  ASSUME NEW c \in Cores, NEW d, c.active # <<>>,
         d.ipsr = X!Last(c.active), d.active = X!Front(c.active)
  PROVE  /\ Len(d.active) = Len(c.active) - 1
         /\ Stack(d) = c.active
<1> DEFINE s == c.active
           m == Len(s)
<1>1. s \in Seq(X!Handlers \cup {X!THREAD}) /\ m \in Nat /\ m > 0
  BY DEF Cores
<1>2. /\ d.active \in Seq(X!Handlers \cup {X!THREAD}) /\ Len(d.active) = m - 1
      /\ \A i \in 1..(m - 1) : d.active[i] = s[i]
  BY <1>1 DEF X!Front
<1>3. d.ipsr = s[m]
  BY DEF X!Last
<1>4. s[m] \in X!Handlers \cup {X!THREAD}
  BY <1>1
<1> HIDE DEF s, m
<1>5. /\ Stack(d) \in Seq(X!Handlers \cup {X!THREAD}) /\ Len(Stack(d)) = m
      /\ \A i \in 1..m : Stack(d)[i] = s[i]
  <2>1. /\ Stack(d) \in Seq(X!Handlers \cup {X!THREAD}) /\ Len(Stack(d)) = m - 1 + 1
        /\ \A i \in 1..(m - 1) : Stack(d)[i] = d.active[i]
        /\ Stack(d)[m - 1 + 1] = s[m]
    BY <1>1, <1>2, <1>3, <1>4, AppendProperties DEF Stack
  <2> QED BY <2>1, <1>1, <1>2
<1>6. Stack(d) = s
  BY <1>1, <1>5, SeqEqual DEF m
<1> QED BY <1>2, <1>6 DEF s, m

\* At the bottom of the stack is thread mode: what a handler returns to, in the end.
Grounded(c) == Stack(c)[1] = X!THREAD

Sound == X!TypeOK /\ Grounded(state)

LEMMA GroundedStack ==
  ASSUME X!ExceptionsAssumption, NEW c \in Cores, Grounded(c), c.ipsr # X!THREAD
  PROVE  c.active # <<>>
<1>1. SUFFICES ASSUME c.active = <<>> PROVE FALSE
  OBVIOUS
<1>2. Stack(c)[1] = c.ipsr
  BY <1>1, StackElements
<1> QED BY <1>2 DEF Grounded

LEMMA ScanGrounds ==
  ASSUME X!ExceptionsAssumption, NEW c \in Cores, Grounded(c)
  PROVE  X!check_for_interrupts(c) \in Cores /\ Grounded(X!check_for_interrupts(c))
<1> DEFINE d == X!check_for_interrupts(c)
<1>1. d \in Cores
  BY ScanEntersTheFirst
<1>2. CASE \E n : Enters(c, d, n)
  <2>1. Stack(d)[1] = Stack(c)[1]
    <3>1. 1 \in 1..(Len(c.active) + 1)
      BY StackElements
    <3> QED BY <1>1, <1>2, <3>1, EntryPushes
  <2> QED BY <1>1, <2>1 DEF Grounded
<1>3. CASE d = [c EXCEPT !.interrupts_updated = FALSE]
  <2>1. d.active = c.active /\ d.ipsr = c.ipsr
    BY <1>3 DEF Cores
  <2> QED BY <1>1, <2>1 DEF Grounded, Stack
<1> HIDE DEF d
<1>4. (\E n : Enters(c, d, n)) \/ d = [c EXCEPT !.interrupts_updated = FALSE]
  BY ScanEntersTheFirst DEF d
<1> QED BY <1>2, <1>3, <1>4 DEF d

LEMMA PowerOnIsSound ==
  ASSUME X!ExceptionsAssumption
  PROVE  X!PowerOn \in Cores /\ Grounded(X!PowerOn)
<1>1. X!PowerOn \in Cores
  BY DEF X!PowerOn, Cores, X!LOWEST_PRIORITY
<1>2. X!PowerOn.active = <<>> /\ X!PowerOn.ipsr = X!THREAD
  BY DEF X!PowerOn
<1> QED BY <1>1, <1>2, StackElements DEF Grounded

\* The line of an interrupt raised on a sleeping core, which scans at once.
Wakes(n) ==
  LET raised == [state EXCEPT !.pending = @ \cup {n}, !.interrupts_updated = TRUE]
  IN  state' = [X!check_for_interrupts(raised) EXCEPT !.waiting = ~X!Interrupted(raised)]

\* The other things that happen to a core from outside leave its stack and its settings alone.
LEMMA OutsideSteps ==
  ASSUME X!ExceptionsAssumption, X!TypeOK, X!Next
  PROVE  \/ X!Instruction
         \/ /\ state.waiting
            /\ \E n \in Irqs : Wakes(n)
         \/ /\ state' \in Cores
            /\ SameStack(state, state')
            /\ state'.level = state.level /\ state'.enabled = state.enabled /\ state'.pm = state.pm
            /\ state'.waiting => state.waiting
            /\ X!NMI \in state'.pending => X!NMI \in state.pending
            /\ \/ state'.interrupts_updated = TRUE
               \/ /\ state'.interrupts_updated = state.interrupts_updated
                  /\ state'.pending \subseteq state.pending
<1>1. state \in Cores
  BY DEF X!TypeOK, Cores
<1>2. CASE \E n \in Irqs, value \in BOOLEAN : X!SetInterrupt(n, value)
  <2>1. PICK n \in Irqs, value \in BOOLEAN : X!SetInterrupt(n, value)
    BY <1>2
  <2>2. n # X!NMI /\ n \in X!Handlers
    BY NoHandlerIsThread DEF X!Handlers
  <2>3. CASE ~value
    <3>1. state' = [state EXCEPT !.pending = @ \ {n}]
      BY <2>1, <2>3 DEF X!SetInterrupt
    <3> QED BY <1>1, <2>2, <3>1 DEF Cores, SameStack
  <2>4. CASE value /\ n \in state.pending
    <3>1. state' = state
      BY <2>1, <2>4 DEF X!SetInterrupt
    <3> QED BY <1>1, <2>2, <3>1 DEF Cores, SameStack
  <2>5. CASE value /\ n \notin state.pending /\ ~state.waiting
    <3>1. state' = [state EXCEPT !.pending = @ \cup {n}, !.interrupts_updated = TRUE]
      BY <2>1, <2>5 DEF X!SetInterrupt
    <3>2. state' \in Cores /\ state'.interrupts_updated = TRUE
      BY <1>1, <2>2, <3>1 DEF Cores
    <3>3. SameStack(state, state') /\ state'.level = state.level /\ state'.enabled = state.enabled /\ state'.pm = state.pm
      BY <1>1, <3>1 DEF Cores, SameStack
    <3>4. state'.waiting = state.waiting /\ state'.pending = state.pending \cup {n}
      BY <1>1, <3>1 DEF Cores
    <3> QED BY <2>2, <3>2, <3>3, <3>4
  <2>6. CASE value /\ n \notin state.pending /\ state.waiting
    BY <2>1, <2>6 DEF X!SetInterrupt, Wakes
  <2> QED BY <2>3, <2>4, <2>5, <2>6
<1>3. CASE X!SystickAlarm
  <2>1. X!SYSTICK \in X!Handlers /\ X!SYSTICK # X!NMI
    BY DEF X!Handlers, X!System, X!SYSTICK, X!NMI
  <2>2. state' = [state EXCEPT !.pending = @ \cup {X!SYSTICK}, !.interrupts_updated = TRUE]
    BY <1>3 DEF X!SystickAlarm
  <2> QED BY <1>1, <2>1, <2>2 DEF Cores, SameStack
<1>4. CASE X!PeerSev
  <2>1. CASE state.waiting /\ state.event_wait
    <3>1. state' = [state EXCEPT !.waiting = FALSE, !.event_wait = FALSE]
      BY <1>4, <2>1 DEF X!PeerSev
    <3> QED BY <1>1, <3>1 DEF Cores, SameStack
  <2>2. CASE ~(state.waiting /\ state.event_wait)
    <3>1. state' = [state EXCEPT !.event_registered = TRUE]
      BY <1>4, <2>2 DEF X!PeerSev
    <3> QED BY <1>1, <3>1 DEF Cores, SameStack
  <2> QED BY <2>1, <2>2
<1> QED BY <1>2, <1>3, <1>4 DEF X!Next

LEMMA SoundInit ==
  ASSUME X!ExceptionsAssumption, X!Init
  PROVE  Sound
<1>1. state = X!PowerOn
  BY DEF X!Init
<1>2. state \in Cores /\ Grounded(state)
  BY <1>1, PowerOnIsSound
<1> QED BY <1>2 DEF Sound, X!TypeOK, Cores

LEMMA FetchedIsGrounded ==
  ASSUME X!ExceptionsAssumption, Sound
  PROVE  X!Fetched \in Cores /\ Grounded(X!Fetched)
<1>1. state \in Cores /\ Grounded(state)
  BY DEF Sound, X!TypeOK, Cores
<1> QED BY <1>1, ScanGrounds DEF X!Fetched

LEMMA SameStackSameGround ==
  ASSUME NEW c, NEW d, SameStack(c, d), Grounded(c)
  PROVE  Grounded(d)
  BY DEF SameStack, Grounded, Stack

LEMMA SoundStep ==
  ASSUME X!ExceptionsAssumption, Sound, [X!Next]_(X!vars)
  PROVE  Sound'
<1>1. state \in Cores /\ Grounded(state) /\ X!TypeOK
  BY DEF Sound, X!TypeOK, Cores
<1> SUFFICES state' \in Cores /\ Grounded(state')
  BY DEF Sound, X!TypeOK, Cores, Grounded, Stack
<1>2. CASE X!Instruction
  <2> DEFINE g == X!Fetched
  <2>1. g \in Cores /\ Grounded(g)
    BY FetchedIsGrounded
  <2> HIDE DEF g
  <2>2. \/ state' = X!PowerOn
        \/ Returns(g, state') /\ (g.active # <<>> => state' \in Cores)
        \/ state' \in Cores /\ SameStack(g, state')
    BY <1>1, <1>2, InstructionSteps DEF g, Asks, Hushes, Retunes
  <2>3. CASE state' = X!PowerOn
    BY <2>3, PowerOnIsSound
  <2>4. CASE Returns(g, state') /\ (g.active # <<>> => state' \in Cores)
    <3>1. g.active # <<>>
      BY <2>1, <2>4, GroundedStack DEF Returns
    <3>2. Stack(state') = g.active
      BY <2>1, <2>4, <3>1, ReturnPops DEF Returns
    <3>3. 1 \in 1..Len(g.active)
      BY <2>1, <3>1, StackElements
    <3>4. g.active[1] = X!THREAD
      BY <2>1, <3>3, StackElements DEF Grounded
    <3> QED BY <2>4, <3>1, <3>2, <3>4 DEF Grounded
  <2>5. CASE state' \in Cores /\ SameStack(g, state')
    BY <2>1, <2>5, SameStackSameGround
  <2> QED BY <2>2, <2>3, <2>4, <2>5
<1>3. CASE \E n \in Irqs : Wakes(n)
  <2>1. PICK n \in Irqs : Wakes(n)
    BY <1>3
  <2> DEFINE raised == [state EXCEPT !.pending = @ \cup {n}, !.interrupts_updated = TRUE]
             d == X!check_for_interrupts(raised)
             w == ~X!Interrupted(raised)
  <2>2. raised \in Cores /\ SameStack(state, raised)
    BY <1>1 DEF Cores, SameStack, X!Handlers
  <2>3. state' = [d EXCEPT !.waiting = w]
    BY <2>1 DEF Wakes
  <2>4. w \in BOOLEAN
    OBVIOUS
  <2> HIDE DEF raised, w
  <2>5. d \in Cores /\ Grounded(d)
    BY <1>1, <2>2, SameStackSameGround, ScanGrounds
  <2> HIDE DEF d
  <2>6. state' \in Cores /\ SameStack(d, state')
    BY <2>3, <2>4, <2>5 DEF Cores, SameStack
  <2> QED BY <2>5, <2>6, SameStackSameGround
<1>4. CASE state' \in Cores /\ SameStack(state, state')
  BY <1>1, <1>4, SameStackSameGround
<1>5. CASE UNCHANGED X!vars
  BY <1>1, <1>5 DEF X!vars
<1> QED BY <1>1, <1>2, <1>3, <1>4, <1>5, OutsideSteps

-----------------------------------------------------------------------------
(* Which handler an awake core enters. *)

LEMMA Priorities ==
  ASSUME X!ExceptionsAssumption, NEW c \in Cores
  PROVE  /\ \A n \in X!Handlers \cup {X!THREAD} : X!exception_priority(c, n) \in (-2)..4
         /\ \A n \in Irqs \cup X!System : X!exception_priority(c, n) = c.level[n] /\ c.level[n] \in 0..3
         /\ X!exception_priority(c, X!NMI) = -2
         /\ X!exception_priority(c, X!THREAD) = 4
         /\ c.ipsr \in X!Handlers \cup {X!THREAD}
         /\ c.pm \in BOOLEAN
<1>1. \A n \in Irqs \cup X!System : n # X!NMI /\ c.level[n] \in 0..3
  BY NoHandlerIsThread DEF Cores, X!LOWEST_PRIORITY
<1>2. X!THREAD \notin Irqs \cup X!System /\ X!THREAD # X!NMI
  BY NoHandlerIsThread DEF X!Handlers
<1>3. \A n \in Irqs \cup X!System : X!exception_priority(c, n) = c.level[n]
  BY <1>1 DEF X!exception_priority
<1>4. X!exception_priority(c, X!NMI) = -2
  BY <1>1 DEF X!exception_priority
<1>5. X!exception_priority(c, X!THREAD) = 4
  BY <1>2 DEF X!exception_priority, X!LOWEST_PRIORITY
<1>6. c.ipsr \in X!Handlers \cup {X!THREAD} /\ c.pm \in BOOLEAN
  BY DEF Cores
<1> QED BY <1>1, <1>3, <1>4, <1>5, <1>6 DEF X!Handlers

\* Awake, PRIMASK lets nothing through, and otherwise a handler must be more urgent than the one that runs.
LEMMA DueWhenAwake ==
  ASSUME X!ExceptionsAssumption, NEW c \in Cores, ~c.waiting, NEW n
  PROVE  n \in X!Due(c) <=> /\ n \in X!Candidates(c)
                          /\ ~c.pm
                          /\ c.level[n] < X!exception_priority(c, c.ipsr)
<1>1. n \in X!Due(c) <=> n \in X!Candidates(c) /\ c.level[n] < X!CurrentPriority(c)
  BY DEF X!Due
<1>2. n \in X!Candidates(c) => c.level[n] \in 0..3
  BY CandidatesHaveLevels
<1>3. X!exception_priority(c, c.ipsr) \in (-2)..4 /\ c.pm \in BOOLEAN
  BY Priorities
<1>4. X!CurrentPriority(c) = X!Lower(X!exception_priority(c, c.ipsr), IF c.pm THEN 0 ELSE 4)
  BY DEF X!CurrentPriority, X!LOWEST_PRIORITY
<1>5. CASE c.pm
  BY <1>1, <1>2, <1>3, <1>4, <1>5 DEF X!Lower
<1>6. CASE ~c.pm
  BY <1>1, <1>2, <1>3, <1>4, <1>6 DEF X!Lower
<1> QED BY <1>5, <1>6

\* Every step of the core enters the most urgent handler, or none.
LEMMA StepEntersTheMostUrgent ==
  ASSUME X!ExceptionsAssumption, Sound, [X!Next]_(X!vars)
  PROVE  X!EntryOfTheMostUrgent
<1> DEFINE g == X!Fetched
<1>1. state \in Cores /\ Grounded(state) /\ X!TypeOK /\ Len(state.active) \in Nat
  BY StackElements DEF Sound, X!TypeOK, Cores
<1>2. SUFFICES ASSUME ~state.waiting, Len(state'.active) > Len(state.active)
               PROVE  \/ state'.ipsr = X!NMI
                      \/ /\ ~state.pm
                         /\ X!NMI \notin state.pending
                         /\ state.level[state'.ipsr] < X!exception_priority(state, state.ipsr)
                         /\ \A m \in X!Candidates(state) : state.level[m] >= state.level[state'.ipsr]
  BY DEF X!EntryOfTheMostUrgent
<1>3. state'.active # state.active
  BY <1>1, <1>2
<1>4. X!Instruction
  <2>1. state' # state
    BY <1>3
  <2>2. X!Next
    BY <2>1 DEF X!vars
  <2> QED BY <1>1, <1>2, <1>3, <2>2, OutsideSteps DEF SameStack
<1>5. /\ g \in Cores /\ Grounded(g) /\ Len(g.active) \in Nat
      /\ \/ SameStack(state, g)
         \/ Enters(state, g, X!NMI)
         \/ /\ X!NMI \notin state.pending
            /\ \E n \in X!Due(state) : Enters(state, g, n) /\ \A m \in X!Due(state) : X!Before(state, n, m)
  <2>1. g \in Cores /\ Grounded(g)
    BY FetchedIsGrounded
  <2>2. g = state \/ g = [state EXCEPT !.interrupts_updated = FALSE] => SameStack(state, g)
    BY <1>1 DEF SameStack, Cores
  <2> QED BY <1>1, <2>1, <2>2, FetchedScans, StackElements
<1> HIDE DEF g
<1>6. Len(g.active) <= Len(state.active) + 1
  BY <1>1, <1>5, EntryPushes DEF SameStack
<1>7. SameStack(g, state')
  <2>1. \/ state' = X!PowerOn
        \/ Returns(g, state')
        \/ SameStack(g, state')
    BY <1>1, <1>4, InstructionSteps DEF g, Asks, Hushes, Retunes
  <2>2. state' # X!PowerOn
    BY <1>1, <1>2 DEF X!PowerOn
  <2>3. ASSUME Returns(g, state') PROVE FALSE
    <3>1. g.active # <<>>
      BY <1>5, <2>3, GroundedStack DEF Returns
    <3>2. Len(state'.active) = Len(g.active) - 1
      BY <1>5, <2>3, <3>1, ReturnPops DEF Returns
    <3> QED BY <1>1, <1>2, <1>5, <1>6, <3>2
  <2> QED BY <2>1, <2>2, <2>3
<1>8. state'.ipsr = g.ipsr /\ ~SameStack(state, g)
  BY <1>3, <1>7 DEF SameStack
<1>9. CASE Enters(state, g, X!NMI)
  BY <1>8, <1>9 DEF Enters
<1>10. CASE /\ X!NMI \notin state.pending
            /\ \E n \in X!Due(state) : Enters(state, g, n) /\ \A m \in X!Due(state) : X!Before(state, n, m)
  <2>1. PICK n \in X!Due(state) : Enters(state, g, n) /\ \A m \in X!Due(state) : X!Before(state, n, m)
    BY <1>10
  <2>2. state'.ipsr = n
    BY <1>8, <2>1 DEF Enters
  <2>3. n \in X!Candidates(state) /\ ~state.pm /\ state.level[n] < X!exception_priority(state, state.ipsr)
    BY <1>1, <1>2, <2>1, DueWhenAwake
  <2>4. ASSUME NEW m \in X!Candidates(state)
        PROVE  state.level[m] >= state.level[n]
    <3>1. state.level[m] \in 0..3 /\ state.level[n] \in 0..3
      BY <1>1, <2>3, CandidatesHaveLevels
    <3>2. X!exception_priority(state, state.ipsr) \in (-2)..4
      BY <1>1, Priorities
    <3>3. CASE m \in X!Due(state)
      BY <2>1, <3>1, <3>3 DEF X!Before
    <3>4. CASE m \notin X!Due(state)
      <4>1. ~(state.level[m] < X!exception_priority(state, state.ipsr))
        BY <1>1, <1>2, <2>3, <3>4, DueWhenAwake
      <4> QED BY <2>3, <3>1, <3>2, <4>1
    <3> QED BY <3>3, <3>4
  <2> QED BY <1>10, <2>2, <2>3, <2>4
<1> QED BY <1>5, <1>8, <1>9, <1>10

-----------------------------------------------------------------------------
(* The flag that spares the scan. *)

\* What would be due in an awake core is flagged.  (A sleeping core keeps the flag for when it wakes.)
FlaggedIn(c) == Awaits(c) => c.interrupts_updated

LEMMA AwakeCore ==
  ASSUME NEW c \in Cores
  PROVE  /\ [c EXCEPT !.waiting = FALSE] \in Cores
         /\ X!Candidates([c EXCEPT !.waiting = FALSE]) = X!Candidates(c)
         /\ [c EXCEPT !.waiting = FALSE].waiting = FALSE
         /\ [c EXCEPT !.waiting = FALSE].pm = c.pm
         /\ [c EXCEPT !.waiting = FALSE].level = c.level
         /\ [c EXCEPT !.waiting = FALSE].ipsr = c.ipsr
         /\ [c EXCEPT !.waiting = FALSE].pending = c.pending
         /\ ~c.waiting => [c EXCEPT !.waiting = FALSE] = c
  BY DEF Cores, X!Candidates

LEMMA WhatAwaits ==
  ASSUME X!ExceptionsAssumption, NEW c \in Cores
  PROVE  Awaits(c) <=> \/ X!NMI \in c.pending
                       \/ /\ ~c.pm
                          /\ \E n \in X!Candidates(c) : c.level[n] < X!exception_priority(c, c.ipsr)
<1> DEFINE a == [c EXCEPT !.waiting = FALSE]
<1>1. /\ a \in Cores /\ ~a.waiting /\ X!Candidates(a) = X!Candidates(c) /\ a.pm = c.pm
      /\ a.level = c.level /\ a.ipsr = c.ipsr /\ a.pending = c.pending
  BY AwakeCore
<1>2. \A n : X!exception_priority(a, n) = X!exception_priority(c, n)
  BY <1>1 DEF X!exception_priority
<1>3. Awaits(c) <=> X!NMI \in a.pending \/ X!Due(a) # {}
  BY DEF Awaits, X!Interrupted
<1> HIDE DEF a
<1>4. \A n : n \in X!Due(a) <=> n \in X!Candidates(a) /\ ~a.pm /\ a.level[n] < X!exception_priority(a, a.ipsr)
  BY <1>1, DueWhenAwake
<1> QED BY <1>1, <1>2, <1>3, <1>4

\* What is due in an awake core is due in a sleeping one.
LEMMA AwaitsIsInterrupted ==
  ASSUME X!ExceptionsAssumption, NEW c \in Cores, Awaits(c)
  PROVE  X!Interrupted(c)
<1>1. CASE ~c.waiting
  BY <1>1, AwakeCore DEF Awaits
<1>2. CASE c.waiting
  <2>1. CASE X!NMI \in c.pending
    BY <2>1 DEF X!Interrupted
  <2>2. CASE X!NMI \notin c.pending
    <3>1. PICK n \in X!Candidates(c) : ~c.pm /\ c.level[n] < X!exception_priority(c, c.ipsr)
      BY <2>2, WhatAwaits
    <3>2. X!CurrentPriority(c) = 4
      BY <1>2, <3>1 DEF X!CurrentPriority, X!LOWEST_PRIORITY
    <3>3. c.level[n] \in 0..3
      BY CandidatesHaveLevels
    <3>4. n \in X!Due(c)
      BY <3>2, <3>3 DEF X!Due
    <3> QED BY <3>4 DEF X!Interrupted
  <2> QED BY <2>1, <2>2
<1> QED BY <1>1, <1>2 DEF Cores

\* Fewer pending or enabled exceptions, or PRIMASK set, make nothing due.
LEMMA NothingMoreAwaits ==
  ASSUME X!ExceptionsAssumption, NEW c \in Cores, NEW d \in Cores, Awaits(d),
         d.pending \subseteq c.pending, d.enabled \subseteq c.enabled, c.pm => d.pm,
         d.level = c.level, d.ipsr = c.ipsr
  PROVE  Awaits(c)
<1>1. X!Candidates(d) \subseteq X!Candidates(c)
  BY DEF X!Candidates
<1>2. X!exception_priority(d, d.ipsr) = X!exception_priority(c, c.ipsr)
  BY DEF X!exception_priority
<1> QED BY <1>1, <1>2, WhatAwaits

LEMMA ScanFlags ==
  ASSUME X!ExceptionsAssumption, NEW c \in Cores, NEW d, d = X!check_for_interrupts(c), c.interrupts_updated
  PROVE  FlaggedIn(d)
<1>1. d \in Cores /\ SameSettings(c, d)
  BY ScanEntersTheFirst
<1>2. CASE \E n : Enters(c, d, n)
  BY <1>2 DEF FlaggedIn, Enters
<1>3. CASE X!NMI \notin c.pending /\ X!Due(c) = {} /\ d = [c EXCEPT !.interrupts_updated = FALSE]
  <2>1. ~Awaits(c)
    BY <1>3, AwaitsIsInterrupted DEF X!Interrupted
  <2>2. d.pending = c.pending /\ d.ipsr = c.ipsr
    BY <1>3 DEF Cores
  <2>3. ~Awaits(d)
    BY <1>1, <2>1, <2>2, NothingMoreAwaits DEF SameSettings
  <2> QED BY <2>3 DEF FlaggedIn
<1> QED BY <1>2, <1>3, ScanEntersTheFirst

LEMMA FetchedIsFlagged ==
  ASSUME X!ExceptionsAssumption, X!TypeOK, FlaggedIn(state)
  PROVE  FlaggedIn(X!Fetched)
<1>1. state \in Cores
  BY DEF X!TypeOK, Cores
<1> QED BY <1>1, ScanFlags DEF X!Fetched

\* The priorities that firmware changes without a scan change nothing that is due.
TunesQuietly == ~TunesInHandlers \/ Tunable \cap X!System = {}

LEMMA FlaggedStep ==
  ASSUME X!ExceptionsAssumption, TunesQuietly, Sound, FlaggedIn(state), [X!Next]_(X!vars)
  PROVE  FlaggedIn(state')
<1> DEFINE g == X!Fetched
<1>1. state \in Cores /\ X!TypeOK /\ state' \in Cores
  BY SoundStep DEF Sound, X!TypeOK, Cores
<1>2. g \in Cores /\ FlaggedIn(g)
  BY <1>1, FetchedIsFlagged, FetchedIsGrounded
<1> HIDE DEF g
<1>3. SUFFICES ASSUME state'.interrupts_updated # TRUE
               PROVE  ~Awaits(state')
  BY DEF FlaggedIn
<1>4. CASE X!Instruction
  <2>1. \/ state' = X!PowerOn
        \/ Hushes(g, state')
        \/ Retunes(g, state')
    BY <1>1, <1>3, <1>4, InstructionSteps DEF g, Returns, Asks
  <2>2. CASE state' = X!PowerOn
    <3>1. state'.pending = {}
      BY <2>2 DEF X!PowerOn
    <3> QED BY <1>1, <3>1, WhatAwaits DEF X!Candidates
  <2>3. CASE Hushes(g, state')
    BY <1>1, <1>2, <1>3, <2>3, NothingMoreAwaits DEF Hushes, SameStack, FlaggedIn, Cores
  <2>4. CASE Retunes(g, state')
    <3>1. g.ipsr = X!THREAD /\ state'.ipsr = X!THREAD
      BY <2>4 DEF Retunes, SameStack, TunesQuietly
    <3>2. ~Awaits(g)
      BY <1>2, <1>3, <2>4 DEF Retunes, FlaggedIn, Cores
    <3>3. ASSUME ~g.pm PROVE X!Candidates(g) = {}
      <4>1. \A n \in X!Candidates(g) : g.level[n] \in 0..3
        BY <1>2, CandidatesHaveLevels
      <4>2. X!exception_priority(g, g.ipsr) = 4
        BY <1>2, <3>1, Priorities
      <4> QED BY <1>2, <3>2, <3>3, <4>1, <4>2, WhatAwaits
    <3>4. X!Candidates(state') = X!Candidates(g)
      BY <2>4 DEF Retunes, X!Candidates
    <3>5. state'.pm = g.pm /\ state'.pending = g.pending
      BY <2>4 DEF Retunes
    <3> QED BY <1>1, <1>2, <3>2, <3>3, <3>4, <3>5, WhatAwaits
  <2> QED BY <2>1, <2>2, <2>3, <2>4
<1>5. CASE \E n \in Irqs : Wakes(n)
  <2>1. PICK n \in Irqs : Wakes(n)
    BY <1>5
  <2> DEFINE raised == [state EXCEPT !.pending = @ \cup {n}, !.interrupts_updated = TRUE]
             d == X!check_for_interrupts(raised)
             w == ~X!Interrupted(raised)
  <2>2. raised \in Cores /\ raised.interrupts_updated
    BY <1>1 DEF Cores, X!Handlers
  <2>3. state' = [d EXCEPT !.waiting = w] /\ w \in BOOLEAN
    BY <2>1 DEF Wakes
  <2> HIDE DEF raised, w
  <2>4. d \in Cores /\ FlaggedIn(d)
    BY <2>2, ScanFlags, ScanEntersTheFirst
  <2> HIDE DEF d
  <2>5. /\ state'.interrupts_updated = d.interrupts_updated /\ state'.pending = d.pending
        /\ state'.enabled = d.enabled /\ state'.pm = d.pm /\ state'.level = d.level /\ state'.ipsr = d.ipsr
    BY <2>3, <2>4 DEF Cores
  <2>6. ~Awaits(d)
    BY <1>3, <2>4, <2>5 DEF FlaggedIn, Cores
  <2> QED BY <1>1, <2>4, <2>5, <2>6, NothingMoreAwaits
<1>6. CASE /\ SameStack(state, state')
           /\ state'.level = state.level /\ state'.enabled = state.enabled /\ state'.pm = state.pm
           /\ state'.interrupts_updated = state.interrupts_updated
           /\ state'.pending \subseteq state.pending
  <2>1. ~Awaits(state)
    BY <1>1, <1>3, <1>6 DEF FlaggedIn, Cores
  <2> QED BY <1>1, <1>6, <2>1, NothingMoreAwaits DEF SameStack
<1>7. CASE UNCHANGED X!vars
  BY <1>3, <1>7 DEF X!vars, FlaggedIn, Awaits, X!Interrupted
<1> QED BY <1>1, <1>3, <1>4, <1>5, <1>6, <1>7, OutsideSteps

-----------------------------------------------------------------------------
(* The nesting of the handlers. *)

\* A core that sleeps does so in thread mode, and an NMI that pends is taken from there.
SleepsInThread == state.waiting => state.ipsr = X!THREAD
NmiIsNext == X!NMI \in state.pending => state.ipsr = X!THREAD /\ ~state.waiting

Rising(c) ==
  \A i \in 1..Len(c.active) :
      X!exception_priority(c, Stack(c)[i + 1]) < X!exception_priority(c, Stack(c)[i])

Nested == SleepsInThread /\ NmiIsNext /\ Rising(state)

LEMMA EntryRises ==
  ASSUME X!ExceptionsAssumption, NEW c \in Cores, NEW d \in Cores, NEW n \in X!Handlers,
         Enters(c, d, n), d.level = c.level, Rising(c),
         X!exception_priority(c, n) < X!exception_priority(c, c.ipsr)
  PROVE  Rising(d)
<1>1. \A m : X!exception_priority(d, m) = X!exception_priority(c, m)
  BY DEF X!exception_priority
<1>2. /\ Len(c.active) \in Nat /\ Len(d.active) = Len(c.active) + 1
      /\ \A i \in 1..(Len(c.active) + 1) : Stack(d)[i] = Stack(c)[i]
      /\ Stack(d)[Len(c.active) + 2] = n
      /\ Stack(c)[Len(c.active) + 1] = c.ipsr
  BY EntryPushes, StackElements
<1> SUFFICES ASSUME NEW i \in 1..Len(d.active)
             PROVE  X!exception_priority(c, Stack(d)[i + 1]) < X!exception_priority(c, Stack(d)[i])
  BY <1>1 DEF Rising
<1>3. CASE i = Len(d.active)
  <2>1. Stack(d)[i + 1] = n /\ Stack(d)[i] = c.ipsr
    BY <1>2, <1>3
  <2> QED BY <2>1
<1>4. CASE i # Len(d.active)
  <2>1. i \in 1..Len(c.active) /\ i + 1 \in 1..(Len(c.active) + 1) /\ i \in 1..(Len(c.active) + 1)
    BY <1>2, <1>4
  <2>2. Stack(d)[i + 1] = Stack(c)[i + 1] /\ Stack(d)[i] = Stack(c)[i]
    BY <1>2, <2>1
  <2> QED BY <2>1, <2>2 DEF Rising
<1> QED BY <1>3, <1>4

LEMMA ReturnRises ==
  ASSUME X!ExceptionsAssumption, NEW c \in Cores, NEW d, c.active # <<>>, Rising(c),
         d.ipsr = X!Last(c.active), d.active = X!Front(c.active), d.level = c.level
  PROVE  Rising(d)
<1>1. \A m : X!exception_priority(d, m) = X!exception_priority(c, m)
  BY DEF X!exception_priority
<1>2. Len(c.active) \in Nat /\ Len(d.active) = Len(c.active) - 1 /\ Stack(d) = c.active
  BY ReturnPops, StackElements
<1> SUFFICES ASSUME NEW i \in 1..Len(d.active)
             PROVE  X!exception_priority(c, Stack(d)[i + 1]) < X!exception_priority(c, Stack(d)[i])
  BY <1>1 DEF Rising
<1>3. i \in 1..Len(c.active) /\ i + 1 \in 1..Len(c.active)
  BY <1>2
<1>4. Stack(d)[i + 1] = Stack(c)[i + 1] /\ Stack(d)[i] = Stack(c)[i]
  BY <1>2, <1>3, StackElements
<1> QED BY <1>3, <1>4 DEF Rising

LEMMA SameStackRises ==
  ASSUME NEW c, NEW d, SameStack(c, d), d.level = c.level, Rising(c)
  PROVE  Rising(d)
<1>1. /\ d.active = c.active /\ Stack(d) = Stack(c)
      /\ \A m : X!exception_priority(d, m) = X!exception_priority(c, m)
  BY DEF SameStack, Stack, X!exception_priority
<1> QED BY <1>1 DEF Rising

\* In thread mode nothing is below, for nothing is less urgent.
LEMMA ThreadIsTheBottom ==
  ASSUME X!ExceptionsAssumption, NEW c \in Cores, Rising(c), c.ipsr = X!THREAD
  PROVE  c.active = <<>>
<1> SUFFICES ASSUME c.active # <<>> PROVE FALSE
  OBVIOUS
<1> DEFINE m == Len(c.active)
<1>1. m \in Nat /\ m \in 1..m /\ Stack(c)[m + 1] = c.ipsr /\ Stack(c)[m] \in X!Handlers \cup {X!THREAD}
  <2>1. m \in Nat /\ m # 0
    BY StackElements DEF Cores
  <2> QED BY <2>1, StackElements
<1>2. X!exception_priority(c, c.ipsr) < X!exception_priority(c, Stack(c)[m])
  BY <1>1 DEF Rising
<1>3. X!exception_priority(c, c.ipsr) = 4 /\ X!exception_priority(c, Stack(c)[m]) \in (-2)..4
  BY <1>1, Priorities
<1> QED BY <1>2, <1>3

LEMMA EmptyStackRises ==
  ASSUME NEW c, c.active = <<>>
  PROVE  Rising(c)
  BY DEF Rising

\* The scan of an awake core, and of one that sleeps in thread mode, enters handlers over less urgent ones.
LEMMA ScanRises ==
  ASSUME X!ExceptionsAssumption, NEW c \in Cores, Rising(c), c.waiting => c.ipsr = X!THREAD,
         X!NMI \in c.pending => c.ipsr = X!THREAD
  PROVE  Rising(X!check_for_interrupts(c))
<1> DEFINE d == X!check_for_interrupts(c)
<1> SUFFICES Rising(d)
  OBVIOUS
<1>1. /\ d \in Cores /\ SameSettings(c, d)
      /\ \/ X!NMI \in c.pending /\ Enters(c, d, X!NMI)
         \/ \E n \in X!Due(c) : Enters(c, d, n)
         \/ d = [c EXCEPT !.interrupts_updated = FALSE]
  BY ScanEntersTheFirst
<1> HIDE DEF d
<1>2. CASE X!NMI \in c.pending /\ Enters(c, d, X!NMI)
  <2>1. X!exception_priority(c, X!NMI) = -2 /\ X!exception_priority(c, c.ipsr) = 4 /\ X!NMI \in X!Handlers
    BY <1>2, Priorities DEF X!Handlers
  <2>2. X!exception_priority(c, X!NMI) < X!exception_priority(c, c.ipsr)
    BY <2>1
  <2>3. d.level = c.level
    BY <1>1 DEF SameSettings
  <2> QED BY <1>1, <1>2, <2>1, <2>2, <2>3, EntryRises
<1>3. CASE \E n \in X!Due(c) : Enters(c, d, n)
  <2>1. PICK n \in X!Due(c) : Enters(c, d, n)
    BY <1>3
  <2>2. n \in Irqs \cup X!System /\ n \in X!Handlers
    BY CandidatesHaveLevels DEF X!Handlers
  <2>3. X!exception_priority(c, n) < X!exception_priority(c, c.ipsr)
    <3>1. CASE c.ipsr = X!THREAD
      BY <2>2, <3>1, Priorities
    <3>2. CASE ~c.waiting
      <4>1. c.level[n] < X!exception_priority(c, c.ipsr)
        BY <3>2, DueWhenAwake
      <4>2. X!exception_priority(c, n) = c.level[n]
        BY <2>2, Priorities
      <4> QED BY <4>1, <4>2
    <3> QED BY <3>1, <3>2
  <2>4. d.level = c.level
    BY <1>1 DEF SameSettings
  <2> QED BY <1>1, <2>1, <2>2, <2>3, <2>4, EntryRises
<1>4. CASE d = [c EXCEPT !.interrupts_updated = FALSE]
  <2>1. SameStack(c, d) /\ d.level = c.level
    BY <1>4 DEF Cores, SameStack
  <2> QED BY <2>1, SameStackRises
<1> QED BY <1>1, <1>2, <1>3, <1>4

LEMMA NestedStep ==
  ASSUME X!ExceptionsAssumption, ~SleepsInHandlers, ~TunesInHandlers,
         Sound, FlaggedIn(state), Nested, [X!Next]_(X!vars)
  PROVE  Nested'
<1> DEFINE g == X!Fetched
<1>1. state \in Cores /\ X!TypeOK /\ state' \in Cores
  BY SoundStep DEF Sound, X!TypeOK, Cores
<1>2. SUFFICES /\ state'.waiting => state'.ipsr = X!THREAD
               /\ X!NMI \in state'.pending => state'.ipsr = X!THREAD /\ ~state'.waiting
               /\ Rising(state')
  BY DEF Nested, SleepsInThread, NmiIsNext, Rising, Stack, X!exception_priority
<1>3. CASE X!Instruction
  <2>1. g \in Cores /\ Grounded(g) /\ Rising(g)
    <3>1. Rising(X!check_for_interrupts(state))
      BY <1>1, ScanRises DEF Nested, SleepsInThread, NmiIsNext
    <3> QED BY <3>1, FetchedIsGrounded DEF X!Fetched, Nested
  <2>2. X!NMI \notin g.pending /\ g.waiting = state.waiting
    <3>1. g.waiting = state.waiting
      BY <1>1, FetchedScans DEF SameSettings
    <3>2. CASE ~state.interrupts_updated /\ g = state
      <4>1. ~Awaits(state)
        BY <3>2 DEF FlaggedIn
      <4> QED BY <1>1, <3>1, <3>2, <4>1, WhatAwaits
    <3>3. CASE ~X!Interrupted(state) /\ g = [state EXCEPT !.interrupts_updated = FALSE]
      BY <1>1, <3>1, <3>3 DEF X!Interrupted, Cores
    <3> QED BY <1>1, <3>1, <3>2, <3>3, FetchedScans
  <2> HIDE DEF g
  <2>3. /\ ~state.waiting
        /\ \/ state' = X!PowerOn
           \/ Returns(g, state')
           \/ Asks(g, state') \/ Hushes(g, state') \/ Retunes(g, state')
    BY <1>1, <1>3, InstructionSteps DEF g
  <2>4. CASE state' = X!PowerOn
    BY <2>4, EmptyStackRises DEF X!PowerOn
  <2>5. CASE Returns(g, state')
    <3>1. g.active # <<>>
      BY <2>1, <2>5, GroundedStack DEF Returns
    <3>2. Rising(state')
      BY <2>1, <2>5, <3>1, ReturnRises DEF Returns
    <3> QED BY <2>2, <2>3, <2>5, <3>2 DEF Returns
  <2>6. CASE (Asks(g, state') \/ Hushes(g, state')) /\ state'.level = g.level
    <3>1. SameStack(g, state')
      BY <2>6 DEF Asks, Hushes
    <3>2. Rising(state')
      BY <2>1, <2>6, <3>1, SameStackRises
    <3> QED BY <2>2, <2>3, <2>6, <3>1, <3>2 DEF Asks, Hushes, SameStack
  <2>7. CASE (Asks(g, state') \/ Retunes(g, state')) /\ g.ipsr = X!THREAD
    <3>1. state'.ipsr = X!THREAD /\ state'.active = g.active
      BY <2>7 DEF Asks, Retunes, SameStack
    <3>2. Rising(state')
      BY <2>1, <2>7, <3>1, ThreadIsTheBottom, EmptyStackRises
    <3> QED BY <2>2, <2>3, <2>7, <3>1, <3>2 DEF Asks, Retunes
  <2>8. /\ Asks(g, state') => state'.level = g.level \/ g.ipsr = X!THREAD
        /\ Hushes(g, state') => state'.level = g.level
        /\ Retunes(g, state') => g.ipsr = X!THREAD
    BY DEF Asks, Hushes, Retunes
  <2> QED BY <2>3, <2>4, <2>5, <2>6, <2>7, <2>8
<1>4. CASE state.waiting /\ \E n \in Irqs : Wakes(n)
  <2>1. PICK n \in Irqs : Wakes(n)
    BY <1>4
  <2> DEFINE raised == [state EXCEPT !.pending = @ \cup {n}, !.interrupts_updated = TRUE]
             d == X!check_for_interrupts(raised)
             w == ~X!Interrupted(raised)
  <2>2. n # X!NMI
    BY NoHandlerIsThread
  <2>3. /\ raised \in Cores /\ SameStack(state, raised) /\ raised.level = state.level /\ raised.waiting
        /\ X!NMI \notin raised.pending /\ state.ipsr = X!THREAD
    BY <1>1, <1>4, <2>2 DEF Cores, X!Handlers, SameStack, Nested, NmiIsNext, SleepsInThread
  <2>4. state' = [d EXCEPT !.waiting = w] /\ w \in BOOLEAN
    BY <2>1 DEF Wakes
  <2>5. w <=> X!Due(raised) = {}
    BY <2>3 DEF X!Interrupted
  <2> HIDE DEF raised, w
  <2>6. Rising(raised)
    BY <2>3, SameStackRises DEF Nested
  <2>7. d \in Cores /\ Rising(d) /\ X!NMI \notin d.pending
    BY <2>3, <2>6, ScanRises, ScanEntersTheFirst DEF SameStack
  <2>8. w => d.ipsr = X!THREAD
    <3>1. SUFFICES ASSUME X!Due(raised) = {} PROVE d.ipsr = X!THREAD
      BY <2>5
    <3>2. d = [raised EXCEPT !.interrupts_updated = FALSE]
      BY <2>3, <3>1, ScanEntersTheFirst
    <3> HIDE DEF d
    <3> QED BY <2>3, <3>2 DEF SameStack, Cores
  <2> HIDE DEF d
  <2>9. SameStack(d, state') /\ state'.level = d.level /\ state'.pending = d.pending /\ state'.waiting = w
    BY <2>4, <2>7 DEF SameStack, Cores
  <2> QED BY <2>7, <2>8, <2>9, SameStackRises DEF SameStack
<1>5. CASE /\ SameStack(state, state')
           /\ state'.level = state.level
           /\ state'.waiting => state.waiting
           /\ X!NMI \in state'.pending => X!NMI \in state.pending
  BY <1>1, <1>5, SameStackRises DEF Nested, SleepsInThread, NmiIsNext, SameStack
<1>6. CASE UNCHANGED X!vars
  BY <1>6 DEF X!vars, Nested, SleepsInThread, NmiIsNext
<1> QED BY <1>1, <1>3, <1>4, <1>5, <1>6, OutsideSteps

LEMMA FlaggedInit ==
  ASSUME X!ExceptionsAssumption, X!Init
  PROVE  FlaggedIn(state)
<1>1. state = X!PowerOn /\ state \in Cores /\ state.pending = {}
  BY PowerOnIsSound DEF X!Init, X!PowerOn
<1> QED BY <1>1, WhatAwaits DEF FlaggedIn, X!Candidates

LEMMA NestedInit ==
  ASSUME X!ExceptionsAssumption, X!Init
  PROVE  Nested
<1>1. state.active = <<>> /\ state.pending = {} /\ state.waiting = FALSE
  BY DEF X!Init, X!PowerOn
<1> QED BY <1>1, EmptyStackRises DEF Nested, SleepsInThread, NmiIsNext

LEMMA NestedChain ==
  ASSUME Sound, Nested
  PROVE  X!ChainRises
<1>1. state \in Cores /\ Grounded(state) /\ Rising(state)
  BY DEF Sound, X!TypeOK, Cores, Nested
<1>2. X!Chain = Stack(state) /\ Len(X!Chain) - 1 = Len(state.active)
  BY <1>1, StackElements DEF X!Chain, Stack
<1> QED BY <1>1, <1>2 DEF X!ChainRises, Grounded, Rising

-----------------------------------------------------------------------------
(* The core, as a part. *)

\* A step of Parts leaves the part what it is, and is a step of it or of none.
LEMMA CoreSteps ==
  ASSUME [Next]_vars, part' = "core"
  PROVE  part = "core" /\ [X!Next]_(X!vars)
<1>1. CASE Next
  BY <1>1 DEF Next, PeripheralsNext
<1>2. CASE UNCHANGED vars
  BY <1>2 DEF vars, X!vars
<1> QED BY <1>1, <1>2

LEMMA CoreBegins ==
  ASSUME Init, part = "core"
  PROVE  X!ExceptionsAssumption /\ X!Init
  BY PartsAssumption DEF Init, PeripheralsInit

CoreIsSound == part = "core" => Sound

LEMMA CoreStaysSound == Spec => []CoreIsSound
<1>1. Init => CoreIsSound
  BY CoreBegins, SoundInit DEF CoreIsSound
<1>2. CoreIsSound /\ [Next]_vars => CoreIsSound'
  <2> SUFFICES ASSUME CoreIsSound, [Next]_vars, part' = "core" PROVE Sound'
    BY DEF CoreIsSound
  <2>1. Sound /\ [X!Next]_(X!vars)
    BY CoreSteps DEF CoreIsSound
  <2> QED BY <2>1, PartsAssumption, SoundStep
<1> QED BY <1>1, <1>2, PTL DEF Spec

\* A core's registers keep their types, and at the bottom of its stack is thread mode, so that every handler
\* has a frame to return through.
THEOREM CoreKeepsItsFrames == Spec => [](part = "core" => X!TypeOK /\ Grounded(state))
<1>1. CoreIsSound => (part = "core" => X!TypeOK /\ Grounded(state))
  BY DEF CoreIsSound, Sound
<1> QED BY <1>1, CoreStaysSound, PTL

\* An awake core enters the most urgent handler that pends, and only over a less urgent one, with
\* PRIMASK clear (check_for_interrupts), whatever firmware does with priorities and sleeps.
THEOREM MostUrgentIsEntered == Spec => EntersTheMostUrgent
<1>1. CoreIsSound /\ [Next]_vars => [part = "core" => X!EntryOfTheMostUrgent]_vars
  <2> SUFFICES ASSUME CoreIsSound, Next, part = "core" PROVE X!EntryOfTheMostUrgent
    OBVIOUS
  <2>1. X!Next /\ Sound
    BY DEF CoreIsSound, Next, PeripheralsNext
  <2> QED BY <2>1, PartsAssumption, StepEntersTheMostUrgent
<1> QED BY <1>1, CoreStaysSound, PTL DEF Spec, EntersTheMostUrgent

CoreIsFlagged == part = "core" => FlaggedIn(state)

LEMMA CoreStaysFlagged ==
  ASSUME TunesQuietly
  PROVE  Spec => []CoreIsFlagged
<1>1. Init => CoreIsFlagged
  BY CoreBegins, FlaggedInit DEF CoreIsFlagged
<1>2. CoreIsSound /\ CoreIsFlagged /\ [Next]_vars => CoreIsFlagged'
  <2> SUFFICES ASSUME CoreIsSound, CoreIsFlagged, [Next]_vars, part' = "core" PROVE FlaggedIn(state)'
    BY DEF CoreIsFlagged
  <2>1. part = "core" /\ [X!Next]_(X!vars)
    BY CoreSteps
  <2>2. FlaggedIn(state')
    BY <2>1, PartsAssumption, FlaggedStep DEF CoreIsSound, CoreIsFlagged
  <2> QED BY <2>2 DEF FlaggedIn, Awaits, X!Interrupted, X!Due, X!Candidates, X!CurrentPriority, X!exception_priority
<1> QED BY <1>1, <1>2, CoreStaysSound, PTL DEF Spec

\* The scan is skipped only while it would find nothing, as long as firmware does not change the priority of
\* SVCall, PendSV or SysTick in a handler: a store to SHPR2 or SHPR3 raises no interrupts_updated.
THEOREM ScanIsNeverMissed ==
  ASSUME TunesQuietly
  PROVE  Spec => [](part = "core" => X!FlagCoversTheDue)
<1>1. CoreIsSound /\ CoreIsFlagged => (part = "core" => X!FlagCoversTheDue)
  BY AwakeCore DEF CoreIsSound, CoreIsFlagged, X!FlagCoversTheDue, FlaggedIn, Awaits, Sound, X!TypeOK, Cores
<1> QED BY <1>1, CoreStaysSound, CoreStaysFlagged, PTL

CoreIsNested == part = "core" => Nested

\* The handlers of a core nest by strictly rising priority from thread mode up, as long as firmware neither
\* sleeps nor changes priorities in a handler.
THEOREM HandlersNest ==
  ASSUME ~SleepsInHandlers, ~TunesInHandlers
  PROVE  Spec => []ChainRises
<1>1. Init => CoreIsNested
  BY CoreBegins, NestedInit DEF CoreIsNested
<1>2. CoreIsSound /\ CoreIsFlagged /\ CoreIsNested /\ [Next]_vars => CoreIsNested'
  <2> SUFFICES ASSUME CoreIsSound, CoreIsFlagged, CoreIsNested, [Next]_vars, part' = "core" PROVE Nested'
    BY DEF CoreIsNested
  <2>1. part = "core" /\ [X!Next]_(X!vars)
    BY CoreSteps
  <2> QED BY <2>1, PartsAssumption, NestedStep DEF CoreIsSound, CoreIsFlagged, CoreIsNested
<1>3. CoreIsSound /\ CoreIsNested => ChainRises
  BY NestedChain DEF CoreIsSound, CoreIsNested, ChainRises
<1>4. TunesQuietly
  BY DEF TunesQuietly
<1>5. Spec => []CoreIsFlagged
  BY <1>4, CoreStaysFlagged
<1> QED BY <1>1, <1>2, <1>3, <1>5, CoreStaysSound, PTL DEF Spec

-----------------------------------------------------------------------------
(* The register blocks. *)

\* The DMA controller has last been told the request that the FIFOs of the SPI, the UART, the ADC and a
\* PIO block make now, whatever accesses, frames, instructions and resets came before.
THEOREM RequestsReachTheController == Spec => []RequestsTellFifos
<1>1. Init => RequestsTold
  BY RequestsBegin DEF Init, RequestsTold
<1>2. RequestsTold /\ [Next]_vars => RequestsTold'
  <2> SUFFICES ASSUME RequestsTold, [Next]_vars PROVE RequestsTold'
    OBVIOUS
  <2>1. CASE UNCHANGED vars
    BY <2>1 DEF vars, RequestsTold
  <2>2. CASE PeripheralsNext /\ UNCHANGED part
    BY <2>2, RequestsStayTold
  <2>3. CASE ~ PeripheralsNext /\ Next
    BY <2>3 DEF Next, RequestsTold
  <2> QED BY <2>1, <2>2, <2>3 DEF Next
<1> QED BY <1>1, <1>2, ToldAreTheRequests, PTL DEF Spec

LEMMA TimesAreAlwaysKept == Spec => []Timed
<1>1. Init => Timed
  BY TimesBegin DEF Init, Timed
<1>2. Timed /\ [Next]_vars => Timed'
  <2> SUFFICES ASSUME Timed, [Next]_vars PROVE Timed'
    OBVIOUS
  <2>1. CASE UNCHANGED vars
    BY <2>1 DEF vars, Timed
  <2>2. CASE PeripheralsNext /\ UNCHANGED part
    BY <2>2, TimesStay
  <2>3. CASE ~ PeripheralsNext /\ Next
    BY <2>3 DEF Next, Timed
  <2> QED BY <2>1, <2>2, <2>3 DEF Next
<1> QED BY <1>1, <1>2, PTL DEF Spec

\* The alarms of the timer, of a PWM slice and of the watchdog and the end of the RTC's second are with the
\* clock for the tick at which their count comes, and a PIO block looks at its machines when one is due,
\* whatever stops, new rates, loads and resets came before.
THEOREM AlarmsReachTheirCounts == Spec => []AlarmsComeOnTarget
  BY TimesAreAlwaysKept, TimedAreOnTarget, PTL

\* The timer's count and the RTC's calendar go from each value to the next, as long as firmware gives
\* no stopped timer a rate whose tick is shorter than what had gone of the current one.
THEOREM CountsGoOn ==
  ASSUME ~ RetunesStopped
  PROVE  Spec => CountNeverJumps
<1>1. Init => SubsFit
  BY SubsBegin DEF Init, SubsFit
<1>2. Timed /\ SubsFit /\ [Next]_vars => SubsFit' /\ [CountSteps]_vars
  <2> SUFFICES ASSUME Timed, SubsFit, [Next]_vars PROVE SubsFit' /\ [CountSteps]_vars
    OBVIOUS
  <2>1. CASE UNCHANGED vars
    BY <2>1 DEF vars, SubsFit
  <2>2. CASE PeripheralsNext /\ UNCHANGED part
    BY <2>2, CountsStep
  <2>3. CASE ~ PeripheralsNext /\ Next
    BY <2>3 DEF Next, SubsFit, CountSteps
  <2> QED BY <2>1, <2>2, <2>3 DEF Next
<1> QED BY <1>1, <1>2, TimesAreAlwaysKept, PTL DEF Spec, CountNeverJumps

-----------------------------------------------------------------------------
(* The lines of all parts. *)

LinesTold ==
  /\ RequestsTold /\ LinesShown
  /\ part = "gpio" => GpioLined(state)
  /\ part = "gspi" => GspiLined(state)
  /\ part = "usb" => UsbLined(state)

LEMMA LinesStart == Init => LinesTold
<1> SUFFICES ASSUME Init PROVE LinesTold
  OBVIOUS
<1>1. PeripheralsInit => RequestsTold /\ LinesShown
  BY RequestsBegin, LinesBegin
<1>2. ~ PeripheralsInit => RequestsTold /\ LinesShown
  BY DEF Init, RequestsTold, LinesShown
<1>3. part = "gpio" => GpioLined(state)
  BY GpioBegins DEF Init, PeripheralsInit
<1>4. part = "gspi" => GspiLined(state)
  BY GspiBegins DEF Init, PeripheralsInit
<1>5. part = "usb" => UsbLined(state)
  BY UsbBegins DEF Init, PeripheralsInit
<1> QED BY <1>1, <1>2, <1>3, <1>4, <1>5 DEF LinesTold

LEMMA LinesGoOn == LinesTold /\ [Next]_vars => LinesTold'
<1> SUFFICES ASSUME LinesTold, [Next]_vars PROVE LinesTold'
  OBVIOUS
<1>1. CASE UNCHANGED vars
  BY <1>1 DEF vars, LinesTold, RequestsTold, LinesShown
<1>2. CASE PeripheralsNext /\ UNCHANGED part
  <2>1. RequestsTold' /\ LinesShown'
    BY <1>2, RequestsStayTold, LinesStay DEF LinesTold
  <2>2. part' \notin {"gpio", "gspi", "usb"}
    BY <1>2 DEF PeripheralsNext
  <2> QED BY <2>1, <2>2 DEF LinesTold
<1>3. CASE ~ PeripheralsNext /\ Next
  <2>1. RequestsTold' /\ LinesShown'
    BY <1>3 DEF Next, RequestsTold, LinesShown
  <2>2. ASSUME part' = "gpio" PROVE GpioLined(state')
    BY <1>3, <2>2, GpioStepLined DEF Next, LinesTold
  <2>3. ASSUME part' = "gspi" PROVE GspiLined(state')
    BY <1>3, <2>3, GspiStepLined DEF Next, LinesTold
  <2>4. ASSUME part' = "usb" PROVE UsbLined(state')
    BY <1>3, <2>4, UsbStepLined DEF Next, LinesTold
  <2> QED BY <2>1, <2>2, <2>3, <2>4 DEF LinesTold
<1> QED BY <1>1, <1>2, <1>3 DEF Next

\* The level that each part last gave to the NVIC, and the pin of the wireless chip, is its masked status
\* now, whatever accesses, transfers, completions, alarms and resets came before: every method that changes
\* the status, the mask or what they are computed from also tells the line.
THEOREM EveryLineIsTold == Spec => []LineTellsStatus
<1>1. LinesTold => LineTellsStatus
  <2> SUFFICES ASSUME LinesTold PROVE LineTellsStatus
    OBVIOUS
  <2>1. LinesShown
    BY DEF LinesTold
  <2>2. part = "gpio" => L!LineTellsStatus
    BY GpioIsLined DEF LinesTold
  <2>3. part = "gspi" => B!LineTellsStatus
    BY GspiIsLined DEF LinesTold
  <2>4. part = "usb" => D!LineTellsStatus
    BY UsbIsLined DEF LinesTold
  <2> QED BY <2>1, <2>2, <2>3, <2>4, ShownAreTheLines DEF LineTellsStatus
<1> QED BY <1>1, LinesStart, LinesGoOn, PTL DEF Spec
=============================================================================
