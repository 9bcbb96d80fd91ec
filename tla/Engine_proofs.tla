--------------------------- MODULE Engine_proofs ---------------------------
(***************************************************************************)
(* Proofs about the engine room, for any finite number of threads and any  *)
(* number of starts: an engine said to execute has a task that does, the   *)
(* crash of an engine is never answered as its stop, and the process exits *)
(* with a code that somebody asked for.                                    *)
(***************************************************************************)
EXTENDS Engine, FiniteSetTheorems, SequenceTheorems, TLAPS

-----------------------------------------------------------------------------
(* The invariant: what is in the ready queue, and what that says. *)

Callbacks == {Start} \cup {Step(i) : i \in Tasks} \cup {Begin(t) : t \in Callers} \cup {Wake(t) : t \in Callers}

Queued(s) == {s[n] : n \in 1 .. Len(s)}

\* A task has no two steps in the queue, and a call begins once and is woken once.
OnceEach(s) == \A m, n \in 1 .. Len(s) : s[m] = s[n] /\ s[m] # Start => m = n

\* Where starts are queued, and the calls that will queue one when they begin.
Starts(s) == {n \in 1 .. Len(s) : s[n] = Start}
Booting == {t \in Callers : call[t].at = "queued" /\ call[t].boots}

QueueInv ==
  /\ ready \in Seq(Callbacks) /\ OnceEach(ready)
  /\ \A i \in Tasks : Step(i) \in Queued(ready) => task[i] \in {"new", "turning"}
  /\ \A t \in Callers : /\ Begin(t) \in Queued(ready) => call[t].at = "queued"
                        /\ Wake(t) \in Queued(ready) => call[t].at = "woken"
  /\ current + Cardinality(Starts(ready)) + Cardinality(Booting) <= starts

\* A crash is on record, and who was told of an end watched a task that has ended.
ToldInv ==
  /\ (\E i \in Tasks : task[i] = "crashed") => failed
  /\ \A t \in Callers : call[t].at = "ended" => call[t].watch \in Tasks /\ task[call[t].watch] = "ended"

\* The code of a request is there before its event is.
CodeInv ==
  /\ request.code \in Requesters => asking[request.code] \in {"set", "done"}
  /\ request.set \/ (\E r \in Requesters : asking[r] = "set") => request.code \in Requesters

EInv == TypeOK /\ QueueInv /\ ExecutingMeansAlive /\ ToldInv /\ CodeInv /\ ExitCodeWasAsked

-----------------------------------------------------------------------------
(* The queue. *)

LEMMA CallbackFacts ==
  /\ Start.what = "start" /\ Start \in Callbacks
  /\ \A i : Step(i).what = "step" /\ (i \in Tasks => Step(i) \in Callbacks)
  /\ \A t : Begin(t).what = "begin" /\ (t \in Callers => Begin(t) \in Callbacks)
  /\ \A t : Wake(t).what = "wake" /\ (t \in Callers => Wake(t) \in Callbacks)
  /\ \A i, j : Step(i) = Step(j) => i = j
  /\ \A t, u : Begin(t) = Begin(u) \/ Wake(t) = Wake(u) => t = u
<1>1. Start.what = "start" /\ Start \in Callbacks
  BY DEF Start, Callbacks
<1>2. \A i : Step(i).what = "step" /\ (i \in Tasks => Step(i) \in Callbacks)
  BY DEF Step, Callbacks
<1>3. \A t : Begin(t).what = "begin" /\ (t \in Callers => Begin(t) \in Callbacks)
  BY DEF Begin, Callbacks
<1>4. \A t : Wake(t).what = "wake" /\ (t \in Callers => Wake(t) \in Callbacks)
  BY DEF Wake, Callbacks
<1>5. \A i, j : Step(i) = Step(j) => i = j
  BY DEF Step
<1>6. \A t, u : Begin(t) = Begin(u) \/ Wake(t) = Wake(u) => t = u
  BY DEF Begin, Wake
<1> QED BY <1>1, <1>2, <1>3, <1>4, <1>5, <1>6

\* The head of the queue is served and q, whom that woke, follows the rest.
LEMMA ServedElements ==
  ASSUME NEW s \in Seq(Callbacks), s # << >>, NEW q \in Seq(Callbacks)
  PROVE  /\ Tail(s) \o q \in Seq(Callbacks)
         /\ Len(s) \in Nat /\ Len(s) >= 1 /\ Len(q) \in Nat
         /\ Len(Tail(s) \o q) = Len(s) - 1 + Len(q)
         /\ \A n \in 1 .. Len(s) - 1 + Len(q) :
              (Tail(s) \o q)[n] = IF n <= Len(s) - 1 THEN s[n + 1] ELSE q[n - (Len(s) - 1)]
<1> DEFINE l == Len(s) - 1
<1>1. Len(s) \in Nat /\ Len(s) >= 1 /\ Len(q) \in Nat
  BY LenProperties, EmptySeq
<1>2. Tail(s) \in Seq(Callbacks) /\ Len(Tail(s)) = l /\ \A n \in 1 .. Len(Tail(s)) : Tail(s)[n] = s[n + 1]
  BY HeadTailProperties
<1>3. /\ Tail(s) \o q \in Seq(Callbacks) /\ Len(Tail(s) \o q) = Len(Tail(s)) + Len(q)
      /\ \A n \in 1 .. Len(Tail(s)) + Len(q) :
           (Tail(s) \o q)[n] = IF n <= Len(Tail(s)) THEN Tail(s)[n] ELSE q[n - Len(Tail(s))]
  BY <1>2, ConcatProperties
<1>4. l \in Nat
  BY <1>1
<1> HIDE DEF l
<1>5. \A n \in 1 .. l + Len(q) : (Tail(s) \o q)[n] = IF n <= l THEN s[n + 1] ELSE q[n - l]
  <2> TAKE n \in 1 .. l + Len(q)
  <2>1. (Tail(s) \o q)[n] = IF n <= l THEN Tail(s)[n] ELSE q[n - l]
    BY <1>2, <1>3
  <2>2. n <= l => Tail(s)[n] = s[n + 1]
    BY <1>1, <1>2, <1>4
  <2> QED BY <2>1, <2>2
<1>6. Tail(s) \o q \in Seq(Callbacks) /\ Len(Tail(s) \o q) = l + Len(q)
  BY <1>2, <1>3
<1> QED BY <1>1, <1>5, <1>6 DEF l

LEMMA Served ==
  ASSUME NEW s \in Seq(Callbacks), s # << >>, OnceEach(s), NEW q \in Seq(Callbacks), OnceEach(q),
         \A x \in Queued(q) : x # Start /\ x \notin Queued(s)
  PROVE  /\ Tail(s) \o q \in Seq(Callbacks) /\ OnceEach(Tail(s) \o q)
         /\ \A x \in Queued(Tail(s) \o q) : \/ x \in Queued(q)
                                            \/ x \in Queued(s) /\ (x = Head(s) => x = Start)
<1> DEFINE r == Tail(s) \o q
           l == Len(s) - 1
           k == Len(q)
<1>1. /\ r \in Seq(Callbacks) /\ l \in Nat /\ k \in Nat /\ Len(s) = l + 1 /\ Len(r) = l + k
      /\ \A n \in 1 .. l + k : r[n] = IF n <= l THEN s[n + 1] ELSE q[n - l]
  BY ServedElements
<1>2. Head(s) = s[1]
  OBVIOUS
<1> HIDE DEF r, l
<1>3. \A n \in 1 .. l : /\ r[n] = s[n + 1] /\ n + 1 \in 1 .. Len(s) /\ s[n + 1] \in Queued(s)
                        /\ n + 1 # 1 /\ n \in 1 .. l + k
  <2> TAKE n \in 1 .. l
  <2>1. n + 1 \in 1 .. Len(s) /\ n + 1 # 1 /\ n \in 1 .. l + k
    BY <1>1
  <2>2. r[n] = s[n + 1]
    BY <1>1, <2>1
  <2> QED BY <2>1, <2>2 DEF Queued
<1>4. \A n \in l + 1 .. l + k : r[n] = q[n - l] /\ n - l \in 1 .. Len(q) /\ q[n - l] \in Queued(q)
  <2> TAKE n \in l + 1 .. l + k
  <2>1. n - l \in 1 .. Len(q) /\ n \in 1 .. l + k /\ ~ (n <= l)
    BY <1>1
  <2>2. r[n] = q[n - l]
    BY <1>1, <2>1
  <2> QED BY <2>1, <2>2 DEF Queued
<1>5. \A n \in 1 .. l : s[n + 1] # Start => s[n + 1] # Head(s)
  BY <1>1, <1>2, <1>3 DEF OnceEach
<1>6. \A n \in 1 .. l + k : n \in 1 .. l \/ n \in l + 1 .. l + k
  BY <1>1
<1> HIDE DEF k
<1>7. \A x \in Queued(r) : x \in Queued(q) \/ (x \in Queued(s) /\ (x = Head(s) => x = Start))
  <2> TAKE x \in Queued(r)
  <2>1. PICK n \in 1 .. l + k : x = r[n]
    BY <1>1 DEF Queued
  <2>2. CASE n \in 1 .. l
    BY <1>3, <1>5, <2>1, <2>2
  <2>3. CASE n \in l + 1 .. l + k
    BY <1>4, <2>1, <2>3
  <2> QED BY <1>6, <2>1, <2>2, <2>3
<1>8. OnceEach(r)
  <2> SUFFICES ASSUME NEW m \in 1 .. l + k, NEW n \in 1 .. l + k, r[m] = r[n], r[m] # Start
               PROVE  m = n
    BY <1>1 DEF OnceEach
  <2>1. ASSUME NEW a \in 1 .. l, NEW b \in l + 1 .. l + k, r[a] = r[b]
        PROVE  FALSE
    BY <1>3, <1>4, <2>1
  <2>2. CASE m \in 1 .. l /\ n \in 1 .. l
    <3>1. m + 1 = n + 1
      BY <1>3, <2>2 DEF OnceEach
    <3> QED BY <1>1, <3>1
  <2>3. CASE m \in l + 1 .. l + k /\ n \in l + 1 .. l + k
    <3>1. m - l = n - l
      BY <1>4, <2>3 DEF OnceEach
    <3> QED BY <1>1, <3>1
  <2> QED BY <1>6, <2>1, <2>2, <2>3
<1> QED BY <1>1, <1>7, <1>8 DEF r

LEMMA Appended ==
  ASSUME NEW s \in Seq(Callbacks), OnceEach(s), NEW x \in Callbacks, x = Start \/ x \notin Queued(s)
  PROVE  /\ Append(s, x) \in Seq(Callbacks) /\ OnceEach(Append(s, x))
         /\ Queued(Append(s, x)) = Queued(s) \cup {x}
<1> DEFINE r == Append(s, x)
<1>1. /\ r \in Seq(Callbacks) /\ Len(s) \in Nat /\ Len(r) = Len(s) + 1 /\ r[Len(s) + 1] = x
      /\ \A n \in 1 .. Len(s) : r[n] = s[n]
  BY AppendProperties, LenProperties
<1> HIDE DEF r
<1>2. \A n \in 1 .. Len(r) : n \in 1 .. Len(s) \/ n = Len(s) + 1
  BY <1>1
<1>3. \A n \in 1 .. Len(s) : s[n] \in Queued(s) /\ n \in 1 .. Len(r)
  BY <1>1 DEF Queued
<1>4. Queued(r) = Queued(s) \cup {x}
  <2>1. Len(s) + 1 \in 1 .. Len(r)
    BY <1>1
  <2> QED BY <1>1, <1>2, <1>3, <2>1, SMTT(30) DEF Queued
<1>5. OnceEach(r)
  <2> SUFFICES ASSUME NEW m \in 1 .. Len(r), NEW n \in 1 .. Len(r), r[m] = r[n], r[m] # Start
               PROVE  m = n
    BY DEF OnceEach
  <2>1. CASE m \in 1 .. Len(s) /\ n \in 1 .. Len(s)
    BY <1>1, <2>1 DEF OnceEach
  <2>2. CASE m = Len(s) + 1 /\ n \in 1 .. Len(s)
    BY <1>1, <1>3, <2>2
  <2>3. CASE n = Len(s) + 1 /\ m \in 1 .. Len(s)
    BY <1>1, <1>3, <2>3
  <2> QED BY <1>2, <2>1, <2>2, <2>3
<1> QED BY <1>1, <1>4, <1>5 DEF r

\* How many starts are queued.
LEMMA StartsAreFinite ==
  ASSUME NEW s \in Seq(Callbacks)
  PROVE  IsFiniteSet(Starts(s)) /\ Cardinality(Starts(s)) \in Nat
<1>1. IsFiniteSet(1 .. Len(s))
  BY FS_Interval, LenProperties
<1>2. Starts(s) \in SUBSET (1 .. Len(s))
  BY DEF Starts
<1>3. IsFiniteSet(Starts(s))
  BY <1>1, <1>2, FS_Subset
<1> QED BY <1>3, FS_CardinalityType

LEMMA StartsAppended ==
  ASSUME NEW s \in Seq(Callbacks), NEW x \in Callbacks
  PROVE  Cardinality(Starts(Append(s, x))) = Cardinality(Starts(s)) + IF x = Start THEN 1 ELSE 0
<1> DEFINE r == Append(s, x)
           l == Len(s) + 1
<1>1. /\ Len(s) \in Nat /\ Len(r) = l /\ r[l] = x /\ \A n \in 1 .. Len(s) : r[n] = s[n]
  BY AppendProperties, LenProperties
<1>2. l \notin 1 .. Len(s) /\ 1 .. l = (1 .. Len(s)) \cup {l}
  BY <1>1
<1> HIDE DEF r, l
<1>3. CASE x = Start
  <2>1. Starts(r) = Starts(s) \cup {l} /\ l \notin Starts(s)
    BY <1>1, <1>2, <1>3 DEF Starts
  <2> QED BY <1>3, <2>1, StartsAreFinite, FS_AddElement DEF r
<1>4. CASE x # Start
  <2>1. Starts(r) = Starts(s)
    BY <1>1, <1>2, <1>4 DEF Starts
  <2> QED BY <1>4, <2>1, StartsAreFinite DEF r
<1> QED BY <1>3, <1>4

LEMMA StartsServed ==
  ASSUME NEW s \in Seq(Callbacks), s # << >>, NEW q \in Seq(Callbacks), Start \notin Queued(q)
  PROVE  Cardinality(Starts(Tail(s) \o q)) <= Cardinality(Starts(s)) - IF Head(s) = Start THEN 1 ELSE 0
<1> DEFINE r == Tail(s) \o q
           l == Len(s) - 1
           k == Len(q)
           left == Starts(s) \ {1}
           up == [n \in Starts(r) |-> n + 1]
<1>1. /\ r \in Seq(Callbacks) /\ l \in Nat /\ k \in Nat /\ Len(s) = l + 1 /\ Len(r) = l + k
      /\ \A n \in 1 .. l + k : r[n] = IF n <= l THEN s[n + 1] ELSE q[n - l]
  BY ServedElements
<1>2. Head(s) = s[1] /\ 1 \in 1 .. Len(s)
  BY <1>1
<1>3. IsFiniteSet(left) /\ Cardinality(left) = Cardinality(Starts(s)) - IF Head(s) = Start THEN 1 ELSE 0
  <2>1. 1 \in Starts(s) <=> Head(s) = Start
    BY <1>2 DEF Starts
  <2>2. /\ IsFiniteSet(left) /\ Cardinality(Starts(s)) \in Nat
        /\ Cardinality(left) = IF 1 \in Starts(s) THEN Cardinality(Starts(s)) - 1 ELSE Cardinality(Starts(s))
    BY StartsAreFinite, FS_RemoveElement
  <2> HIDE DEF left
  <2> QED BY <2>1, <2>2
<1> HIDE DEF r, l, k
<1>4. \A n \in Starts(r) : n \in 1 .. l /\ s[n + 1] = Start /\ n + 1 \in 1 .. Len(s) /\ n + 1 # 1 /\ n \in Int
  <2> SUFFICES ASSUME NEW n \in Starts(r)
               PROVE  n \in 1 .. l /\ s[n + 1] = Start /\ n + 1 \in 1 .. Len(s) /\ n + 1 # 1 /\ n \in Int
    OBVIOUS
  <2>1. n \in 1 .. l + k /\ r[n] = Start
    BY <1>1 DEF Starts
  <2>2. n <= l
    <3> SUFFICES ASSUME ~ (n <= l) PROVE FALSE
      OBVIOUS
    <3>1. n - l \in 1 .. Len(q)
      BY <1>1, <2>1 DEF k
    <3>2. r[n] = q[n - l]
      BY <1>1, <2>1
    <3> QED BY <2>1, <3>1, <3>2 DEF Queued
  <2>3. r[n] = s[n + 1]
    BY <1>1, <2>1, <2>2
  <2> QED BY <1>1, <2>1, <2>2, <2>3
<1>5. up \in Injection(Starts(r), left)
  <2>1. \A n \in Starts(r) : n + 1 \in left
    BY <1>4 DEF Starts
  <2>2. up \in [Starts(r) -> left]
    BY <2>1
  <2>3. \A m, n \in Starts(r) : up[m] = up[n] => m = n
    BY <1>4
  <2>4. DOMAIN up = Starts(r)
    OBVIOUS
  <2> HIDE DEF up, left
  <2> QED BY <2>2, <2>3, <2>4 DEF Injection, IsInjective
<1> HIDE DEF up
<1>6. Cardinality(Starts(r)) <= Cardinality(left)
  BY <1>3, <1>5, FS_Injection
<1> QED BY <1>3, <1>6 DEF r

\* Waking some threads puts a callback for each of them in the queue, and nothing else.
Wakes(woken) == [n \in 1 .. Len(SetToSeq(woken)) |-> Wake(SetToSeq(woken)[n])]

LEMMA WakesAreQueued ==
  ASSUME NEW woken \in SUBSET Callers
  PROVE  /\ Wakes(woken) \in Seq(Callbacks) /\ OnceEach(Wakes(woken))
         /\ \A x \in Queued(Wakes(woken)) : \E t \in woken : x = Wake(t)
<1> DEFINE k == Cardinality(woken)
           order == SetToSeq(woken)
<1>1. IsFiniteSet(woken)
  BY CallersAssumption, FS_Subset
<1>2. k \in Nat /\ ExistsBijection(1 .. k, woken)
  BY <1>1, FS_CardinalityType
<1>3. \E f \in [1 .. k -> woken] : IsInjective(f)
  BY <1>2 DEF ExistsBijection, Bijection, Injection
<1> HIDE DEF k
<1>4. order \in [1 .. k -> woken] /\ IsInjective(order)
  <2>1. order = CHOOSE f \in [1 .. k -> woken] : IsInjective(f)
    BY DEF SetToSeq, k
  <2> QED BY <1>3, <2>1
<1>5. order \in Seq(woken) /\ Len(order) \in Nat
  <2>1. order \in Seq(woken)
    BY <1>2, <1>4, SeqDef
  <2> QED BY <2>1, LenProperties
<1> HIDE DEF order
<1> DEFINE w == [n \in 1 .. Len(order) |-> Wake(order[n])]
<1>6. \A n \in 1 .. Len(order) : order[n] \in woken /\ Wake(order[n]) \in Callbacks
  <2> TAKE n \in 1 .. Len(order)
  <2>1. order[n] \in woken
    BY <1>5, ElementOfSeq
  <2> QED BY <2>1, CallbackFacts
<1>7. w \in Seq(Callbacks) /\ Len(w) = Len(order) /\ \A n \in 1 .. Len(w) : w[n] = Wake(order[n])
  <2>1. w \in [1 .. Len(order) -> Callbacks] /\ \A n \in 1 .. Len(order) : w[n] = Wake(order[n])
    BY <1>6
  <2>2. w \in Seq(Callbacks)
    BY <1>5, <2>1, SeqDef
  <2>3. DOMAIN w = 1 .. Len(w)
    BY <2>2, LenProperties
  <2> HIDE DEF w
  <2>4. Len(w) = Len(order)
    BY <1>5, <2>1, <2>2, <2>3
  <2> QED BY <2>1, <2>2, <2>4
<1> HIDE DEF w
<1>8. OnceEach(w)
  <2> SUFFICES ASSUME NEW m \in 1 .. Len(w), NEW n \in 1 .. Len(w), w[m] = w[n] PROVE m = n
    BY DEF OnceEach
  <2>1. order[m] = order[n]
    <3>1. Wake(order[m]) = Wake(order[n])
      BY <1>7
    <3> QED BY <3>1 DEF Wake
  <2>2. DOMAIN order = 1 .. Len(order)
    BY <1>5, LenProperties
  <2> QED BY <1>4, <1>7, <2>1, <2>2 DEF IsInjective
<1>9. \A x \in Queued(w) : \E t \in woken : x = Wake(t)
  BY <1>6, <1>7 DEF Queued
<1>10. Wakes(woken) = w
  BY DEF Wakes, order, w
<1> QED BY <1>7, <1>8, <1>9, <1>10

-----------------------------------------------------------------------------
(* The parts of the invariant. *)

Lives == {"none", "new", "turning", "asleep", "ended", "crashed"}
Calls == [at : {"out", "queued", "waiting", "woken"} \cup Verdicts, boots : BOOLEAN, watch : 0 .. MaxStarts,
          set : BOOLEAN]

EngineTypes ==
  /\ stopped \in BOOLEAN /\ failed \in BOOLEAN /\ wanted \in BOOLEAN
  /\ task \in [Tasks -> Lives]
  /\ starts \in 0 .. MaxStarts
  /\ current \in 0 .. starts /\ \A j \in Tasks : (task[j] = "none") = (j > current)
CallTypes == call \in [Callers -> Calls]
ThreadTypes ==
  /\ runner \in Callers \cup {NoOne, Main}
  /\ request \in [set : BOOLEAN, code : Requesters \cup {NoOne}]
  /\ asking \in [Requesters -> {"no", "code", "set", "done"}]
  /\ main \in [at : {"away", "waiting", "locking", "pumping"} \cup Leaving, code : Requesters \cup {NoOne}]

\* What concerns the threads that do not run the engine.
Apart == ThreadTypes /\ CodeInv /\ ExitCodeWasAsked

LEMMA Parts == EInv <=> EngineTypes /\ CallTypes /\ QueueInv /\ ExecutingMeansAlive /\ ToldInv /\ Apart
<1>1. TypeOK <=> EngineTypes /\ CallTypes /\ ThreadTypes
  BY DEF TypeOK, EngineTypes, CallTypes, ThreadTypes, Lives, Calls
<1> QED BY <1>1 DEF EInv, Apart

LEMMA PartsNext ==
  EInv' <=> EngineTypes' /\ CallTypes' /\ QueueInv' /\ ExecutingMeansAlive' /\ ToldInv' /\ Apart'
  BY Parts, PTL

LEMMA ApartKept ==
  ASSUME Apart, UNCHANGED threads, runner' \in Callers \cup {NoOne, Main}
  PROVE  Apart'
<1>1. ThreadTypes'
  BY DEF Apart, ThreadTypes, threads
<1>2. CodeInv'
  BY DEF Apart, CodeInv, threads
<1>3. ExitCodeWasAsked'
  BY DEF Apart, ExitCodeWasAsked, threads
<1> QED BY <1>1, <1>2, <1>3 DEF Apart

\* The numbers of callers in two sets of them.
LEMMA Counts ==
  ASSUME NEW S \in SUBSET Callers, NEW T \in SUBSET Callers
  PROVE  /\ Cardinality(S) \in Nat /\ Cardinality(T) \in Nat
         /\ S \subseteq T => Cardinality(S) <= Cardinality(T)
         /\ \A t : S \subseteq T \cup {t} => Cardinality(S) <= Cardinality(T) + 1
         /\ \A t \in T : S \subseteq T \ {t} => Cardinality(S) <= Cardinality(T) - 1
<1>1. IsFiniteSet(S) /\ IsFiniteSet(T)
  BY CallersAssumption, FS_Subset
<1>2. Cardinality(S) \in Nat /\ Cardinality(T) \in Nat
  BY <1>1, FS_CardinalityType
<1>3. S \subseteq T => Cardinality(S) <= Cardinality(T)
  BY <1>1, FS_Subset
<1>4. ASSUME NEW t, S \subseteq T \cup {t}
      PROVE  Cardinality(S) <= Cardinality(T) + 1
  <2>1. IsFiniteSet(T \cup {t}) /\ Cardinality(T \cup {t}) = IF t \in T THEN Cardinality(T) ELSE Cardinality(T) + 1
    BY <1>1, FS_AddElement
  <2>2. Cardinality(S) <= Cardinality(T \cup {t})
    BY <1>4, <2>1, FS_Subset
  <2> QED BY <1>2, <2>1, <2>2
<1>5. ASSUME NEW t \in T, S \subseteq T \ {t}
      PROVE  Cardinality(S) <= Cardinality(T) - 1
  <2>1. IsFiniteSet(T \ {t}) /\ Cardinality(T \ {t}) = Cardinality(T) - 1
    BY <1>1, FS_RemoveElement
  <2>2. Cardinality(S) <= Cardinality(T \ {t})
    BY <1>5, <2>1, FS_Subset
  <2> QED BY <1>2, <2>1, <2>2
<1> QED BY <1>2, <1>3, <1>4, <1>5

-----------------------------------------------------------------------------
(* The steps of threads that leave the queue alone. *)

LEMMA ApartKeeps ==
  ASSUME EInv, UNCHANGED <<failed, task, current, starts, ready, call>>,
         stopped' \in BOOLEAN, stopped => stopped', wanted' \in BOOLEAN, Apart'
  PROVE  EInv'
<1>1. EngineTypes /\ CallTypes /\ QueueInv /\ ExecutingMeansAlive /\ ToldInv
  BY Parts
<1>2. EngineTypes' /\ CallTypes'
  BY <1>1 DEF EngineTypes, CallTypes
<1>3. QueueInv'
  BY <1>1 DEF QueueInv, Booting
<1>4. ExecutingMeansAlive'
  BY <1>1 DEF ExecutingMeansAlive, EngineTypes
<1>5. ToldInv'
  BY <1>1 DEF ToldInv
<1> QED BY <1>2, <1>3, <1>4, <1>5, PartsNext

LEMMA StopKeeps ==
  ASSUME EInv, Stop
  PROVE  EInv'
<1>1. Apart /\ ThreadTypes
  BY Parts DEF Apart
<1>2. Apart'
  BY <1>1, ApartKept DEF Stop, threads, ThreadTypes
<1> QED BY <1>2, ApartKeeps, Parts DEF Stop, EngineTypes

LEMMA TakePumpKeeps ==
  ASSUME EInv, NEW t \in Callers, TakePump(t)
  PROVE  EInv'
<1>1. Apart
  BY Parts
<1>2. Apart'
  BY <1>1, ApartKept DEF TakePump
<1> QED BY <1>2, ApartKeeps, Parts DEF TakePump, engine, EngineTypes

LEMMA RequestKeeps ==
  ASSUME EInv, NEW r \in Requesters, Looks(r) \/ GivesCode(r) \/ Sets(r)
  PROVE  EInv'
<1>1. Apart /\ ThreadTypes /\ CodeInv /\ ExitCodeWasAsked /\ EngineTypes
  BY Parts DEF Apart
<1>2. NoOne \notin Requesters
  BY CallersAssumption
<1>3. CASE Looks(r)
  <2>1. ThreadTypes'
    BY <1>1, <1>3 DEF Looks, ThreadTypes
  <2>2. \A x \in Requesters : /\ asking[x] \in {"set", "done"} => asking'[x] \in {"set", "done"}
                              /\ asking'[x] = "set" => asking[x] = "set"
    BY <1>1, <1>3 DEF Looks, ThreadTypes
  <2>3. request' = request /\ main' = main
    BY <1>3 DEF Looks
  <2>4. CodeInv'
    BY <1>1, <2>2, <2>3 DEF CodeInv
  <2>5. ExitCodeWasAsked'
    BY <1>1, <2>2, <2>3 DEF ExitCodeWasAsked
  <2>6. Apart'
    BY <2>1, <2>4, <2>5 DEF Apart
  <2> QED BY <1>1, <1>3, <2>6, ApartKeeps DEF Looks, engine, EngineTypes
<1>4. CASE GivesCode(r)
  <2>1. ThreadTypes'
    BY <1>1, <1>4 DEF GivesCode, ThreadTypes
  <2>2. \A x \in Requesters : asking[x] \in {"set", "done"} => asking'[x] \in {"set", "done"}
    BY <1>1, <1>4 DEF GivesCode, ThreadTypes
  <2>3. request'.code = r /\ main' = main /\ asking'[r] = "set"
    BY <1>1, <1>4 DEF GivesCode, ThreadTypes
  <2>4. CodeInv'
    BY <2>3 DEF CodeInv
  <2>5. ExitCodeWasAsked'
    BY <1>1, <2>2, <2>3 DEF ExitCodeWasAsked
  <2>6. Apart'
    BY <2>1, <2>4, <2>5 DEF Apart
  <2> QED BY <1>1, <1>4, <2>6, ApartKeeps DEF GivesCode, engine, EngineTypes
<1>5. CASE Sets(r)
  <2>1. ThreadTypes'
    BY <1>1, <1>5 DEF Sets, ThreadTypes
  <2>2. \A x \in Requesters : /\ asking[x] \in {"set", "done"} => asking'[x] \in {"set", "done"}
                              /\ asking'[x] = "set" => asking[x] = "set"
    BY <1>1, <1>5 DEF Sets, ThreadTypes
  <2>3. request'.code = request.code /\ main' = main /\ asking[r] = "set"
    BY <1>1, <1>5 DEF Sets, ThreadTypes
  <2>4. CodeInv'
    BY <1>1, <2>2, <2>3 DEF CodeInv
  <2>5. ExitCodeWasAsked'
    BY <1>1, <2>2, <2>3 DEF ExitCodeWasAsked
  <2>6. Apart'
    BY <2>1, <2>4, <2>5 DEF Apart
  <2> QED BY <1>1, <1>5, <2>6, ApartKeeps DEF Sets, engine, EngineTypes
<1> QED BY <1>3, <1>4, <1>5

LEMMA MainKeeps ==
  ASSUME EInv, MainWaits \/ MainGoes \/ MainInterrupted
  PROVE  EInv'
<1>1. Apart /\ ThreadTypes /\ CodeInv /\ ExitCodeWasAsked /\ EngineTypes
  BY Parts DEF Apart
<1>2. /\ UNCHANGED NotMain /\ runner' \in Callers \cup {NoOne, Main}
      /\ stopped' \in BOOLEAN /\ wanted' \in BOOLEAN /\ (stopped => stopped')
      /\ main' \in [at : {"away", "waiting", "locking", "pumping"} \cup Leaving, code : Requesters \cup {NoOne}]
      /\ main'.at = "exited" => (main.at = "exited" /\ main' = main) \/ (request.set /\ main'.code = request.code)
  <2>1. CASE MainWaits
    BY <1>1, <2>1 DEF MainWaits, ThreadTypes, EngineTypes, NotMain
  <2>2. CASE MainPumps
    BY <1>1, <2>2 DEF MainPumps, ThreadTypes, EngineTypes, NotMain, Leaving
  <2>3. CASE MainLocks
    BY <1>1, <2>3 DEF MainLocks, ThreadTypes, EngineTypes, NotMain, Leaving
  <2>4. CASE MainUnlocks
    BY <1>1, <2>4 DEF MainUnlocks, ThreadTypes, EngineTypes, NotMain
  <2>5. CASE MainLeaves
    BY <1>1, <2>5 DEF MainLeaves, ThreadTypes, EngineTypes, NotMain, Leaving
  <2>6. CASE MainInterrupted
    BY <1>1, <2>6 DEF MainInterrupted, ThreadTypes, EngineTypes, NotMain, Leaving
  <2> QED BY <2>1, <2>2, <2>3, <2>4, <2>5, <2>6 DEF MainGoes
<1>3. request' = request /\ asking' = asking
  BY <1>2 DEF NotMain
<1>4. ThreadTypes'
  BY <1>1, <1>2, <1>3 DEF ThreadTypes
<1>5. CodeInv'
  BY <1>1, <1>3 DEF CodeInv
<1>6. ExitCodeWasAsked'
  BY <1>1, <1>2, <1>3 DEF ExitCodeWasAsked, CodeInv
<1>7. Apart'
  BY <1>4, <1>5, <1>6 DEF Apart
<1>8. UNCHANGED <<failed, task, current, starts, ready, call>>
  BY <1>2 DEF NotMain
<1> QED BY <1>2, <1>7, <1>8, ApartKeeps

-----------------------------------------------------------------------------
(* The steps of the calls and of the queue. *)

\* A call changes and nobody is told of an end: the answers given so far stay as they were.
LEMMA ToldKept ==
  ASSUME ToldInv, CallTypes, task' = task, failed' = failed,
         \A u \in Callers : call'[u].at = "ended" => call[u].at = "ended" /\ call'[u].watch = call[u].watch
  PROVE  ToldInv'
  BY DEF ToldInv

LEMMA StartExecutionKeeps ==
  ASSUME EInv, StartExecution
  PROVE  EInv'
<1>1. EngineTypes /\ CallTypes /\ QueueInv /\ ExecutingMeansAlive /\ ToldInv /\ Apart /\ ThreadTypes
  BY Parts DEF Apart
<1>2. EngineTypes' /\ CallTypes'
  BY <1>1, StartsAssumption DEF StartExecution, EngineTypes, CallTypes
<1>3. QueueInv'
  <2>1. ready \in Seq(Callbacks) /\ OnceEach(ready) /\ ready' = Append(ready, Start)
    BY <1>1 DEF QueueInv, StartExecution
  <2>2. /\ ready' \in Seq(Callbacks) /\ OnceEach(ready') /\ Queued(ready') = Queued(ready) \cup {Start}
        /\ Cardinality(Starts(ready')) = Cardinality(Starts(ready)) + 1
    BY <2>1, Appended, StartsAppended, CallbackFacts
  <2>3. /\ \A i \in Tasks : Step(i) # Start
        /\ \A t \in Callers : Begin(t) # Start /\ Wake(t) # Start
    BY CallbackFacts
  <2>4. Booting' = Booting
    BY DEF StartExecution, Booting
  <2>5. current' + Cardinality(Starts(ready')) + Cardinality(Booting') <= starts'
    <3>1. Cardinality(Starts(ready)) \in Nat /\ Cardinality(Booting) \in Nat
      BY <2>1, StartsAreFinite, Counts DEF Booting
    <3>2. current' = current /\ starts' = starts + 1 /\ current \in Int /\ starts \in Int
      BY <1>1 DEF StartExecution, EngineTypes
    <3>3. current + Cardinality(Starts(ready)) + Cardinality(Booting) <= starts
      BY <1>1 DEF QueueInv
    <3> QED BY <2>2, <2>4, <3>1, <3>2, <3>3
  <2>6. \A i \in Tasks : Step(i) \in Queued(ready') => task'[i] \in {"new", "turning"}
    BY <1>1, <2>2, <2>3 DEF QueueInv, StartExecution
  <2>7. \A t \in Callers : /\ Begin(t) \in Queued(ready') => call'[t].at = "queued"
                           /\ Wake(t) \in Queued(ready') => call'[t].at = "woken"
    BY <1>1, <2>2, <2>3 DEF QueueInv, StartExecution
  <2> QED BY <2>2, <2>5, <2>6, <2>7 DEF QueueInv
<1>4. ExecutingMeansAlive' /\ ToldInv'
  BY <1>1 DEF ExecutingMeansAlive, ToldInv, StartExecution
<1>5. Apart'
  BY <1>1, ApartKept DEF StartExecution, threads, ThreadTypes
<1> QED BY <1>2, <1>3, <1>4, <1>5, PartsNext

LEMMA CallKeeps ==
  ASSUME EInv, NEW t \in Callers, NEW boots \in BOOLEAN, Call(t, boots)
  PROVE  EInv'
<1>1. EngineTypes /\ CallTypes /\ QueueInv /\ ExecutingMeansAlive /\ ToldInv /\ Apart /\ ThreadTypes
  BY Parts DEF Apart
<1> DEFINE new == [Idle EXCEPT !.at = "queued", !.boots = boots]
<1>2. new \in Calls /\ new.at = "queued" /\ new.boots = boots
  <2>1. 0 \in 0 .. MaxStarts
    BY StartsAssumption
  <2> QED BY <2>1 DEF Idle, Calls
<1>3. call' = [call EXCEPT ![t] = new] /\ call[t].at = "out"
  BY DEF Call
<1> HIDE DEF new
<1>4. CallTypes' /\ call'[t] = new /\ \A u \in Callers \ {t} : call'[u] = call[u]
  BY <1>1, <1>2, <1>3 DEF CallTypes
<1>5. EngineTypes'
  BY <1>1, StartsAssumption DEF Call, EngineTypes
<1>6. QueueInv'
  <2>1. /\ ready \in Seq(Callbacks) /\ OnceEach(ready) /\ ready' = Append(ready, Begin(t))
        /\ Begin(t) \notin Queued(ready)
    BY <1>1, <1>3 DEF QueueInv, Call
  <2>2. /\ ready' \in Seq(Callbacks) /\ OnceEach(ready') /\ Queued(ready') = Queued(ready) \cup {Begin(t)}
        /\ Cardinality(Starts(ready')) = Cardinality(Starts(ready))
    <3>1. Begin(t) \in Callbacks /\ Begin(t) # Start
      BY CallbackFacts
    <3>2. Cardinality(Starts(ready)) \in Nat
      BY <2>1, StartsAreFinite
    <3> QED BY <2>1, <3>1, <3>2, Appended, StartsAppended
  <2>3. /\ \A i \in Tasks : Step(i) # Begin(t)
        /\ \A u \in Callers : Wake(u) # Begin(t) /\ (Begin(u) = Begin(t) => u = t)
    BY CallbackFacts
  <2>4. current' + Cardinality(Starts(ready')) + Cardinality(Booting') <= starts'
    <3>1. Cardinality(Starts(ready)) \in Nat
      BY <2>1, StartsAreFinite
    <3>2. Cardinality(Booting) \in Nat /\ Cardinality(Booting') \in Nat
          /\ Cardinality(Booting') <= Cardinality(Booting) + IF boots THEN 1 ELSE 0
      <4>1. Booting \in SUBSET Callers /\ Booting' \in SUBSET Callers
        BY DEF Booting
      <4>2. Booting' \subseteq Booting \cup {t} /\ (~ boots => Booting' \subseteq Booting)
        BY <1>2, <1>4 DEF Booting
      <4> HIDE DEF Booting
      <4>3. CASE boots
        BY <4>1, <4>2, <4>3, Counts
      <4>4. CASE ~ boots
        BY <4>1, <4>2, <4>4, Counts
      <4> QED BY <4>3, <4>4
    <3>3. current' = current /\ starts' = starts + (IF boots THEN 1 ELSE 0) /\ current \in Int /\ starts \in Int
      BY <1>1 DEF Call, EngineTypes
    <3>4. current + Cardinality(Starts(ready)) + Cardinality(Booting) <= starts
      BY <1>1 DEF QueueInv
    <3> QED BY <2>2, <3>1, <3>2, <3>3, <3>4
  <2>5. \A i \in Tasks : Step(i) \in Queued(ready') => task'[i] \in {"new", "turning"}
    BY <1>1, <2>2, <2>3 DEF QueueInv, Call
  <2>6. \A u \in Callers : /\ Begin(u) \in Queued(ready') => call'[u].at = "queued"
                           /\ Wake(u) \in Queued(ready') => call'[u].at = "woken"
    BY <1>1, <1>2, <1>3, <1>4, <2>2, <2>3 DEF QueueInv
  <2> QED BY <2>2, <2>4, <2>5, <2>6 DEF QueueInv
<1>7. ExecutingMeansAlive'
  BY <1>1 DEF ExecutingMeansAlive, Call
<1>8. ToldInv'
  BY <1>1, <1>2, <1>4, ToldKept DEF Call
<1>9. Apart'
  BY <1>1, ApartKept DEF Call, threads, ThreadTypes
<1> QED BY <1>4, <1>5, <1>6, <1>7, <1>8, <1>9, PartsNext

\* A call changes that is not queued any more, nor becomes so: no more starts are to come.
LEMMA BootingShrinks ==
  ASSUME NEW t \in Callers, call'[t].at # "queued" \/ ~ call'[t].boots, \A u \in Callers \ {t} : call'[u] = call[u]
  PROVE  /\ Cardinality(Booting) \in Nat /\ Cardinality(Booting') \in Nat
         /\ Cardinality(Booting') <= Cardinality(Booting)
         /\ t \in Booting => Cardinality(Booting') <= Cardinality(Booting) - 1
<1>1. Booting \in SUBSET Callers /\ Booting' \in SUBSET Callers
  BY DEF Booting
<1>2. Booting' \subseteq Booting /\ Booting' \subseteq Booting \ {t}
  BY DEF Booting
<1> HIDE DEF Booting
<1> QED BY <1>1, <1>2, Counts

LEMMA ReturnKeeps ==
  ASSUME EInv, NEW t \in Callers, Return(t)
  PROVE  EInv'
<1>1. EngineTypes /\ CallTypes /\ QueueInv /\ ExecutingMeansAlive /\ ToldInv /\ Apart /\ ThreadTypes
  BY Parts DEF Apart
<1>2. Idle \in Calls /\ Idle.at = "out"
  <2>1. 0 \in 0 .. MaxStarts
    BY StartsAssumption
  <2> QED BY <2>1 DEF Idle, Calls
<1>3. call' = [call EXCEPT ![t] = Idle] /\ call[t].at \in Verdicts /\ ready' = ready
  BY DEF Return, Answered
<1>4. CallTypes' /\ call'[t] = Idle /\ \A u \in Callers \ {t} : call'[u] = call[u]
  BY <1>1, <1>2, <1>3 DEF CallTypes
<1>5. EngineTypes'
  BY <1>1 DEF Return, engine, EngineTypes
<1>6. QueueInv'
  <2>1. Begin(t) \notin Queued(ready) /\ Wake(t) \notin Queued(ready)
    BY <1>1, <1>3 DEF QueueInv, Verdicts
  <2>2. current' + Cardinality(Starts(ready')) + Cardinality(Booting') <= starts'
    <3>1. /\ Cardinality(Booting) \in Nat /\ Cardinality(Booting') \in Nat
          /\ Cardinality(Booting') <= Cardinality(Booting)
      BY <1>2, <1>4, BootingShrinks
    <3>2. Cardinality(Starts(ready)) \in Nat
      BY <1>1, StartsAreFinite DEF QueueInv
    <3>3. current' = current /\ starts' = starts /\ current \in Int /\ starts \in Int
      BY <1>1 DEF Return, engine, EngineTypes
    <3>4. current + Cardinality(Starts(ready)) + Cardinality(Booting) <= starts
      BY <1>1 DEF QueueInv
    <3> QED BY <1>3, <3>1, <3>2, <3>3, <3>4
  <2>3. task' = task
    BY DEF Return, engine
  <2>4. \A u \in Callers : /\ Begin(u) \in Queued(ready') => call'[u].at = "queued"
                           /\ Wake(u) \in Queued(ready') => call'[u].at = "woken"
    BY <1>1, <1>3, <1>4, <2>1 DEF QueueInv
  <2> QED BY <1>1, <1>3, <2>2, <2>3, <2>4 DEF QueueInv
<1>7. ExecutingMeansAlive'
  BY <1>1 DEF ExecutingMeansAlive, Return, engine
<1>8. ToldInv'
  BY <1>1, <1>2, <1>4, ToldKept DEF Return, engine
<1>9. Apart'
  <2>1. runner' \in Callers \cup {NoOne, Main}
    BY <1>1 DEF Return, ThreadTypes
  <2> QED BY <1>1, <2>1, ApartKept DEF Return
<1> QED BY <1>4, <1>5, <1>6, <1>7, <1>8, <1>9, PartsNext

LEMMA ExpiresKeeps ==
  ASSUME EInv, NEW t \in Callers, Expires(t)
  PROVE  EInv'
<1>1. EngineTypes /\ CallTypes /\ QueueInv /\ ExecutingMeansAlive /\ ToldInv /\ Apart /\ ThreadTypes
  BY Parts DEF Apart
<1>2. call' = [call EXCEPT ![t].at = "woken"] /\ call[t].at = "waiting" /\ ready' = Append(ready, Wake(t))
  BY DEF Expires
<1>3. CallTypes' /\ call'[t].at = "woken" /\ \A u \in Callers \ {t} : call'[u] = call[u]
  BY <1>1, <1>2 DEF CallTypes, Calls
<1>4. EngineTypes'
  BY <1>1 DEF Expires, engine, EngineTypes
<1>5. QueueInv'
  <2>1. /\ ready \in Seq(Callbacks) /\ OnceEach(ready)
        /\ Wake(t) \notin Queued(ready) /\ Begin(t) \notin Queued(ready)
    BY <1>1, <1>2 DEF QueueInv
  <2>2. /\ ready' \in Seq(Callbacks) /\ OnceEach(ready') /\ Queued(ready') = Queued(ready) \cup {Wake(t)}
        /\ Cardinality(Starts(ready')) = Cardinality(Starts(ready))
    <3>1. Wake(t) \in Callbacks /\ Wake(t) # Start
      BY CallbackFacts
    <3>2. Cardinality(Starts(ready)) \in Nat
      BY <2>1, StartsAreFinite
    <3> QED BY <1>2, <2>1, <3>1, <3>2, Appended, StartsAppended
  <2>3. /\ \A i \in Tasks : Step(i) # Wake(t)
        /\ \A u \in Callers : Begin(u) # Wake(t) /\ (Wake(u) = Wake(t) => u = t)
    BY CallbackFacts
  <2>4. current' + Cardinality(Starts(ready')) + Cardinality(Booting') <= starts'
    <3>1. /\ Cardinality(Booting) \in Nat /\ Cardinality(Booting') \in Nat
          /\ Cardinality(Booting') <= Cardinality(Booting)
      BY <1>3, BootingShrinks
    <3>2. Cardinality(Starts(ready)) \in Nat
      BY <2>1, StartsAreFinite
    <3>3. current' = current /\ starts' = starts /\ current \in Int /\ starts \in Int
      BY <1>1 DEF Expires, engine, EngineTypes
    <3>4. current + Cardinality(Starts(ready)) + Cardinality(Booting) <= starts
      BY <1>1 DEF QueueInv
    <3> QED BY <2>2, <3>1, <3>2, <3>3, <3>4
  <2>5. \A i \in Tasks : Step(i) \in Queued(ready') => task'[i] \in {"new", "turning"}
    BY <1>1, <2>2, <2>3 DEF QueueInv, Expires, engine
  <2>6. \A u \in Callers : /\ Begin(u) \in Queued(ready') => call'[u].at = "queued"
                           /\ Wake(u) \in Queued(ready') => call'[u].at = "woken"
    BY <1>1, <1>3, <2>1, <2>2, <2>3 DEF QueueInv
  <2> QED BY <2>2, <2>4, <2>5, <2>6 DEF QueueInv
<1>6. ExecutingMeansAlive'
  BY <1>1 DEF ExecutingMeansAlive, Expires, engine
<1>7. ToldInv'
  BY <1>1, <1>3, ToldKept DEF Expires, engine
<1>8. Apart'
  BY <1>1, ApartKept DEF Expires, ThreadTypes
<1> QED BY <1>3, <1>4, <1>5, <1>6, <1>7, <1>8, PartsNext

\* The head of the queue is served and wakes nobody.
LEMMA Dequeued ==
  ASSUME QueueInv, ready # << >>
  PROVE  /\ Tail(ready) \in Seq(Callbacks) /\ OnceEach(Tail(ready))
         /\ Head(ready) \in Queued(ready)
         /\ \A x \in Queued(Tail(ready)) : x \in Queued(ready) /\ (x = Head(ready) => x = Start)
         /\ Cardinality(Starts(ready)) \in Nat /\ Cardinality(Starts(Tail(ready))) \in Nat
         /\ Cardinality(Starts(Tail(ready))) <= Cardinality(Starts(ready)) - IF Head(ready) = Start THEN 1 ELSE 0
<1>1. ready \in Seq(Callbacks) /\ OnceEach(ready)
  BY DEF QueueInv
<1>2. << >> \in Seq(Callbacks) /\ OnceEach(<< >>) /\ Queued(<< >>) = {}
  BY DEF OnceEach, Queued
<1>3. Tail(ready) \in Seq(Callbacks) /\ Tail(ready) \o << >> = Tail(ready)
  BY <1>1, HeadTailProperties, ConcatEmptySeq
<1>4. /\ OnceEach(Tail(ready))
      /\ \A x \in Queued(Tail(ready)) : x \in Queued(ready) /\ (x = Head(ready) => x = Start)
  BY <1>1, <1>2, <1>3, Served
<1>5. Cardinality(Starts(Tail(ready))) <= Cardinality(Starts(ready)) - IF Head(ready) = Start THEN 1 ELSE 0
  BY <1>1, <1>2, <1>3, StartsServed
<1>6. Head(ready) \in Queued(ready)
  <2>1. Len(ready) \in Nat /\ Len(ready) >= 1 /\ Head(ready) = ready[1]
    BY <1>1, EmptySeq
  <2> QED BY <2>1 DEF Queued
<1> QED BY <1>1, <1>3, <1>4, <1>5, <1>6, StartsAreFinite

LEMMA SleepOverKeeps ==
  ASSUME EInv, NEW i \in Tasks, SleepOver(i)
  PROVE  EInv'
<1>1. EngineTypes /\ CallTypes /\ QueueInv /\ ExecutingMeansAlive /\ ToldInv /\ Apart /\ ThreadTypes
  BY Parts DEF Apart
<1>2. task' = [task EXCEPT ![i] = "turning"] /\ task[i] = "asleep" /\ ready' = Append(ready, Step(i))
  BY DEF SleepOver
<1>3. /\ task' \in [Tasks -> Lives] /\ task'[i] = "turning" /\ \A j \in Tasks \ {i} : task'[j] = task[j]
  BY <1>1, <1>2 DEF EngineTypes, Lives
<1>4. EngineTypes' /\ CallTypes'
  <2>1. \A j \in Tasks : (task'[j] = "none") = (j > current)
    BY <1>1, <1>2, <1>3 DEF EngineTypes
  <2>2. UNCHANGED <<stopped, failed, current, starts, wanted, call>>
    BY DEF SleepOver
  <2> QED BY <1>1, <1>3, <2>1, <2>2 DEF EngineTypes, CallTypes
<1>5. QueueInv'
  <2>1. /\ ready \in Seq(Callbacks) /\ OnceEach(ready) /\ Step(i) \notin Queued(ready)
    BY <1>1, <1>2 DEF QueueInv
  <2>2. /\ ready' \in Seq(Callbacks) /\ OnceEach(ready') /\ Queued(ready') = Queued(ready) \cup {Step(i)}
        /\ Cardinality(Starts(ready')) = Cardinality(Starts(ready))
    <3>1. Step(i) \in Callbacks /\ Step(i) # Start
      BY CallbackFacts
    <3>2. Cardinality(Starts(ready)) \in Nat
      BY <2>1, StartsAreFinite
    <3> QED BY <1>2, <2>1, <3>1, <3>2, Appended, StartsAppended
  <2>3. /\ \A j \in Tasks : Step(j) = Step(i) => j = i
        /\ \A u \in Callers : Begin(u) # Step(i) /\ Wake(u) # Step(i)
    BY CallbackFacts
  <2>4. \A j \in Tasks : Step(j) \in Queued(ready') => task'[j] \in {"new", "turning"}
    BY <1>1, <1>3, <2>2, <2>3 DEF QueueInv
  <2>5. UNCHANGED <<call, current, starts>> /\ Booting' = Booting
    BY DEF SleepOver, Booting
  <2> QED BY <1>1, <2>2, <2>3, <2>4, <2>5 DEF QueueInv
<1>6. ExecutingMeansAlive'
  BY <1>3 DEF ExecutingMeansAlive
<1>7. ToldInv'
  <2>1. UNCHANGED <<call, failed>>
    BY DEF SleepOver
  <2> QED BY <1>1, <1>2, <1>3, <2>1 DEF ToldInv
<1>8. Apart'
  BY <1>1, ApartKept DEF SleepOver, ThreadTypes
<1> QED BY <1>4, <1>5, <1>6, <1>7, <1>8, PartsNext

LEMMA StartedKeeps ==
  ASSUME EInv, Started
  PROVE  EInv'
<1> DEFINE i == current + 1
<1>1. EngineTypes /\ CallTypes /\ QueueInv /\ ExecutingMeansAlive /\ ToldInv /\ Apart /\ ThreadTypes
  BY Parts DEF Apart
<1>2. /\ ready # << >> /\ Head(ready) = Start
      /\ current' = i /\ task' = [task EXCEPT ![i] = "new"] /\ ready' = Append(Tail(ready), Step(i))
      /\ UNCHANGED <<stopped, failed, starts, wanted, runner, call, threads>>
  BY DEF Started, Turn
<1>3. current \in Nat /\ starts \in Nat /\ starts <= MaxStarts /\ MaxStarts \in Nat
  BY <1>1, StartsAssumption DEF EngineTypes
<1>4. /\ Tail(ready) \in Seq(Callbacks) /\ OnceEach(Tail(ready))
      /\ \A x \in Queued(Tail(ready)) : x \in Queued(ready)
      /\ Cardinality(Starts(ready)) \in Nat /\ Cardinality(Starts(Tail(ready))) \in Nat
      /\ Cardinality(Starts(Tail(ready))) <= Cardinality(Starts(ready)) - 1
  BY <1>1, <1>2, Dequeued
<1>5. current + Cardinality(Starts(ready)) + Cardinality(Booting) <= starts /\ Cardinality(Booting) \in Nat
  BY <1>1, Counts DEF QueueInv, Booting
<1>6. i \in Tasks /\ i <= starts
  BY <1>3, <1>4, <1>5 DEF Tasks
<1> HIDE DEF i
<1>7. task[i] = "none"
  BY <1>1, <1>3, <1>6 DEF EngineTypes, i
<1>8. /\ task' \in [Tasks -> Lives] /\ task'[i] = "new" /\ \A j \in Tasks \ {i} : task'[j] = task[j]
  BY <1>1, <1>2, <1>6 DEF EngineTypes, Lives
<1>9. EngineTypes' /\ CallTypes'
  <2>1. \A j \in Tasks : (task'[j] = "none") = (j > i)
    <3> TAKE j \in Tasks
    <3>1. j \in Int /\ (task[j] = "none") = (j > current)
      BY <1>1 DEF EngineTypes, Tasks
    <3>2. CASE j = i
      BY <1>3, <1>8, <3>2 DEF i
    <3>3. CASE j # i
      BY <1>3, <1>8, <3>1, <3>3 DEF i
    <3> QED BY <3>2, <3>3
  <2>2. i \in 0 .. starts
    BY <1>3, <1>6 DEF i
  <2> QED BY <1>1, <1>2, <1>8, <2>1, <2>2 DEF EngineTypes, CallTypes
<1>10. QueueInv'
  <2>1. Step(i) \notin Queued(ready) /\ Step(i) \notin Queued(Tail(ready))
    BY <1>1, <1>4, <1>6, <1>7 DEF QueueInv
  <2>2. /\ ready' \in Seq(Callbacks) /\ OnceEach(ready') /\ Queued(ready') = Queued(Tail(ready)) \cup {Step(i)}
        /\ Cardinality(Starts(ready')) = Cardinality(Starts(Tail(ready)))
    <3>1. Step(i) \in Callbacks /\ Step(i) # Start
      BY <1>6, CallbackFacts
    <3>2. Cardinality(Starts(ready')) = Cardinality(Starts(Tail(ready)))
      <4> DEFINE q == Tail(ready)
                 x == Step(i)
      <4>1. q \in Seq(Callbacks) /\ x \in Callbacks /\ x # Start /\ Cardinality(Starts(q)) \in Nat
        BY <1>4, <3>1
      <4>2. ready' = Append(q, x)
        BY <1>2
      <4> HIDE DEF q, x
      <4>3. Cardinality(Starts(ready')) = Cardinality(Starts(q)) + IF x = Start THEN 1 ELSE 0
        BY <4>1, <4>2, StartsAppended
      <4>4. Cardinality(Starts(ready')) = Cardinality(Starts(q))
        BY <4>1, <4>3
      <4> QED BY <4>4 DEF q
    <3> QED BY <1>2, <1>4, <2>1, <3>1, <3>2, Appended
  <2>3. /\ \A j \in Tasks : Step(j) = Step(i) => j = i
        /\ \A u \in Callers : Begin(u) # Step(i) /\ Wake(u) # Step(i)
    BY CallbackFacts
  <2>4. \A j \in Tasks : Step(j) \in Queued(ready') => task'[j] \in {"new", "turning"}
    BY <1>1, <1>4, <1>8, <2>2, <2>3 DEF QueueInv
  <2>5. Booting' = Booting
    BY <1>2 DEF Booting
  <2>6. current' + Cardinality(Starts(ready')) + Cardinality(Booting') <= starts'
    BY <1>2, <1>3, <1>4, <1>5, <2>2, <2>5 DEF i
  <2>7. \A u \in Callers : /\ Begin(u) \in Queued(ready') => call'[u].at = "queued"
                           /\ Wake(u) \in Queued(ready') => call'[u].at = "woken"
    BY <1>1, <1>2, <1>4, <2>2, <2>3 DEF QueueInv
  <2> QED BY <2>2, <2>4, <2>6, <2>7 DEF QueueInv
<1>11. ExecutingMeansAlive'
  BY <1>1, <1>2, <1>7, <1>8 DEF ExecutingMeansAlive
<1>12. ToldInv'
  BY <1>1, <1>2, <1>7, <1>8 DEF ToldInv
<1>13. Apart'
  BY <1>1, <1>2, ApartKept DEF ThreadTypes
<1> QED BY <1>9, <1>10, <1>11, <1>12, <1>13, PartsNext

LEMMA AnswersKeeps ==
  ASSUME EInv, NEW t \in Callers, Answers(t)
  PROVE  EInv'
<1> DEFINE v == Verdict(t)
<1>1. EngineTypes /\ CallTypes /\ QueueInv /\ ExecutingMeansAlive /\ ToldInv /\ Apart /\ ThreadTypes
  BY Parts DEF Apart
<1>2. /\ ready # << >> /\ Head(ready) = Wake(t)
      /\ call' = [call EXCEPT ![t].at = v] /\ ready' = Tail(ready)
      /\ UNCHANGED <<engine, runner, threads>>
  BY DEF Answers, Turn
<1>3. v \in Verdicts
  BY DEF Verdict, Verdicts
<1>4. v = "ended" => call[t].watch \in Tasks /\ task[call[t].watch] = "ended"
  <2> SUFFICES ASSUME v = "ended" PROVE call[t].watch \in Tasks /\ task[call[t].watch] = "ended"
    OBVIOUS
  <2>1. call[t].watch # 0 /\ Over(call[t].watch) /\ ~ failed
    BY DEF Verdict
  <2>2. call[t].watch \in Tasks
    BY <1>1, <2>1, StartsAssumption DEF CallTypes, Calls, Tasks
  <2> QED BY <1>1, <2>1, <2>2 DEF ToldInv, Over
<1> HIDE DEF v
<1>5. /\ CallTypes' /\ call'[t].at = v /\ call'[t].watch = call[t].watch
      /\ \A u \in Callers \ {t} : call'[u] = call[u]
  BY <1>1, <1>2, <1>3 DEF CallTypes, Calls
<1>6. EngineTypes'
  BY <1>1, <1>2 DEF engine, EngineTypes
<1>7. QueueInv'
  <2>1. /\ Tail(ready) \in Seq(Callbacks) /\ OnceEach(Tail(ready))
        /\ \A x \in Queued(Tail(ready)) : x \in Queued(ready) /\ (x = Head(ready) => x = Start)
        /\ Head(ready) \in Queued(ready)
        /\ Cardinality(Starts(ready)) \in Nat /\ Cardinality(Starts(Tail(ready))) \in Nat
        /\ Cardinality(Starts(Tail(ready))) <= Cardinality(Starts(ready))
    <3>1. Head(ready) # Start
      BY <1>2, CallbackFacts
    <3> QED BY <1>1, <1>2, <3>1, Dequeued
  <2>2. call[t].at = "woken" /\ Begin(t) \notin Queued(ready) /\ Wake(t) \notin Queued(Tail(ready))
    <3>1. call[t].at = "woken"
      BY <1>1, <1>2, <2>1 DEF QueueInv
    <3>2. Wake(t) # Start
      BY CallbackFacts
    <3> QED BY <1>1, <1>2, <2>1, <3>1, <3>2 DEF QueueInv
  <2>3. current' + Cardinality(Starts(ready')) + Cardinality(Booting') <= starts'
    <3>1. /\ Cardinality(Booting) \in Nat /\ Cardinality(Booting') \in Nat
          /\ Cardinality(Booting') <= Cardinality(Booting)
      <4>1. call'[t].at # "queued"
        BY <1>3, <1>5 DEF Verdicts
      <4> QED BY <1>5, <4>1, BootingShrinks
    <3>2. current' = current /\ starts' = starts /\ current \in Int /\ starts \in Int
      BY <1>1, <1>2 DEF engine, EngineTypes
    <3>3. current + Cardinality(Starts(ready)) + Cardinality(Booting) <= starts
      BY <1>1 DEF QueueInv
    <3> QED BY <1>2, <2>1, <3>1, <3>2, <3>3
  <2>4. task' = task
    BY <1>2 DEF engine
  <2>5. \A u \in Callers : /\ Begin(u) \in Queued(ready') => call'[u].at = "queued"
                           /\ Wake(u) \in Queued(ready') => call'[u].at = "woken"
    BY <1>1, <1>2, <1>5, <2>1, <2>2 DEF QueueInv
  <2> QED BY <1>1, <1>2, <2>1, <2>3, <2>4, <2>5 DEF QueueInv
<1>8. ExecutingMeansAlive'
  BY <1>1, <1>2 DEF ExecutingMeansAlive, engine
<1>9. ToldInv'
  BY <1>1, <1>2, <1>4, <1>5 DEF ToldInv, engine
<1>10. Apart'
  BY <1>1, <1>2, ApartKept DEF ThreadTypes
<1> QED BY <1>5, <1>6, <1>7, <1>8, <1>9, <1>10, PartsNext

LEMMA BeginsKeeps ==
  ASSUME EInv, NEW t \in Callers, Begins(t)
  PROVE  EInv'
<1> DEFINE over == current # 0 /\ Over(current)
           a == IF call[t].boots THEN Append(Tail(ready), Start) ELSE Tail(ready)
           b == IF over THEN Append(a, Wake(t)) ELSE a
<1>1. EngineTypes /\ CallTypes /\ QueueInv /\ ExecutingMeansAlive /\ ToldInv /\ Apart /\ ThreadTypes
  BY Parts DEF Apart
<1>2. /\ ready # << >> /\ Head(ready) = Begin(t)
      /\ call' = [call EXCEPT ![t].at = IF over THEN "woken" ELSE "waiting", ![t].watch = current]
      /\ ready' = Tail(ready) \o (IF call[t].boots THEN <<Start>> ELSE <<>>) \o (IF over THEN <<Wake(t)>> ELSE <<>>)
      /\ wanted' = (wanted \/ call[t].boots)
      /\ UNCHANGED <<stopped, failed, task, current, starts, runner, threads>>
  BY DEF Begins, Turn, Watching
<1>3. /\ Tail(ready) \in Seq(Callbacks) /\ OnceEach(Tail(ready))
      /\ \A x \in Queued(Tail(ready)) : x \in Queued(ready) /\ (x = Head(ready) => x = Start)
      /\ Head(ready) \in Queued(ready)
      /\ Cardinality(Starts(ready)) \in Nat /\ Cardinality(Starts(Tail(ready))) \in Nat
      /\ Cardinality(Starts(Tail(ready))) <= Cardinality(Starts(ready))
  <2>1. Head(ready) # Start
    BY <1>2, CallbackFacts
  <2> QED BY <1>1, <1>2, <2>1, Dequeued
<1>4. call[t].at = "queued" /\ call[t].boots \in BOOLEAN /\ Begin(t) \notin Queued(Tail(ready)) /\ Wake(t) \notin Queued(ready)
  <2>1. call[t].at = "queued"
    BY <1>1, <1>2, <1>3 DEF QueueInv
  <2>2. Begin(t) # Start
    BY CallbackFacts
  <2>3. call[t].boots \in BOOLEAN
    BY <1>1 DEF CallTypes, Calls
  <2> QED BY <1>1, <1>2, <1>3, <2>1, <2>2, <2>3 DEF QueueInv
<1>5. /\ a \in Seq(Callbacks) /\ OnceEach(a) /\ Queued(a) \subseteq Queued(Tail(ready)) \cup {Start}
      /\ Cardinality(Starts(a)) = Cardinality(Starts(Tail(ready))) + IF call[t].boots THEN 1 ELSE 0
  <2>1. CASE call[t].boots
    <3>1. a = Append(Tail(ready), Start)
      BY <2>1
    <3> HIDE DEF a
    <3>2. Cardinality(Starts(a)) = Cardinality(Starts(Tail(ready))) + 1
      BY <1>3, <3>1, StartsAppended, CallbackFacts
    <3>3. a \in Seq(Callbacks) /\ OnceEach(a) /\ Queued(a) = Queued(Tail(ready)) \cup {Start}
      BY <1>3, <3>1, Appended, CallbackFacts
    <3> QED BY <2>1, <3>2, <3>3
  <2>2. CASE ~ call[t].boots
    <3>1. a = Tail(ready)
      BY <2>2
    <3> HIDE DEF a
    <3> QED BY <1>3, <2>2, <3>1
  <2> QED BY <2>1, <2>2
<1>6. ready' = b
  <2>1. Tail(ready) \o <<Start>> = Append(Tail(ready), Start)
    BY <1>3, AppendIsConcat, CallbackFacts
  <2>2. Tail(ready) \o << >> = Tail(ready)
    BY <1>3, ConcatEmptySeq
  <2>3. Tail(ready) \o (IF call[t].boots THEN <<Start>> ELSE <<>>) = a
    BY <2>1, <2>2
  <2> HIDE DEF a
  <2>4. a \o <<Wake(t)>> = Append(a, Wake(t))
    BY <1>5, AppendIsConcat, CallbackFacts
  <2>5. a \o << >> = a
    BY <1>5, ConcatEmptySeq
  <2>6. ready' = a \o (IF over THEN <<Wake(t)>> ELSE <<>>)
    BY <1>2, <2>3
  <2> QED BY <2>4, <2>5, <2>6
<1> HIDE DEF a
<1>7. /\ ready' \in Seq(Callbacks) /\ OnceEach(ready')
      /\ \A x \in Queued(ready') : x \in Queued(Tail(ready)) \/ x = Start \/ (over /\ x = Wake(t))
      /\ Cardinality(Starts(ready')) = Cardinality(Starts(a))
  <2>1. CASE over
    <3>1. ready' = Append(a, Wake(t))
      BY <1>6, <2>1
    <3>2. Wake(t) \in Callbacks /\ Wake(t) # Start
      BY CallbackFacts
    <3>3. Wake(t) \notin Queued(a)
      BY <1>3, <1>4, <1>5, <3>2
    <3>4. Cardinality(Starts(ready')) = Cardinality(Starts(a))
      <4>1. Cardinality(Starts(a)) \in Nat
        BY <1>5, StartsAreFinite
      <4> QED BY <1>5, <3>1, <3>2, <4>1, StartsAppended
    <3>5. ready' \in Seq(Callbacks) /\ OnceEach(ready') /\ Queued(ready') = Queued(a) \cup {Wake(t)}
      BY <1>5, <3>1, <3>2, <3>3, Appended
    <3> QED BY <1>5, <2>1, <3>4, <3>5
  <2>2. CASE ~ over
    <3>1. ready' = a
      BY <1>6, <2>2
    <3> QED BY <1>5, <3>1
  <2> QED BY <2>1, <2>2
<1> HIDE DEF over
<1>8. /\ CallTypes' /\ call'[t].at = (IF over THEN "woken" ELSE "waiting")
      /\ \A u \in Callers \ {t} : call'[u] = call[u]
  <2>1. current \in 0 .. MaxStarts
    BY <1>1, StartsAssumption DEF EngineTypes
  <2> QED BY <1>1, <1>2, <2>1, ZenonT(30) DEF CallTypes, Calls
<1>9. EngineTypes'
  BY <1>1, <1>2, <1>4 DEF EngineTypes
<1>10. QueueInv'
  <2>1. current' + Cardinality(Starts(ready')) + Cardinality(Booting') <= starts'
    <3>1. /\ Cardinality(Booting) \in Nat /\ Cardinality(Booting') \in Nat
          /\ Cardinality(Booting') <= Cardinality(Booting) - IF call[t].boots THEN 1 ELSE 0
      <4>1. call'[t].at # "queued"
        BY <1>8
      <4>2. call[t].boots => t \in Booting
        BY <1>4 DEF Booting
      <4> QED BY <1>8, <4>1, <4>2, BootingShrinks
    <3>2. current' = current /\ starts' = starts /\ current \in Int /\ starts \in Int
      BY <1>1, <1>2 DEF EngineTypes
    <3>3. current + Cardinality(Starts(ready)) + Cardinality(Booting) <= starts
      BY <1>1 DEF QueueInv
    <3>4. Cardinality(Starts(ready')) = Cardinality(Starts(Tail(ready))) + IF call[t].boots THEN 1 ELSE 0
      BY <1>5, <1>7
    <3>5. CASE call[t].boots
      BY <1>3, <3>1, <3>2, <3>3, <3>4, <3>5
    <3>6. CASE ~ call[t].boots
      BY <1>3, <3>1, <3>2, <3>3, <3>4, <3>6
    <3> QED BY <3>5, <3>6
  <2>2. /\ \A i \in Tasks : Step(i) # Start /\ Step(i) # Wake(t)
        /\ \A u \in Callers : /\ Begin(u) # Start /\ Begin(u) # Wake(t)
                              /\ Wake(u) # Start /\ (Wake(u) = Wake(t) => u = t)
    BY CallbackFacts
  <2>3. \A i \in Tasks : Step(i) \in Queued(ready') => task'[i] \in {"new", "turning"}
    BY <1>1, <1>2, <1>3, <1>7, <2>2 DEF QueueInv
  <2>4. \A u \in Callers : /\ Begin(u) \in Queued(ready') => call'[u].at = "queued"
                           /\ Wake(u) \in Queued(ready') => call'[u].at = "woken"
    BY <1>1, <1>3, <1>4, <1>7, <1>8, <2>2 DEF QueueInv
  <2> QED BY <1>7, <2>1, <2>3, <2>4 DEF QueueInv
<1>11. ExecutingMeansAlive'
  BY <1>1, <1>2 DEF ExecutingMeansAlive
<1>12. ToldInv'
  <2>1. ToldInv /\ CallTypes /\ task' = task /\ failed' = failed
    BY <1>1, <1>2
  <2>2. ASSUME NEW u \in Callers, call'[u].at = "ended"
        PROVE  call[u].at = "ended" /\ call'[u].watch = call[u].watch
    <3>1. u # t
      BY <1>8, <2>2
    <3> QED BY <1>8, <2>2, <3>1
  <2> QED BY <2>1, <2>2, ToldKept
<1>13. Apart'
  BY <1>1, <1>2, ApartKept DEF ThreadTypes
<1> QED BY <1>8, <1>9, <1>10, <1>11, <1>12, <1>13, PartsNext

-----------------------------------------------------------------------------
(* The steps of the tasks. *)

LEMMA TaskKeeps ==
  ASSUME EInv, NEW i \in Tasks, Turn(Step(i)), NEW fired \in SUBSET Callers,
         NEW to \in {"turning", "asleep", "ended", "crashed"}, NEW later,
         later = (IF to = "turning" THEN <<Step(i)>> ELSE <<>>), Step_(i, fired, to, later),
         UNCHANGED <<current, starts, runner, threads>>,
         stopped' \in BOOLEAN, failed' \in BOOLEAN, wanted' \in BOOLEAN,
         to = "crashed" => failed', failed => failed',
         ~ stopped' => to \in {"turning", "asleep"}
  PROVE  EInv'
<1> DEFINE over == to \in {"ended", "crashed"}
           woken == Woken(i, fired, over)
           r == Tail(ready) \o Wakes(woken)
<1>1. EngineTypes /\ CallTypes /\ QueueInv /\ ExecutingMeansAlive /\ ToldInv /\ Apart /\ ThreadTypes
  BY Parts DEF Apart
<1>2. /\ ready # << >> /\ Head(ready) = Step(i)
      /\ task' = [task EXCEPT ![i] = to] /\ call' = Told(fired, woken)
      /\ ready' = r \o later
  BY DEF Turn, Step_, Wakes
<1>3. woken \in SUBSET Callers /\ \A t \in woken : call[t].at = "waiting"
  BY DEF Woken
<1> HIDE DEF over, woken
<1>4. ready \in Seq(Callbacks) /\ OnceEach(ready) /\ Head(ready) \in Queued(ready) /\ Cardinality(Starts(ready)) \in Nat
  BY <1>1, <1>2, Dequeued DEF QueueInv
<1>5. /\ Wakes(woken) \in Seq(Callbacks) /\ OnceEach(Wakes(woken))
      /\ \A x \in Queued(Wakes(woken)) : \E t \in woken : x = Wake(t)
  BY <1>3, WakesAreQueued
<1>6. \A x \in Queued(Wakes(woken)) : x # Start /\ x \notin Queued(ready)
  BY <1>1, <1>3, <1>5, CallbackFacts DEF QueueInv
<1>7. /\ r \in Seq(Callbacks) /\ OnceEach(r)
      /\ \A x \in Queued(r) : (\E t \in woken : x = Wake(t)) \/ (x \in Queued(ready) /\ (x = Head(ready) => x = Start))
  BY <1>2, <1>4, <1>5, <1>6, Served
<1>8. Cardinality(Starts(r)) <= Cardinality(Starts(ready)) /\ Cardinality(Starts(r)) \in Nat
  <2>1. Head(ready) # Start
    BY <1>2, CallbackFacts
  <2>2. Start \notin Queued(Wakes(woken))
    BY <1>6
  <2>3. Cardinality(Starts(r)) <= Cardinality(Starts(ready)) - 0
    BY <1>2, <1>4, <1>5, <2>1, <2>2, StartsServed
  <2>4. Cardinality(Starts(r)) \in Nat
    BY <1>7, StartsAreFinite
  <2> HIDE DEF r
  <2> QED BY <1>4, <2>3, <2>4
<1> HIDE DEF r
<1>9. Step(i) \notin Queued(r) /\ Step(i) \in Callbacks /\ Step(i) # Start
  BY <1>2, <1>7, CallbackFacts
<1>10. /\ ready' \in Seq(Callbacks) /\ OnceEach(ready')
       /\ \A x \in Queued(ready') : x \in Queued(r) \/ (x = Step(i) /\ to = "turning")
       /\ Cardinality(Starts(ready')) = Cardinality(Starts(r))
  <2>1. CASE to = "turning"
    <3>1. ready' = Append(r, Step(i))
      BY <1>2, <1>7, <1>9, <2>1, AppendIsConcat
    <3>2. Cardinality(Starts(ready')) = Cardinality(Starts(r))
      BY <1>7, <1>8, <1>9, <3>1, StartsAppended
    <3>3. ready' \in Seq(Callbacks) /\ OnceEach(ready') /\ Queued(ready') = Queued(r) \cup {Step(i)}
      BY <1>7, <1>9, <3>1, Appended
    <3> QED BY <2>1, <3>2, <3>3
  <2>2. CASE to # "turning"
    <3>1. ready' = r
      BY <1>2, <1>7, <2>2, ConcatEmptySeq
    <3> QED BY <1>7, <3>1
  <2> QED BY <2>1, <2>2
<1>11. /\ CallTypes'
       /\ \A t \in Callers : /\ call'[t].at = (IF t \in woken THEN "woken" ELSE call[t].at)
                             /\ call'[t].boots = call[t].boots /\ call'[t].watch = call[t].watch
  <2> DEFINE new(t) == [call[t] EXCEPT !.at = IF t \in woken THEN "woken" ELSE @, !.set = @ \/ t \in fired]
  <2>1. ASSUME NEW t \in Callers
        PROVE  /\ new(t) \in Calls /\ new(t).at = (IF t \in woken THEN "woken" ELSE call[t].at)
               /\ new(t).boots = call[t].boots /\ new(t).watch = call[t].watch
    <3> DEFINE c == call[t]
               at == IF t \in woken THEN "woken" ELSE c.at
               set == c.set \/ t \in fired
    <3>1. c \in Calls
      BY <1>1 DEF CallTypes
    <3>2. at \in {"out", "queued", "waiting", "woken"} \cup Verdicts /\ set \in BOOLEAN
      BY <3>1 DEF Calls
    <3>3. new(t) = [c EXCEPT !.at = at, !.set = set]
      OBVIOUS
    <3> HIDE DEF at, set, c, new
    <3>4. new(t) \in Calls /\ new(t).at = at /\ new(t).boots = c.boots /\ new(t).watch = c.watch
      BY <3>1, <3>2, <3>3 DEF Calls
    <3> QED BY <3>4 DEF at, c
  <2>2. call' = [t \in Callers |-> new(t)]
    BY <1>2 DEF Told
  <2> HIDE DEF new
  <2> QED BY <2>1, <2>2 DEF CallTypes
<1>12. /\ task' \in [Tasks -> Lives] /\ task'[i] = to /\ \A j \in Tasks \ {i} : task'[j] = task[j]
  BY <1>1, <1>2 DEF EngineTypes, Lives
<1>13. task[i] \in {"new", "turning"}
  BY <1>1, <1>2, <1>4 DEF QueueInv
<1>14. EngineTypes'
  <2>1. \A j \in Tasks : (task'[j] = "none") = (j > current)
    BY <1>1, <1>12, <1>13 DEF EngineTypes
  <2> QED BY <1>1, <1>12, <2>1 DEF EngineTypes
<1>15. QueueInv'
  <2>1. /\ \A j \in Tasks : /\ Step(j) = Step(i) => j = i
                            /\ \A t \in Callers : Step(j) # Wake(t)
        /\ \A t \in Callers : /\ Begin(t) # Step(i) /\ Wake(t) # Step(i)
                              /\ \A u \in Callers : Begin(t) # Wake(u) /\ (Wake(t) = Wake(u) => t = u)
    BY CallbackFacts
  <2>2. \A j \in Tasks : Step(j) \in Queued(ready') => task'[j] \in {"new", "turning"}
    <3> SUFFICES ASSUME NEW j \in Tasks, Step(j) \in Queued(ready') PROVE task'[j] \in {"new", "turning"}
      OBVIOUS
    <3>1. CASE j = i
      <4>1. to = "turning"
        BY <1>9, <1>10, <3>1
      <4> QED BY <1>12, <3>1, <4>1
    <3>2. CASE j # i
      <4>1. Step(j) \in Queued(r)
        BY <1>10, <2>1, <3>2
      <4>2. Step(j) \in Queued(ready)
        BY <1>3, <1>7, <2>1, <4>1
      <4> QED BY <1>1, <1>12, <3>2, <4>2 DEF QueueInv
    <3> QED BY <3>1, <3>2
  <2>3. ASSUME NEW t \in Callers, Begin(t) \in Queued(ready')
        PROVE  call'[t].at = "queued"
    <3>1. Begin(t) \in Queued(r)
      BY <1>10, <2>1, <2>3
    <3>2. Begin(t) \in Queued(ready)
      BY <1>3, <1>7, <2>1, <3>1
    <3>3. call[t].at = "queued"
      BY <1>1, <3>2 DEF QueueInv
    <3>4. t \notin woken
      BY <1>3, <3>3
    <3> QED BY <1>11, <3>3, <3>4
  <2>4. ASSUME NEW t \in Callers, Wake(t) \in Queued(ready')
        PROVE  call'[t].at = "woken"
    <3>1. Wake(t) \in Queued(r)
      BY <1>10, <2>1, <2>4
    <3>2. t \in woken \/ Wake(t) \in Queued(ready)
      BY <1>3, <1>7, <2>1, <3>1
    <3>3. Wake(t) \in Queued(ready) => call[t].at = "woken"
      BY <1>1 DEF QueueInv
    <3> QED BY <1>11, <3>2, <3>3
  <2>5. Cardinality(Booting') <= Cardinality(Booting) /\ Cardinality(Booting') \in Nat /\ Cardinality(Booting) \in Nat
    <3>1. Booting \in SUBSET Callers /\ Booting' \in SUBSET Callers
      BY DEF Booting
    <3>2. Booting' \subseteq Booting
      BY <1>11 DEF Booting
    <3> HIDE DEF Booting
    <3> QED BY <3>1, <3>2, Counts
  <2>6. current' + Cardinality(Starts(ready')) + Cardinality(Booting') <= starts'
    <3>1. current \in Int /\ starts \in Int
      BY <1>1 DEF EngineTypes
    <3>2. current + Cardinality(Starts(ready)) + Cardinality(Booting) <= starts
      BY <1>1 DEF QueueInv
    <3> QED BY <1>4, <1>8, <1>10, <2>5, <3>1, <3>2
  <2> QED BY <1>10, <2>2, <2>3, <2>4, <2>6 DEF QueueInv
<1>16. ExecutingMeansAlive'
  BY <1>12 DEF ExecutingMeansAlive
<1>17. ToldInv'
  <2>1. ASSUME NEW j \in Tasks, task'[j] = "crashed"
        PROVE  failed'
    BY <1>1, <1>12, <2>1 DEF ToldInv
  <2>2. ASSUME NEW t \in Callers, call'[t].at = "ended"
        PROVE  call'[t].watch \in Tasks /\ task'[call'[t].watch] = "ended"
    <3>1. call[t].at = "ended"
      BY <1>11, <2>2
    <3>2. call[t].watch \in Tasks /\ task[call[t].watch] = "ended"
      BY <1>1, <3>1 DEF ToldInv
    <3> QED BY <1>11, <1>12, <1>13, <3>2
  <2> QED BY <2>1, <2>2 DEF ToldInv
<1>18. Apart'
  BY <1>1, ApartKept DEF ThreadTypes
<1> QED BY <1>11, <1>14, <1>15, <1>16, <1>17, <1>18, PartsNext

LEMMA ExecuteKeeps ==
  ASSUME EInv, Execute
  PROVE  EInv'
<1>1. EngineTypes
  BY Parts
<1>2. PICK i \in Tasks : Ends(i) \/ (\E fired \in SUBSET Callers : Batch(i, fired) \/ Crash(i, fired)) \/ Break(i)
  BY DEF Execute
<1>3. CASE Ends(i)
  BY <1>1, <1>3, TaskKeeps DEF Ends, EngineTypes
<1>4. ASSUME NEW fired \in SUBSET Callers, Batch(i, fired)
      PROVE  EInv'
  <2>1. CASE Step_(i, fired, "turning", <<Step(i)>>)
    BY <1>1, <1>4, <2>1, TaskKeeps DEF Batch, GoesOn, EngineTypes
  <2>2. CASE Step_(i, fired, "asleep", <<>>)
    BY <1>1, <1>4, <2>2, TaskKeeps DEF Batch, GoesOn, EngineTypes
  <2> QED BY <1>4, <2>1, <2>2 DEF Batch
<1>5. ASSUME NEW fired \in SUBSET Callers, Crash(i, fired)
      PROVE  EInv'
  BY <1>1, <1>5, TaskKeeps DEF Crash, GoesOn, EngineTypes
<1>6. CASE Break(i)
  BY <1>1, <1>6, TaskKeeps DEF Break, GoesOn, EngineTypes
<1> QED BY <1>2, <1>3, <1>4, <1>5, <1>6

-----------------------------------------------------------------------------
(* The theorems. *)

LEMMA NextKeeps ==
  ASSUME EInv, [Next]_vars
  PROVE  EInv'
<1>1. CASE Stop
  BY <1>1, StopKeeps
<1>2. CASE StartExecution
  BY <1>2, StartExecutionKeeps
<1>3. ASSUME NEW t \in Callers, NEW boots \in BOOLEAN, Call(t, boots) PROVE EInv'
  BY <1>3, CallKeeps
<1>4. ASSUME NEW t \in Callers, TakePump(t) \/ Return(t) \/ Expires(t) PROVE EInv'
  BY <1>4, TakePumpKeeps, ReturnKeeps, ExpiresKeeps
<1>5. CASE Loop
  <2>1. CASE Started
    BY <2>1, StartedKeeps
  <2>2. CASE Execute
    BY <2>2, ExecuteKeeps
  <2>3. ASSUME NEW t \in Callers, Begins(t) \/ Answers(t) PROVE EInv'
    BY <2>3, BeginsKeeps, AnswersKeeps
  <2> QED BY <1>5, <2>1, <2>2, <2>3 DEF Loop
<1>6. ASSUME NEW i \in Tasks, SleepOver(i) PROVE EInv'
  BY <1>6, SleepOverKeeps
<1>7. ASSUME NEW r \in Requesters, Looks(r) \/ GivesCode(r) \/ Sets(r) PROVE EInv'
  BY <1>7, RequestKeeps
<1>8. CASE MainWaits \/ MainGoes \/ MainInterrupted
  BY <1>8, MainKeeps
<1>9. CASE UNCHANGED vars
  <2>1. /\ UNCHANGED <<failed, task, current, starts, ready, call>>
        /\ UNCHANGED <<stopped, wanted, threads, runner>>
    BY <1>9 DEF vars, threads
  <2>2. Apart /\ ThreadTypes /\ EngineTypes
    BY Parts DEF Apart
  <2>3. Apart'
    BY <2>1, <2>2, ApartKept DEF ThreadTypes
  <2> QED BY <2>1, <2>2, <2>3, ApartKeeps DEF EngineTypes
<1> QED BY <1>1, <1>2, <1>3, <1>4, <1>5, <1>6, <1>7, <1>8, <1>9 DEF Next

LEMMA InitHolds == Init => EInv
<1> SUFFICES ASSUME Init PROVE EInv
  OBVIOUS
<1>1. EngineTypes
  <2>1. task = [i \in Tasks |-> "none"] /\ MaxStarts \in Nat
    BY StartsAssumption DEF Init, Tasks
  <2>2. task \in [Tasks -> Lives]
    BY <2>1 DEF Lives
  <2>3. \A j \in Tasks : task[j] = "none" /\ j > 0
    BY <2>1 DEF Tasks
  <2>4. /\ stopped = TRUE /\ failed = FALSE /\ wanted = FALSE
        /\ current = 0 /\ starts = 0
    BY DEF Init
  <2>5. stopped \in BOOLEAN /\ failed \in BOOLEAN /\ wanted \in BOOLEAN
    BY <2>4
  <2>6. starts \in 0 .. MaxStarts /\ current \in 0 .. starts
    BY <2>1, <2>4
  <2>7. \A j \in Tasks : (task[j] = "none") = (j > current)
    BY <2>3, <2>4
  <2> QED BY <2>2, <2>5, <2>6, <2>7 DEF EngineTypes
<1>2. CallTypes
  BY StartsAssumption DEF Init, CallTypes, Calls, Idle
<1>3. QueueInv
  <2>1. ready \in Seq(Callbacks) /\ Len(ready) = 0
    BY EmptySeq DEF Init
  <2>2. OnceEach(ready) /\ Queued(ready) = {} /\ Starts(ready) = {}
    BY <2>1 DEF OnceEach, Queued, Starts
  <2>3. Booting = {}
    BY DEF Init, Booting, Idle
  <2>4. Cardinality({}) = 0
    BY FS_EmptySet
  <2>5. current + Cardinality(Starts(ready)) + Cardinality(Booting) <= starts
    <3>1. current = 0 /\ starts = 0
      BY DEF Init
    <3> QED BY <2>2, <2>3, <2>4, <3>1
  <2> QED BY <2>1, <2>2, <2>5 DEF QueueInv
<1>4. ExecutingMeansAlive
  BY DEF Init, ExecutingMeansAlive
<1>5. ToldInv
  BY DEF Init, ToldInv, Idle, Tasks
<1>6. Apart
  BY CallersAssumption DEF Init, Apart, ThreadTypes, CodeInv, ExitCodeWasAsked
<1> QED BY <1>1, <1>2, <1>3, <1>4, <1>5, <1>6, Parts

\* Every callback in the queue finds its task or its call as it expects it, and the rest of EInv.
THEOREM InvariantHolds == Spec => []EInv
<1>1. EInv /\ [Next]_vars => EInv'
  BY NextKeeps
<1> QED BY <1>1, InitHolds, PTL DEF Spec

\* The engine's variables keep their types; the tasks created are the first ones, and a start creates at most one.
THEOREM TypeCorrect == Spec => []TypeOK
<1>1. EInv => TypeOK
  BY DEF EInv
<1> QED BY <1>1, InvariantHolds, PTL

\* While `executing` is TRUE an execute() task is there to run, whatever crashes or is stopped.
THEOREM PollersMayTrustExecuting == Spec => []ExecutingMeansAlive
<1>1. EInv => ExecutingMeansAlive
  BY DEF EInv
<1> QED BY <1>1, InvariantHolds, PTL

\* A wait_for() that is told of a deliberate stop watched an engine that did not crash.
THEOREM CrashIsTold == Spec => []CrashIsNeverCalledAStop
<1>1. EInv => CrashIsNeverCalledAStop
  BY DEF EInv, ToldInv, CrashIsNeverCalledAStop
<1> QED BY <1>1, InvariantHolds, PTL

\* The code with which the process exits is one that a requester gave.
THEOREM CodeIsFromARequest == Spec => []ExitCodeWasAsked
<1>1. EInv => ExitCodeWasAsked
  BY DEF EInv
<1> QED BY <1>1, InvariantHolds, PTL
=============================================================================
