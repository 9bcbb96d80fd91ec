----------------------- MODULE SimulationClock_proofs -----------------------
(***************************************************************************)
(* Proofs about SimulationClock, for every set of alarms and every value   *)
(* of the other constants: the alarm list stays sorted, the cached horizon *)
(* stays exact, deferred time never passes an alarm, and the time that a   *)
(* program observes never goes back. At the end, that the clock implements *)
(* EagerClock.                                                             *)
(***************************************************************************)
EXTENDS SimulationClock, WellFoundedInduction, SequenceTheorems, TLAPS

----------------------------------------------------------------------------
(* The least number principle *)

Below == OpToRel(<, Nat)

LEMMA BelowIsLess == Below = {p \in Nat \X Nat : p[1] < p[2]}
  BY Zenon DEF Below, OpToRel

LEMMA BelowIsWellFounded == IsWellFoundedOn(Below, Nat)
  BY NatLessThanWellFounded DEF Below

\* A nonempty set of naturals has a least element.
LEMMA LeastElement ==
  ASSUME NEW T \in SUBSET Nat, T # {}
  PROVE  \E x \in T : \A y \in T : x <= y
<1>1. PICK x \in T : \A y \in T : ~ (<<y, x>> \in Below)
  BY BelowIsWellFounded, WFMin, Zenon
<1>2. \A y \in T : ~ (y < x)
  BY <1>1, BelowIsLess
<1>3. \A y \in T : x <= y
  BY <1>2
<1> QED
  BY <1>3

----------------------------------------------------------------------------
(* The alarm list *)

\* The walk of `link_alarm_ticks` stops at the first alarm that is due later.
LEMMA SlotIsFirstLater ==
  ASSUME NEW A, NEW s \in Seq(A), NEW dues \in [A -> Int], NEW when \in Int
  PROVE  /\ Slot(s, dues, when) \in 1 .. Len(s) + 1
         /\ \A i \in DOMAIN s : i < Slot(s, dues, when) => dues[s[i]] <= when
         /\ Slot(s, dues, when) \in DOMAIN s => dues[s[Slot(s, dues, when)]] > when
<1> DEFINE after == {i \in DOMAIN s : dues[s[i]] > when}
<1>1. \A i \in DOMAIN s : i \in Nat /\ i \in 1 .. Len(s) /\ dues[s[i]] \in Int
  OBVIOUS
<1>2. CASE after = {}
  BY <1>1, <1>2 DEF Slot
<1>3. CASE after # {}
  <2>1. after \in SUBSET Nat
    BY <1>1
  <2>2. \E x \in after : \A y \in after : x <= y
    BY <1>3, <2>1, LeastElement
  <2>3. Min(after) \in after /\ \A y \in after : Min(after) <= y
    BY <2>2, Zenon DEF Min
  <2>4. Slot(s, dues, when) = Min(after)
    BY <1>3 DEF Slot
  <2> HIDE DEF after
  <2>5. Min(after) \in 1 .. Len(s)
    BY <2>3, <1>1 DEF after
  <2>6. ASSUME NEW i \in DOMAIN s, i < Min(after), i \in after
        PROVE  FALSE
    <3>1. Min(after) <= i
      BY <2>3, <2>6
    <3> QED
      BY <1>1, <2>5, <2>6, <3>1
  <2> QED
    BY <1>1, <2>3, <2>4, <2>5, <2>6 DEF after
<1> QED
  BY <1>2, <1>3

\* InsertAt and RemoveAt of the community modules, element by element.
LEMMA InsertAtElements ==
  ASSUME NEW A, NEW s \in Seq(A), NEW k \in 1 .. Len(s) + 1, NEW a \in A
  PROVE  /\ InsertAt(s, k, a) \in Seq(A)
         /\ Len(InsertAt(s, k, a)) = Len(s) + 1
         /\ \A i \in 1 .. Len(s) + 1 :
              InsertAt(s, k, a)[i] = IF i < k THEN s[i] ELSE IF i = k THEN a ELSE s[i - 1]
<1> DEFINE l == SubSeq(s, 1, k - 1)  m == <<a>>  r == SubSeq(s, k, Len(s))
<1>1. /\ l \in Seq(A) /\ Len(l) = k - 1
      /\ \A i \in 1 .. k - 1 : l[i] = s[i]
  OBVIOUS
<1>2. /\ r \in Seq(A) /\ Len(r) = Len(s) - k + 1
      /\ \A i \in 1 .. Len(s) - k + 1 : r[i] = s[k + i - 1]
  OBVIOUS
<1>3. m \in Seq(A) /\ Len(m) = 1 /\ m[1] = a
  OBVIOUS
<1>4. InsertAt(s, k, a) = (l \o m) \o r
  BY DEF InsertAt
<1> HIDE DEF l, m, r
<1> DEFINE lm == l \o m
<1>5. /\ lm \in Seq(A) /\ Len(lm) = Len(l) + Len(m)
      /\ \A i \in 1 .. Len(l) + Len(m) : lm[i] = IF i <= Len(l) THEN l[i] ELSE m[i - Len(l)]
  BY <1>1, <1>3, ConcatProperties, Zenon
<1>6. Len(lm) = k /\ \A i \in 1 .. k : lm[i] = IF i < k THEN s[i] ELSE a
  BY <1>1, <1>3, <1>5
<1> HIDE DEF lm
<1>7. /\ lm \o r \in Seq(A) /\ Len(lm \o r) = Len(lm) + Len(r)
      /\ \A i \in 1 .. Len(lm) + Len(r) :
           (lm \o r)[i] = IF i <= Len(lm) THEN lm[i] ELSE r[i - Len(lm)]
  <2>1. lm \in Seq(A) /\ r \in Seq(A)
    BY <1>2, <1>5
  <2> QED
    BY <2>1, ConcatProperties, Zenon
<1>8. \A i \in 1 .. Len(s) + 1 : i > k => r[i - k] = s[i - 1]
  BY <1>2
<1>9. Len(lm) + Len(r) = Len(s) + 1
  BY <1>2, <1>6
<1>10. \A i \in 1 .. Len(s) + 1 :
        (lm \o r)[i] = IF i < k THEN s[i] ELSE IF i = k THEN a ELSE s[i - 1]
  BY <1>6, <1>7, <1>8, <1>9
<1> QED
  BY <1>4, <1>7, <1>9, <1>10 DEF lm

LEMMA RemoveAtElements ==
  ASSUME NEW A, NEW s \in Seq(A), NEW k \in DOMAIN s
  PROVE  /\ RemoveAt(s, k) \in Seq(A)
         /\ Len(RemoveAt(s, k)) = Len(s) - 1
         /\ \A i \in 1 .. Len(s) - 1 :
              RemoveAt(s, k)[i] = IF i < k THEN s[i] ELSE s[i + 1]
<1> DEFINE l == SubSeq(s, 1, k - 1)  r == SubSeq(s, k + 1, Len(s))
<1>1. /\ l \in Seq(A) /\ Len(l) = k - 1
      /\ \A i \in 1 .. k - 1 : l[i] = s[i]
  OBVIOUS
<1>2. /\ r \in Seq(A) /\ Len(r) = Len(s) - k
      /\ \A i \in 1 .. Len(s) - k : r[i] = s[k + i]
  OBVIOUS
<1>3. RemoveAt(s, k) = l \o r
  BY DEF RemoveAt
<1> HIDE DEF l, r
<1>4. /\ l \o r \in Seq(A) /\ Len(l \o r) = Len(l) + Len(r)
      /\ \A i \in 1 .. Len(l) + Len(r) :
           (l \o r)[i] = IF i <= Len(l) THEN l[i] ELSE r[i - Len(l)]
  BY <1>1, <1>2, ConcatProperties, Zenon
<1>5. \A i \in 1 .. Len(s) - 1 : i > k - 1 => r[i - (k - 1)] = s[i + 1]
  BY <1>2
<1>6. Len(l) + Len(r) = Len(s) - 1
  BY <1>1, <1>2
<1>7. \A i \in 1 .. Len(s) - 1 : (l \o r)[i] = IF i < k THEN s[i] ELSE s[i + 1]
  BY <1>1, <1>4, <1>5, <1>6, SMTT(30)
<1> QED
  BY <1>3, <1>4, <1>6, <1>7

----------------------------------------------------------------------------
(* Sorted lists of alarms *)

Ordered(s, dues) ==
  \A i, j \in DOMAIN s : i < j => s[i] # s[j] /\ dues[s[i]] <= dues[s[j]]

Dues == [Alarms -> {t \in Int : t <= MaxTicks}]

LEMMA DuesAreInts == \A dues \in Dues : dues \in [Alarms -> Int]
  BY DEF Dues

LEMMA InsertKeepsOrder ==
  ASSUME NEW s \in Seq(Alarms), NEW dues \in Dues, NEW a \in Alarms,
         Ordered(s, dues), \A i \in DOMAIN s : s[i] # a
  PROVE  /\ Insert(s, dues, a) \in Seq(Alarms)
         /\ Ordered(Insert(s, dues, a), dues)
<1> DEFINE k == Slot(s, dues, dues[a])
<1>1. dues \in [Alarms -> Int] /\ dues[a] \in Int
  BY DEF Dues
<1>2. /\ k \in 1 .. Len(s) + 1
      /\ \A i \in DOMAIN s : i < k => dues[s[i]] <= dues[a]
      /\ k \in DOMAIN s => dues[s[k]] > dues[a]
  BY <1>1, SlotIsFirstLater
<1> HIDE DEF k
<1> DEFINE q == InsertAt(s, k, a)
<1>3. /\ q \in Seq(Alarms)
      /\ Len(q) = Len(s) + 1
      /\ \A i \in 1 .. Len(s) + 1 : q[i] = IF i < k THEN s[i] ELSE IF i = k THEN a ELSE s[i - 1]
  BY <1>2, InsertAtElements
<1> HIDE DEF q
<1>4. Insert(s, dues, a) = q
  BY DEF Insert, q, k
<1>5. DOMAIN s = 1 .. Len(s) /\ DOMAIN q = 1 .. Len(s) + 1 /\ Len(s) \in Nat
  BY <1>3
<1>6. \A i \in DOMAIN s : s[i] \in Alarms /\ dues[s[i]] \in Int
  BY <1>1
<1>7. \A i \in DOMAIN s : i >= k => dues[s[i]] > dues[a]
  <2> SUFFICES ASSUME NEW i \in DOMAIN s, i >= k
               PROVE  dues[s[i]] > dues[a]
    OBVIOUS
  <2>1. k \in DOMAIN s
    BY <1>2, <1>5
  <2>2. i = k \/ k < i
    BY <1>2, <1>5
  <2>3. dues[s[k]] <= dues[s[i]]
    BY <2>1, <2>2, <1>6 DEF Ordered
  <2> QED
    BY <2>1, <2>3, <1>1, <1>2, <1>6
<1>8. ASSUME NEW i \in DOMAIN q, NEW j \in DOMAIN q, i < j
      PROVE  q[i] # q[j] /\ dues[q[i]] <= dues[q[j]]
  <2>1. CASE j < k
    <3>1. q[i] = s[i] /\ q[j] = s[j] /\ i \in DOMAIN s /\ j \in DOMAIN s
      BY <1>2, <1>3, <1>5, <1>8, <2>1
    <3> QED
      BY <3>1, <1>8 DEF Ordered
  <2>2. CASE j = k
    <3>1. q[i] = s[i] /\ q[j] = a /\ i \in DOMAIN s
      BY <1>2, <1>3, <1>5, <1>8, <2>2
    <3> QED
      BY <3>1, <1>2, <1>8, <2>2
  <2>3. CASE j > k /\ i < k
    <3>1. q[i] = s[i] /\ q[j] = s[j - 1] /\ i \in DOMAIN s /\ j - 1 \in DOMAIN s /\ i < j - 1
      BY <1>2, <1>3, <1>5, <1>8, <2>3
    <3> QED
      BY <3>1 DEF Ordered
  <2>4. CASE j > k /\ i = k
    <3>1. q[i] = a /\ q[j] = s[j - 1] /\ j - 1 \in DOMAIN s /\ j - 1 >= k
      BY <1>2, <1>3, <1>5, <1>8, <2>4
    <3> QED
      BY <3>1, <1>1, <1>6, <1>7
  <2>5. CASE j > k /\ i > k
    <3>1. /\ q[i] = s[i - 1] /\ q[j] = s[j - 1]
          /\ i - 1 \in DOMAIN s /\ j - 1 \in DOMAIN s /\ i - 1 < j - 1
      BY <1>2, <1>3, <1>5, <1>8, <2>5
    <3> QED
      BY <3>1 DEF Ordered
  <2> QED
    BY <2>1, <2>2, <2>3, <2>4, <2>5, <1>2, <1>5
<1> QED
  BY <1>3, <1>4, <1>8 DEF Ordered

LEMMA WithoutKeepsOrder ==
  ASSUME NEW s \in Seq(Alarms), NEW dues, NEW a \in Alarms, Ordered(s, dues)
  PROVE  /\ Without(s, a) \in Seq(Alarms)
         /\ Ordered(Without(s, a), dues)
         /\ \A i \in DOMAIN Without(s, a) : Without(s, a)[i] # a
<1>1. CASE ~ \E i \in DOMAIN s : s[i] = a
  BY <1>1 DEF Without
<1>2. CASE \E i \in DOMAIN s : s[i] = a
  <2> DEFINE k == CHOOSE i \in DOMAIN s : s[i] = a
  <2>1. k \in DOMAIN s /\ s[k] = a
    BY <1>2
  <2> HIDE DEF k
  <2> DEFINE q == RemoveAt(s, k)
  <2>2. /\ q \in Seq(Alarms)
        /\ Len(q) = Len(s) - 1
        /\ \A i \in 1 .. Len(s) - 1 : q[i] = IF i < k THEN s[i] ELSE s[i + 1]
    BY <2>1, RemoveAtElements
  <2>3. Without(s, a) = q
    BY <1>2 DEF Without, k
  <2> HIDE DEF q
  <2>4. DOMAIN s = 1 .. Len(s) /\ DOMAIN q = 1 .. Len(s) - 1 /\ Len(s) \in Nat
    BY <2>2
  <2> DEFINE old(i) == IF i < k THEN i ELSE i + 1
  <2>5. \A i \in DOMAIN q : old(i) \in DOMAIN s /\ old(i) # k /\ q[i] = s[old(i)]
    BY <2>1, <2>2, <2>4
  <2>6. \A i, j \in DOMAIN q : i < j => old(i) < old(j)
    BY <2>1, <2>4
  <2> HIDE DEF old
  <2>7. Ordered(q, dues)
    BY <2>5, <2>6 DEF Ordered
  <2>8. ASSUME NEW i \in DOMAIN q
        PROVE  q[i] # a
    <3>1. old(i) < k \/ k < old(i)
      BY <2>1, <2>4, <2>5
    <3> QED
      BY <3>1, <2>1, <2>5 DEF Ordered
  <2> QED
    BY <2>2, <2>3, <2>7, <2>8
<1> QED
  BY <1>1, <1>2

LEMMA TailKeepsOrder ==
  ASSUME NEW s \in Seq(Alarms), NEW dues, s # <<>>, Ordered(s, dues)
  PROVE  /\ Tail(s) \in Seq(Alarms)
         /\ Ordered(Tail(s), dues)
         /\ \A i \in DOMAIN Tail(s) : Tail(s)[i] # Head(s)
<1>1. /\ Tail(s) \in Seq(Alarms) /\ Head(s) = s[1] /\ 1 \in DOMAIN s
      /\ \A i \in DOMAIN Tail(s) : i \in Nat /\ i >= 1 /\ i + 1 \in DOMAIN s /\ Tail(s)[i] = s[i + 1]
  OBVIOUS
<1> QED
  BY <1>1 DEF Ordered

\* What is not in the list may change its due time.
LEMMA OrderIgnoresOthers ==
  ASSUME NEW s \in Seq(Alarms), NEW dues \in Dues, NEW a \in Alarms, NEW t,
         Ordered(s, dues), \A i \in DOMAIN s : s[i] # a
  PROVE  Ordered(s, [dues EXCEPT ![a] = t])
<1>1. \A i \in DOMAIN s : s[i] \in Alarms
  OBVIOUS
<1> QED
  BY <1>1 DEF Ordered, Dues

\* A move of the origin keeps the order, with the "never" alarms left where they are.
LEMMA ShiftKeepsOrder ==
  ASSUME NEW s \in Seq(Alarms), NEW dues \in Dues, NEW move \in Nat, Ordered(s, dues)
  PROVE  /\ Shifted(dues, {s[i] : i \in DOMAIN s}, move) \in Dues
         /\ Ordered(s, Shifted(dues, {s[i] : i \in DOMAIN s}, move))
<1> DEFINE new == Shifted(dues, {s[i] : i \in DOMAIN s}, move)
<1>1. \A a \in Alarms : dues[a] \in Int /\ dues[a] <= MaxTicks
  BY DEF Dues
<1>2. MaxTicks \in Nat
  BY ClockAssumption DEF ClockAssumption
<1>3. new \in Dues
  BY <1>1, <1>2 DEF Shifted, Dues
<1>4. \A i \in DOMAIN s : /\ s[i] \in Alarms
                          /\ new[s[i]] = IF dues[s[i]] < MaxTicks THEN dues[s[i]] - move ELSE dues[s[i]]
  BY DEF Shifted
<1> HIDE DEF new
<1>5. ASSUME NEW i \in DOMAIN s, NEW j \in DOMAIN s, i < j
      PROVE  s[i] # s[j] /\ new[s[i]] <= new[s[j]]
  <2>1. s[i] # s[j] /\ dues[s[i]] <= dues[s[j]]
    BY <1>5 DEF Ordered
  <2> QED
    BY <2>1, <1>1, <1>2, <1>4
<1> QED
  BY <1>3, <1>5 DEF Ordered, new

----------------------------------------------------------------------------
(* The inductive invariant *)

\* The four properties need each other: the fast path of `defer_ticks` compares with the
\* cached horizon, which speaks of the head alone, which is the earliest alarm only in a
\* sorted list; and a flush that fired a callback would run it in the middle of a link.
IInv ==
  /\ TypeOK
  /\ ListIsSorted
  /\ HorizonIsExact
  /\ FlushOnReadFiresNothing
  /\ OriginMovesInTime

LEMMA TypesOfParts ==
  ASSUME IInv
  PROVE  /\ list \in Seq(Alarms) /\ due \in Dues /\ ticks \in 0 .. MaxTicks
         /\ pending \in Nat /\ horizon \in Int /\ frames \in Seq(Frame) /\ rebased \in Nat
         /\ Ordered(list, due)
  BY DEF IInv, TypeOK, Dues, ListIsSorted, Ordered

LEMMA ConstantTypes ==
  /\ MaxTicks \in Nat /\ RebaseAt \in 1 .. MaxTicks /\ NoHorizon \in Nat
  /\ Deltas \subseteq Int /\ Steps \subseteq Nat
  BY ClockAssumption DEF ClockAssumption

\* Sums are clamped.
LEMMA AddTicksBounds ==
  ASSUME NEW a \in 0 .. MaxTicks, NEW b \in Int
  PROVE  /\ AddTicks(a, b) \in Int /\ AddTicks(a, b) <= MaxTicks
         /\ b >= 0 => AddTicks(a, b) \in 0 .. MaxTicks
         /\ b = 0 => AddTicks(a, b) = a
  BY ConstantTypes DEF AddTicks

LEMMA MoveAtBounds ==
  ASSUME NEW t \in 0 .. MaxTicks, NEW depth \in Nat
  PROVE  /\ MoveAt(t, depth) \in Nat
         /\ t - MoveAt(t, depth) \in 0 .. MaxTicks
         /\ depth = 0 => t - MoveAt(t, depth) < RebaseAt
  BY ConstantTypes DEF MoveAt

LEMMA HorizonIsInt ==
  ASSUME NEW s \in Seq(Alarms), NEW dues \in Dues, NEW t \in Int
  PROVE  Horizon(s, dues, t) \in Int
<1>1. s # <<>> => Head(s) \in Alarms
  OBVIOUS
<1> QED
  BY <1>1, ConstantTypes DEF Horizon, Dues

\* What a read of the time leaves.
LEMMA SettledKeeps ==
  ASSUME IInv
  PROVE  /\ Settled.now \in 0 .. MaxTicks
         /\ Settled.due \in Dues
         /\ Settled.move \in Nat
         /\ Ordered(list, Settled.due)
         /\ AtRest => Settled.now < RebaseAt
<1> DEFINE sum  == AddTicks(ticks, pending)
           move == IF pending = 0 THEN 0 ELSE MoveAt(sum, Len(frames))
<1>1. sum \in 0 .. MaxTicks /\ (pending = 0 => sum = ticks)
  BY TypesOfParts, AddTicksBounds
<1>2. Len(frames) \in Nat /\ (AtRest => Len(frames) = 0)
  BY TypesOfParts DEF AtRest
<1>3. /\ move \in Nat
      /\ sum - move \in 0 .. MaxTicks
      /\ AtRest => sum - move < RebaseAt
  <2>1. CASE pending = 0
    <3>1. move = 0 /\ sum = ticks
      BY <1>1, <2>1
    <3>2. AtRest => ticks < RebaseAt
      BY DEF IInv, OriginMovesInTime
    <3> QED
      BY <1>1, <3>1, <3>2, ConstantTypes
  <2>2. CASE pending # 0
    <3>1. move = MoveAt(sum, Len(frames))
      BY <2>2
    <3> QED
      BY <1>1, <1>2, <3>1, MoveAtBounds
  <2> QED
    BY <2>1, <2>2
<1>4. Settled = [now |-> sum - move, due |-> Shifted(due, Linked, move), move |-> move]
  BY DEF Settled
<1> HIDE DEF sum, move
<1>5. Shifted(due, Linked, move) \in Dues /\ Ordered(list, Shifted(due, Linked, move))
  BY <1>3, TypesOfParts, ShiftKeepsOrder DEF Linked
<1> QED
  BY <1>3, <1>4, <1>5

\* Inside a callback nothing is deferred.
LEMMA NothingDeferredInside == IInv /\ ~ AtRest => pending = 0
  BY DEF IInv, FlushOnReadFiresNothing

\* A turn of the loop that enters a callback.
LEMMA FireKeeps ==
  ASSUME NEW dues \in Dues, NEW now \in 0 .. MaxTicks, NEW target \in 0 .. MaxTicks,
         NEW outer \in Seq(Frame), list \in Seq(Alarms), list # <<>>, Ordered(list, dues),
         horizon \in Int, rebased' \in Nat, pending' = 0,
         Fire(dues, now, target, outer)
  PROVE  IInv'
<1> DEFINE a == Head(list)
<1>1. a \in Alarms /\ dues \in [Alarms -> Int] /\ dues[a] \in Int /\ dues[a] <= MaxTicks
  BY DEF Dues
<1>2. /\ list' = Tail(list)
      /\ due' = [dues EXCEPT ![a] = 0]
      /\ ticks' = Later(now, dues[a])
      /\ frames' = Append(outer, [target |-> target, alarm |-> a])
      /\ horizon' = horizon
  BY DEF Fire
<1>3. /\ Tail(list) \in Seq(Alarms) /\ Ordered(Tail(list), dues)
      /\ \A i \in DOMAIN Tail(list) : Tail(list)[i] # a
  BY TailKeepsOrder
<1> HIDE DEF a
<1>4. Ordered(list', due')
  BY <1>1, <1>2, <1>3, OrderIgnoresOthers
<1>5. due' \in [Alarms -> {t \in Int : t <= MaxTicks}]
  BY <1>1, <1>2, ConstantTypes DEF Dues
<1>6. ticks' \in 0 .. MaxTicks
  BY <1>1, <1>2, ConstantTypes DEF Later
<1>7. frames' \in Seq(Frame) /\ frames' # <<>>
  <2>1. [target |-> target, alarm |-> a] \in Frame
    BY <1>1 DEF Frame
  <2> QED
    BY <1>2, <2>1, AppendProperties
<1>8. TypeOK'
  BY <1>2, <1>3, <1>5, <1>6, <1>7 DEF TypeOK
<1>9. ListIsSorted'
  BY <1>4 DEF ListIsSorted, Ordered
<1>10. HorizonIsExact' /\ FlushOnReadFiresNothing' /\ OriginMovesInTime'
  BY <1>7 DEF HorizonIsExact, FlushOnReadFiresNothing, OriginMovesInTime, AtRest
<1> QED
  BY <1>8, <1>9, <1>10 DEF IInv

\* The end of a tick.
LEMMA FinishKeeps ==
  ASSUME NEW dues \in Dues, NEW now \in 0 .. MaxTicks, NEW target \in 0 .. MaxTicks,
         NEW outer \in Seq(Frame), list \in Seq(Alarms), Ordered(list, dues),
         rebased' \in Nat, pending' = 0,
         Finish(dues, now, target, outer)
  PROVE  IInv'
<1> DEFINE t == Later(now, target)  move == MoveAt(t, Len(outer))
<1>1. t \in 0 .. MaxTicks /\ Len(outer) \in Nat
  BY DEF Later
<1>2. /\ list' = list
      /\ due' = Shifted(dues, Linked, move)
      /\ ticks' = t - move
      /\ frames' = outer
      /\ horizon' = Horizon(list, due', t - move)
  BY DEF Finish
<1> HIDE DEF t
<1>3. /\ move \in Nat /\ t - move \in 0 .. MaxTicks
      /\ Len(outer) = 0 => t - move < RebaseAt
  BY <1>1, MoveAtBounds
<1> HIDE DEF move
<1>4. due' \in Dues /\ Ordered(list, due')
  BY <1>2, <1>3, ShiftKeepsOrder DEF Linked
<1>5. horizon' \in Int
  BY <1>2, <1>3, <1>4, HorizonIsInt
<1>6. TypeOK'
  BY <1>2, <1>3, <1>4, <1>5 DEF TypeOK, Dues
<1>7. ListIsSorted'
  BY <1>2, <1>4 DEF ListIsSorted, Ordered
<1>8. HorizonIsExact'
  BY <1>2 DEF HorizonIsExact
<1>9. FlushOnReadFiresNothing'
  BY DEF FlushOnReadFiresNothing
<1>10. OriginMovesInTime'
  BY <1>2, <1>3 DEF OriginMovesInTime, AtRest
<1> QED
  BY <1>6, <1>7, <1>8, <1>9, <1>10 DEF IInv

\* A tick, up to its first callback or to its end.
LEMMA RunKeeps ==
  ASSUME IInv, NEW dues \in Dues, NEW now \in 0 .. MaxTicks, NEW moved \in Nat,
         NEW delta \in Nat, Ordered(list, dues), Run(dues, now, moved, delta)
  PROVE  IInv'
<1> DEFINE target == AddTicks(now, delta)
<1>1. target \in 0 .. MaxTicks
  BY AddTicksBounds
<1>2. /\ pending' = 0
      /\ \/ /\ list # <<>>
            /\ Fire(dues, now, target, frames)
            /\ rebased' = rebased + moved
         \/ /\ Finish(dues, now, target, frames)
            /\ rebased' = rebased + moved + MoveAt(target, Len(frames))
  BY DEF Run
<1> HIDE DEF target
<1>3. Len(frames) \in Nat /\ MoveAt(target, Len(frames)) \in Nat
  BY <1>1, TypesOfParts, MoveAtBounds
<1>4. rebased' \in Nat
  BY <1>2, <1>3, TypesOfParts, SMTT(30)
<1>5. CASE list # <<>> /\ Fire(dues, now, target, frames)
  BY <1>1, <1>2, <1>4, <1>5, TypesOfParts, FireKeeps
<1>6. CASE Finish(dues, now, target, frames)
  BY <1>1, <1>2, <1>4, <1>6, TypesOfParts, FinishKeeps
<1> QED
  BY <1>2, <1>5, <1>6

LEMMA TickTicksKeeps ==
  ASSUME IInv, NEW delta \in Steps, TickTicks(delta)
  PROVE  IInv'
<1>1. delta \in Nat
  BY ConstantTypes
<1>2. Run(Settled.due, Settled.now, Settled.move, delta)
  BY DEF TickTicks
<1> QED
  BY <1>1, <1>2, SettledKeeps, RunKeeps

LEMMA ScheduleKeeps ==
  ASSUME IInv, NEW a \in Alarms, NEW delta \in Deltas, Schedule(a, delta)
  PROVE  IInv'
<1> DEFINE rest == Without(list, a)
           when == AddTicks(Settled.now, delta)
           dues == [Settled.due EXCEPT ![a] = when]
<1>1. /\ list' = Insert(rest, dues, a)
      /\ due' = dues
      /\ ticks' = Settled.now
      /\ pending' = 0
      /\ horizon' = Horizon(list', dues, Settled.now)
      /\ rebased' = rebased + Settled.move
      /\ frames' = frames
  BY DEF Schedule
<1>2. when \in Int /\ when <= MaxTicks
  BY SettledKeeps, ConstantTypes, AddTicksBounds
<1>3. /\ rest \in Seq(Alarms) /\ Ordered(rest, Settled.due)
      /\ \A i \in DOMAIN rest : rest[i] # a
  BY SettledKeeps, TypesOfParts, WithoutKeepsOrder
<1> HIDE DEF when, rest
<1>4. dues \in Dues
  BY <1>2, SettledKeeps DEF Dues
<1>5. Ordered(rest, dues)
  BY <1>3, SettledKeeps, OrderIgnoresOthers
<1> HIDE DEF dues
<1>6. list' \in Seq(Alarms) /\ Ordered(list', due')
  BY <1>1, <1>3, <1>4, <1>5, InsertKeepsOrder
<1>7. horizon' \in Int
  <2>1. Settled.now \in Int
    BY SettledKeeps, ConstantTypes
  <2> QED
    BY <1>1, <1>4, <1>6, <2>1, HorizonIsInt
<1>8. TypeOK'
  BY <1>1, <1>4, <1>6, <1>7, SettledKeeps, TypesOfParts, SMTT(30) DEF TypeOK, Dues
<1>9. ListIsSorted'
  BY <1>6 DEF ListIsSorted, Ordered
<1>10. HorizonIsExact'
  BY <1>1 DEF HorizonIsExact
<1>11. FlushOnReadFiresNothing'
  BY <1>1 DEF FlushOnReadFiresNothing
<1>12. OriginMovesInTime'
  BY <1>1, SettledKeeps DEF OriginMovesInTime, AtRest
<1> QED
  BY <1>8, <1>9, <1>10, <1>11, <1>12 DEF IInv

LEMMA CancelKeeps ==
  ASSUME IInv, NEW a \in Alarms, Cancel(a)
  PROVE  IInv'
<1> DEFINE rest == Without(list, a)
<1>1. /\ list' = rest
      /\ due' = [due EXCEPT ![a] = 0]
      /\ horizon' = Horizon(rest, due, ticks)
      /\ ticks' = ticks /\ pending' = pending /\ frames' = frames /\ rebased' = rebased
  BY DEF Cancel
<1>2. /\ rest \in Seq(Alarms) /\ Ordered(rest, due)
      /\ \A i \in DOMAIN rest : rest[i] # a
  BY TypesOfParts, WithoutKeepsOrder
<1>3. \A i \in DOMAIN rest : rest[i] \in Linked
  <2>1. \A i \in DOMAIN rest : \E j \in DOMAIN list : rest[i] = list[j]
    <3>1. CASE ~ \E i \in DOMAIN list : list[i] = a
      BY <3>1 DEF Without
    <3>2. CASE \E i \in DOMAIN list : list[i] = a
      <4> DEFINE k == CHOOSE i \in DOMAIN list : list[i] = a
      <4>1. k \in DOMAIN list /\ rest = RemoveAt(list, k)
        BY <3>2 DEF Without
      <4> HIDE DEF k, rest
      <4>2. /\ rest \in Seq(Alarms) /\ Len(rest) = Len(list) - 1
            /\ \A i \in 1 .. Len(list) - 1 :
                 rest[i] = IF i < k THEN list[i] ELSE list[i + 1]
        BY <4>1, TypesOfParts, RemoveAtElements
      <4>3. DOMAIN list = 1 .. Len(list) /\ DOMAIN rest = 1 .. Len(list) - 1 /\ Len(list) \in Nat
        BY <4>2, TypesOfParts
      <4> QED
        BY <4>1, <4>2, <4>3
    <3> QED
      BY <3>1, <3>2
  <2> QED
    BY <2>1 DEF Linked
<1> HIDE DEF rest
<1>4. due' \in Dues /\ Ordered(rest, due')
  <2>1. Ordered(rest, due')
    BY <1>1, <1>2, TypesOfParts, OrderIgnoresOthers
  <2>2. due' \in Dues
    BY <1>1, TypesOfParts, ConstantTypes DEF Dues
  <2> QED
    BY <2>1, <2>2
<1>5. horizon' \in Int
  BY <1>1, <1>2, TypesOfParts, HorizonIsInt
<1>6. TypeOK'
  BY <1>1, <1>2, <1>4, <1>5, TypesOfParts DEF TypeOK, Dues
<1>7. ListIsSorted'
  BY <1>1, <1>4 DEF ListIsSorted, Ordered
<1>8. \A i \in DOMAIN rest : rest[i] \in Alarms /\ due'[rest[i]] = due[rest[i]]
  BY <1>1, <1>2, TypesOfParts DEF Dues
<1>9. HorizonIsExact'
  <2>1. rest # <<>> => 1 \in DOMAIN rest /\ Head(rest) = rest[1]
    BY <1>2
  <2> QED
    BY <1>1, <1>8, <2>1 DEF HorizonIsExact, Horizon
<1>10. FlushOnReadFiresNothing'
  <2>1. \A b \in Linked' : b \in Linked /\ due'[b] = due[b]
    BY <1>1, <1>3, <1>8 DEF Linked
  <2> QED
    BY <1>1, <2>1 DEF IInv, FlushOnReadFiresNothing, AtRest
<1>11. OriginMovesInTime'
  BY <1>1 DEF IInv, OriginMovesInTime, AtRest
<1> QED
  BY <1>6, <1>7, <1>9, <1>10, <1>11 DEF IInv

LEMMA DeferTicksKeeps ==
  ASSUME IInv, NEW delta \in Steps, DeferTicks(delta)
  PROVE  IInv'
<1>1. delta \in Nat
  BY ConstantTypes
<1>2. CASE delta >= LazyDelta
  BY <1>2, TickTicksKeeps DEF DeferTicks
<1>3. CASE ~ (delta >= LazyDelta) /\ ~ (pending + delta < horizon)
  <2>1. Run(due, ticks, 0, pending + delta)
    BY <1>3 DEF DeferTicks
  <2> QED
    BY <2>1, <1>1, TypesOfParts, RunKeeps
<1>4. CASE ~ (delta >= LazyDelta) /\ pending + delta < horizon
  <2>1. /\ AtRest /\ pending' = pending + delta
        /\ list' = list /\ due' = due /\ ticks' = ticks /\ horizon' = horizon
        /\ frames' = frames /\ rebased' = rebased
    BY <1>4 DEF DeferTicks
  <2>2. TypeOK'
    BY <2>1, <1>1 DEF IInv, TypeOK
  <2>3. ListIsSorted' /\ HorizonIsExact' /\ OriginMovesInTime'
    BY <2>1 DEF IInv, ListIsSorted, HorizonIsExact, OriginMovesInTime, AtRest
  <2>4. FlushOnReadFiresNothing'
    <3> SUFFICES ASSUME NEW i \in DOMAIN list
                 PROVE  due[list[i]] > ticks + pending + delta
      BY <2>1, <1>1, TypesOfParts DEF FlushOnReadFiresNothing, Linked, AtRest
    <3>1. list # <<>> /\ 1 \in DOMAIN list /\ Head(list) = list[1] /\ i \in Nat /\ 1 <= i
      BY TypesOfParts
    <3>2. horizon = due[list[1]] - ticks
      BY <2>1, <3>1 DEF IInv, HorizonIsExact, Horizon
    <3>3. list[1] \in Alarms /\ list[i] \in Alarms
      BY <3>1, TypesOfParts
    <3>4. due[list[1]] \in Int /\ due[list[i]] \in Int /\ ticks \in Int /\ pending \in Nat
      BY <3>3, TypesOfParts DEF Dues
    <3>5. due[list[1]] <= due[list[i]]
      BY <3>1, <3>4, TypesOfParts DEF Ordered
    <3> QED
      BY <1>1, <1>4, <3>2, <3>4, <3>5
  <2> QED
    BY <2>2, <2>3, <2>4 DEF IInv
<1> QED
  BY <1>2, <1>3, <1>4

LEMMA ReadKeeps ==
  ASSUME IInv, Read
  PROVE  IInv'
<1>1. Run(due, ticks, 0, pending)
  BY DEF Read
<1> QED
  BY <1>1, TypesOfParts, RunKeeps

LEMMA ResumeKeeps ==
  ASSUME IInv, Resume
  PROVE  IInv'
<1> DEFINE target == Last(frames).target  outer == Front(frames)
<1>1. frames \in Seq(Frame) /\ frames # <<>> /\ pending' = 0
  BY TypesOfParts, NothingDeferredInside DEF Resume, AtRest
<1>2. Last(frames) \in Frame /\ outer \in Seq(Frame)
  BY <1>1 DEF Last, Front
<1>3. target \in 0 .. MaxTicks
  BY <1>2 DEF Frame
<1>4. \/ list # <<>> /\ Fire(due, ticks, target, outer) /\ rebased' = rebased
      \/ /\ Finish(due, ticks, target, outer)
         /\ rebased' = rebased + MoveAt(Later(ticks, target), Len(outer))
  BY DEF Resume
<1> HIDE DEF target, outer
<1>5. Later(ticks, target) \in 0 .. MaxTicks /\ Len(outer) \in Nat
  BY <1>2, <1>3, TypesOfParts DEF Later
<1>6. rebased' \in Nat
  <2>1. MoveAt(Later(ticks, target), Len(outer)) \in Nat
    BY <1>5, MoveAtBounds
  <2> QED
    BY <1>4, <2>1, TypesOfParts
<1>7. CASE list # <<>> /\ Fire(due, ticks, target, outer)
  BY <1>1, <1>2, <1>3, <1>6, <1>7, TypesOfParts, FireKeeps
<1>8. CASE Finish(due, ticks, target, outer)
  BY <1>1, <1>2, <1>3, <1>6, <1>8, TypesOfParts, FinishKeeps
<1> QED
  BY <1>4, <1>7, <1>8

----------------------------------------------------------------------------
(* The theorems *)

LEMMA InitEstablishes == Init => IInv
<1> SUFFICES ASSUME Init PROVE IInv
  OBVIOUS
<1>1. TypeOK
  BY ConstantTypes DEF Init, TypeOK
<1>2. ListIsSorted /\ HorizonIsExact /\ FlushOnReadFiresNothing /\ OriginMovesInTime
  BY ConstantTypes DEF Init, ListIsSorted, HorizonIsExact, Horizon, FlushOnReadFiresNothing,
                       OriginMovesInTime
<1> QED
  BY <1>1, <1>2 DEF IInv

LEMMA StepKeeps == IInv /\ [Next]_vars => IInv'
<1> SUFFICES ASSUME IInv, [Next]_vars PROVE IInv'
  OBVIOUS
<1>1. ASSUME NEW a \in Alarms, NEW delta \in Deltas, Schedule(a, delta) PROVE IInv'
  BY <1>1, ScheduleKeeps
<1>2. ASSUME NEW a \in Alarms, Cancel(a) PROVE IInv'
  BY <1>2, CancelKeeps
<1>3. ASSUME NEW delta \in Steps, TickTicks(delta) PROVE IInv'
  BY <1>3, TickTicksKeeps
<1>4. ASSUME NEW delta \in Steps, DeferTicks(delta) PROVE IInv'
  BY <1>4, DeferTicksKeeps
<1>5. CASE Read
  BY <1>5, ReadKeeps
<1>6. CASE Resume
  BY <1>6, ResumeKeeps
<1>7. CASE UNCHANGED vars
  BY <1>7 DEF vars, IInv, TypeOK, ListIsSorted, HorizonIsExact, FlushOnReadFiresNothing,
              OriginMovesInTime, AtRest, Linked, Horizon
<1> QED
  BY <1>1, <1>2, <1>3, <1>4, <1>5, <1>6, <1>7 DEF Next

\* Every reachable state of the clock satisfies the inductive invariant.
THEOREM InvariantHolds == Spec => []IInv
<1>1. Init => IInv
  BY InitEstablishes
<1>2. IInv /\ [Next]_vars => IInv'
  BY StepKeeps
<1> QED
  BY <1>1, <1>2, PTL DEF Spec

\* Types, and no time beyond MaxTicks, for every instance of the clock.
THEOREM TypeCorrect == Spec => []TypeOK
<1>1. IInv => TypeOK
  BY DEF IInv
<1> QED
  BY <1>1, InvariantHolds, PTL

\* The alarm list is sorted and holds no alarm twice, whatever callbacks do to it and
\* however the origin moves.
THEOREM ListStaysSorted == Spec => []ListIsSorted
<1>1. IInv => ListIsSorted
  BY DEF IInv
<1> QED
  BY <1>1, InvariantHolds, PTL

\* The cached horizon is exact between two instructions.
THEOREM HorizonStaysExact == Spec => []HorizonIsExact
<1>1. IInv => HorizonIsExact
  BY DEF IInv
<1> QED
  BY <1>1, InvariantHolds, PTL

\* Deferred time never passes an alarm: a flush on a read runs no callback.
THEOREM ReadsFireNothing == Spec => []FlushOnReadFiresNothing
<1>1. IInv => FlushOnReadFiresNothing
  BY DEF IInv
<1> QED
  BY <1>1, InvariantHolds, PTL

----------------------------------------------------------------------------
(* The time *)

\* The origin moves long before a time saturates, whatever a batch may defer: REBASE_AT is
\* 2^58, MAX_TICKS almost 2^62, and a batch lets a million instructions pass, each shorter
\* than LAZY_DELTA.  Without it a saturated sum turns the observable time back.
RoomToDefer == RebaseAt + MaxPending <= MaxTicks

\* What is deferred is bounded, and settling it neither saturates nor loses time.
Deferred == pending <= MaxPending

LEMMA DeferredKeeps == Deferred /\ IInv /\ [Next]_vars => Deferred'
<1> SUFFICES ASSUME Deferred, IInv, [Next]_vars PROVE Deferred'
  OBVIOUS
<1>0. pending \in Nat /\ MaxPending \in Nat
  BY TypesOfParts, ClockAssumption DEF ClockAssumption
<1>1. ASSUME NEW a \in Alarms, NEW delta \in Deltas, Schedule(a, delta) PROVE Deferred'
  BY <1>0, <1>1 DEF Schedule, Deferred
<1>2. ASSUME NEW a \in Alarms, Cancel(a) PROVE Deferred'
  BY <1>2 DEF Cancel, Deferred
<1>3. ASSUME NEW delta \in Steps, TickTicks(delta) PROVE Deferred'
  BY <1>0, <1>3 DEF TickTicks, Run, Deferred
<1>4. ASSUME NEW delta \in Steps, DeferTicks(delta) PROVE Deferred'
  BY <1>0, <1>3, <1>4 DEF DeferTicks, Run, Deferred
<1>5. CASE Read
  BY <1>0, <1>5 DEF Read, Run, Deferred
<1>6. CASE Resume
  BY <1>6 DEF Resume, Deferred
<1>7. CASE UNCHANGED vars
  BY <1>7 DEF vars, Deferred
<1> QED
  BY <1>1, <1>2, <1>3, <1>4, <1>5, <1>6, <1>7 DEF Next

LEMMA DeferredHasRoom ==
  ASSUME IInv, Deferred, RoomToDefer
  PROVE  ticks + pending <= MaxTicks
<1>1. ticks \in 0 .. MaxTicks /\ pending \in Nat /\ MaxTicks \in Nat /\ RebaseAt \in Nat /\ MaxPending \in Nat
  BY TypesOfParts, ClockAssumption DEF ClockAssumption
<1>2. CASE pending = 0
  BY <1>1, <1>2
<1>3. CASE pending # 0
  <2>1. ticks < RebaseAt
    BY <1>3, NothingDeferredInside DEF IInv, OriginMovesInTime
  <2> QED
    BY <1>1, <2>1 DEF Deferred, RoomToDefer
<1> QED
  BY <1>2, <1>3

LEMMA SettledIsNow ==
  ASSUME IInv, ticks + pending <= MaxTicks
  PROVE  Settled.now + Settled.move = ticks + pending
<1>1. ticks \in 0 .. MaxTicks /\ pending \in Nat /\ MaxTicks \in Nat
  BY TypesOfParts, ConstantTypes
<1>2. AddTicks(ticks, pending) = ticks + pending
  BY <1>1 DEF AddTicks
<1>3. Len(frames) \in Nat
  BY TypesOfParts
<1>4. ticks + pending \in 0 .. MaxTicks
  BY <1>1
<1>5. MoveAt(ticks + pending, Len(frames)) \in Nat
  BY <1>3, <1>4, MoveAtBounds
<1> QED
  BY <1>1, <1>2, <1>5 DEF Settled

\* A tick entered at the time that is observable, or before it when no alarm is due by then,
\* leaves a time no earlier.
LEMMA RunGoesOn ==
  ASSUME IInv, NEW dues \in Dues, NEW now \in 0 .. MaxTicks, NEW moved \in Nat, NEW delta \in Nat,
         Run(dues, now, moved, delta),
         NEW floor \in 0 .. MaxTicks, floor <= now + delta,
         list # <<>> => floor <= now \/ floor <= dues[Head(list)]
  PROVE  ticks' + pending' + rebased' >= floor + moved + rebased
<1> DEFINE target == AddTicks(now, delta)
<1>1. target \in 0 .. MaxTicks /\ target >= floor /\ target >= now
  BY ConstantTypes DEF AddTicks
<1>2. pending' = 0 /\ rebased \in Nat /\ Len(frames) \in Nat
  BY TypesOfParts DEF Run
<1>3. MoveAt(target, Len(frames)) \in Nat
  BY <1>1, <1>2, MoveAtBounds
<1>4. CASE list # <<>> /\ Fire(dues, now, target, frames) /\ rebased' = rebased + moved
  <2>1. ticks' = Later(now, dues[Head(list)])
    BY <1>4 DEF Fire
  <2>2. Head(list) \in Alarms
    BY <1>4, TypesOfParts
  <2>3. dues[Head(list)] \in Int
    BY <2>2 DEF Dues
  <2> QED
    BY <1>2, <1>4, <2>1, <2>3 DEF Later
<1>5. CASE /\ Finish(dues, now, target, frames)
           /\ rebased' = rebased + moved + MoveAt(target, Len(frames))
  <2>1. Later(now, target) = target
    BY <1>1 DEF Later
  <2>2. ticks' = target - MoveAt(target, Len(frames))
    BY <1>5, <2>1 DEF Finish
  <2> QED
    BY <1>1, <1>2, <1>3, <1>5, <2>2, SMTT(30)
<1> QED
  BY <1>4, <1>5 DEF Run

LEMMA TickTicksGoesOn ==
  ASSUME IInv, Deferred, RoomToDefer, NEW delta \in Steps, TickTicks(delta)
  PROVE  Now' >= Now
<1>1. delta \in Nat
  BY ConstantTypes
<1>2. Run(Settled.due, Settled.now, Settled.move, delta)
  BY DEF TickTicks
<1>3. ticks' + pending' + rebased' >= Settled.now + Settled.move + rebased
  BY <1>1, <1>2, SettledKeeps, RunGoesOn, ConstantTypes
<1> QED
  BY <1>3, DeferredHasRoom, SettledIsNow DEF Now

LEMMA DeferredIsBeforeAlarms ==
  ASSUME IInv, list # <<>>
  PROVE  ticks + pending <= ticks \/ ticks + pending <= due[Head(list)]
<1>1. pending \in Nat /\ ticks \in Int /\ Head(list) \in Linked
  BY TypesOfParts DEF Linked
<1>2. due[Head(list)] \in Int
  BY <1>1, TypesOfParts DEF Linked, Dues
<1> QED
  BY <1>1, <1>2 DEF IInv, FlushOnReadFiresNothing

LEMMA FlushGoesOn ==
  ASSUME IInv, Deferred, RoomToDefer, NEW delta \in Nat, Run(due, ticks, 0, pending + delta)
  PROVE  Now' >= Now
<1>1. /\ due \in Dues /\ ticks \in 0 .. MaxTicks /\ pending \in Nat /\ rebased \in Nat
      /\ ticks + pending \in 0 .. MaxTicks
  BY TypesOfParts, DeferredHasRoom, ConstantTypes
<1>2. ticks + pending <= ticks + (pending + delta) /\ pending + delta \in Nat
  BY <1>1
<1>3. list # <<>> => ticks + pending <= ticks \/ ticks + pending <= due[Head(list)]
  BY DeferredIsBeforeAlarms
<1>4. ticks' + pending' + rebased' >= (ticks + pending) + 0 + rebased
  BY <1>1, <1>2, <1>3, RunGoesOn
<1> QED
  BY <1>1, <1>4 DEF Now

LEMMA ResumeGoesOn ==
  ASSUME IInv, Resume
  PROVE  Now' >= Now
<1> DEFINE target == Last(frames).target  outer == Front(frames)
<1>1. frames \in Seq(Frame) /\ frames # <<>> /\ pending = 0 /\ pending' = 0
  BY TypesOfParts, NothingDeferredInside DEF Resume, AtRest
<1>2. target \in 0 .. MaxTicks /\ outer \in Seq(Frame)
  <2>1. Last(frames) \in Frame /\ outer \in Seq(Frame)
    BY <1>1 DEF Last, Front
  <2> QED
    BY <2>1 DEF Frame
<1>3. ticks \in 0 .. MaxTicks /\ rebased \in Nat /\ MaxTicks \in Nat
  BY TypesOfParts, ConstantTypes
<1> HIDE DEF target, outer
<1>4. Later(ticks, target) \in 0 .. MaxTicks /\ Later(ticks, target) >= ticks /\ Len(outer) \in Nat
  BY <1>2, <1>3 DEF Later
<1>5. CASE list # <<>> /\ Fire(due, ticks, target, outer) /\ rebased' = rebased
  <2>1. ticks' = Later(ticks, due[Head(list)])
    BY <1>5 DEF Fire
  <2>2. Head(list) \in Alarms
    BY <1>5, TypesOfParts
  <2>3. due[Head(list)] \in Int
    BY <2>2, TypesOfParts DEF Dues
  <2> QED
    BY <1>1, <1>3, <1>5, <2>1, <2>3 DEF Later, Now
<1>6. CASE /\ Finish(due, ticks, target, outer)
           /\ rebased' = rebased + MoveAt(Later(ticks, target), Len(outer))
  <2>1. MoveAt(Later(ticks, target), Len(outer)) \in Nat
    BY <1>4, MoveAtBounds
  <2>2. ticks' = Later(ticks, target) - MoveAt(Later(ticks, target), Len(outer))
    BY <1>6 DEF Finish
  <2> QED
    BY <1>1, <1>3, <1>4, <1>6, <2>1, <2>2, SMTT(30) DEF Now
<1> QED
  BY <1>5, <1>6 DEF Resume, target, outer

LEMMA StepGoesOn ==
  ASSUME RoomToDefer
  PROVE  IInv /\ Deferred /\ [Next]_vars => [Now' >= Now]_vars
<1> SUFFICES ASSUME IInv, Deferred, [Next]_vars PROVE [Now' >= Now]_vars
  OBVIOUS
<1>0. ticks \in Int /\ pending \in Nat /\ rebased \in Nat
  BY TypesOfParts
<1>1. ASSUME NEW a \in Alarms, NEW delta \in Deltas, Schedule(a, delta) PROVE Now' >= Now
  BY <1>0, <1>1, DeferredHasRoom, SettledIsNow, SettledKeeps DEF Schedule, Now
<1>2. ASSUME NEW a \in Alarms, Cancel(a) PROVE Now' >= Now
  BY <1>0, <1>2 DEF Cancel, Now
<1>3. ASSUME NEW delta \in Steps, TickTicks(delta) PROVE Now' >= Now
  BY <1>3, TickTicksGoesOn
<1>4. ASSUME NEW delta \in Steps, DeferTicks(delta) PROVE Now' >= Now
  <2>1. delta \in Nat
    BY ConstantTypes
  <2>2. CASE delta >= LazyDelta
    BY <1>4, <2>2, TickTicksGoesOn DEF DeferTicks
  <2>3. CASE ~ (delta >= LazyDelta) /\ pending + delta < horizon
    BY <1>0, <1>4, <2>1, <2>3 DEF DeferTicks, Now
  <2>4. CASE ~ (delta >= LazyDelta) /\ ~ (pending + delta < horizon)
    BY <1>4, <2>1, <2>4, FlushGoesOn DEF DeferTicks
  <2> QED
    BY <2>2, <2>3, <2>4
<1>5. CASE Read
  <2>1. Run(due, ticks, 0, pending + 0)
    BY <1>0, <1>5 DEF Read
  <2> QED
    BY <2>1, FlushGoesOn
<1>6. CASE Resume
  BY <1>6, ResumeGoesOn
<1> QED
  BY <1>1, <1>2, <1>3, <1>4, <1>5, <1>6 DEF Next

\* The time a program can observe never goes back, for every instance of the clock whose
\* origin moves in time.
THEOREM TimeGoesOn ==
  ASSUME RoomToDefer
  PROVE  Spec => TimeNeverGoesBack
<1>1. Init => IInv /\ Deferred
  BY InitEstablishes, ClockAssumption DEF Init, Deferred, ClockAssumption
<1>2. IInv /\ Deferred /\ [Next]_vars => (IInv /\ Deferred)'
  BY StepKeeps, DeferredKeeps
<1>3. IInv /\ Deferred /\ [Next]_vars => [Now' >= Now]_vars
  BY StepGoesOn
<1> QED
  BY <1>1, <1>2, <1>3, PTL DEF Spec, TimeNeverGoesBack

----------------------------------------------------------------------------
(***************************************************************************)
(* SimulationClock implements EagerClock, for every set of alarms and      *)
(* every value of the other constants for which no sum saturates: every    *)
(* step of the clock with deferral, a cached horizon and a moving origin   *)
(* is a step of the clock without, or none.                                *)
(***************************************************************************)

(* A list of alarms as a set with an order *)

Elems(s) == {s[i] : i \in DOMAIN s}
Pairs(s) == {p \in Elems(s) \X Elems(s) : \E i, j \in DOMAIN s : i < j /\ p = <<s[i], s[j]>>}
Within(r, S) == r \cap (S \X S)

LEMMA PairInList ==
  ASSUME NEW s, NEW x, NEW y
  PROVE  <<x, y>> \in Pairs(s) <=> \E i, j \in DOMAIN s : i < j /\ x = s[i] /\ y = s[j]
  BY DEF Pairs, Elems

\* q is s without a; f tells where in s an alarm of q was.
Takes(f, s, q, a) ==
  /\ f \in [DOMAIN q -> DOMAIN s]
  /\ \A i \in DOMAIN q : q[i] = s[f[i]] /\ q[i] # a
  /\ \A i, j \in DOMAIN q : i < j <=> f[i] < f[j]
  /\ \A m \in DOMAIN s : s[m] # a => \E i \in DOMAIN q : f[i] = m

\* A list from which one alarm is taken: what is left keeps its order.
LEMMA Sublist ==
  ASSUME NEW s \in Seq(Alarms), NEW q \in Seq(Alarms), NEW a, NEW f, Takes(f, s, q, a)
  PROVE  /\ Elems(q) = Elems(s) \ {a}
         /\ Pairs(q) = Within(Pairs(s), Elems(s) \ {a})
<1>0. /\ f \in [DOMAIN q -> DOMAIN s]
      /\ \A i \in DOMAIN q : q[i] = s[f[i]] /\ q[i] # a
      /\ \A i, j \in DOMAIN q : i < j <=> f[i] < f[j]
      /\ \A m \in DOMAIN s : s[m] # a => \E i \in DOMAIN q : f[i] = m
  BY DEF Takes
<1>1. Elems(q) = Elems(s) \ {a}
  BY <1>0 DEF Elems
<1>2. ASSUME NEW x, NEW y
      PROVE  <<x, y>> \in Pairs(q) <=> <<x, y>> \in Within(Pairs(s), Elems(s) \ {a})
  <2>1. ASSUME <<x, y>> \in Pairs(q) PROVE <<x, y>> \in Within(Pairs(s), Elems(s) \ {a})
    <3>1. PICK i \in DOMAIN q, j \in DOMAIN q : i < j /\ x = q[i] /\ y = q[j]
      BY <2>1, PairInList
    <3>2. f[i] \in DOMAIN s /\ f[j] \in DOMAIN s /\ f[i] < f[j] /\ x = s[f[i]] /\ y = s[f[j]]
      BY <1>0, <3>1
    <3>3. <<x, y>> \in Pairs(s)
      BY <3>2, PairInList
    <3>4. x \in Elems(q) /\ y \in Elems(q)
      BY <3>1 DEF Elems
    <3> QED
      BY <1>1, <3>3, <3>4 DEF Within
  <2>2. ASSUME <<x, y>> \in Within(Pairs(s), Elems(s) \ {a}) PROVE <<x, y>> \in Pairs(q)
    <3>1. <<x, y>> \in Pairs(s) /\ x # a /\ y # a
      BY <2>2 DEF Within
    <3>2. PICK m \in DOMAIN s, n \in DOMAIN s : m < n /\ x = s[m] /\ y = s[n]
      BY <3>1, PairInList
    <3>3. PICK i \in DOMAIN q : f[i] = m
      BY <1>0, <3>1, <3>2
    <3>4. PICK j \in DOMAIN q : f[j] = n
      BY <1>0, <3>1, <3>2
    <3>5. i < j /\ x = q[i] /\ y = q[j]
      BY <1>0, <3>2, <3>3, <3>4
    <3> QED
      BY <3>5, PairInList
  <2> QED
    BY <2>1, <2>2
<1>3. \A p \in Pairs(q) : \E x, y : p = <<x, y>>
  BY DEF Pairs
<1>4. \A p \in Within(Pairs(s), Elems(s) \ {a}) : \E x, y : p = <<x, y>>
  BY DEF Pairs, Within
<1>5. ASSUME NEW p \in Pairs(q) PROVE p \in Within(Pairs(s), Elems(s) \ {a})
  <2>1. PICK x, y : p = <<x, y>>
    BY <1>3, <1>5
  <2> QED
    BY <1>2, <1>5, <2>1
<1>6. ASSUME NEW p \in Within(Pairs(s), Elems(s) \ {a}) PROVE p \in Pairs(q)
  <2>1. PICK x, y : p = <<x, y>>
    BY <1>4, <1>6
  <2> QED
    BY <1>2, <1>6, <2>1
<1> QED
  BY <1>1, <1>5, <1>6

\* The head of the list comes before all others.
LEMMA TailIsRest ==
  ASSUME NEW s \in Seq(Alarms), NEW dues, s # <<>>, Ordered(s, dues)
  PROVE  /\ Elems(Tail(s)) = Elems(s) \ {Head(s)}
         /\ Pairs(Tail(s)) = Within(Pairs(s), Elems(s) \ {Head(s)})
         /\ Head(s) \in Elems(s)
         /\ \A b \in Elems(s) \ {Head(s)} : <<Head(s), b>> \in Pairs(s)
<1> DEFINE q == Tail(s)  a == Head(s)  f == [i \in DOMAIN q |-> i + 1]
<1>1. /\ q \in Seq(Alarms) /\ a = s[1] /\ 1 \in DOMAIN s
      /\ Len(s) \in Nat /\ DOMAIN s = 1 .. Len(s) /\ DOMAIN q = 1 .. Len(s) - 1
      /\ \A i \in DOMAIN q : q[i] = s[i + 1]
  OBVIOUS
<1>2. \A i \in DOMAIN q : q[i] # a
  BY TailKeepsOrder
<1> HIDE DEF q, a
<1>3. f \in [DOMAIN q -> DOMAIN s]
  BY <1>1
<1>4. \A i \in DOMAIN q : f[i] = i + 1 /\ i \in Nat
  BY <1>1
<1> HIDE DEF f
<1>5. \A m \in DOMAIN s : s[m] # a => \E i \in DOMAIN q : f[i] = m
  <2> SUFFICES ASSUME NEW m \in DOMAIN s, s[m] # a PROVE \E i \in DOMAIN q : f[i] = m
    OBVIOUS
  <2>1. m - 1 \in DOMAIN q
    BY <1>1
  <2> QED
    BY <2>1, <1>1, <1>4
<1>6. Elems(q) = Elems(s) \ {a} /\ Pairs(q) = Within(Pairs(s), Elems(s) \ {a})
  <2>1. \A i \in DOMAIN q : q[i] = s[f[i]] /\ q[i] # a
    BY <1>1, <1>2, <1>4
  <2>2. \A i, j \in DOMAIN q : i < j <=> f[i] < f[j]
    BY <1>4
  <2>3. Takes(f, s, q, a)
    BY <1>3, <1>5, <2>1, <2>2 DEF Takes
  <2> QED
    BY <1>1, <2>3, Sublist
<1>7. a \in Elems(s)
  BY <1>1 DEF Elems
<1>8. ASSUME NEW b \in Elems(s) \ {a} PROVE <<a, b>> \in Pairs(s)
  <2>1. PICK m \in DOMAIN s : b = s[m]
    BY DEF Elems
  <2>2. m # 1 /\ 1 < m
    BY <1>1, <1>8, <2>1
  <2> QED
    BY <1>1, <2>1, <2>2, PairInList
<1> QED
  BY <1>6, <1>7, <1>8 DEF q, a

LEMMA WithoutIsRest ==
  ASSUME NEW s \in Seq(Alarms), NEW dues, NEW a \in Alarms, Ordered(s, dues)
  PROVE  /\ Elems(Without(s, a)) = Elems(s) \ {a}
         /\ Pairs(Without(s, a)) = Within(Pairs(s), Elems(s) \ {a})
<1>1. CASE ~ \E i \in DOMAIN s : s[i] = a
  <2>1. Without(s, a) = s /\ a \notin Elems(s)
    BY <1>1 DEF Without, Elems
  <2> QED
    BY <2>1 DEF Pairs, Within
<1>2. CASE \E i \in DOMAIN s : s[i] = a
  <2> DEFINE k == CHOOSE i \in DOMAIN s : s[i] = a  q == Without(s, a)
             f == [i \in DOMAIN q |-> IF i < k THEN i ELSE i + 1]
  <2>1. k \in DOMAIN s /\ s[k] = a
    BY <1>2
  <2>2. q = RemoveAt(s, k)
    BY <1>2 DEF Without
  <2>3. q \in Seq(Alarms) /\ \A i \in DOMAIN q : q[i] # a
    BY WithoutKeepsOrder
  <2> HIDE DEF k, q
  <2>4. /\ Len(q) = Len(s) - 1
        /\ \A i \in 1 .. Len(s) - 1 : q[i] = IF i < k THEN s[i] ELSE s[i + 1]
    BY <2>1, <2>2, RemoveAtElements
  <2>5. /\ Len(s) \in Nat /\ DOMAIN s = 1 .. Len(s) /\ DOMAIN q = 1 .. Len(s) - 1
        /\ k \in 1 .. Len(s)
    BY <2>1, <2>3, <2>4
  <2>6. f \in [DOMAIN q -> DOMAIN s]
    BY <2>5
  <2>7. \A i \in DOMAIN q : f[i] = IF i < k THEN i ELSE i + 1
    OBVIOUS
  <2> HIDE DEF f
  <2>8. \A i \in DOMAIN q : q[i] = s[f[i]] /\ q[i] # a
    BY <2>3, <2>4, <2>5, <2>7
  <2>9. \A i, j \in DOMAIN q : i < j <=> f[i] < f[j]
    BY <2>5, <2>7
  <2>10. \A m \in DOMAIN s : s[m] # a => \E i \in DOMAIN q : f[i] = m
    <3> SUFFICES ASSUME NEW m \in DOMAIN s, s[m] # a PROVE \E i \in DOMAIN q : f[i] = m
      OBVIOUS
    <3>1. m < k \/ m > k
      BY <2>1, <2>5
    <3>2. CASE m < k
      <4>1. m \in DOMAIN q /\ f[m] = m
        BY <2>5, <2>7, <3>2
      <4> QED
        BY <4>1
    <3>3. CASE m > k
      <4>1. m - 1 \in DOMAIN q /\ f[m - 1] = m
        BY <2>5, <2>7, <3>3
      <4> QED
        BY <4>1
    <3> QED
      BY <3>1, <3>2, <3>3
  <2>11. Elems(q) = Elems(s) \ {a} /\ Pairs(q) = Within(Pairs(s), Elems(s) \ {a})
    <3>1. Takes(f, s, q, a)
      BY <2>6, <2>8, <2>9, <2>10 DEF Takes
    <3> QED
      BY <2>3, <3>1, Sublist
  <2> QED
    BY <2>11 DEF q
<1> QED
  BY <1>1, <1>2

\* An alarm that is linked comes after those due by its time and before those due later.
LEMMA InsertIsInOrder ==
  ASSUME NEW s \in Seq(Alarms), NEW dues \in Dues, NEW a \in Alarms,
         Ordered(s, dues), a \notin Elems(s)
  PROVE  /\ Elems(Insert(s, dues, a)) = Elems(s) \cup {a}
         /\ Pairs(Insert(s, dues, a)) =
              Pairs(s) \cup {<<b, a>> : b \in {c \in Elems(s) : dues[c] <= dues[a]}}
                       \cup {<<a, b>> : b \in {c \in Elems(s) : dues[c] > dues[a]}}
<1> DEFINE q == Insert(s, dues, a)  k == Slot(s, dues, dues[a])
<1>1. dues \in [Alarms -> Int] /\ dues[a] \in Int
  BY DEF Dues
<1>2. /\ k \in 1 .. Len(s) + 1
      /\ \A i \in DOMAIN s : i < k => dues[s[i]] <= dues[a]
  BY <1>1, SlotIsFirstLater
<1>3. q = InsertAt(s, k, a)
  BY DEF Insert
<1>4. \A i \in DOMAIN s : s[i] # a
  BY DEF Elems
<1>5. q \in Seq(Alarms) /\ Ordered(q, dues)
  BY <1>4, InsertKeepsOrder
<1>6. k \in DOMAIN s => dues[s[k]] > dues[a]
  BY <1>1, SlotIsFirstLater
<1> HIDE DEF q, k
<1>7. /\ Len(q) = Len(s) + 1
      /\ \A i \in 1 .. Len(s) + 1 : q[i] = IF i < k THEN s[i] ELSE IF i = k THEN a ELSE s[i - 1]
  BY <1>2, <1>3, InsertAtElements
<1>8. DOMAIN s = 1 .. Len(s) /\ DOMAIN q = 1 .. Len(s) + 1 /\ Len(s) \in Nat
  BY <1>5, <1>7
<1>9. \A i \in DOMAIN s : i >= k => dues[s[i]] > dues[a]
  <2> SUFFICES ASSUME NEW i \in DOMAIN s, i >= k PROVE dues[s[i]] > dues[a]
    OBVIOUS
  <2>1. k \in DOMAIN s /\ (i = k \/ k < i)
    BY <1>2, <1>8
  <2>2. s[i] \in Alarms /\ s[k] \in Alarms
    BY <2>1
  <2>3. dues[s[k]] <= dues[s[i]]
    BY <1>1, <2>1, <2>2 DEF Ordered
  <2> QED
    BY <1>1, <1>6, <2>1, <2>2, <2>3
<1>10. /\ \A i \in DOMAIN s : i < k => i \in DOMAIN q /\ q[i] = s[i]
       /\ \A i \in DOMAIN s : i >= k => i + 1 \in DOMAIN q /\ q[i + 1] = s[i]
       /\ k \in DOMAIN q /\ q[k] = a
  BY <1>2, <1>7, <1>8
<1>11. \A m \in DOMAIN q : \/ m < k /\ m \in DOMAIN s /\ q[m] = s[m]
                           \/ m = k /\ q[m] = a
                           \/ m > k /\ m - 1 \in DOMAIN s /\ m - 1 >= k /\ q[m] = s[m - 1]
  BY <1>2, <1>7, <1>8
<1>12. Elems(q) = Elems(s) \cup {a}
  <2>1. \A x \in Elems(q) : x \in Elems(s) \cup {a}
    BY <1>11 DEF Elems
  <2>2. \A x \in Elems(s) : x \in Elems(q)
    <3> SUFFICES ASSUME NEW i \in DOMAIN s PROVE s[i] \in Elems(q)
      BY DEF Elems
    <3>1. i < k \/ i >= k
      BY <1>2, <1>8
    <3> QED
      BY <1>10, <3>1 DEF Elems
  <2>3. a \in Elems(q)
    BY <1>10 DEF Elems
  <2> QED
    BY <2>1, <2>2, <2>3
<1> DEFINE new == Pairs(s) \cup {<<b, a>> : b \in {c \in Elems(s) : dues[c] <= dues[a]}}
                           \cup {<<a, b>> : b \in {c \in Elems(s) : dues[c] > dues[a]}}
<1>13. ASSUME NEW x, NEW y, <<x, y>> \in Pairs(q) PROVE <<x, y>> \in new
  <2>1. PICK i \in DOMAIN q, j \in DOMAIN q : i < j /\ x = q[i] /\ y = q[j]
    BY <1>13, PairInList
  <2>2. i \in Nat /\ j \in Nat /\ k \in Nat
    BY <1>2, <1>8
  <2>3. CASE j < k
    <3>1. i \in DOMAIN s /\ j \in DOMAIN s /\ x = s[i] /\ y = s[j]
      BY <1>11, <2>1, <2>2, <2>3
    <3> QED
      BY <2>1, <3>1, PairInList
  <2>4. CASE j = k
    <3>1. i \in DOMAIN s /\ x = s[i] /\ y = a /\ dues[x] <= dues[a]
      BY <1>2, <1>11, <2>1, <2>2, <2>4
    <3> QED
      BY <3>1 DEF Elems
  <2>5. CASE j > k /\ i < k
    <3>1. i \in DOMAIN s /\ j - 1 \in DOMAIN s /\ i < j - 1 /\ x = s[i] /\ y = s[j - 1]
      BY <1>11, <2>1, <2>2, <2>5
    <3> QED
      BY <3>1, PairInList
  <2>6. CASE j > k /\ i = k
    <3>1. j - 1 \in DOMAIN s /\ j - 1 >= k /\ x = a /\ y = s[j - 1]
      BY <1>11, <2>1, <2>2, <2>6
    <3>2. y \in Elems(s) /\ dues[y] > dues[a]
      BY <1>9, <3>1 DEF Elems
    <3> QED
      BY <3>1, <3>2
  <2>7. CASE j > k /\ i > k
    <3>1. /\ i - 1 \in DOMAIN s /\ j - 1 \in DOMAIN s /\ i - 1 < j - 1
          /\ x = s[i - 1] /\ y = s[j - 1]
      BY <1>11, <2>1, <2>2, <2>7
    <3> QED
      BY <3>1, PairInList
  <2> QED
    BY <2>2, <2>3, <2>4, <2>5, <2>6, <2>7
<1>14. ASSUME NEW x, NEW y, <<x, y>> \in Pairs(s) PROVE <<x, y>> \in Pairs(q)
  <2>1. PICK i \in DOMAIN s, j \in DOMAIN s : i < j /\ x = s[i] /\ y = s[j]
    BY <1>14, PairInList
  <2>2. i \in Nat /\ j \in Nat /\ k \in Nat
    BY <1>2, <1>8
  <2>3. CASE j < k
    BY <1>10, <2>1, <2>2, <2>3, PairInList
  <2>4. CASE j >= k /\ i < k
    <3>1. i \in DOMAIN q /\ j + 1 \in DOMAIN q /\ i < j + 1 /\ q[i] = x /\ q[j + 1] = y
      BY <1>10, <2>1, <2>2, <2>4
    <3> QED
      BY <3>1, PairInList
  <2>5. CASE j >= k /\ i >= k
    <3>1. i + 1 \in DOMAIN q /\ j + 1 \in DOMAIN q /\ i + 1 < j + 1 /\ q[i + 1] = x /\ q[j + 1] = y
      BY <1>10, <2>1, <2>2, <2>5
    <3> QED
      BY <3>1, PairInList
  <2> QED
    BY <2>2, <2>3, <2>4, <2>5
<1>15. ASSUME NEW b \in Elems(s), dues[b] <= dues[a] PROVE <<b, a>> \in Pairs(q)
  <2>1. PICK i \in DOMAIN s : b = s[i]
    BY DEF Elems
  <2>2. dues[b] \in Int /\ i \in Nat /\ k \in Nat
    BY <1>1, <1>2, <1>8, <2>1
  <2>3. i < k
    BY <1>1, <1>9, <1>15, <2>1, <2>2
  <2> QED
    BY <1>10, <2>1, <2>3, PairInList
<1>16. ASSUME NEW b \in Elems(s), dues[b] > dues[a] PROVE <<a, b>> \in Pairs(q)
  <2>1. PICK i \in DOMAIN s : b = s[i]
    BY DEF Elems
  <2>2. dues[b] \in Int /\ i \in Nat /\ k \in Nat
    BY <1>1, <1>2, <1>8, <2>1
  <2>3. i >= k
    BY <1>1, <1>2, <1>16, <2>1, <2>2
  <2>4. i + 1 \in DOMAIN q /\ q[i + 1] = b /\ k < i + 1
    BY <1>10, <2>1, <2>2, <2>3
  <2> QED
    BY <1>10, <2>4, PairInList
<1>17. \A p \in Pairs(q) : \E x, y : p = <<x, y>>
  BY DEF Pairs
<1>18. \A p \in new : \E x, y : p = <<x, y>>
  BY DEF Pairs
<1>19. ASSUME NEW p \in Pairs(q) PROVE p \in new
  BY <1>13, <1>17, <1>19
<1>20. ASSUME NEW p \in new PROVE p \in Pairs(q)
  <2>1. CASE p \in Pairs(s)
    BY <1>14, <1>18, <2>1
  <2>2. CASE p \in {<<b, a>> : b \in {c \in Elems(s) : dues[c] <= dues[a]}}
    BY <1>15, <2>2
  <2>3. CASE p \in {<<a, b>> : b \in {c \in Elems(s) : dues[c] > dues[a]}}
    BY <1>16, <2>3
  <2> QED
    BY <1>20, <2>1, <2>2, <2>3
<1>21. Pairs(q) = new
  BY <1>19, <1>20
<1> QED
  BY <1>12, <1>21 DEF q

----------------------------------------------------------------------------
(* Callbacks *)

Call == [target : Int, alarm : Alarms]

\* The activations, with their targets counted from the beginning.
CallsOf(fr, r) == [i \in DOMAIN fr |-> [fr[i] EXCEPT !.target = @ + r]]

LEMMA CallsElements ==
  ASSUME NEW fr \in Seq(Frame), NEW r \in Nat
  PROVE  /\ CallsOf(fr, r) \in Seq(Call)
         /\ Len(CallsOf(fr, r)) = Len(fr)
         /\ \A i \in 1 .. Len(fr) :
              CallsOf(fr, r)[i] = [target |-> fr[i].target + r, alarm |-> fr[i].alarm]
<1>1. DOMAIN fr = 1 .. Len(fr) /\ Len(fr) \in Nat
  OBVIOUS
<1>2. \A i \in 1 .. Len(fr) : fr[i] \in Frame
  BY <1>1
<1>3. \A x \in Frame : /\ [x EXCEPT !.target = @ + r] = [target |-> x.target + r, alarm |-> x.alarm]
                       /\ [target |-> x.target + r, alarm |-> x.alarm] \in Call
  BY ConstantTypes DEF Frame, Call
<1>4. \A i \in 1 .. Len(fr) : /\ CallsOf(fr, r)[i] = [target |-> fr[i].target + r, alarm |-> fr[i].alarm]
                              /\ CallsOf(fr, r)[i] \in Call
  BY <1>1, <1>2, <1>3 DEF CallsOf
<1>5. CallsOf(fr, r) = [i \in 1 .. Len(fr) |-> CallsOf(fr, r)[i]]
  BY <1>1 DEF CallsOf
<1>6. CallsOf(fr, r) \in [1 .. Len(fr) -> Call]
  BY <1>4, <1>5
<1> QED
  BY <1>1, <1>4, <1>6

LEMMA NoCalls ==
  ASSUME NEW r \in Nat, NEW fr \in Seq(Frame)
  PROVE  CallsOf(fr, r) = <<>> <=> fr = <<>>
<1>1. /\ CallsOf(fr, r) \in Seq(Call) /\ Len(CallsOf(fr, r)) = Len(fr)
  BY CallsElements
<1> QED
  BY <1>1

\* The origin moves only while there is none.
LEMMA CallsStay ==
  ASSUME NEW fr \in Seq(Frame), NEW r \in Nat, NEW q \in Nat, fr # <<>> => r = q
  PROVE  CallsOf(fr, r) = CallsOf(fr, q)
  BY NoCalls

LEMMA CallsGrow ==
  ASSUME NEW fr \in Seq(Frame), NEW r \in Nat, NEW t \in 0 .. MaxTicks, NEW a \in Alarms
  PROVE  CallsOf(Append(fr, [target |-> t, alarm |-> a]), r)
           = Append(CallsOf(fr, r), [target |-> t + r, alarm |-> a])
<1> DEFINE x == [target |-> t, alarm |-> a]  new == Append(fr, x)  c == CallsOf(fr, r)
           y == [target |-> t + r, alarm |-> a]
<1>1. x \in Frame /\ x.target = t /\ x.alarm = a /\ y \in Call
  BY ConstantTypes DEF Frame, Call
<1>2. c \in Seq(Call) /\ Len(c) = Len(fr)
      /\ \A i \in 1 .. Len(fr) : c[i] = [target |-> fr[i].target + r, alarm |-> fr[i].alarm]
  BY CallsElements
<1> HIDE DEF x, c, y
<1>3. /\ new \in Seq(Frame) /\ Len(new) = Len(fr) + 1 /\ Len(fr) \in Nat
      /\ \A i \in 1 .. Len(fr) : new[i] = fr[i]
      /\ new[Len(fr) + 1] = x
  BY <1>1, AppendProperties
<1> HIDE DEF new
<1>4. /\ CallsOf(new, r) \in Seq(Call) /\ Len(CallsOf(new, r)) = Len(fr) + 1
      /\ \A i \in 1 .. Len(fr) + 1 :
           CallsOf(new, r)[i] = [target |-> new[i].target + r, alarm |-> new[i].alarm]
  BY <1>3, CallsElements
<1>5. /\ Append(c, y) \in Seq(Call) /\ Len(Append(c, y)) = Len(fr) + 1
      /\ \A i \in 1 .. Len(fr) : Append(c, y)[i] = c[i]
      /\ Append(c, y)[Len(fr) + 1] = y
  BY <1>1, <1>2, AppendProperties
<1>6. \A i \in 1 .. Len(fr) + 1 : CallsOf(new, r)[i] = Append(c, y)[i]
  <2> SUFFICES ASSUME NEW i \in 1 .. Len(fr) + 1 PROVE CallsOf(new, r)[i] = Append(c, y)[i]
    OBVIOUS
  <2>1. CASE i = Len(fr) + 1
    BY <1>1, <1>3, <1>4, <1>5, <2>1 DEF y
  <2>2. CASE i # Len(fr) + 1
    <3>1. i \in 1 .. Len(fr)
      BY <1>3, <2>2
    <3> QED
      BY <1>2, <1>3, <1>4, <1>5, <3>1
  <2> QED
    BY <2>1, <2>2
<1>7. CallsOf(new, r) = Append(c, y)
  BY <1>4, <1>5, <1>6, SeqEqual
<1> QED
  BY <1>7 DEF new, x, c, y

LEMMA FrontElements ==
  ASSUME NEW S, NEW s \in Seq(S), s # <<>>
  PROVE  /\ Front(s) \in Seq(S)
         /\ Len(Front(s)) = Len(s) - 1
         /\ \A i \in 1 .. Len(s) - 1 : Front(s)[i] = s[i]
<1>1. Len(s) \in Nat \ {0} /\ \A i \in 1 .. Len(s) : s[i] \in S
  OBVIOUS
<1> DEFINE n == Len(s) - 1
<1>2. n \in Int /\ 1 \in Int /\ \A i \in 1 .. n : s[i] \in S
  BY <1>1
<1> HIDE DEF n
<1>3. /\ SubSeq(s, 1, n) \in Seq(S)
      /\ Len(SubSeq(s, 1, n)) = IF 1 <= n THEN n - 1 + 1 ELSE 0
      /\ \A i \in 1 .. n - 1 + 1 : SubSeq(s, 1, n)[i] = s[1 + i - 1]
  BY <1>2, SubSeqProperties
<1>4. \A i \in 1 .. n : i \in 1 .. n - 1 + 1 /\ 1 + i - 1 = i
  BY <1>2
<1>5. \A i \in 1 .. n : SubSeq(s, 1, n)[i] = s[i]
  BY <1>3, <1>4
<1>6. n \in Nat
  BY <1>1 DEF n
<1>7. Len(SubSeq(s, 1, n)) = n
  BY <1>3, <1>6
<1>8. Front(s) = SubSeq(s, 1, n)
  BY DEF Front, n
<1>9. n = Len(s) - 1
  BY DEF n
<1> QED
  BY <1>3, <1>5, <1>7, <1>8, <1>9

LEMMA CallsReturn ==
  ASSUME NEW fr \in Seq(Frame), fr # <<>>, NEW r \in Nat
  PROVE  /\ Front(fr) \in Seq(Frame) /\ Last(fr) \in Frame
         /\ CallsOf(Front(fr), r) = Front(CallsOf(fr, r))
         /\ Last(CallsOf(fr, r)) = [target |-> Last(fr).target + r, alarm |-> Last(fr).alarm]
<1> DEFINE f == Front(fr)  c == CallsOf(fr, r)
<1>1. Len(fr) \in Nat \ {0} /\ \A i \in 1 .. Len(fr) : fr[i] \in Frame
  OBVIOUS
<1>2. /\ c \in Seq(Call) /\ Len(c) = Len(fr)
      /\ \A i \in 1 .. Len(fr) : c[i] = [target |-> fr[i].target + r, alarm |-> fr[i].alarm]
  BY CallsElements
<1>3. \A i \in 1 .. Len(fr) : c[i] \in Call
  BY <1>2
<1> HIDE DEF c
<1>4. f \in Seq(Frame) /\ Len(f) = Len(fr) - 1 /\ \A i \in 1 .. Len(fr) - 1 : f[i] = fr[i]
  BY <1>1, FrontElements, Zenon
<1>5. Front(c) \in Seq(Call) /\ Len(Front(c)) = Len(fr) - 1 /\ \A i \in 1 .. Len(fr) - 1 : Front(c)[i] = c[i]
  <2>1. c # <<>>
    BY <1>1, <1>2
  <2> QED
    BY <1>2, <2>1, FrontElements
<1> HIDE DEF f
<1>6. /\ CallsOf(f, r) \in Seq(Call) /\ Len(CallsOf(f, r)) = Len(fr) - 1
      /\ \A i \in 1 .. Len(fr) - 1 : CallsOf(f, r)[i] = [target |-> f[i].target + r, alarm |-> f[i].alarm]
  BY <1>4, CallsElements
<1>7. \A i \in 1 .. Len(fr) - 1 : CallsOf(f, r)[i] = Front(c)[i]
  <2> SUFFICES ASSUME NEW i \in 1 .. Len(fr) - 1 PROVE CallsOf(f, r)[i] = Front(c)[i]
    OBVIOUS
  <2>1. i \in 1 .. Len(fr)
    BY <1>1
  <2> QED
    BY <1>2, <1>4, <1>5, <1>6, <2>1
<1>8. CallsOf(f, r) = Front(c)
  BY <1>5, <1>6, <1>7, SeqEqual
<1>9. Last(fr) \in Frame /\ Last(c) = [target |-> Last(fr).target + r, alarm |-> Last(fr).alarm]
  BY <1>1, <1>2 DEF Last
<1> QED
  BY <1>4, <1>8, <1>9 DEF f, c

----------------------------------------------------------------------------
(* Steps of the loop *)

\* No sum that a call could make now saturates: the clock counts from the origin, which moves.
NothingSaturates == \A d \in Deltas \cup Steps \cup {0} : ticks + pending + d < MaxTicks

\* The origin moves (at 2^58) well before the sums reach "never" (at 2^62 - 1), so that every
\* delay and every step below the difference fits.
RoomToArm == \A d \in Deltas \cup Steps \cup {0} : RebaseAt + MaxPending + d <= MaxTicks

\* A linked alarm has a due time: none is armed for "never".
NoneIsNever == \A a \in Linked : due[a] < MaxTicks

\* The linked alarms with the times they are due, counted from the beginning.
When == [b \in Linked |-> due[b] + rebased]

\* EagerClock's Fire and Reach, on the list.
Fires(target, outer) ==
  \E a \in Linked :
    /\ due[a] + rebased <= target
    /\ \A b \in Linked \ {a} : <<a, b>> \in Pairs(list)
    /\ Now' = Later(Now, due[a] + rebased)
    /\ When' = [b \in Linked \ {a} |-> due[b] + rebased]
    /\ Pairs(list)' = Within(Pairs(list), Linked \ {a})
    /\ CallsOf(frames, rebased)' = Append(CallsOf(outer, rebased), [target |-> target, alarm |-> a])

Reaches(target, outer) ==
  /\ \A b \in Linked : due[b] + rebased > target
  /\ Now' = Later(Now, target)
  /\ When' = When
  /\ Pairs(list)' = Pairs(list)
  /\ CallsOf(frames, rebased)' = CallsOf(outer, rebased)

\* The head fires, at the time that EagerClock says.
LEMMA FireIsEager ==
  ASSUME IInv, list # <<>>, NEW target \in 0 .. MaxTicks, NEW outer \in Seq(Frame), rebased' \in Nat,
         outer # <<>> => rebased' = rebased,
         list' = Tail(list),
         \A b \in Linked \ {Head(list)} : due'[b] + rebased' = due[b] + rebased,
         frames' = Append(outer, [target |-> target, alarm |-> Head(list)]),
         Now' = Later(Now, due[Head(list)] + rebased),
         due[Head(list)] + rebased <= target + rebased'
  PROVE  Fires(target + rebased', outer)
<1> DEFINE a == Head(list)
<1>1. /\ Elems(Tail(list)) = Elems(list) \ {a} /\ a \in Elems(list)
      /\ Pairs(Tail(list)) = Within(Pairs(list), Elems(list) \ {a})
      /\ \A b \in Elems(list) \ {a} : <<a, b>> \in Pairs(list)
  BY TypesOfParts, TailIsRest
<1>2. Elems(list) = Linked /\ Elems(list)' = Linked' /\ Elems(list)' = Elems(Tail(list))
  BY DEF Elems, Linked
<1>3. a \in Alarms /\ rebased \in Nat
  BY TypesOfParts
<1>4. CallsOf(frames', rebased') = Append(CallsOf(outer, rebased), [target |-> target + rebased', alarm |-> a])
  <2>1. CallsOf(outer, rebased') = CallsOf(outer, rebased)
    BY <1>3, CallsStay
  <2> QED
    BY <1>3, <2>1, CallsGrow, SMTT(30)
<1>5. When' = [b \in Linked \ {a} |-> due[b] + rebased]
  <2>1. Linked' = Linked \ {a}
    BY <1>1, <1>2
  <2> QED
    BY <2>1 DEF When
<1>6. Pairs(list)' = Within(Pairs(list), Linked \ {a})
  <2>1. Pairs(list)' = Pairs(list')
    BY DEF Pairs, Elems
  <2>2. Pairs(list') = Pairs(Tail(list))
    OBVIOUS
  <2> QED
    BY <1>1, <1>2, <2>1, <2>2
<1>7. CallsOf(frames, rebased)' = Append(CallsOf(outer, rebased), [target |-> target + rebased', alarm |-> a])
  BY <1>4 DEF CallsOf
<1>8. a \in Linked /\ \A b \in Linked \ {a} : <<a, b>> \in Pairs(list)
  BY <1>1, <1>2
<1> HIDE DEF a
<1> QED
  BY <1>5, <1>6, <1>7, <1>8 DEF Fires, a

\* The end of a tick.
LEMMA ReachIsEager ==
  ASSUME IInv, NEW target \in Int, NEW outer \in Seq(Frame), rebased' \in Nat,
         outer # <<>> => rebased' = rebased,
         list' = list, frames' = outer,
         \A b \in Linked : due'[b] + rebased' = due[b] + rebased,
         \A b \in Linked : due[b] + rebased > target,
         Now' = Later(Now, target)
  PROVE  Reaches(target, outer)
<1>1. Linked' = Linked /\ Pairs(list)' = Pairs(list)
  BY DEF Linked, Pairs, Elems
<1>2. CallsOf(frames', rebased') = CallsOf(outer, rebased)
  BY TypesOfParts, CallsStay
<1>3. When' = When
  BY <1>1 DEF When
<1>4. CallsOf(frames, rebased)' = CallsOf(outer, rebased)
  BY <1>2 DEF CallsOf
<1> QED
  BY <1>1, <1>3, <1>4 DEF Reaches

----------------------------------------------------------------------------
(* Settling *)

\* The invariant of the refinement: the clock's own, and sums that stay below "never".
RInv == IInv /\ Deferred /\ NoneIsNever

LEMMA SumsAreExact ==
  ASSUME RInv, NothingSaturates
  PROVE  /\ ticks + pending \in 0 .. MaxTicks
         /\ \A d \in Deltas \cup Steps \cup {0} : ticks + pending + d < MaxTicks
<1>1. ticks \in 0 .. MaxTicks /\ pending \in Nat /\ MaxTicks \in Nat
  BY TypesOfParts, ClockAssumption DEF RInv, ClockAssumption
<1>2. ticks + pending + 0 < MaxTicks
  BY DEF NothingSaturates
<1> QED
  BY <1>1, <1>2 DEF NothingSaturates

\* Between two calls nothing is about to saturate, however long the clock has run: the time
\* counted from the origin is below RebaseAt.
LEMMA RestIsBelowNever == RInv /\ AtRest /\ RoomToArm => NothingSaturates
<1> SUFFICES ASSUME RInv, AtRest, RoomToArm, NEW d \in Deltas \cup Steps \cup {0}
             PROVE  ticks + pending + d < MaxTicks
  BY DEF NothingSaturates
<1>1. /\ ticks \in 0 .. MaxTicks /\ pending \in Nat /\ MaxTicks \in Nat /\ RebaseAt \in Nat
      /\ MaxPending \in Nat /\ d \in Int
  BY TypesOfParts, ClockAssumption DEF RInv, ClockAssumption
<1>2. ticks < RebaseAt /\ pending <= MaxPending
  BY DEF RInv, IInv, OriginMovesInTime, Deferred
<1>3. RebaseAt + MaxPending + d <= MaxTicks
  BY DEF RoomToArm
<1> QED
  BY <1>1, <1>2, <1>3

LEMMA ShiftedBack ==
  ASSUME NEW dues \in Dues, NEW move \in Nat, NEW b \in Linked, Linked \subseteq Alarms,
         dues[b] < MaxTicks
  PROVE  Shifted(dues, Linked, move)[b] + move = dues[b]
<1>1. b \in Alarms /\ dues[b] \in Int
  BY DEF Dues
<1> QED
  BY <1>1 DEF Shifted

\* A read changes no time that counts from the beginning.
LEMMA SettledCounts ==
  ASSUME RInv, NothingSaturates
  PROVE  /\ Settled.now + Settled.move = ticks + pending
         /\ \A b \in Linked : Settled.due[b] + Settled.move = due[b]
         /\ frames # <<>> => Settled.move = 0
<1>1. Settled.now + Settled.move = ticks + pending
  BY SumsAreExact, SettledIsNow, ConstantTypes DEF RInv
<1>2. Settled.move \in Nat /\ due \in Dues /\ Linked \subseteq Alarms
  BY SettledKeeps, TypesOfParts DEF RInv, Linked
<1>3. Settled.due = Shifted(due, Linked, Settled.move)
  BY DEF Settled
<1>4. \A b \in Linked : Settled.due[b] + Settled.move = due[b]
  BY <1>2, <1>3, ShiftedBack DEF RInv, NoneIsNever
<1>5. frames # <<>> => Settled.move = 0
  BY NothingDeferredInside DEF RInv, AtRest, Settled
<1> QED
  BY <1>1, <1>4, <1>5

----------------------------------------------------------------------------
(* Every step of the clock *)

LEMMA MayCallIsEager ==
  ASSUME IInv, NEW a \in Alarms, MayCall(a)
  PROVE  Eager!MayCall(a)
<1>1. frames \in Seq(Frame) /\ rebased \in Nat
  BY TypesOfParts
<1>2. CASE frames = <<>>
  BY <1>1, <1>2, NoCalls DEF Eager!MayCall, CallsOf
<1>3. CASE frames # <<>>
  <2>1. Last(CallsOf(frames, rebased))
          = [target |-> Last(frames).target + rebased, alarm |-> Last(frames).alarm]
    BY <1>1, <1>3, CallsReturn
  <2>2. Last(CallsOf(frames, rebased)).alarm = Last(frames).alarm
    BY <2>1
  <2>3. Eager!Last(CallsOf(frames, rebased)) = Last(CallsOf(frames, rebased))
    BY DEF Eager!Last, Last
  <2> QED
    BY <1>3, <2>2, <2>3 DEF Eager!MayCall, MayCall, AtRest, CallsOf
<1> QED
  BY <1>2, <1>3

LEMMA ScheduleIsEager ==
  ASSUME RInv, NothingSaturates, NEW a \in Alarms, NEW delta \in Deltas, Schedule(a, delta)
  PROVE  Eager!Schedule(a, delta) /\ NoneIsNever'
<1> DEFINE s == Settled  t == AddTicks(s.now, delta)  rest == Without(list, a)
           dues == [s.due EXCEPT ![a] = t]
<1>1. /\ s.now + s.move = ticks + pending
      /\ \A b \in Linked : s.due[b] + s.move = due[b]
      /\ frames # <<>> => s.move = 0
  BY SettledCounts
<1>2. /\ s.now \in 0 .. MaxTicks /\ s.due \in Dues /\ s.move \in Nat /\ Ordered(list, s.due)
      /\ list \in Seq(Alarms) /\ due \in Dues /\ rebased \in Nat /\ frames \in Seq(Frame)
      /\ ticks \in 0 .. MaxTicks /\ pending \in Nat /\ delta \in Int /\ MaxTicks \in Nat
      /\ Ordered(list, due)
  BY SettledKeeps, TypesOfParts, ConstantTypes DEF RInv
<1>3. /\ list' = Insert(rest, dues, a) /\ due' = dues /\ ticks' = s.now /\ pending' = 0
      /\ rebased' = rebased + s.move /\ frames' = frames /\ MayCall(a)
  BY DEF Schedule
<1>4. t = s.now + delta /\ t < MaxTicks
  <2>1. ticks + pending + delta < MaxTicks
    BY SumsAreExact
  <2>2. s.now + delta < MaxTicks
    BY <1>1, <1>2, <2>1, SMTT(30)
  <2> QED
    BY <1>2, <2>2 DEF AddTicks
<1> HIDE DEF s, t
<1>5. dues \in Dues /\ dues[a] = t /\ \A b \in Alarms : b # a => dues[b] = s.due[b]
  BY <1>2, <1>4, SMTT(30) DEF Dues
<1>6. /\ rest \in Seq(Alarms) /\ Ordered(rest, s.due) /\ \A i \in DOMAIN rest : rest[i] # a
      /\ Elems(rest) = Elems(list) \ {a}
      /\ Pairs(rest) = Within(Pairs(list), Elems(list) \ {a})
  BY <1>2, WithoutKeepsOrder, WithoutIsRest
<1> HIDE DEF rest
<1>7. Ordered(rest, dues)
  BY <1>2, <1>6, OrderIgnoresOthers
<1> HIDE DEF dues
<1>8. /\ Elems(list') = Elems(rest) \cup {a}
      /\ Pairs(list') = Pairs(rest)
                          \cup {<<b, a>> : b \in {c \in Elems(rest) : dues[c] <= dues[a]}}
                          \cup {<<a, b>> : b \in {c \in Elems(rest) : dues[c] > dues[a]}}
  <2>1. a \notin Elems(rest)
    BY <1>6
  <2> QED
    BY <1>3, <1>5, <1>6, <1>7, <2>1, InsertIsInOrder
<1>9. Elems(list) = Linked /\ Linked' = Elems(list') /\ Elems(list) \subseteq Alarms
  BY <1>2 DEF Elems, Linked
<1>10. \A b \in Elems(rest) : /\ b \in Alarms /\ b # a /\ dues[b] \in Int /\ due[b] \in Int
                              /\ dues[b] + rebased' = due[b] + rebased
  <2> SUFFICES ASSUME NEW b \in Elems(rest)
               PROVE  /\ b \in Alarms /\ b # a /\ dues[b] \in Int /\ due[b] \in Int
                      /\ dues[b] + rebased' = due[b] + rebased
    OBVIOUS
  <2>1. b \in Linked /\ b \in Alarms /\ b # a
    BY <1>6, <1>9
  <2>2. dues[b] = s.due[b] /\ dues[b] \in Int /\ due[b] \in Int
    BY <1>2, <1>5, <2>1 DEF Dues
  <2>3. dues[b] + s.move = due[b]
    BY <1>1, <2>1, <2>2
  <2> QED
    BY <1>2, <1>3, <2>1, <2>2, <2>3, SMTT(30)
<1>11. dues[a] + rebased' = Now + delta /\ dues[a] \in Int /\ (Now)' = Now
  <2>1. /\ dues[a] = s.now + delta /\ rebased' = rebased + s.move /\ ticks' = s.now /\ pending' = 0
        /\ s.now + s.move = ticks + pending
    BY <1>1, <1>3, <1>4, <1>5
  <2>2. /\ s.now \in Int /\ s.move \in Int /\ rebased \in Int /\ delta \in Int
        /\ ticks \in Int /\ pending \in Int
    BY <1>2
  <2>3. Now = ticks + pending + rebased /\ (Now)' = ticks' + pending' + rebased'
    BY DEF Now
  <2> HIDE DEF dues
  <2> QED
    BY <2>1, <2>2, <2>3
<1>12. \A b \in Elems(rest) : dues[b] <= dues[a] <=> due[b] + rebased <= Now + delta
  <2>1. rebased' \in Int
    BY <1>2, <1>3
  <2> QED
    BY <1>10, <1>11, <2>1
<1>13. \A b \in Elems(rest) : dues[b] > dues[a] <=> due[b] + rebased > Now + delta
  <2>1. rebased' \in Int
    BY <1>2, <1>3
  <2> QED
    BY <1>10, <1>11, <2>1
<1> DEFINE when == [b \in Linked |-> due[b] + rebased]
<1>14. Eager!Others(a) = Elems(rest)
  BY <1>6, <1>9 DEF Eager!Others
<1>15. [b \in Linked |-> due[b] + rebased]'
         = [b \in Eager!Others(a) \cup {a} |-> IF b = a THEN Now + delta ELSE when[b]]
  <2>1. Linked' = Elems(rest) \cup {a} /\ Elems(rest) \subseteq Linked
    BY <1>6, <1>8, <1>9
  <2>2. \A b \in Elems(rest) \cup {a} :
          due'[b] + rebased' = IF b = a THEN Now + delta ELSE when[b]
    BY <1>3, <1>10, <1>11, <2>1
  <2> QED
    BY <1>14, <2>1, <2>2
<1>16. Pairs(list)' = Eager!Among(Eager!Others(a))
                        \cup {<<b, a>> : b \in {c \in Eager!Others(a) : when[c] <= Now + delta}}
                        \cup {<<a, b>> : b \in {c \in Eager!Others(a) : when[c] > Now + delta}}
  <2>1. Eager!Among(Eager!Others(a)) = Pairs(rest)
    BY <1>6, <1>9, <1>14 DEF Eager!Among, Within, Pairs
  <2>2. {c \in Eager!Others(a) : when[c] <= Now + delta} = {c \in Elems(rest) : dues[c] <= dues[a]}
    BY <1>6, <1>9, <1>12, <1>14
  <2>3. {c \in Eager!Others(a) : when[c] > Now + delta} = {c \in Elems(rest) : dues[c] > dues[a]}
    BY <1>6, <1>9, <1>13, <1>14
  <2>4. Pairs(list)' = Pairs(list')
    BY DEF Pairs, Elems
  <2> HIDE DEF when
  <2> QED
    BY <1>8, <2>1, <2>2, <2>3, <2>4
<1>18. CallsOf(frames, rebased)' = CallsOf(frames, rebased)
  <2>1. rebased' \in Nat /\ (frames # <<>> => rebased' = rebased)
    BY <1>1, <1>2, <1>3
  <2>2. CallsOf(frames, rebased') = CallsOf(frames, rebased)
    BY <1>2, <2>1, CallsStay
  <2> QED
    BY <1>3, <2>2 DEF CallsOf
<1>19. Eager!MayCall(a)
  BY <1>3, MayCallIsEager DEF RInv
<1>20. Eager!Schedule(a, delta)
  BY <1>11, <1>15, <1>16, <1>18, <1>19 DEF Eager!Schedule, CallsOf, Pairs, Elems, Linked
<1>21. NoneIsNever'
  <2>1. \A b \in Elems(rest) : due[b] < MaxTicks
    BY <1>6, <1>9 DEF RInv, NoneIsNever
  <2>2. \A b \in Elems(rest) : dues[b] < MaxTicks
    <3> SUFFICES ASSUME NEW b \in Elems(rest) PROVE dues[b] < MaxTicks
      OBVIOUS
    <3>1. dues[b] + rebased' = due[b] + rebased /\ rebased' = rebased + s.move
      BY <1>3, <1>10
    <3>2. dues[b] \in Int /\ due[b] \in Int /\ rebased \in Nat /\ s.move \in Nat /\ MaxTicks \in Nat
      BY <1>2, <1>10
    <3> QED
      BY <2>1, <3>1, <3>2
  <2>3. MaxTicks' = MaxTicks
    OBVIOUS
  <2> QED
    BY <1>3, <1>4, <1>5, <1>8, <1>9, <2>2 DEF NoneIsNever
<1> QED
  BY <1>20, <1>21

LEMMA CancelIsEager ==
  ASSUME RInv, NEW a \in Alarms, Cancel(a)
  PROVE  Eager!Cancel(a) /\ NoneIsNever'
<1> DEFINE when == [b \in Linked |-> due[b] + rebased]
<1>1. /\ list \in Seq(Alarms) /\ due \in Dues /\ rebased \in Nat /\ Ordered(list, due)
      /\ Linked \subseteq Alarms
  BY TypesOfParts DEF RInv, Linked
<1>2. /\ list' = Without(list, a) /\ due' = [due EXCEPT ![a] = 0] /\ MayCall(a) /\ a \in Linked
      /\ ticks' = ticks /\ pending' = pending /\ frames' = frames /\ rebased' = rebased
  BY DEF Cancel
<1>3. Elems(list') = Elems(list) \ {a} /\ Pairs(list') = Within(Pairs(list), Elems(list) \ {a})
  BY <1>1, <1>2, WithoutIsRest
<1>4. Elems(list) = Linked /\ Linked' = Elems(list')
  BY DEF Elems, Linked
<1>5. Eager!Others(a) = Elems(list) \ {a}
  BY <1>4 DEF Eager!Others
<1>6. \A b \in Linked \ {a} : due'[b] = due[b]
  BY <1>1, <1>2 DEF Dues
<1>7. [b \in Linked |-> due[b] + rebased]' = [b \in Eager!Others(a) |-> when[b]]
  BY <1>2, <1>3, <1>4, <1>5, <1>6
<1>8. Pairs(list)' = Eager!Among(Eager!Others(a))
  BY <1>3, <1>5 DEF Eager!Among, Within, Pairs, Elems, Linked
<1>9. (Now)' = Now /\ CallsOf(frames, rebased)' = CallsOf(frames, rebased)
  BY <1>2 DEF Now, CallsOf
<1>10. Eager!MayCall(a)
  BY <1>2, MayCallIsEager DEF RInv
<1>11. Eager!Cancel(a)
  BY <1>2, <1>7, <1>8, <1>9, <1>10 DEF Eager!Cancel, CallsOf, Pairs, Elems, Linked
<1>12. NoneIsNever'
  BY <1>3, <1>4, <1>6 DEF RInv, NoneIsNever
<1> QED
  BY <1>11, <1>12

\* What the head of the list is: linked, and the first to be due.
LEMMA HeadIsFirst ==
  ASSUME NEW dues \in Dues, list \in Seq(Alarms), list # <<>>, Ordered(list, dues)
  PROVE  /\ Head(list) \in Linked /\ Head(list) \in Alarms /\ Linked \subseteq Alarms
         /\ \A b \in Linked : dues[Head(list)] <= dues[b]
<1>1. /\ 1 \in DOMAIN list /\ Head(list) = list[1]
      /\ \A i \in DOMAIN list : list[i] \in Alarms /\ i \in Nat /\ (i = 1 \/ 1 < i)
  OBVIOUS
<1>2. \A b \in Alarms : dues[b] \in Int
  BY DEF Dues
<1>3. \A i \in DOMAIN list : dues[list[1]] <= dues[list[i]]
  BY <1>1, <1>2 DEF Ordered
<1> QED
  BY <1>1, <1>3 DEF Linked

\* Once the head has fired, the others keep their due times.
LEMMA FireKeepsOthers ==
  ASSUME NEW dues \in Dues, NEW now, NEW target, NEW outer,
         list \in Seq(Alarms), list # <<>>, Ordered(list, dues), Fire(dues, now, target, outer),
         \A b \in Linked : dues[b] < MaxTicks
  PROVE  /\ \A b \in Linked \ {Head(list)} : due'[b] = dues[b]
         /\ NoneIsNever'
<1>1. list' = Tail(list) /\ due' = [dues EXCEPT ![Head(list)] = 0]
  BY DEF Fire
<1>2. Elems(Tail(list)) = Elems(list) \ {Head(list)}
  BY TailIsRest
<1>3. Linked' = Linked \ {Head(list)} /\ Linked \subseteq Alarms
  BY <1>1, <1>2 DEF Elems, Linked
<1>4. \A b \in Linked \ {Head(list)} : due'[b] = dues[b]
  BY <1>1, <1>3 DEF Dues
<1> QED
  BY <1>3, <1>4 DEF NoneIsNever

\* Once a tick is over, the origin has moved for all alarms alike.
LEMMA FinishKeepsAll ==
  ASSUME NEW dues \in Dues, NEW now, NEW target, NEW outer,
         Later(now, target) \in 0 .. MaxTicks, Len(outer) \in Nat,
         list \in Seq(Alarms), Finish(dues, now, target, outer),
         \A b \in Linked : dues[b] < MaxTicks
  PROVE  /\ MoveAt(Later(now, target), Len(outer)) \in Nat
         /\ \A b \in Linked : /\ due'[b] \in Int
                              /\ due'[b] + MoveAt(Later(now, target), Len(outer)) = dues[b]
         /\ list' = list /\ frames' = outer
         /\ ticks' = Later(now, target) - MoveAt(Later(now, target), Len(outer))
         /\ NoneIsNever'
<1> DEFINE move == MoveAt(Later(now, target), Len(outer))
<1>1. move \in Nat
  BY MoveAtBounds
<1>2. /\ list' = list /\ frames' = outer /\ due' = Shifted(dues, Linked, move)
      /\ ticks' = Later(now, target) - move
  BY DEF Finish
<1> HIDE DEF move
<1>3. Linked' = Linked /\ Linked \subseteq Alarms
  BY <1>2 DEF Linked
<1>4. \A b \in Linked : due'[b] + move = dues[b]
  BY <1>1, <1>2, <1>3, ShiftedBack
<1>5. \A b \in Linked : due'[b] \in Int /\ due'[b] < MaxTicks
  <2> SUFFICES ASSUME NEW b \in Linked PROVE due'[b] \in Int /\ due'[b] < MaxTicks
    OBVIOUS
  <2>1. b \in Alarms /\ dues[b] \in Int /\ MaxTicks \in Nat
    BY <1>3, ConstantTypes DEF Dues
  <2>2. due'[b] = dues[b] - move
    BY <1>2, <2>1 DEF Shifted
  <2> QED
    BY <1>1, <2>1, <2>2
<1>6. NoneIsNever'
  BY <1>3, <1>5 DEF NoneIsNever
<1> QED
  BY <1>1, <1>2, <1>4, <1>5, <1>6 DEF move

\* Where a tick is entered: `step` is what it adds to the time a program can observe, and
\* time, due times and move may be those that a read has settled.
Entered(dues, now, moved, delta, step) ==
  /\ now + moved + delta = ticks + pending + step
  /\ now + delta < MaxTicks
  /\ \A b \in Linked : dues[b] + moved = due[b]
  /\ frames # <<>> => moved = 0
  /\ list # <<>> => Later(now, dues[Head(list)]) + moved = Later(ticks + pending, due[Head(list)])

LEMMA RunFireIsEager ==
  ASSUME RInv, NEW dues \in Dues, NEW now \in 0 .. MaxTicks, NEW moved \in Nat, NEW delta \in Nat,
         NEW step \in Nat, Entered(dues, now, moved, delta, step), Ordered(list, dues),
         list # <<>>, dues[Head(list)] <= now + delta, pending' = 0,
         Fire(dues, now, now + delta, frames), rebased' = rebased + moved
  PROVE  Fires(Now + step, frames) /\ NoneIsNever'
<1> DEFINE a == Head(list)  target == now + delta
<1>1. /\ list \in Seq(Alarms) /\ due \in Dues /\ ticks \in 0 .. MaxTicks /\ pending \in Nat
      /\ rebased \in Nat /\ frames \in Seq(Frame) /\ MaxTicks \in Nat
  BY TypesOfParts, ConstantTypes DEF RInv
<1>2. /\ a \in Linked /\ a \in Alarms /\ Linked \subseteq Alarms
      /\ \A b \in Linked : dues[b] \in Int /\ due[b] \in Int
  BY <1>1, HeadIsFirst DEF Dues
<1>3. /\ now + moved + delta = ticks + pending + step /\ target < MaxTicks
      /\ \A b \in Linked : dues[b] + moved = due[b]
      /\ frames # <<>> => moved = 0
      /\ Later(now, dues[a]) + moved = Later(ticks + pending, due[a])
  BY DEF Entered
<1>4. \A b \in Linked : dues[b] < MaxTicks
  <2> SUFFICES ASSUME NEW b \in Linked PROVE dues[b] < MaxTicks
    OBVIOUS
  <2>1. dues[b] + moved = due[b] /\ due[b] < MaxTicks
    BY <1>3 DEF RInv, NoneIsNever
  <2>2. moved \in Nat /\ MaxTicks \in Int
    BY <1>1
  <2>3. dues[b] \in Int /\ due[b] \in Int
    BY <1>2
  <2> DEFINE y == dues[b]
             z == due[b]
  <2>4. y \in Int /\ z \in Int /\ y + moved = z /\ z < MaxTicks
    BY <2>1, <2>3, Zenon
  <2> HIDE DEF y, z
  <2>5. y < MaxTicks
    BY <2>2, <2>4
  <2> QED
    BY <2>5, Zenon DEF y
<1>5. /\ \A b \in Linked \ {a} : due'[b] = dues[b]
      /\ NoneIsNever'
  BY <1>1, <1>4, FireKeepsOthers
<1>6. \A b \in Linked \ {a} : due'[b] + rebased' = due[b] + rebased
  <2> SUFFICES ASSUME NEW b \in Linked \ {a} PROVE due'[b] + rebased' = due[b] + rebased
    OBVIOUS
  <2>1. due'[b] = dues[b] /\ dues[b] + moved = due[b] /\ dues[b] \in Int
    BY <1>2, <1>3, <1>5
  <2> QED
    BY <1>1, <2>1
<1>7. /\ list' = Tail(list) /\ ticks' = Later(now, dues[a])
      /\ frames' = Append(frames, [target |-> target, alarm |-> a])
  BY DEF Fire
<1>8. Now' = Later(Now, due[a] + rebased)
  <2>1. (Now)' = Later(now, dues[a]) + (rebased + moved) /\ Later(now, dues[a]) \in Int
    BY <1>1, <1>2, <1>7 DEF Now, Later
  <2>2. (Now)' = Later(ticks + pending, due[a]) + rebased
    BY <1>1, <1>3, <2>1
  <2>3. Later(ticks + pending, due[a]) + rebased = Later(ticks + pending + rebased, due[a] + rebased)
    BY <1>1, <1>2 DEF Later
  <2> QED
    BY <2>2, <2>3 DEF Now
<1>9. target + rebased' = Now + step
  BY <1>1, <1>3 DEF Now
<1>10. due[a] + rebased <= target + rebased' /\ target \in 0 .. MaxTicks /\ rebased' \in Nat
  BY <1>1, <1>2, <1>3, SMTT(30)
<1>11. frames # <<>> => rebased' = rebased
  BY <1>1, <1>3
<1> HIDE DEF target
<1>12. Fires(target + rebased', frames)
  BY <1>1, <1>6, <1>7, <1>8, <1>10, <1>11, FireIsEager DEF RInv
<1> QED
  BY <1>5, <1>9, <1>12

LEMMA RunReachIsEager ==
  ASSUME RInv, NEW dues \in Dues, NEW now \in 0 .. MaxTicks, NEW moved \in Nat, NEW delta \in Nat,
         NEW step \in Nat, Entered(dues, now, moved, delta, step), Ordered(list, dues),
         list # <<>> => dues[Head(list)] > now + delta, pending' = 0,
         Finish(dues, now, now + delta, frames),
         rebased' = rebased + moved + MoveAt(now + delta, Len(frames))
  PROVE  Reaches(Now + step, frames) /\ NoneIsNever'
<1> DEFINE target == now + delta  move == MoveAt(target, Len(frames))
<1>1. /\ list \in Seq(Alarms) /\ due \in Dues /\ ticks \in 0 .. MaxTicks /\ pending \in Nat
      /\ rebased \in Nat /\ frames \in Seq(Frame) /\ MaxTicks \in Nat /\ Len(frames) \in Nat
  BY TypesOfParts, ConstantTypes DEF RInv
<1>2. Linked \subseteq Alarms /\ \A b \in Linked : dues[b] \in Int /\ due[b] \in Int
  BY <1>1, SMTT(30) DEF Linked, Dues
<1>3. /\ now + moved + delta = ticks + pending + step /\ target < MaxTicks
      /\ \A b \in Linked : dues[b] + moved = due[b]
      /\ frames # <<>> => moved = 0
  BY DEF Entered
<1>4. \A b \in Linked : dues[b] < MaxTicks
  <2> SUFFICES ASSUME NEW b \in Linked PROVE dues[b] < MaxTicks
    OBVIOUS
  <2>1. dues[b] + moved = due[b] /\ due[b] < MaxTicks
    BY <1>3 DEF RInv, NoneIsNever
  <2>2. moved \in Nat /\ MaxTicks \in Int
    BY <1>1
  <2>3. dues[b] \in Int /\ due[b] \in Int
    BY <1>2
  <2> DEFINE y == dues[b]
             z == due[b]
  <2>4. y \in Int /\ z \in Int /\ y + moved = z /\ z < MaxTicks
    BY <2>1, <2>3, Zenon
  <2> HIDE DEF y, z
  <2>5. y < MaxTicks
    BY <2>2, <2>4
  <2> QED
    BY <2>5, Zenon DEF y
<1>5. Later(now, target) = target /\ target \in 0 .. MaxTicks
  BY <1>1, <1>3 DEF Later
<1>6. /\ move \in Nat /\ \A b \in Linked : due'[b] \in Int /\ due'[b] + move = dues[b]
      /\ list' = list /\ frames' = frames /\ ticks' = target - move
      /\ NoneIsNever'
  BY <1>1, <1>4, <1>5, FinishKeepsAll
<1>7. frames # <<>> => move = 0
  BY <1>1 DEF MoveAt
<1>8. rebased' = rebased + moved + move
  OBVIOUS
<1> HIDE DEF move
<1>9. \A b \in Linked : due'[b] + rebased' = due[b] + rebased
  <2> SUFFICES ASSUME NEW b \in Linked PROVE due'[b] + rebased' = due[b] + rebased
    OBVIOUS
  <2>1. due'[b] \in Int /\ due'[b] + move = dues[b] /\ dues[b] + moved = due[b]
    BY <1>3, <1>6
  <2>2. move \in Int /\ moved \in Int /\ rebased \in Int
    BY <1>1, <1>6
  <2>7. due[b] \in Int /\ dues[b] \in Int
    BY <1>2
  <2>3. rebased' = rebased + moved + move
    BY <1>8
  <2> HIDE DEF target
  <2> DEFINE x == due'[b]
             y == dues[b]
             z == due[b]
  <2>4. x \in Int /\ y \in Int /\ z \in Int /\ x + move = y /\ y + moved = z
    BY <2>1, <2>7, Zenon
  <2> HIDE DEF x, y, z
  <2>5. x + (rebased + moved + move) = z + rebased
    BY <2>2, <2>4
  <2>6. x + rebased' = z + rebased
    BY <2>3, <2>5, Zenon
  <2> QED
    BY <2>6, Zenon DEF x, z
<1>10. \A b \in Linked : due[b] + rebased > Now + step
  <2> SUFFICES ASSUME NEW b \in Linked PROVE due[b] + rebased > Now + step
    OBVIOUS
  <2>1. list # <<>>
    BY <1>1 DEF Linked
  <2>2. dues[Head(list)] <= dues[b] /\ Head(list) \in Linked
    BY <1>1, <2>1, HeadIsFirst
  <2>3. dues[b] > target
    BY <1>1, <1>2, <2>1, <2>2
  <2>4. dues[b] + moved = due[b]
    BY <1>3
  <2> QED
    BY <1>1, <1>2, <1>3, <2>3, <2>4, SMTT(30) DEF Now
<1>11. Now' = Later(Now, Now + step)
  <2>1. (Now)' = (target - move) + 0 + (rebased + moved + move)
    BY <1>6, <1>8 DEF Now
  <2>2. (Now)' = Now + step
    <3>1. /\ move \in Int /\ moved \in Int /\ rebased \in Int /\ target \in Int /\ step \in Int
          /\ ticks \in Int /\ pending \in Int
      BY <1>1, <1>6
    <3>2. target + moved = ticks + pending + step
      BY <1>1, <1>3
    <3> HIDE DEF target
    <3>3. (target - move) + 0 + (rebased + moved + move) = ticks + pending + rebased + step
      BY <3>1, <3>2
    <3> QED
      BY <2>1, <3>3 DEF Now
  <2>3. Later(Now, Now + step) = Now + step
    BY <1>1 DEF Now, Later
  <2> QED
    BY <2>2, <2>3
<1>12. Now + step \in Int /\ rebased' \in Nat /\ (frames # <<>> => rebased' = rebased)
  <2>1. move \in Nat /\ moved \in Nat /\ rebased \in Nat /\ step \in Nat
    BY <1>1, <1>6
  <2>2. Now + step \in Int
    BY <1>1 DEF Now
  <2>3. frames # <<>> => moved + move = 0
    BY <1>3, <1>7
  <2>4. rebased' = rebased + (moved + move)
    BY <1>8, <2>1
  <2> QED
    BY <2>1, <2>2, <2>3, <2>4
<1>13. Reaches(Now + step, frames)
  BY <1>1, <1>6, <1>9, <1>10, <1>11, <1>12, ReachIsEager DEF RInv
<1> QED
  BY <1>6, <1>13

\* A tick is a step of EagerClock.
Passes(step) ==
  \/ Fires(Now + step, frames)
  \/ Reaches(Now + step, frames)

LEMMA RunIsEager ==
  ASSUME RInv, NEW dues \in Dues, NEW now \in 0 .. MaxTicks, NEW moved \in Nat, NEW delta \in Nat,
         NEW step \in Nat, Entered(dues, now, moved, delta, step), Ordered(list, dues),
         Run(dues, now, moved, delta)
  PROVE  Passes(step) /\ NoneIsNever'
<1>1. AddTicks(now, delta) = now + delta
  BY ConstantTypes DEF Entered, AddTicks
<1>2. /\ pending' = 0
      /\ IF list # <<>> /\ dues[Head(list)] <= now + delta
         THEN Fire(dues, now, now + delta, frames) /\ rebased' = rebased + moved
         ELSE /\ Finish(dues, now, now + delta, frames)
              /\ rebased' = rebased + moved + MoveAt(now + delta, Len(frames))
  BY <1>1 DEF Run
<1>3. CASE list # <<>> /\ dues[Head(list)] <= now + delta
  BY <1>2, <1>3, RunFireIsEager DEF Passes
<1>4. CASE ~ (list # <<>> /\ dues[Head(list)] <= now + delta)
  <2>1. list # <<>> => dues[Head(list)] > now + delta
    <3>1. list # <<>> => Head(list) \in Alarms
      BY TypesOfParts DEF RInv
    <3> QED
      BY <1>4, <3>1 DEF Dues
  <2> QED
    BY <1>2, <1>4, <2>1, RunReachIsEager DEF Passes
<1> QED
  BY <1>3, <1>4

LEMMA TickTicksIsEager ==
  ASSUME RInv, NothingSaturates, NEW delta \in Steps, TickTicks(delta)
  PROVE  Passes(delta) /\ NoneIsNever'
<1> DEFINE s == Settled
<1>1. /\ s.now + s.move = ticks + pending
      /\ \A b \in Linked : s.due[b] + s.move = due[b]
      /\ frames # <<>> => s.move = 0
  BY SettledCounts
<1>2. /\ s.now \in 0 .. MaxTicks /\ s.due \in Dues /\ s.move \in Nat /\ Ordered(list, s.due)
      /\ list \in Seq(Alarms) /\ due \in Dues /\ ticks \in 0 .. MaxTicks /\ pending \in Nat
      /\ delta \in Nat /\ MaxTicks \in Nat
  BY SettledKeeps, TypesOfParts, ConstantTypes DEF RInv
<1>3. Run(s.due, s.now, s.move, delta)
  BY DEF TickTicks
<1>4. ticks + pending + delta < MaxTicks
  BY SumsAreExact
<1> HIDE DEF s
<1>5. s.now + delta < MaxTicks /\ s.now + s.move + delta = ticks + pending + delta
  BY <1>1, <1>2, <1>4
<1>6. ASSUME list # <<>>
      PROVE  Later(s.now, s.due[Head(list)]) + s.move = Later(ticks + pending, due[Head(list)])
  <2>1. Head(list) \in Linked /\ Head(list) \in Alarms
    BY <1>2, <1>6, HeadIsFirst
  <2>2. s.due[Head(list)] \in Int /\ s.due[Head(list)] + s.move = due[Head(list)]
    BY <1>1, <1>2, <2>1 DEF Dues
  <2> QED
    BY <1>1, <1>2, <2>2 DEF Later
<1>7. Entered(s.due, s.now, s.move, delta, delta)
  BY <1>1, <1>5, <1>6 DEF Entered
<1> QED
  BY <1>2, <1>3, <1>7, RunIsEager

\* A flush: the deferred time is before every alarm.
LEMMA FlushIsEager ==
  ASSUME RInv, NEW delta \in Nat, ticks + (pending + delta) < MaxTicks,
         Run(due, ticks, 0, pending + delta)
  PROVE  Passes(delta) /\ NoneIsNever'
<1>1. /\ list \in Seq(Alarms) /\ due \in Dues /\ ticks \in 0 .. MaxTicks /\ pending \in Nat
      /\ Ordered(list, due) /\ rebased \in Nat /\ MaxTicks \in Nat
  BY TypesOfParts, ConstantTypes DEF RInv
<1>2. ticks + (pending + delta) < MaxTicks
  OBVIOUS
<1>3. ASSUME list # <<>>
      PROVE  Later(ticks, due[Head(list)]) + 0 = Later(ticks + pending, due[Head(list)])
  <2>1. Head(list) \in Linked /\ due[Head(list)] \in Int
    BY <1>1, <1>3, HeadIsFirst DEF Dues
  <2>2. pending = 0 \/ due[Head(list)] > ticks + pending
    BY <2>1 DEF RInv, IInv, FlushOnReadFiresNothing
  <2> QED
    BY <1>1, <2>1, <2>2 DEF Later
<1>4. \A b \in Linked : due[b] + 0 = due[b]
  BY <1>1 DEF Linked, Dues
<1>5. Entered(due, ticks, 0, pending + delta, delta)
  BY <1>1, <1>2, <1>3, <1>4 DEF Entered
<1> QED
  BY <1>1, <1>5, RunIsEager

LEMMA DeferTicksIsEager ==
  ASSUME RInv, NothingSaturates, NEW delta \in Steps, DeferTicks(delta)
  PROVE  Passes(delta) /\ NoneIsNever'
<1>1. /\ list \in Seq(Alarms) /\ due \in Dues /\ ticks \in 0 .. MaxTicks /\ pending \in Nat
      /\ Ordered(list, due) /\ rebased \in Nat /\ delta \in Nat /\ frames \in Seq(Frame)
  BY TypesOfParts, ConstantTypes DEF RInv
<1>2. CASE delta >= LazyDelta
  BY <1>2, TickTicksIsEager DEF DeferTicks
<1>3. CASE ~ (delta >= LazyDelta) /\ ~ (pending + delta < horizon)
  <2>1. ticks + pending + delta < MaxTicks
    BY SumsAreExact
  <2>2. ticks + (pending + delta) < MaxTicks
    BY <1>1, <2>1
  <2> QED
    BY <1>1, <1>3, <2>2, FlushIsEager DEF DeferTicks
<1>4. CASE ~ (delta >= LazyDelta) /\ pending + delta < horizon
  <2>1. /\ pending' = pending + delta /\ list' = list /\ due' = due /\ ticks' = ticks
        /\ frames' = frames /\ rebased' = rebased /\ frames = <<>>
    BY <1>4 DEF DeferTicks, AtRest
  <2>2. \A b \in Linked : due[b] + rebased > Now + delta
    <3> SUFFICES ASSUME NEW b \in Linked PROVE due[b] + rebased > Now + delta
      OBVIOUS
    <3>1. list # <<>>
      BY <1>1 DEF Linked
    <3>2. horizon = due[Head(list)] - ticks
      BY <2>1, <3>1 DEF RInv, IInv, HorizonIsExact, AtRest, Horizon
    <3>3. due[Head(list)] <= due[b] /\ b \in Alarms /\ Head(list) \in Alarms
      BY <1>1, <3>1, HeadIsFirst
    <3>4. due[b] \in Int /\ due[Head(list)] \in Int
      BY <1>1, <3>3 DEF Dues
    <3> QED
      BY <1>1, <1>4, <3>2, <3>3, <3>4 DEF Now
  <2>3. (Now)' = Now + delta
    BY <1>1, <2>1 DEF Now
  <2>4. Now' = Later(Now, Now + delta) /\ Now + delta \in Int
    BY <1>1, <2>3 DEF Later, Now
  <2>5. Reaches(Now + delta, frames)
    BY <1>1, <2>1, <2>2, <2>4, ReachIsEager DEF RInv
  <2>6. NoneIsNever'
    BY <2>1 DEF RInv, NoneIsNever, Linked
  <2> QED
    BY <2>5, <2>6 DEF Passes
<1> QED
  BY <1>2, <1>3, <1>4

\* A read passes no alarm and changes no time that counts from the beginning.
LEMMA ReadIsEager ==
  ASSUME RInv, NothingSaturates, Read
  PROVE  UNCHANGED Eager!vars /\ NoneIsNever'
<1>1. /\ list \in Seq(Alarms) /\ due \in Dues /\ ticks \in 0 .. MaxTicks /\ pending \in Nat
      /\ Ordered(list, due) /\ rebased \in Nat /\ MaxTicks \in Nat /\ frames \in Seq(Frame)
  BY TypesOfParts, ConstantTypes DEF RInv
<1>2. ticks + pending \in 0 .. MaxTicks /\ AddTicks(ticks, pending) = ticks + pending
  BY <1>1, SumsAreExact DEF AddTicks
<1>3. pending # 0 /\ frames = <<>> /\ Len(frames) \in Nat /\ \A b \in Linked : due[b] > ticks + pending
  BY <1>1 DEF Read, RInv, IInv, FlushOnReadFiresNothing, AtRest
<1>4. list # <<>> => ~ (due[Head(list)] <= ticks + pending)
  <2> SUFFICES ASSUME list # <<>> PROVE ~ (due[Head(list)] <= ticks + pending)
    OBVIOUS
  <2>1. Head(list) \in Linked /\ due[Head(list)] \in Int
    BY <1>1, HeadIsFirst DEF Dues
  <2> QED
    BY <1>2, <1>3, <2>1
<1> DEFINE move == MoveAt(ticks + pending, Len(frames))
<1>5. /\ pending' = 0 /\ Finish(due, ticks, ticks + pending, frames)
      /\ rebased' = rebased + 0 + move
  BY <1>2, <1>4 DEF Read, Run
<1>6. Later(ticks, ticks + pending) = ticks + pending
  BY <1>1 DEF Later
<1>7. \A b \in Linked : due[b] < MaxTicks
  BY DEF RInv, NoneIsNever
<1>8. /\ move \in Nat /\ \A b \in Linked : due'[b] + move = due[b]
      /\ list' = list /\ frames' = frames /\ ticks' = ticks + pending - move
      /\ NoneIsNever'
  BY <1>1, <1>2, <1>3, <1>5, <1>6, <1>7, FinishKeepsAll
<1>9. due' = Shifted(due, Linked, move)
  BY <1>5, <1>6 DEF Finish
<1> HIDE DEF move
<1>10. \A b \in Linked : due'[b] + rebased' = due[b] + rebased
  <2> SUFFICES ASSUME NEW b \in Linked PROVE due'[b] + rebased' = due[b] + rebased
    OBVIOUS
  <2>1. b \in Alarms /\ due[b] \in Int
    BY <1>1 DEF Linked, Dues
  <2>2. due'[b] = due[b] - move
    BY <1>7, <1>9, <2>1 DEF Shifted
  <2> QED
    BY <1>1, <1>5, <1>8, <2>1, <2>2
<1>11. Linked' = Linked /\ Pairs(list)' = Pairs(list)
  BY <1>8 DEF Linked, Pairs, Elems
<1>12. (Now)' = Now
  BY <1>1, <1>5, <1>8 DEF Now
<1>13. CallsOf(frames, rebased)' = CallsOf(frames, rebased)
  BY <1>3, <1>8 DEF CallsOf
<1>14. [b \in Linked |-> due[b] + rebased]' = [b \in Linked |-> due[b] + rebased]
  BY <1>10, <1>11
<1> QED
  BY <1>8, <1>11, <1>12, <1>13, <1>14 DEF Eager!vars, CallsOf, Pairs, Elems, Linked

LEMMA ReturnIsEager ==
  ASSUME RInv, Resume
  PROVE  /\ \/ Fires(Last(frames).target + rebased, Front(frames))
            \/ Reaches(Last(frames).target + rebased, Front(frames))
         /\ NoneIsNever'
<1> DEFINE target == Last(frames).target  outer == Front(frames)
<1>1. /\ list \in Seq(Alarms) /\ due \in Dues /\ ticks \in 0 .. MaxTicks
      /\ Ordered(list, due) /\ rebased \in Nat /\ MaxTicks \in Nat /\ frames \in Seq(Frame)
  BY TypesOfParts, ConstantTypes DEF RInv
<1>2. frames # <<>> /\ pending = 0 /\ pending' = 0
  BY NothingDeferredInside DEF RInv, Resume, AtRest
<1>3. outer \in Seq(Frame) /\ Last(frames) \in Frame
  BY <1>1, <1>2, CallsReturn
<1>4. target \in 0 .. MaxTicks /\ Len(outer) \in Nat
  BY <1>3 DEF Frame
<1>7. IF list # <<>> /\ due[Head(list)] <= target
      THEN Fire(due, ticks, target, outer) /\ rebased' = rebased
      ELSE /\ Finish(due, ticks, target, outer)
           /\ rebased' = rebased + MoveAt(Later(ticks, target), Len(outer))
  BY DEF Resume
<1> HIDE DEF target, outer
<1>8. \A b \in Linked : due[b] < MaxTicks /\ b \in Alarms /\ due[b] \in Int
  BY <1>1 DEF RInv, NoneIsNever, Linked, Dues
<1>9. CASE list # <<>> /\ due[Head(list)] <= target
  <2>1. Fire(due, ticks, target, outer) /\ rebased' = rebased
    BY <1>7, <1>9
  <2>2. /\ \A b \in Linked \ {Head(list)} : due'[b] = due[b]
        /\ NoneIsNever'
    BY <1>1, <1>8, <1>9, <2>1, FireKeepsOthers
  <2>3. Head(list) \in Linked
    BY <1>1, <1>9, HeadIsFirst
  <2>4. /\ list' = Tail(list) /\ ticks' = Later(ticks, due[Head(list)])
        /\ frames' = Append(outer, [target |-> target, alarm |-> Head(list)])
    BY <2>1 DEF Fire
  <2>5. Now' = Later(Now, due[Head(list)] + rebased)
    BY <1>1, <1>2, <1>8, <2>1, <2>3, <2>4, SMTT(30) DEF Now, Later
  <2>6. due[Head(list)] + rebased <= target + rebased'
    BY <1>1, <1>4, <1>8, <1>9, <2>1, <2>3
  <2>7. Fires(target + rebased', outer)
    <3>1. \A b \in Linked \ {Head(list)} : due'[b] + rebased' = due[b] + rebased
      BY <2>1, <2>2
    <3> QED
      BY <1>1, <1>3, <1>4, <1>9, <2>1, <2>4, <2>5, <2>6, <3>1, FireIsEager DEF RInv
  <2>8. Fires(target + rebased, outer)
    BY <2>1, <2>7
  <2> QED
    BY <2>2, <2>8 DEF outer, target
<1>10. CASE ~ (list # <<>> /\ due[Head(list)] <= target)
  <2> DEFINE t == Later(ticks, target)  move == MoveAt(t, Len(outer))
  <2>1. Finish(due, ticks, target, outer) /\ rebased' = rebased + move
    BY <1>7, <1>10
  <2>2. t \in 0 .. MaxTicks
    BY <1>1, <1>4 DEF Later
  <2>3. /\ move \in Nat /\ \A b \in Linked : due'[b] + move = due[b]
        /\ list' = list /\ frames' = outer /\ ticks' = t - move
        /\ NoneIsNever'
    BY <1>1, <1>4, <1>8, <2>1, <2>2, FinishKeepsAll
  <2>4. due' = Shifted(due, Linked, move)
    BY <2>1 DEF Finish
  <2>5. outer # <<>> => move = 0
    BY <1>3 DEF MoveAt
  <2> HIDE DEF move
  <2>6. \A b \in Linked : due'[b] + rebased' = due[b] + rebased
    <3> SUFFICES ASSUME NEW b \in Linked PROVE due'[b] + rebased' = due[b] + rebased
      OBVIOUS
    <3>1. due'[b] = due[b] - move
      BY <1>8, <2>4 DEF Shifted
    <3> QED
      BY <1>1, <1>8, <2>1, <2>3, <3>1
  <2>7. \A b \in Linked : due[b] + rebased > target + rebased
    <3> SUFFICES ASSUME NEW b \in Linked PROVE due[b] + rebased > target + rebased
      OBVIOUS
    <3>1. list # <<>>
      BY <1>1 DEF Linked
    <3>2. due[Head(list)] <= due[b] /\ due[Head(list)] \in Int
      BY <1>1, <1>8, <3>1, HeadIsFirst
    <3> QED
      BY <1>1, <1>4, <1>8, <1>10, <3>1, <3>2
  <2>8. Now' = Later(Now, target + rebased)
    <3>1. (Now)' = (t - move) + 0 + (rebased + move)
      BY <1>2, <2>1, <2>3 DEF Now
    <3>2. (Now)' = t + rebased
      BY <1>1, <2>2, <2>3, <3>1
    <3> QED
      BY <1>1, <1>2, <1>4, <3>2 DEF Now, Later
  <2>9. target + rebased \in Int /\ rebased' \in Nat /\ (outer # <<>> => rebased' = rebased)
    BY <1>1, <1>4, <2>1, <2>3, <2>5
  <2>10. Reaches(target + rebased, outer)
    BY <1>3, <2>3, <2>6, <2>7, <2>8, <2>9, ReachIsEager DEF RInv
  <2> QED
    BY <2>3, <2>10 DEF outer, target
<1> QED
  BY <1>9, <1>10

\* What is said on the list is said by EagerClock.
LEMMA PassesIsEager ==
  ASSUME IInv, NEW delta \in Steps, Passes(delta)
  PROVE  Eager!Next
<1>1. delta \in Nat /\ Now \in Int /\ \A b \in Linked : due[b] + rebased \in Int
  BY TypesOfParts, ConstantTypes DEF Linked, Dues, Now
<1>2. CASE Fires(Now + delta, frames)
  <2>1. PICK a \in Linked :
          /\ due[a] + rebased <= Now + delta
          /\ \A b \in Linked \ {a} : <<a, b>> \in Pairs(list)
          /\ (Now)' = Later(Now, due[a] + rebased)
          /\ When' = [b \in Linked \ {a} |-> due[b] + rebased]
          /\ Pairs(list)' = Within(Pairs(list), Linked \ {a})
          /\ CallsOf(frames, rebased)' = Append(CallsOf(frames, rebased), [target |-> Now + delta, alarm |-> a])
    BY <1>2 DEF Fires
  <2>2. Eager!Fire(Now + delta, CallsOf(frames, rebased))
    BY <2>1 DEF Eager!Fire, Eager!Due, Eager!First, Eager!Others, Eager!Among, Eager!Latest, Later,
                When, Pairs, Elems, Linked, Within, CallsOf
  <2> QED
    BY <2>2 DEF Eager!Next, Eager!Pass, CallsOf
<1>3. CASE Reaches(Now + delta, frames)
  <2>1. Eager!Reach(Now + delta, CallsOf(frames, rebased))
    BY <1>1, <1>3, SMTT(30) DEF Reaches, Eager!Reach, Eager!Due, Eager!Latest, Later, When, Pairs, Elems,
                      Linked, CallsOf
  <2> QED
    BY <2>1 DEF Eager!Next, Eager!Pass, CallsOf
<1> QED
  BY <1>2, <1>3 DEF Passes

LEMMA ResumeIsEager ==
  ASSUME RInv, Resume
  PROVE  Eager!Resume /\ NoneIsNever'
<1> DEFINE target == Last(frames).target + rebased  outer == Front(frames)
           calls == CallsOf(frames, rebased)
<1>1. \A b \in Linked : due[b] + rebased \in Int
  BY TypesOfParts DEF RInv, Linked, Dues
<1>2. /\ calls # <<>> /\ Front(calls) = CallsOf(outer, rebased)
      /\ Last(calls) = [target |-> target, alarm |-> Last(frames).alarm]
      /\ outer \in Seq(Frame) /\ Last(frames) \in Frame /\ rebased \in Nat
  BY TypesOfParts, CallsReturn, NoCalls DEF RInv, Resume, AtRest
<1>3. Last(calls).target = target /\ target \in Int
  BY <1>2, ConstantTypes DEF Frame
<1>4. (Fires(target, outer) \/ Reaches(target, outer)) /\ NoneIsNever'
  BY ReturnIsEager
<1> HIDE DEF target, outer
<1>5. CASE Fires(target, outer)
  <2>1. PICK a \in Linked :
          /\ due[a] + rebased <= target
          /\ \A b \in Linked \ {a} : <<a, b>> \in Pairs(list)
          /\ (Now)' = Later(Now, due[a] + rebased)
          /\ When' = [b \in Linked \ {a} |-> due[b] + rebased]
          /\ Pairs(list)' = Within(Pairs(list), Linked \ {a})
          /\ CallsOf(frames, rebased)' = Append(Front(calls), [target |-> Last(calls).target, alarm |-> a])
    BY <1>2, <1>3, <1>5 DEF Fires
  <2>2. Eager!Fire(Last(calls).target, Front(calls))
    BY <1>3, <2>1 DEF Eager!Fire, Eager!Due, Eager!First, Eager!Others, Eager!Among, Eager!Latest,
                Later, When, Pairs, Elems, Linked, Within, CallsOf
  <2> QED
    BY <1>2, <1>4, <2>2 DEF Eager!Resume, Eager!Last, Eager!Front, Last, Front, CallsOf
<1>6. CASE Reaches(target, outer)
  <2>1. Eager!Reach(Last(calls).target, Front(calls))
    <3>1. Eager!Due(Last(calls).target) = {}
      BY <1>1, <1>3, <1>6 DEF Reaches, Eager!Due
    <3>2. (Now)' = Eager!Latest(Now, Last(calls).target)
      BY <1>3, <1>6 DEF Reaches, Eager!Latest, Later
    <3>3. /\ CallsOf(frames, rebased)' = Front(calls)
          /\ When' = When /\ Pairs(list)' = Pairs(list)
      BY <1>2, <1>6 DEF Reaches
    <3> QED
      BY <3>1, <3>2, <3>3 DEF Eager!Reach, When, Pairs, Elems, Linked, CallsOf
  <2> QED
    BY <1>2, <1>4, <2>1 DEF Eager!Resume, Eager!Last, Eager!Front, Last, Front, CallsOf
<1> QED
  BY <1>4, <1>5, <1>6

----------------------------------------------------------------------------
(* The refinement *)

LEMMA InitIsEager == Init => Eager!Init /\ RInv
<1> SUFFICES ASSUME Init PROVE Eager!Init /\ RInv
  OBVIOUS
<1>1. list = <<>> /\ frames = <<>> /\ ticks = 0 /\ pending = 0 /\ rebased = 0 /\ Linked = {}
  BY DEF Init, Linked
<1>2. RInv
  BY <1>1, InitEstablishes, ClockAssumption DEF RInv, Deferred, NoneIsNever, ClockAssumption
<1>3. Eager!Init
  BY <1>1 DEF Eager!Init, Now
<1> QED
  BY <1>2, <1>3

LEMMA StepIsEager ==
  RInv /\ NothingSaturates /\ [Next]_vars => [Eager!Next]_(Eager!vars) /\ RInv'
<1> SUFFICES ASSUME RInv, NothingSaturates, [Next]_vars
             PROVE  [Eager!Next]_(Eager!vars) /\ NoneIsNever'
  BY StepKeeps, DeferredKeeps DEF RInv
<1>1. ASSUME NEW a \in Alarms, NEW delta \in Deltas, Schedule(a, delta)
      PROVE  [Eager!Next]_(Eager!vars) /\ NoneIsNever'
  BY <1>1, ScheduleIsEager DEF Eager!Next
<1>2. ASSUME NEW a \in Alarms, Cancel(a)
      PROVE  [Eager!Next]_(Eager!vars) /\ NoneIsNever'
  BY <1>2, CancelIsEager DEF Eager!Next
<1>3. ASSUME NEW delta \in Steps, Passes(delta)
      PROVE  Eager!Next
  BY <1>3, PassesIsEager DEF RInv
<1>4. ASSUME NEW delta \in Steps, TickTicks(delta)
      PROVE  [Eager!Next]_(Eager!vars) /\ NoneIsNever'
  BY <1>3, <1>4, TickTicksIsEager
<1>5. ASSUME NEW delta \in Steps, DeferTicks(delta)
      PROVE  [Eager!Next]_(Eager!vars) /\ NoneIsNever'
  BY <1>3, <1>5, DeferTicksIsEager
<1>6. CASE Read
  BY <1>6, ReadIsEager
<1>7. CASE Resume
  BY <1>7, ResumeIsEager DEF Eager!Next
<1>8. CASE UNCHANGED vars
  <2>1. NoneIsNever'
    BY <1>8 DEF vars, RInv, NoneIsNever, Linked
  <2>2. UNCHANGED Eager!vars
    BY <1>8 DEF vars, Eager!vars, Now, Linked
  <2> QED
    BY <2>1, <2>2
<1> QED
  BY <1>1, <1>2, <1>4, <1>5, <1>6, <1>7, <1>8 DEF Next

\* Deferral, the cached horizon and the moving origin cannot be told: the clock implements
\* EagerClock, however often its origin has moved, if every delay fits between the time at
\* which the origin moves and "never", and no single outermost tick, with all its callbacks
\* tick and arm, comes within a delay of "never" (MAX_TICKS, some nine years) before it ends.
THEOREM ClockIsEager ==
  ASSUME RoomToArm
  PROVE  Spec /\ [](~ AtRest => NothingSaturates) => RefinesEagerClock
<1>1. Init => Eager!Init /\ RInv
  BY InitIsEager
<1>2. RInv /\ (~ AtRest => NothingSaturates) /\ [Next]_vars => [Eager!Next]_(Eager!vars) /\ RInv'
  BY RestIsBelowNever, StepIsEager
<1> QED
  BY <1>1, <1>2, PTL DEF Spec, RefinesEagerClock, Eager!Spec

=============================================================================
