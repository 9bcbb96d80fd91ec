-------------------------- MODULE Peripherals_proofs --------------------------
(***************************************************************************)
(* Proofs about the register blocks: the DMA controller has last been told *)
(* the requests that their FIFOs make, whatever came before.               *)
(***************************************************************************)
EXTENDS Peripherals, FiniteSetsExt, FiniteSetTheorems, SequenceTheorems, WellFoundedInduction, TLAPS

-----------------------------------------------------------------------------
(* Division. *)

LEMMA Division ==
  ASSUME NEW a \in Int, NEW b \in Nat \ {0}
  PROVE  /\ a \div b \in Int /\ (a % b) \in 0 .. b - 1
         /\ a = b * (a \div b) + (a % b)
  OBVIOUS

LEMMA DivisionIsUnique ==
  ASSUME NEW b \in Nat \ {0}, NEW q \in Int, NEW r \in 0 .. b - 1
  PROVE  (b * q + r) \div b = q /\ ((b * q + r) % b) = r
<1> DEFINE a == b * q + r
<1>1. a \in Int /\ b * q \in Int
  OBVIOUS
<1>2. a \div b \in Int /\ (a % b) \in 0 .. b - 1 /\ a = b * (a \div b) + (a % b)
  BY <1>1, Division
<1> DEFINE e == a \div b
           s == a % b
<1>3. b * (q - e) = s - r /\ q - e \in Int /\ s - r \in Int /\ s - r < b /\ r - s < b
  BY <1>2
<1>4. ~ (q - e >= 1) /\ ~ (e - q >= 1)
  <2>1. \A d \in Int : d >= 1 => b * d >= b
    OBVIOUS
  <2>2. b * (e - q) = r - s
    BY <1>2
  <2> QED BY <1>3, <2>1, <2>2, <1>2
<1> QED BY <1>2, <1>3, <1>4

LEMMA SameRemainder ==
  ASSUME NEW b \in Nat \ {0}, NEW a \in Int, NEW k \in Int
  PROVE  (a + b * k) % b = a % b /\ (a + b * k) \div b = (a \div b) + k
<1>1. a \div b \in Int /\ (a % b) \in 0 .. b - 1 /\ a = b * (a \div b) + (a % b)
  BY Division
<1> DEFINE q == (a \div b) + k
           r == a % b
<1>2. a + b * k = b * q + r /\ q \in Int /\ r \in 0 .. b - 1
  BY <1>1
<1>3. (b * q + r) \div b = q /\ (b * q + r) % b = r
  <2> HIDE DEF q, r
  <2> QED BY <1>2, DivisionIsUnique
<1> QED BY <1>2, <1>3, Zenon

LEMMA Continued ==
  ASSUME NEW b \in Nat \ {0}, NEW a \in Int, NEW d \in Int
  PROVE  (a + d) \div b = (a \div b) + (((a % b) + d) \div b)
<1>1. a \div b \in Int /\ (a % b) \in 0 .. b - 1 /\ a = b * (a \div b) + (a % b)
  BY Division
<1>2. a + d = ((a % b) + d) + b * (a \div b) /\ (a % b) + d \in Int
  BY <1>1
<1>3. (a + d) \div b = (((a % b) + d) \div b) + (a \div b)
  BY <1>1, <1>2, SameRemainder
<1> QED BY <1>1, <1>2, <1>3, Division

\* A count kept modulo a multiple of the word goes on as the word does.
LEMMA WordOfRemainder ==
  ASSUME NEW low \in Nat \ {0}, NEW high \in Nat \ {0}, NEW a \in Int, NEW k \in Int
  PROVE  /\ low * high \in Nat \ {0} /\ (a % (low * high)) \in 0 .. low * high - 1
         /\ ((a % (low * high)) + k) % low = (a + k) % low
<1>1. low * high \in Nat \ {0}
  OBVIOUS
<1> DEFINE all == low * high
           r == a % all
           q == a \div all
<1>2. q \in Int /\ r \in 0 .. all - 1 /\ a = all * q + r
  <2> HIDE DEF all
  <2> QED BY <1>1, Division DEF all
<1> HIDE DEF r, q
<1>3. all * q = low * (high * q) /\ high * q \in Int
  BY <1>2
<1>6. r \in Int /\ r + k \in Int
  <2> HIDE DEF all
  <2> QED BY <1>1, <1>2 DEF all
<1>4. a + k = (r + k) + low * (high * q)
  <2> HIDE DEF all
  <2>1. all * q \in Int
    BY <1>2, <1>1 DEF all
  <2> QED BY <1>2, <1>3, <1>6, <2>1
<1>5. (a + k) % low = (r + k) % low
  <2> DEFINE e == high * q
  <2>1. e \in Int /\ a + k = (r + k) + low * e
    BY <1>3, <1>4
  <2> DEFINE x == r + k
  <2>2. x \in Int /\ a + k = x + low * e
    BY <1>6, <2>1
  <2> HIDE DEF e, x
  <2>3. (x + low * e) % low = x % low
    BY <2>1, <2>2, SameRemainder
  <2>4. (a + k) % low = x % low
    BY <2>2, <2>3, Zenon
  <2> QED BY <2>4 DEF x
<1> QED BY <1>1, <1>2, <1>5 DEF r

LEMMA NextRemainder ==
  ASSUME NEW b \in Nat \ {0}, NEW a \in Int, NEW k \in Int
  PROVE  ((a % b) + k) % b = (a + k) % b
<1> DEFINE q == a \div b
           r == a % b
           x == r + k
<1>1. q \in Int /\ r \in 0 .. b - 1 /\ a = b * q + r
  BY Division
<1> HIDE DEF q, r
<1>2. a + k = x + b * q /\ x \in Int
  BY <1>1
<1> HIDE DEF x
<1>3. (x + b * q) % b = x % b
  BY <1>1, <1>2, SameRemainder
<1>4. (a + k) % b = x % b
  BY <1>2, <1>3, Zenon
<1> QED BY <1>4 DEF x, r

\* The word reaches each target within a turn, and not before.
LEMMA TargetIsAhead ==
  ASSUME NEW low \in Nat \ {0}, NEW n \in Int, NEW target \in 0 .. low - 1
  PROVE  LET c == (target - n) % low
         IN  /\ c \in 0 .. low - 1 /\ (n + c) % low = target
             /\ \A j \in 0 .. c - 1 : (n + j) % low # target
<1> DEFINE c == (target - n) % low
           k == (target - n) \div low
<1>1. c \in 0 .. low - 1 /\ k \in Int /\ target - n = low * k + c
  <2> DEFINE a == target - n
  <2>1. a \in Int
    OBVIOUS
  <2>2. a \div low \in Int /\ (a % low) \in 0 .. low - 1 /\ a = low * (a \div low) + (a % low)
    <3> HIDE DEF a
    <3> QED BY <2>1, Division
  <2> QED BY <2>2
<1> HIDE DEF c, k
<1>2. n + c = low * (-k) + target /\ -k \in Int
  BY <1>1
<1>3. (n + c) % low = target
  BY <1>2, DivisionIsUnique
<1>4. ASSUME NEW j \in 0 .. c - 1, (n + j) % low = target PROVE FALSE
  <2> DEFINE e == (n + j) \div low
  <2>1. e \in Int /\ n + j = low * e + target
    BY <1>1, <1>4, Division
  <2> HIDE DEF e
  <2>2. c - j = low * (-k) + low * (-e) /\ c - j \in 1 .. low - 1
    BY <1>1, <2>1
  <2>3. c - j = low * ((-k) - e)
    BY <1>1, <2>1, <2>2
  <2> DEFINE d == (-k) - e
  <2>4. d \in Int /\ c - j = low * d
    BY <1>1, <2>1, <2>3
  <2> HIDE DEF d
  <2>5. ~ (d >= 1) /\ ~ (d <= 0)
    <3>1. \A x \in Int : x >= 1 => low * x >= low
      OBVIOUS
    <3>2. \A x \in Int : x <= 0 => low * x <= 0
      OBVIOUS
    <3> QED BY <2>2, <2>4, <3>1, <3>2
  <2> QED BY <2>4, <2>5
<1> QED BY <1>1, <1>3, <1>4 DEF c

\* Ticks into a period, brought to another period, stay below it.
LEMMA Proportion ==
  ASSUME NEW old \in Nat \ {0}, NEW new \in Nat \ {0}, NEW ticks \in 0 .. old - 1
  PROVE  (ticks * new) \div old \in 0 .. new - 1
<1> DEFINE q == (ticks * new) \div old
<1>1. ticks * new \in Nat /\ ticks * new < old * new
  <2>1. old - ticks \in Nat \ {0}
    OBVIOUS
  <2>2. (old - ticks) * new > 0
    BY <2>1
  <2> QED BY <2>2
<1>2. q \in Int /\ ticks * new < old * q + old /\ old * q <= ticks * new
  <2> DEFINE a == ticks * new
  <2>1. a \in Int
    BY <1>1
  <2>2. a \div old \in Int /\ (a % old) \in 0 .. old - 1 /\ a = old * (a \div old) + (a % old)
    <3> HIDE DEF a
    <3> QED BY <2>1, Division
  <2> HIDE DEF a
  <2>3. old * (a \div old) \in Int
    BY <2>2
  <2> QED BY <2>1, <2>2, <2>3 DEF a
<1> HIDE DEF q
<1>3. ~ (q >= new)
  <2>1. ASSUME q >= new PROVE old * q >= old * new
    BY <1>2, <2>1
  <2> QED BY <1>1, <1>2, <2>1
<1>4. ~ (q <= -1)
  <2>1. ASSUME q <= -1 PROVE old * q + old <= 0
    <3>1. q + 1 <= 0 /\ q + 1 \in Int
      BY <1>2, <2>1
    <3>2. \A x \in Int : x <= 0 => old * x <= 0
      OBVIOUS
    <3> QED BY <1>2, <3>1, <3>2
  <2> QED BY <1>1, <1>2, <2>1
<1> QED BY <1>2, <1>3, <1>4 DEF q

-----------------------------------------------------------------------------
(* Folds. *)

LEMMA LessIsWellFounded == IsWellFoundedOn(OpToRel(<, Nat), Nat)
  BY NatLessThanWellFounded

\* Every set of numbers that is not empty has a least one, which stands in for an induction.
LEMMA LeastElement ==
  ASSUME NEW Some \in SUBSET Nat, Some # {}
  PROVE  \E n \in Some : \A k \in Some : n <= k
<1> DEFINE less == OpToRel(<, Nat)
<1>1. less = {p \in Nat \X Nat : p[1] < p[2]}
  BY Zenon DEF OpToRel
<1>2. PICK n \in Some : \A k \in Some : ~ (<<k, n>> \in less)
  <2> HIDE DEF less
  <2> QED BY LessIsWellFounded, WFMin, Zenon DEF less
<1>3. \A k \in Some : ~ (k < n)
  BY <1>1, <1>2
<1>4. \A k \in Some : n <= k
  BY <1>3
<1> QED BY <1>4

\* What holds of 0 and goes from each number to the next, up to last, holds of last.
LEMMA UpTo ==
  ASSUME NEW last \in Nat, NEW Holds, 0 \in Holds, \A n \in 0 .. last - 1 : n \in Holds => n + 1 \in Holds
  PROVE  last \in Holds
<1> DEFINE Wrong == {n \in Nat : n \in 0 .. last /\ n \notin Holds}
<1> SUFFICES ASSUME last \notin Holds PROVE FALSE
  OBVIOUS
<1>1. last \in Wrong /\ Wrong \in SUBSET Nat
  OBVIOUS
<1> HIDE DEF Wrong
<1>2. PICK n \in Wrong : \A k \in Wrong : n <= k
  BY <1>1, LeastElement
<1>3. n \in 0 .. last /\ n \notin Holds /\ n # 0
  BY DEF Wrong
<1>4. n - 1 \in 0 .. last - 1 /\ ~ (n <= n - 1) /\ (n - 1) + 1 = n
  BY <1>3
<1>5. n - 1 \in Holds
  BY <1>2, <1>4 DEF Wrong
<1> QED BY <1>3, <1>4, <1>5

\* The largest of a set of numbers up to n that holds n.
LEMMA MaxIsLast ==
  ASSUME NEW n \in Nat, NEW s \in SUBSET (1 .. n), n \in s
  PROVE  Max(s) = n
<1>1. \A x \in s : x \in Int /\ x <= n
  OBVIOUS
<1>2. n \in s /\ \A y \in s : n >= y
  BY <1>1
<1>3. \A x \in s : (\A y \in s : x >= y) => x = n
  BY <1>1
<1>4. Max(s) \in s /\ \A y \in s : Max(s) >= y
  BY <1>2, Zenon DEF Max
<1> QED BY <1>3, <1>4

\* A set of numbers up to n that is not empty has a largest.
LEMMA MaxIsIn ==
  ASSUME NEW n \in Nat, NEW s \in SUBSET (1 .. n), s # {}
  PROVE  Max(s) \in s
<1> DEFINE Less == {k \in Nat : n - k \in s}
<1>1. Less \in SUBSET Nat /\ Less # {}
  <2>1. PICK x \in s : TRUE
    OBVIOUS
  <2>2. n - x \in Nat /\ n - (n - x) = x
    OBVIOUS
  <2> QED BY <2>2
<1>2. PICK m \in Less : \A k \in Less : m <= k
  <2> HIDE DEF Less
  <2> QED BY <1>1, LeastElement
<1>3. \A y \in s : n - y \in Less
  OBVIOUS
<1>4. n - m \in s /\ \A y \in s : n - m >= y
  BY <1>2, <1>3
<1> QED BY <1>4, Zenon DEF Max

\* A fold over 1 .. last exists, when each of its turns leads from a good state to a good one.
IsFold(last, base, op, f) ==
  \A s \in SUBSET (1 .. last) : f[s] = IF s = {} THEN base ELSE op[<<Max(s), f[s \ {Max(s)}]>>]

LEMMA FoldExists ==
  ASSUME NEW last \in Nat, NEW Good, NEW base \in Good, NEW op \in [(1 .. last) \X Good -> Good]
  PROVE  \E f \in [SUBSET (1 .. last) -> Good] : IsFold(last, base, op, f)
<1> USE DEF IsFold
<1> DEFINE Folds(n, f) == \A s \in SUBSET (1 .. n) : f[s] = IF s = {} THEN base ELSE op[<<Max(s), f[s \ {Max(s)}]>>]
           Holds == {n \in 0 .. last : \E f \in [SUBSET (1 .. n) -> Good] : Folds(n, f)}
<1>1. 0 \in Holds
  <2> DEFINE none == [s \in SUBSET (1 .. 0) |-> base]
  <2>1. SUBSET (1 .. 0) = {{}}
    OBVIOUS
  <2>2. none \in [SUBSET (1 .. 0) -> Good] /\ Folds(0, none)
    BY <2>1
  <2> HIDE DEF none, Folds
  <2>3. 0 \in 0 .. last
    OBVIOUS
  <2>4. \E f \in [SUBSET (1 .. 0) -> Good] : Folds(0, f)
    BY <2>2, Zenon
  <2> QED BY <2>3, <2>4, Zenon
<1>2. ASSUME NEW n \in 0 .. last - 1, n \in Holds
      PROVE  n + 1 \in Holds
  <2> DEFINE m == n + 1
  <2>1. m \in 1 .. last /\ n \in Nat /\ m \in Nat
    OBVIOUS
  <2>2. PICK f \in [SUBSET (1 .. n) -> Good] : Folds(n, f)
    BY <1>2
  <2> DEFINE g == [s \in SUBSET (1 .. m) |-> IF m \in s THEN op[<<m, f[s \ {m}]>>] ELSE f[s]]
  <2>3. \A s \in SUBSET (1 .. m) : m \notin s => s \in SUBSET (1 .. n)
    BY <2>1
  <2>4. \A s \in SUBSET (1 .. m) : s \ {m} \in SUBSET (1 .. n)
    BY <2>1
  <2>5. \A s \in SUBSET (1 .. n) : s \in SUBSET (1 .. m) /\ m \notin s
    BY <2>1
  <2> HIDE DEF m, Folds
  <2>6. g \in [SUBSET (1 .. m) -> Good]
    <3> SUFFICES ASSUME NEW s \in SUBSET (1 .. m) PROVE (IF m \in s THEN op[<<m, f[s \ {m}]>>] ELSE f[s]) \in Good
      OBVIOUS
    <3>1. f[s \ {m}] \in Good
      BY <2>4
    <3>2. op[<<m, f[s \ {m}]>>] \in Good
      BY <2>1, <3>1
    <3>3. m \notin s => f[s] \in Good
      BY <2>3
    <3> QED BY <3>2, <3>3
  <2>7. ASSUME NEW s \in SUBSET (1 .. m)
        PROVE  g[s] = IF s = {} THEN base ELSE op[<<Max(s), g[s \ {Max(s)}]>>]
    <3>1. CASE m \in s
      <4>1. Max(s) = m /\ s # {}
        BY <2>1, <3>1, MaxIsLast
      <4>2. s \ {m} \in SUBSET (1 .. m) /\ m \notin s \ {m}
        OBVIOUS
      <4>3. g[s \ {m}] = f[s \ {m}]
        BY <4>2
      <4> QED BY <3>1, <4>1, <4>3
    <3>2. CASE m \notin s /\ s # {}
      <4>1. s \in SUBSET (1 .. n)
        BY <2>3, <3>2
      <4>2. f[s] = op[<<Max(s), f[s \ {Max(s)}]>>]
        BY <2>2, <3>2, <4>1 DEF Folds
      <4>3. s \ {Max(s)} \in SUBSET (1 .. m) /\ m \notin s \ {Max(s)}
        BY <3>2
      <4>4. g[s \ {Max(s)}] = f[s \ {Max(s)}] /\ g[s] = f[s]
        BY <3>2, <4>3
      <4> QED BY <3>2, <4>2, <4>4
    <3>3. CASE s = {}
      <4>1. s \in SUBSET (1 .. n) /\ m \notin s
        BY <3>3
      <4> QED BY <2>2, <3>3, <4>1 DEF Folds
    <3> QED BY <3>1, <3>2, <3>3
  <2> HIDE DEF g
  <2>8. Folds(m, g)
    BY <2>7 DEF Folds
  <2>9. m \in 0 .. last
    BY <2>1
  <2> QED BY <2>6, <2>8, <2>9 DEF m
<1>3. last \in Holds
  <2> HIDE DEF Holds
  <2> QED BY <1>1, <1>2, UpTo
<1> QED BY <1>3

\* What the turns of a fold keep, its result has.
LEMMA FoldStays ==
  ASSUME NEW last \in Nat, NEW Good, NEW iter, iter[{}] \in Good,
         \A k \in 0 .. last - 1 : iter[1 .. k] \in Good => iter[1 .. k + 1] \in Good
  PROVE  iter[1 .. last] \in Good
<1> DEFINE Holds == {k \in 0 .. last : iter[1 .. k] \in Good}
<1>1. 0 \in Holds
  <2>1. 1 .. 0 = {}
    OBVIOUS
  <2> QED BY <2>1
<1>2. \A k \in 0 .. last - 1 : k \in Holds => k + 1 \in Holds
  OBVIOUS
<1>3. last \in Holds
  <2> HIDE DEF Holds
  <2> QED BY <1>1, <1>2, UpTo
<1> QED BY <1>3

\* The numbers up to the next.
LEMMA UpToNext ==
  ASSUME NEW last \in Nat, NEW k \in 0 .. last - 1
  PROVE  /\ k + 1 \in 1 .. last /\ 1 .. k + 1 # {} /\ (1 .. k + 1) \ {k + 1} = 1 .. k
         /\ 1 .. k + 1 \in SUBSET (1 .. last) /\ Max(1 .. k + 1) = k + 1
<1>1. k + 1 \in Nat /\ k + 1 \in 1 .. k + 1 /\ 1 .. k + 1 \in SUBSET (1 .. k + 1)
  OBVIOUS
<1>2. Max(1 .. k + 1) = k + 1
  BY <1>1, MaxIsLast
<1>3. (1 .. k + 1) \ {k + 1} = 1 .. k
  OBVIOUS
<1>4. 1 .. k + 1 \in SUBSET (1 .. last) /\ k + 1 \in 1 .. last
  OBVIOUS
<1> QED BY <1>1, <1>2, <1>3, <1>4
-----------------------------------------------------------------------------
(* What the DMA controller has been told of the SPI. *)

SpiState ==
  [tx : Seq(Words), rx : Seq(Words), busy : BOOLEAN, frame : BOOLEAN, reply : Words \cup {None},
   timed : BOOLEAN, sse : BOOLEAN, lbm : BOOLEAN, dmacr : SUBSET {16, 17}, raw : SUBSET S!Interrupts,
   imsc : SUBSET S!Interrupts, line : BOOLEAN, up : SUBSET {16, 17}, owes : Seq(Words),
   prompt : BOOLEAN, lost : BOOLEAN, stale : BOOLEAN]
SpiTold(s) == s \in SpiState /\ s.up = S!Requested(s)

\* The requests depend on the FIFOs and the enables.
LEMMA SpiSame ==
  ASSUME NEW s, SpiTold(s), NEW e \in SpiState, e.sse = s.sse, e.dmacr = s.dmacr, e.tx = s.tx, e.rx = s.rx, e.up = s.up
  PROVE  SpiTold(e)
<1>1. S!Requested(e) = S!Requested(s)
  BY DEF S!Requested
<1> QED BY <1>1 DEF SpiTold

LEMMA SpiTells ==
  ASSUME NEW s \in SpiState
  PROVE  SpiTold(S!UpdateDma(s)) /\ SpiTold(S!FifosUpdated(s)) /\ S!CheckInterrupts(s) \in SpiState
<1>1. ASSUME NEW e \in SpiState PROVE SpiTold(S!UpdateDma(e))
  <2>1. S!Requested(e) \in SUBSET {16, 17}
    BY DEF S!Requested, S!TxRequest, S!RxRequest
  <2>2. S!UpdateDma(e) \in SpiState
    BY <2>1 DEF SpiState, S!UpdateDma
  <2>3. S!UpdateDma(e).up = S!Requested(e) /\ S!Requested(S!UpdateDma(e)) = S!Requested(e)
    BY DEF SpiState, S!UpdateDma, S!Requested
  <2> QED BY <2>2, <2>3 DEF SpiTold
<1>2. ASSUME NEW e \in SpiState PROVE S!CheckInterrupts(e) \in SpiState
  <2>1. (S!Status(e) # {}) \in BOOLEAN
    OBVIOUS
  <2> QED BY <2>1, Zenon DEF S!CheckInterrupts, SpiState
<1>3. SpiTold(S!FifosUpdated(s))
  <2> DEFINE levels == {i \in {"TX", "RX"} : IF i = "TX" THEN 2 * Len(s.tx) <= FifoDepth ELSE 2 * Len(s.rx) >= FifoDepth}
             t == [s EXCEPT !.raw = (s.raw \cap {"ROR"}) \cup levels]
  <2>1. (s.raw \cap {"ROR"}) \cup levels \in SUBSET S!Interrupts
    BY DEF S!Interrupts
  <2>2. t \in SpiState
    <3> HIDE DEF levels
    <3> QED BY <2>1 DEF SpiState
  <2>3. S!FifosUpdated(s) = S!UpdateDma(IF S!Status(t) # S!Status(s) THEN S!CheckInterrupts(t) ELSE t)
    BY DEF S!FifosUpdated, SpiState
  <2> HIDE DEF t
  <2> QED BY <1>1, <1>2, <2>2, <2>3
<1> QED BY <1>1, <1>2, <1>3

\* What becomes of the words.
LEMMA SpiMoves ==
  ASSUME NEW s \in SpiState, NEW w \in Words
  PROVE  /\ [s EXCEPT !.tx = Append(s.tx, w)] \in SpiState
         /\ s.tx # <<>> => Head(s.tx) \in Words /\ Tail(s.tx) \in Seq(Words)
         /\ s.rx # <<>> => [s EXCEPT !.rx = Tail(s.rx)] \in SpiState
         /\ s.owes # <<>> => Head(s.owes) \in Words /\ [s EXCEPT !.owes = Tail(s.owes)] \in SpiState
         /\ [s EXCEPT !.owes = Append(s.owes, w)] \in SpiState
         /\ [s EXCEPT !.reply = w] \in SpiState
         /\ [s EXCEPT !.frame = FALSE, !.reply = None] \in SpiState
         /\ [s EXCEPT !.busy = FALSE, !.rx = Append(s.rx, w)] \in SpiState
         /\ [s EXCEPT !.busy = FALSE, !.raw = s.raw \cup {"ROR"}, !.lost = TRUE] \in SpiState
<1>1. /\ s.tx \in Seq(Words) /\ s.rx \in Seq(Words) /\ s.owes \in Seq(Words)
      /\ Append(s.tx, w) \in Seq(Words) /\ Append(s.rx, w) \in Seq(Words) /\ Append(s.owes, w) \in Seq(Words)
  BY DEF SpiState
<1>2. ASSUME NEW q \in Seq(Words), q # <<>> PROVE Head(q) \in Words /\ Tail(q) \in Seq(Words)
  BY <1>2
<1>3. [s EXCEPT !.tx = Append(s.tx, w)] \in SpiState
  BY <1>1 DEF SpiState
<1>4. s.rx # <<>> => [s EXCEPT !.rx = Tail(s.rx)] \in SpiState
  <2>1. s.rx # <<>> => Tail(s.rx) \in Seq(Words)
    BY <1>1, <1>2
  <2> QED BY <2>1 DEF SpiState
<1>5. s.owes # <<>> => Head(s.owes) \in Words /\ [s EXCEPT !.owes = Tail(s.owes)] \in SpiState
  <2>1. s.owes # <<>> => Head(s.owes) \in Words /\ Tail(s.owes) \in Seq(Words)
    BY <1>1, <1>2
  <2> QED BY <2>1 DEF SpiState
<1>6. [s EXCEPT !.owes = Append(s.owes, w)] \in SpiState
  BY <1>1 DEF SpiState
<1>7. [s EXCEPT !.reply = w] \in SpiState
  BY DEF SpiState
<1>8. [s EXCEPT !.frame = FALSE, !.reply = None] \in SpiState
  BY DEF SpiState
<1>9. [s EXCEPT !.busy = FALSE, !.rx = Append(s.rx, w)] \in SpiState
  BY <1>1 DEF SpiState
<1>10. [s EXCEPT !.busy = FALSE, !.raw = s.raw \cup {"ROR"}, !.lost = TRUE] \in SpiState
  <2>1. s.raw \cup {"ROR"} \in SUBSET S!Interrupts
    BY DEF SpiState, S!Interrupts
  <2> QED BY <2>1 DEF SpiState
<1> QED BY <1>1, <1>2, <1>3, <1>4, <1>5, <1>6, <1>7, <1>8, <1>9, <1>10

LEMMA ReceivedTells ==
  ASSUME NEW s \in SpiState, NEW w \in Words
  PROVE  SpiTold(S!Received(s, w))
<1> DEFINE room == [s EXCEPT !.busy = FALSE, !.rx = Append(s.rx, w)]
           over == [s EXCEPT !.busy = FALSE, !.raw = s.raw \cup {"ROR"}, !.lost = TRUE]
<1>1. room \in SpiState /\ over \in SpiState
  BY SpiMoves
<1>2. S!Received(s, w) \in {S!FifosUpdated(room), S!FifosUpdated(S!CheckInterrupts(over))}
  BY DEF S!Received, SpiState
<1> HIDE DEF room, over
<1> QED BY <1>1, <1>2, SpiTells

\* A turn tells the controller if it sends a word.
LEMMA DoTxTells ==
  ASSUME NEW s \in SpiState
  PROVE  S!DoTx(s) = s \/ SpiTold(S!DoTx(s))
<1> SUFFICES ASSUME ~ (s.busy \/ s.tx = <<>> \/ ~ s.sse) PROVE SpiTold(S!DoTx(s))
  BY DEF S!DoTx
<1> DEFINE w == Head(s.tx)
           t == [s EXCEPT !.tx = Tail(s.tx), !.busy = TRUE, !.frame = s.frame \/ s.timed,
                     !.reply = IF s.timed THEN None ELSE s.reply]
           u == IF s.lbm \/ s.prompt THEN S!CompleteTransmit(t, w) ELSE [t EXCEPT !.owes = Append(t.owes, w)]
<1>1. s \in SpiState /\ w \in Words /\ Tail(s.tx) \in Seq(Words)
  <2>1. s.tx \in Seq(Words)
    BY DEF SpiState
  <2> QED BY <2>1
<1>2. t \in SpiState
  <2>1. (s.frame \/ s.timed) \in BOOLEAN /\ (IF s.timed THEN None ELSE s.reply) \in Words \cup {None}
    BY <1>1 DEF SpiState
  <2> HIDE DEF w
  <2> QED BY <1>1, <2>1 DEF SpiState
<1>3. S!DoTx(s) = S!FifosUpdated(u)
  BY <1>1 DEF S!DoTx, SpiState
<1> HIDE DEF t, w
<1>4. u \in {[t EXCEPT !.reply = w], S!Received(t, w), [t EXCEPT !.owes = Append(t.owes, w)]}
  BY DEF S!CompleteTransmit
<1> HIDE DEF u
<1>5. u \in SpiState
  BY <1>1, <1>2, <1>4, SpiMoves, ReceivedTells DEF SpiTold
<1> QED BY <1>3, <1>5, SpiTells

\* The turns of _do_tx(), one after the other, stay in a set that each turn stays in.
LEMMA PumpedIn ==
  ASSUME NEW Good, NEW s \in Good, \A t \in Good : S!DoTx(t) \in Good
  PROVE  S!Pumped(s) \in Good
<1> DEFINE last == FifoDepth
           Turns(f) == f = [n \in 0 .. FifoDepth |-> IF n = 0 THEN {s} ELSE {S!DoTx(t) : t \in f[n - 1]}]
           turn == CHOOSE f : Turns(f)
           op == [p \in (1 .. last) \X Good |-> S!DoTx(p[2])]
<1>1. S!Pumped(s) = CHOOSE t \in turn[FifoDepth] : TRUE
  BY DEF S!Pumped
<1>2. last \in Nat
  BY PeripheralsAssumption DEF S!SpiAssumption
<1>3. op \in [(1 .. last) \X Good -> Good]
  OBVIOUS
<1>4. PICK g \in [SUBSET (1 .. last) -> Good] : IsFold(last, s, op, g)
  <2> HIDE DEF op, last
  <2> QED BY <1>2, <1>3, FoldExists
<1> DEFINE h == [n \in 0 .. last |-> {g[1 .. n]}]
<1>5. Turns(h)
  <2>1. g[{}] = s /\ 1 .. 0 = {}
    <3>1. {} \in SUBSET (1 .. last) /\ 1 .. 0 = {}
      OBVIOUS
    <3> HIDE DEF op, last
    <3>2. g[{}] = s
      BY <1>4, <3>1, Zenon DEF IsFold
    <3> QED BY <3>1, <3>2
  <2>2. ASSUME NEW n \in 0 .. last, n # 0 PROVE {S!DoTx(t) : t \in h[n - 1]} = {g[1 .. n]}
    <3>1. n \in Nat /\ n \in 1 .. n /\ n - 1 \in 0 .. last /\ 1 .. n \in SUBSET (1 .. last) /\ 1 .. n # {}
          /\ (1 .. n) \ {n} = 1 .. n - 1 /\ 1 .. n - 1 \in SUBSET (1 .. last) /\ n \in 1 .. last
      BY <1>2, <2>2
    <3>2. Max(1 .. n) = n
      BY <3>1, MaxIsLast
    <3>3. g[1 .. n] = op[<<n, g[1 .. n - 1]>>] /\ g[1 .. n - 1] \in Good
      <4> HIDE DEF op, last
      <4> QED BY <1>4, <3>1, <3>2 DEF IsFold
    <3>4. g[1 .. n] = S!DoTx(g[1 .. n - 1])
      <4> HIDE DEF last
      <4> QED BY <3>1, <3>3
    <3> QED BY <3>1, <3>4
  <2> HIDE DEF op
  <2> QED BY <2>1, <2>2
<1>6. Turns(turn)
  <2> HIDE DEF Turns, h
  <2> QED BY <1>5, Zenon
<1> HIDE DEF turn
<1>7. \A n \in 0 .. last : n # 0 => turn[n] = {S!DoTx(t) : t \in turn[n - 1]}
  BY <1>2, <1>6
<1> DEFINE One == {n \in 0 .. last : \E t \in Good : turn[n] = {t}}
<1>8. 0 \in One
  BY <1>2, <1>6
<1>9. ASSUME NEW n \in 0 .. last - 1, n \in One PROVE n + 1 \in One
  <2>1. PICK t \in Good : turn[n] = {t}
    BY <1>9
  <2>2. n + 1 \in 0 .. last /\ n + 1 # 0 /\ (n + 1) - 1 = n
    BY <1>2
  <2>3. turn[n + 1] = {S!DoTx(t)}
    BY <1>7, <2>1, <2>2
  <2> QED BY <2>2, <2>3
<1>10. last \in One
  <2> HIDE DEF One
  <2> QED BY <1>2, <1>8, <1>9, UpTo
<1>11. PICK t \in Good : turn[last] = {t}
  BY <1>10
<1>12. S!Pumped(s) = t
  BY <1>1, <1>11
<1> QED BY <1>12

LEMMA PumpedStays ==
  ASSUME NEW s \in SpiState
  PROVE  S!Pumped(s) \in SpiState /\ (SpiTold(s) => SpiTold(S!Pumped(s)))
<1> DEFINE Good == {t \in SpiState : SpiTold(s) => SpiTold(t)}
<1>1. s \in Good /\ \A t \in Good : S!DoTx(t) \in Good
  BY DoTxTells DEF SpiTold
<1>2. S!Pumped(s) \in Good
  <2> HIDE DEF Good
  <2> QED BY <1>1, PumpedIn
<1> QED BY <1>2

LEMMA DeliveredTells ==
  ASSUME NEW s \in SpiState, NEW w \in Words
  PROVE  SpiTold(S!Delivered(s, w))
  BY ReceivedTells, PumpedStays DEF S!Delivered, SpiTold

\* The fields that the requests do not depend on.
LEMMA SpiKeepsTold ==
  ASSUME NEW s, SpiTold(s)
  PROVE  /\ SpiTold(S!CheckInterrupts(s))
         /\ \A timed \in BOOLEAN : SpiTold([s EXCEPT !.timed = timed])
         /\ \A m \in SUBSET S!Interrupts : SpiTold([s EXCEPT !.imsc = m])
         /\ SpiTold([s EXCEPT !.raw = s.raw \ {"ROR"}, !.lost = FALSE])
         /\ \A w \in Words : SpiTold([s EXCEPT !.reply = w])
         /\ SpiTold([s EXCEPT !.frame = FALSE, !.reply = None])
         /\ s.owes # <<>> => SpiTold([s EXCEPT !.owes = Tail(s.owes)])
<1>1. s \in SpiState
  BY DEF SpiTold
<1>2. SpiTold(S!CheckInterrupts(s))
  <2>1. S!CheckInterrupts(s) \in SpiState
    BY <1>1, SpiTells
  <2>2. LET e == S!CheckInterrupts(s) IN e.sse = s.sse /\ e.dmacr = s.dmacr /\ e.tx = s.tx /\ e.rx = s.rx /\ e.up = s.up
    BY <1>1 DEF SpiState, S!CheckInterrupts
  <2> QED BY <2>1, <2>2, SpiSame
<1>3. ASSUME NEW timed \in BOOLEAN PROVE SpiTold([s EXCEPT !.timed = timed])
  BY <1>1, SpiSame DEF SpiState
<1>4. ASSUME NEW m \in SUBSET S!Interrupts PROVE SpiTold([s EXCEPT !.imsc = m])
  BY <1>1, SpiSame DEF SpiState
<1>5. SpiTold([s EXCEPT !.raw = s.raw \ {"ROR"}, !.lost = FALSE])
  BY <1>1, SpiSame DEF SpiState
<1>6. ASSUME NEW w \in Words PROVE SpiTold([s EXCEPT !.reply = w])
  BY <1>1, SpiSame DEF SpiState
<1>7. SpiTold([s EXCEPT !.frame = FALSE, !.reply = None])
  BY <1>1, SpiSame DEF SpiState
<1>8. s.owes # <<>> => SpiTold([s EXCEPT !.owes = Tail(s.owes)])
  <2>1. s.owes # <<>> => Tail(s.owes) \in Seq(Words)
    BY <1>1 DEF SpiState
  <2> QED BY <1>1, <2>1, SpiSame DEF SpiState
<1> QED BY <1>2, <1>3, <1>4, <1>5, <1>6, <1>7, <1>8

LEMMA SpiClear ==
  ASSUME NEW owes \in Seq(Words), NEW prompt \in BOOLEAN, NEW stale \in BOOLEAN
  PROVE  SpiTold(S!Clear(owes, prompt, stale))
<1>1. S!Clear(owes, prompt, stale) \in SpiState
  BY DEF S!Clear, SpiState, S!Interrupts
<1>2. S!Clear(owes, prompt, stale).up = {} /\ ~ S!Clear(owes, prompt, stale).sse
  BY DEF S!Clear
<1>3. S!Requested(S!Clear(owes, prompt, stale)) = {}
  BY <1>2 DEF S!Requested
<1> QED BY <1>1, <1>2, <1>3 DEF SpiTold

\* Every method that moves a word or an enable tells the controller, last thing.
LEMMA SpiStep ==
  ASSUME SpiTold(state), S!Next
  PROVE  SpiTold(state')
<1>1. state \in SpiState
  BY DEF SpiTold
<1>2. ASSUME NEW word \in Words, S!WriteDr(word) PROVE SpiTold(state')
  <2> DEFINE t == [state EXCEPT !.tx = Append(state.tx, word)]
  <2>1. state' \in {state, S!FifosUpdated(S!Pumped(t))}
    BY <1>2 DEF S!WriteDr, S!DrWritten
  <2>2. t \in SpiState
    BY <1>1, SpiMoves
  <2> HIDE DEF t
  <2>3. S!Pumped(t) \in SpiState
    BY <2>2, PumpedStays
  <2> QED BY <2>1, <2>3, SpiTells
<1>3. CASE S!ReadDr
  <2>1. state.rx # <<>> => [state EXCEPT !.rx = Tail(state.rx)] \in SpiState
    <3>1. state.rx # <<>> => Tail(state.rx) \in Seq(Words)
      BY <1>1 DEF SpiState
    <3> QED BY <1>1, <3>1 DEF SpiState
  <2> QED BY <1>3, <2>1, SpiTells DEF S!ReadDr, S!DrRead
<1>4. ASSUME NEW sse \in BOOLEAN, NEW lbm \in BOOLEAN, S!WriteCr1(sse, lbm) PROVE SpiTold(state')
  <2> DEFINE t == [state EXCEPT !.sse = sse, !.lbm = lbm]
  <2>1. state' = S!FifosUpdated(S!Pumped(t))
    BY <1>4 DEF S!WriteCr1, S!Cr1Written
  <2>2. t \in SpiState
    BY <1>1 DEF SpiState
  <2> HIDE DEF t
  <2>3. S!Pumped(t) \in SpiState
    BY <2>2, PumpedStays
  <2> QED BY <2>1, <2>3, SpiTells
<1>5. ASSUME NEW timed \in BOOLEAN, S!WriteClock(timed) PROVE SpiTold(state')
  BY <1>5, SpiKeepsTold DEF S!WriteClock
<1>6. ASSUME NEW enables \in Enables, S!WriteDmacr(enables) PROVE SpiTold(state')
  <2>1. enables \in SUBSET {16, 17}
    BY PeripheralsAssumption DEF S!SpiAssumption
  <2>2. [state EXCEPT !.dmacr = enables] \in SpiState
    BY <1>1, <2>1 DEF SpiState
  <2> QED BY <1>6, <2>2, SpiTells DEF S!WriteDmacr, S!DmacrWritten
<1>7. ASSUME NEW enabled \in Masks, S!WriteImsc(enabled) PROVE SpiTold(state')
  <2>1. enabled \in SUBSET S!Interrupts
    BY PeripheralsAssumption DEF S!SpiAssumption, S!Interrupts
  <2>2. SpiTold([state EXCEPT !.imsc = enabled])
    BY <2>1, SpiKeepsTold
  <2> QED BY <1>7, <2>2, SpiKeepsTold DEF S!WriteImsc
<1>8. CASE S!WriteIcr
  <2>1. SpiTold([state EXCEPT !.raw = state.raw \ {"ROR"}, !.lost = FALSE])
    BY SpiKeepsTold
  <2> QED BY <1>8, <2>1, SpiKeepsTold DEF S!WriteIcr
<1>9. CASE S!FrameDone
  <2> DEFINE t == [state EXCEPT !.frame = FALSE, !.reply = None]
  <2>1. SpiTold(t) /\ t \in SpiState
    BY SpiKeepsTold DEF SpiTold
  <2>2. state' = IF state.reply = None THEN t ELSE S!Delivered(t, state.reply)
    BY <1>9 DEF S!FrameDone, S!FrameEnded
  <2>3. state.reply # None => state.reply \in Words
    BY <1>1 DEF SpiState
  <2> HIDE DEF t
  <2> QED BY <2>1, <2>2, <2>3, DeliveredTells
<1>10. CASE S!DeviceAnswers
  <2> DEFINE t == [state EXCEPT !.owes = Tail(state.owes)]
  <2>1. state.owes # <<>>
    BY <1>10 DEF S!DeviceAnswers
  <2>2. Head(state.owes) \in Words
    BY <1>1, <2>1 DEF SpiState
  <2>3. SpiTold(t) /\ t \in SpiState
    BY <2>1, SpiKeepsTold DEF SpiTold
  <2>4. state' = IF state.frame THEN [t EXCEPT !.reply = Head(state.owes)] ELSE S!Delivered(t, Head(state.owes))
    BY <1>10 DEF S!DeviceAnswers, S!Answered
  <2> HIDE DEF t
  <2> QED BY <2>2, <2>3, <2>4, DeliveredTells, SpiKeepsTold
<1>11. CASE S!Reset
  <2>1. state' = S!Clear(state.owes, state.prompt, state.stale \/ state.owes # <<>>)
    BY <1>11 DEF S!Reset
  <2>2. state.owes \in Seq(Words) /\ state.prompt \in BOOLEAN /\ (state.stale \/ state.owes # <<>>) \in BOOLEAN
    BY <1>1 DEF SpiState
  <2> QED BY <2>1, <2>2, SpiClear
<1> QED BY <1>2, <1>3, <1>4, <1>5, <1>6, <1>7, <1>8, <1>9, <1>10, <1>11 DEF S!Next, S!Program

-----------------------------------------------------------------------------
(* Of the UART. *)

UartState ==
  [cr : SUBSET {"UARTEN", "TXE", "RXE", "LBE"}, fen : BOOLEAN, timed : BOOLEAN, trigger : Int,
   tx : Nat, rx : Nat, shifting : BOOLEAN, status : SUBSET {"TX", "RX", "OE"},
   mask : SUBSET {"TX", "RX", "OE"}, dmacr : SUBSET {"TXDMAE", "RXDMAE", "DMAONERR"}, line : BOOLEAN,
   up : SUBSET {"TX", "RX"}]

LEMMA UartTells ==
  ASSUME NEW u \in UartState
  PROVE  /\ U!CheckInterrupts(u) \in UartState
         /\ U!UpdateDreq(u) \in UartState /\ U!UpdateDreq(u).up = U!Requested(U!UpdateDreq(u))
<1>1. U!CheckInterrupts(u) \in UartState
  <2>1. (u.status \cap u.mask # {}) \in BOOLEAN
    OBVIOUS
  <2> QED BY <2>1, Zenon DEF UartState, U!CheckInterrupts
<1>2. U!Requested(u) \in SUBSET {"TX", "RX"}
  BY DEF U!Requested, U!TX, U!RX
<1>3. U!UpdateDreq(u) \in UartState
  BY <1>2 DEF UartState, U!UpdateDreq
<1>4. U!UpdateDreq(u).up = U!Requested(u) /\ U!Requested(U!UpdateDreq(u)) = U!Requested(u)
  BY DEF UartState, U!UpdateDreq, U!Requested, U!TxEnabled, U!RxEnabled, U!TxFull
<1> QED BY <1>1, <1>3, <1>4

LEMMA FeedByteStays ==
  ASSUME NEW u \in UartState
  PROVE  U!FeedByte(u) \in UartState /\ U!Emit(u) \in UartState
<1> DEFINE over == [u EXCEPT !.status = u.status \cup {U!OE}]
           fed == [u EXCEPT !.rx = u.rx + 1, !.status = u.status \cup {U!RX}]
<1>1. over \in UartState /\ fed \in UartState
  <2>1. /\ u.status \cup {U!OE} \in SUBSET {"TX", "RX", "OE"} /\ u.status \cup {U!RX} \in SUBSET {"TX", "RX", "OE"}
        /\ u.rx + 1 \in Nat
    BY DEF UartState, U!OE, U!RX
  <2>2. over \in UartState
    BY <2>1 DEF UartState
  <2>3. fed \in UartState
    BY <2>1 DEF UartState
  <2> QED BY <2>2, <2>3
<1>2. U!FeedByte(u) \in {u, U!UpdateDreq(U!CheckInterrupts(over)), U!UpdateDreq(U!CheckInterrupts(fed))}
  BY DEF U!FeedByte, UartState
<1> HIDE DEF over, fed
<1>3. U!FeedByte(u) \in UartState
  BY <1>1, <1>2, UartTells
<1> QED BY <1>3 DEF U!Emit

LEMMA ShiftStays ==
  ASSUME NEW u \in UartState
  PROVE  U!Shift(u) \in UartState
<1> SUFFICES ASSUME ~ (u.shifting \/ u.tx = 0 \/ ~ U!TxEnabled(u)) PROVE U!Shift(u) \in UartState
  BY DEF U!Shift
<1> DEFINE t == [u EXCEPT !.tx = u.tx - 1, !.shifting = u.timed]
           sent == IF u.timed THEN t ELSE U!Emit(t)
<1>1. t \in UartState
  <2>1. u.tx - 1 \in Nat /\ u.timed \in BOOLEAN
    BY DEF UartState
  <2> QED BY <2>1 DEF UartState
<1>2. sent \in UartState
  BY <1>1, FeedByteStays
<1>3. U!Shift(u) \in {sent, [sent EXCEPT !.status = sent.status \cup {U!TX}]}
  BY <1>1, <1>2 DEF U!Shift, UartState
<1> HIDE DEF sent
<1>4. [sent EXCEPT !.status = sent.status \cup {U!TX}] \in UartState
  BY <1>2 DEF UartState, U!TX
<1> QED BY <1>2, <1>3, <1>4

LEMMA PumpStays ==
  ASSUME NEW u \in UartState
  PROVE  U!Pump(u) \in UartState
<1> DEFINE n == u.tx
           turns == [turn \in 1 .. n |-> turn]
           Folds(f) == f = [s \in SUBSET (DOMAIN turns) |-> IF s = {} THEN u ELSE LET x == U!Max(s) IN U!Shift(f[s \ {x}])]
           iter == CHOOSE f : Folds(f)
<1>1. U!Pump(u) = iter[DOMAIN turns]
  BY DEF U!Pump, U!FoldLeft, U!MapThenFoldSet
<1>2. n \in Nat /\ DOMAIN turns = 1 .. n
  BY DEF UartState
<1> DEFINE op == [p \in (1 .. n) \X UartState |-> U!Shift(p[2])]
<1>3. op \in [(1 .. n) \X UartState -> UartState]
  BY ShiftStays
<1>4. \A s : U!Max(s) = Max(s)
  BY DEF U!Max, Max
<1> HIDE DEF n
<1>5. PICK g \in [SUBSET (1 .. n) -> UartState] : IsFold(n, u, op, g)
  <2> HIDE DEF op
  <2> QED BY <1>2, <1>3, FoldExists
<1>6. Folds(g)
  <2>1. ASSUME NEW s \in SUBSET (1 .. n), s # {} PROVE op[<<Max(s), g[s \ {Max(s)}]>>] = U!Shift(g[s \ {Max(s)}])
    <3>1. Max(s) \in 1 .. n
      BY <1>2, <2>1, MaxIsIn
    <3>2. g[s \ {Max(s)}] \in UartState
      OBVIOUS
    <3> QED BY <3>1, <3>2
  <2> HIDE DEF op
  <2> QED BY <1>2, <1>4, <1>5, <2>1 DEF IsFold
<1>7. Folds(iter)
  <2> HIDE DEF Folds
  <2> QED BY <1>6, Zenon
<1> HIDE DEF iter
<1>8. iter[{}] = u
  BY <1>2, <1>7
<1>9. ASSUME NEW k \in 0 .. n - 1, iter[1 .. k] \in UartState PROVE iter[1 .. k + 1] \in UartState
  <2>1. U!Max(1 .. k + 1) = k + 1 /\ 1 .. k + 1 # {} /\ (1 .. k + 1) \ {k + 1} = 1 .. k /\ 1 .. k + 1 \in SUBSET (1 .. n)
    BY <1>2, <1>4, UpToNext
  <2>2. iter[1 .. k + 1] = U!Shift(iter[1 .. k])
    BY <1>2, <1>7, <2>1
  <2> QED BY <1>9, <2>2, ShiftStays
<1>10. iter[1 .. n] \in UartState
  BY <1>2, <1>8, <1>9, FoldStays
<1> QED BY <1>1, <1>2, <1>10

UartTold(u) == u \in UartState /\ u.up = U!Requested(u)

LEMMA UartKeepsTold ==
  ASSUME NEW u, UartTold(u)
  PROVE  /\ UartTold(U!CheckInterrupts(u)) /\ UartTold(U!FeedByte(u))
         /\ \A n \in UartTriggers : UartTold([u EXCEPT !.trigger = n])
         /\ \A on \in BOOLEAN : UartTold([u EXCEPT !.timed = on])
         /\ \A m \in SUBSET {"TX", "RX", "OE"} : UartTold([u EXCEPT !.mask = m])
<1>1. u \in UartState /\ u.up = U!Requested(u)
  BY DEF UartTold
<1>2. UartTold(U!CheckInterrupts(u))
  <2>1. U!CheckInterrupts(u) \in UartState
    BY <1>1, UartTells
  <2>2. U!CheckInterrupts(u).up = u.up /\ U!Requested(U!CheckInterrupts(u)) = U!Requested(u)
    BY <1>1 DEF UartState, U!CheckInterrupts, U!Requested, U!TxEnabled, U!RxEnabled, U!TxFull
  <2> QED BY <1>1, <2>1, <2>2 DEF UartTold
<1>3. UartTold(U!FeedByte(u))
  <2> DEFINE over == [u EXCEPT !.status = u.status \cup {U!OE}]
             fed == [u EXCEPT !.rx = u.rx + 1, !.status = u.status \cup {U!RX}]
  <2>1. over \in UartState
    BY <1>1 DEF UartState, U!OE
  <2>2. fed \in UartState
    <3>1. u.rx + 1 \in Nat /\ u.status \cup {U!RX} \in SUBSET {"TX", "RX", "OE"}
      BY <1>1 DEF UartState, U!RX
    <3> QED BY <1>1, <3>1 DEF UartState
  <2>3. U!FeedByte(u) \in {u, U!UpdateDreq(U!CheckInterrupts(over)), U!UpdateDreq(U!CheckInterrupts(fed))}
    BY <1>1 DEF U!FeedByte, UartState
  <2> HIDE DEF over, fed
  <2> QED BY <1>1, <2>1, <2>2, <2>3, UartTells DEF UartTold
<1>4. ASSUME NEW n \in UartTriggers PROVE UartTold([u EXCEPT !.trigger = n])
  <2>1. n \in Int
    BY PeripheralsAssumption DEF U!UartAssumption
  <2>2. [u EXCEPT !.trigger = n] \in UartState
    BY <1>1, <2>1 DEF UartState
  <2>3. U!Requested([u EXCEPT !.trigger = n]) = U!Requested(u) /\ [u EXCEPT !.trigger = n].up = u.up
    BY <1>1 DEF UartState, U!Requested, U!TxEnabled, U!RxEnabled, U!TxFull
  <2> QED BY <1>1, <2>2, <2>3 DEF UartTold
<1>5. ASSUME NEW on \in BOOLEAN PROVE UartTold([u EXCEPT !.timed = on])
  <2>1. [u EXCEPT !.timed = on] \in UartState
    BY <1>1 DEF UartState
  <2>2. U!Requested([u EXCEPT !.timed = on]) = U!Requested(u) /\ [u EXCEPT !.timed = on].up = u.up
    BY <1>1 DEF UartState, U!Requested, U!TxEnabled, U!RxEnabled, U!TxFull
  <2> QED BY <1>1, <2>1, <2>2 DEF UartTold
<1>6. ASSUME NEW m \in SUBSET {"TX", "RX", "OE"} PROVE UartTold([u EXCEPT !.mask = m])
  <2>1. [u EXCEPT !.mask = m] \in UartState
    BY <1>1 DEF UartState
  <2>2. U!Requested([u EXCEPT !.mask = m]) = U!Requested(u) /\ [u EXCEPT !.mask = m].up = u.up
    BY <1>1 DEF UartState, U!Requested, U!TxEnabled, U!RxEnabled, U!TxFull
  <2> QED BY <1>1, <2>1, <2>2 DEF UartTold
<1> QED BY <1>2, <1>3, <1>4, <1>5, <1>6

\* What a method makes of the block, before it tells the controller.
LEMMA UartChanges ==
  ASSUME NEW u \in UartState
  PROVE  /\ \A cr \in UartControls : [u EXCEPT !.cr = cr] \in UartState
         /\ \A fen \in BOOLEAN : [u EXCEPT !.fen = fen] \in UartState
         /\ \A d \in UartDmacrs : [u EXCEPT !.dmacr = d] \in UartState
         /\ \A i : [u EXCEPT !.status = u.status \ {i}] \in UartState
         /\ [u EXCEPT !.shifting = FALSE] \in UartState
         /\ [u EXCEPT !.tx = u.tx + 1] \in UartState
         /\ u.rx # 0 => [u EXCEPT !.rx = u.rx - 1] \in UartState
         /\ [u EXCEPT !.status = u.status \cup {U!RX}] \in UartState
<1>1. UartControls \subseteq SUBSET {"UARTEN", "TXE", "RXE", "LBE"} /\ UartDmacrs \subseteq SUBSET {"TXDMAE", "RXDMAE", "DMAONERR"}
  BY PeripheralsAssumption DEF U!UartAssumption
<1>2. ASSUME NEW cr \in UartControls PROVE [u EXCEPT !.cr = cr] \in UartState
  BY <1>1 DEF UartState
<1>3. ASSUME NEW d \in UartDmacrs PROVE [u EXCEPT !.dmacr = d] \in UartState
  BY <1>1 DEF UartState
<1>4. ASSUME NEW fen \in BOOLEAN PROVE [u EXCEPT !.fen = fen] \in UartState
  BY DEF UartState
<1>5. ASSUME NEW i PROVE [u EXCEPT !.status = u.status \ {i}] \in UartState
  BY DEF UartState
<1>6. [u EXCEPT !.shifting = FALSE] \in UartState /\ [u EXCEPT !.tx = u.tx + 1] \in UartState
  <2>1. u.tx + 1 \in Nat
    BY DEF UartState
  <2>2. [u EXCEPT !.tx = u.tx + 1] \in UartState
    BY <2>1 DEF UartState
  <2>3. [u EXCEPT !.shifting = FALSE] \in UartState
    BY DEF UartState
  <2> QED BY <2>2, <2>3
<1>7. u.rx # 0 => [u EXCEPT !.rx = u.rx - 1] \in UartState
  <2>1. u.rx # 0 => u.rx - 1 \in Nat
    BY DEF UartState
  <2> QED BY <2>1 DEF UartState
<1>8. [u EXCEPT !.status = u.status \cup {U!RX}] \in UartState
  BY DEF UartState, U!RX
<1> QED BY <1>2, <1>3, <1>4, <1>5, <1>6, <1>7, <1>8

LEMMA UartOn == UartTold(U!PowerOn)
<1>1. (CHOOSE n \in UartTriggers : TRUE) \in Int
  <2>1. UartTriggers # {} /\ UartTriggers \subseteq Int
    BY PeripheralsAssumption DEF U!UartAssumption
  <2> QED BY <2>1
<1>2. U!PowerOn \in UartState
  BY <1>1 DEF UartState, U!PowerOn
<1>3. U!PowerOn.up = {} /\ U!Requested(U!PowerOn) = {}
  BY DEF U!PowerOn, U!Requested, U!TxEnabled, U!RxEnabled, U!TX, U!RX
<1> QED BY <1>2, <1>3 DEF UartTold

\* Every method tells the controller, last thing, of what it has changed.
LEMMA UartStep ==
  ASSUME UartTold(state), U!Next
  PROVE  UartTold(state')
<1>1. state \in UartState
  BY DEF UartTold
<1>2. CASE U!ByteArrives
  BY <1>2, UartKeepsTold DEF U!ByteArrives
<1>3. CASE U!CharacterDone
  <2>1. U!Pump(U!Emit([state EXCEPT !.shifting = FALSE])) \in UartState
    BY <1>1, UartChanges, FeedByteStays, PumpStays
  <2> QED BY <1>3, <2>1, UartTells DEF U!CharacterDone, U!TxDone, UartTold
<1>4. CASE U!WriteDr
  <2> DEFINE t == IF U!TxFull(state) THEN state ELSE [state EXCEPT !.tx = state.tx + 1]
             risen == IF ~ U!TxFull(state) /\ t.tx > U!TxTrigger(t) THEN [t EXCEPT !.status = t.status \ {U!TX}] ELSE t
  <2>1. t \in UartState
    BY <1>1, UartChanges
  <2>2. state' = IF U!TxEnabled(state) THEN U!UpdateDreq(U!CheckInterrupts(U!Pump(risen))) ELSE state
    BY <1>1, <1>4 DEF U!WriteDr, U!DrWritten, UartState
  <2> HIDE DEF t
  <2>3. risen \in UartState
    BY <2>1, UartChanges
  <2> HIDE DEF risen
  <2> QED BY <2>2, <2>3, PumpStays, UartTells DEF UartTold
<1>5. CASE U!ReadDr
  <2> DEFINE t == IF state.rx = 0 THEN state ELSE [state EXCEPT !.rx = state.rx - 1]
             read == [t EXCEPT !.status = IF t.rx = 0 THEN t.status \ {U!RX} ELSE t.status \cup {U!RX}]
  <2>1. [state EXCEPT !.rx = IF state.rx = 0 THEN 0 ELSE state.rx - 1] = t
    BY <1>1 DEF UartState
  <2>2. t \in UartState
    BY <1>1, UartChanges
  <2>3. state' = U!UpdateDreq(U!CheckInterrupts(read))
    BY <1>5, <2>1 DEF U!ReadDr, U!DrRead
  <2> HIDE DEF t
  <2>4. read \in {[t EXCEPT !.status = t.status \ {U!RX}], [t EXCEPT !.status = t.status \cup {U!RX}]}
    OBVIOUS
  <2>5. read \in UartState
    BY <2>2, <2>4, UartChanges
  <2> QED BY <2>3, <2>5, UartTells DEF UartTold
<1>6. CASE U!WriteCr
  <2>1. PICK cr \in UartControls : state' = U!CrWritten(state, cr)
    BY <1>6 DEF U!WriteCr
  <2> DEFINE t == [state EXCEPT !.cr = cr]
             p == U!Pump(t)
  <2>2. t \in UartState /\ p \in UartState
    BY <1>1, UartChanges, PumpStays
  <2>3. state' \in {U!UpdateDreq(t), U!UpdateDreq(U!CheckInterrupts(p))}
    BY <2>1 DEF U!CrWritten
  <2> HIDE DEF t, p
  <2> QED BY <2>2, <2>3, UartTells DEF UartTold
<1>7. CASE U!WriteLcr
  <2>1. (~ state.fen) \in BOOLEAN
    OBVIOUS
  <2> QED BY <1>1, <1>7, <2>1, UartChanges, UartTells DEF U!WriteLcr, U!LcrWritten, UartTold
<1>8. CASE U!WriteIfls
  BY <1>8, UartKeepsTold DEF U!WriteIfls
<1>9. CASE U!WriteDivisor
  <2>1. state' = [state EXCEPT !.timed = ~ state.timed] /\ (~ state.timed) \in BOOLEAN
    BY <1>9 DEF U!WriteDivisor
  <2> QED BY <2>1, UartKeepsTold
<1>10. CASE U!WriteDmacr
  BY <1>1, <1>10, UartChanges, UartTells DEF U!WriteDmacr, UartTold
<1>11. CASE U!WriteImsc
  <2>1. UartMasks \subseteq SUBSET {"TX", "RX", "OE"}
    BY PeripheralsAssumption DEF U!UartAssumption, U!TX, U!RX, U!OE
  <2>2. PICK m \in UartMasks : state' = U!CheckInterrupts([state EXCEPT !.mask = m])
    BY <1>11 DEF U!WriteImsc
  <2>3. UartTold([state EXCEPT !.mask = m])
    BY <2>1, UartKeepsTold
  <2> QED BY <2>2, <2>3, UartKeepsTold
<1>12. CASE U!WriteIcr
  <2>1. PICK i : state' = U!UpdateDreq(U!CheckInterrupts([state EXCEPT !.status = state.status \ {i}]))
    BY <1>12 DEF U!WriteIcr
  <2> QED BY <1>1, <2>1, UartChanges, UartTells DEF UartTold
<1>13. CASE U!Reset
  BY <1>13, UartOn DEF U!Reset
<1> QED BY <1>2, <1>3, <1>4, <1>5, <1>6, <1>7, <1>8, <1>9, <1>10, <1>11, <1>12, <1>13 DEF U!Next

-----------------------------------------------------------------------------
(* Of the ADC. *)

AdcState ==
  [en : BOOLEAN, start_many : BOOLEAN, paced : BOOLEAN, busy : BOOLEAN, sampling : BOOLEAN, pausing : BOOLEAN,
   level : Int, fifo_en : BOOLEAN, dreq_en : BOOLEAN, threshold : Int, errors : SUBSET {"OVER", "UNDER"},
   inte : BOOLEAN, intf : BOOLEAN, line : BOOLEAN, up : BOOLEAN]
AdcTold(a) == a \in AdcState /\ a.up = A!Requested(a)

\* The request depends on the level, the threshold and its enable.
LEMMA AdcSame ==
  ASSUME NEW a, AdcTold(a), NEW b \in AdcState, b.level = a.level, b.threshold = a.threshold,
         b.dreq_en = a.dreq_en, b.up = a.up
  PROVE  AdcTold(b)
BY DEF AdcTold, A!Requested, A!Raw

LEMMA AdcTells ==
  ASSUME NEW a \in AdcState
  PROVE  AdcTold(A!UpdateDma(a))
<1>1. A!Requested(a) \in BOOLEAN
  BY DEF AdcState, A!Requested, A!Raw
<1>2. A!UpdateDma(a) \in AdcState
  BY <1>1 DEF AdcState, A!UpdateDma
<1>3. A!UpdateDma(a).up = A!Requested(a) /\ A!Requested(A!UpdateDma(a)) = A!Requested(a)
  BY <1>1 DEF AdcState, A!UpdateDma, A!Requested, A!Raw
<1> QED BY <1>2, <1>3 DEF AdcTold

LEMMA AdcKeepsTold ==
  ASSUME NEW a, AdcTold(a)
  PROVE  /\ AdcTold(A!CheckInterrupts(a)) /\ AdcTold(A!StartRead(a))
         /\ \A x \in BOOLEAN : /\ AdcTold([a EXCEPT !.paced = x]) /\ AdcTold([a EXCEPT !.inte = x])
                               /\ AdcTold([a EXCEPT !.intf = x]) /\ AdcTold([a EXCEPT !.pausing = x])
         /\ AdcTold([a EXCEPT !.busy = FALSE, !.sampling = FALSE])
         /\ \A x, y \in BOOLEAN : AdcTold([a EXCEPT !.en = x, !.start_many = y])
         /\ \A e \in {"OVER", "UNDER"} : AdcTold([a EXCEPT !.errors = a.errors \cup {e}])
<1>1. a \in AdcState
  BY DEF AdcTold
<1>2. AdcTold(A!CheckInterrupts(a))
  <2>1. A!Status(a) \in BOOLEAN
    BY <1>1 DEF A!Status, A!Raw, AdcState
  <2> QED BY <1>1, <2>1, AdcSame DEF A!CheckInterrupts, AdcState
<1>3. AdcTold(A!StartRead(a)) /\ AdcTold([a EXCEPT !.busy = FALSE, !.sampling = FALSE])
  BY <1>1, AdcSame DEF A!StartRead, AdcState
<1>4. ASSUME NEW x \in BOOLEAN
      PROVE  /\ AdcTold([a EXCEPT !.paced = x]) /\ AdcTold([a EXCEPT !.inte = x])
             /\ AdcTold([a EXCEPT !.intf = x]) /\ AdcTold([a EXCEPT !.pausing = x])
  <2>1. AdcTold([a EXCEPT !.paced = x])
    BY <1>1, AdcSame DEF AdcState
  <2>2. AdcTold([a EXCEPT !.inte = x])
    BY <1>1, AdcSame DEF AdcState
  <2>3. AdcTold([a EXCEPT !.intf = x])
    BY <1>1, AdcSame DEF AdcState
  <2>4. AdcTold([a EXCEPT !.pausing = x])
    BY <1>1, AdcSame DEF AdcState
  <2> QED BY <2>1, <2>2, <2>3, <2>4
<1>5. ASSUME NEW x \in BOOLEAN, NEW y \in BOOLEAN PROVE AdcTold([a EXCEPT !.en = x, !.start_many = y])
  BY <1>1, AdcSame DEF AdcState
<1>6. ASSUME NEW e \in {"OVER", "UNDER"} PROVE AdcTold([a EXCEPT !.errors = a.errors \cup {e}])
  BY <1>1, AdcSame DEF AdcState
<1> QED BY <1>2, <1>3, <1>4, <1>5, <1>6

LEMMA AdcOn == AdcTold(A!PowerOn)
<1>1. A!PowerOn \in AdcState
  BY DEF AdcState, A!PowerOn
<1>2. ~ A!PowerOn.up /\ ~ A!PowerOn.dreq_en /\ A!PowerOn.up \in BOOLEAN
  BY DEF A!PowerOn
<1> QED BY <1>1, <1>2 DEF AdcTold, A!Requested

\* Every method that moves the level, the threshold or the enable tells the controller.
LEMMA AdcStep ==
  ASSUME AdcTold(state), A!Next
  PROVE  AdcTold(state')
<1>1. state \in AdcState
  BY DEF AdcTold
<1>2. CASE A!SampleDone
  <2> DEFINE t == [state EXCEPT !.busy = FALSE, !.sampling = FALSE]
             p == A!Pushed(t)
             more == [t EXCEPT !.level = t.level + 1]
  <2>1. AdcTold(t)
    BY AdcKeepsTold
  <2>2. t \in AdcState
    BY <2>1 DEF AdcTold
  <2>3. p \in {t, [t EXCEPT !.errors = t.errors \cup {"OVER"}], A!CheckInterrupts(A!UpdateDma(more))}
    BY DEF A!Pushed
  <2>4. state' \in {p, [p EXCEPT !.pausing = TRUE], A!StartRead(p)}
    BY <1>2 DEF A!SampleDone, A!CompleteRead
  <2> HIDE DEF p, t
  <2>5. more \in AdcState
    BY <2>2 DEF AdcState
  <2> HIDE DEF more
  <2>6. AdcTold(p)
    BY <2>1, <2>3, <2>5, AdcKeepsTold, AdcTells
  <2> QED BY <2>4, <2>6, AdcKeepsTold
<1>3. CASE A!PauseDone
  <2> DEFINE a == [state EXCEPT !.pausing = FALSE]
  <2>1. AdcTold(a)
    BY AdcKeepsTold
  <2>2. state' \in {a, A!StartRead(a)}
    BY <1>3 DEF A!PauseDone
  <2> HIDE DEF a
  <2> QED BY <2>1, <2>2, AdcKeepsTold
<1>4. CASE A!WriteCs
  <2>1. PICK en, one, many \in BOOLEAN : state' = A!CsWritten(state, en, one, many)
    BY <1>4 DEF A!WriteCs
  <2> DEFINE t == [state EXCEPT !.en = en, !.start_many = many]
  <2>2. AdcTold(t)
    BY AdcKeepsTold
  <2>3. state' \in {t, A!StartRead(t)}
    BY <2>1 DEF A!CsWritten
  <2> HIDE DEF t
  <2> QED BY <2>2, <2>3, AdcKeepsTold
<1>5. CASE A!WriteFcs
  <2>1. PICK f, d \in BOOLEAN, n \in AdcThresholds, c \in SUBSET {"OVER", "UNDER"} : state' = A!FcsWritten(state, f, d, n, c)
    BY <1>5 DEF A!WriteFcs
  <2> DEFINE t == [state EXCEPT !.fifo_en = f, !.dreq_en = d, !.threshold = n, !.errors = state.errors \ c]
  <2>2. n \in Int /\ state.errors \ c \in SUBSET {"OVER", "UNDER"}
    BY <1>1, PeripheralsAssumption DEF A!AdcAssumption, AdcState
  <2>3. t \in AdcState
    BY <1>1, <2>2 DEF AdcState
  <2>4. state' = A!CheckInterrupts(A!UpdateDma(t))
    BY <2>1 DEF A!FcsWritten
  <2> HIDE DEF t
  <2> QED BY <2>3, <2>4, AdcTells, AdcKeepsTold
<1>6. CASE A!WriteDiv \/ A!WriteInte \/ A!WriteIntf
  <2>1. (~ state.paced) \in BOOLEAN /\ (~ state.inte) \in BOOLEAN /\ (~ state.intf) \in BOOLEAN
    OBVIOUS
  <2>2. state' \in {[state EXCEPT !.paced = ~ state.paced], A!CheckInterrupts([state EXCEPT !.inte = ~ state.inte]),
                    A!CheckInterrupts([state EXCEPT !.intf = ~ state.intf])}
    BY <1>6, Zenon DEF A!WriteDiv, A!WriteInte, A!WriteIntf
  <2> QED BY <2>1, <2>2, AdcKeepsTold
<1>7. CASE A!ReadFifo
  <2> DEFINE less == [state EXCEPT !.level = state.level - 1]
  <2>1. less \in AdcState
    BY <1>1 DEF AdcState
  <2>2. state' \in {[state EXCEPT !.errors = state.errors \cup {"UNDER"}], A!CheckInterrupts(A!UpdateDma(less))}
    BY <1>7 DEF A!ReadFifo, A!FifoRead
  <2> HIDE DEF less
  <2> QED BY <2>1, <2>2, AdcKeepsTold, AdcTells
<1>8. CASE A!Reset
  BY <1>8, AdcOn DEF A!Reset
<1> QED BY <1>2, <1>3, <1>4, <1>5, <1>6, <1>7, <1>8 DEF A!Next

-----------------------------------------------------------------------------
(* Of a PIO block: its state machines execute one after the other, in folds. *)

MachineState ==
  [on : BOOLEAN, tx : Int, rx : Int, join : {"none", "tx", "rx"}, wait : O!Waits \cup {O!Running}, delay : Int, due : Int]
PioState ==
  [sm : [Machines -> MachineState], flag : BOOLEAN, pin : BOOLEAN, next : Int, inte : SUBSET O!Interrupts,
   line : BOOLEAN, up : SUBSET ({"TX", "RX"} \X Machines)]

\* The request that machine m makes for one of its FIFOs, which depends on the words in it and its depth.
Calls(p, kind, m) == IF kind = "TX" THEN ~ O!TxFull(p, m) ELSE p.sm[m].rx > 0
SameFifos(r, s) == r.tx = s.tx /\ r.rx = s.rx /\ r.join = s.join

\* The controller has been told of all requests but those of the FIFOs in `but`.
TellsBut(but) ==
  {p \in PioState : \A kind \in {"TX", "RX"}, m \in Machines : <<kind, m>> \in but \/ (<<kind, m>> \in p.up <=> Calls(p, kind, m))}
TellsNow == TellsBut({})

LEMMA TellsMeans ==
  ASSUME NEW p \in PioState
  PROVE  p \in TellsNow <=> p.up = O!Requested(p)
<1>1. O!Requested(p) \subseteq {"TX", "RX"} \X Machines
  BY DEF O!Requested
<1>2. \A kind \in {"TX", "RX"}, m \in Machines : <<kind, m>> \in O!Requested(p) <=> Calls(p, kind, m)
  BY DEF O!Requested, Calls
<1>3. p.up \subseteq {"TX", "RX"} \X Machines
  BY DEF PioState
<1>4. p.up = O!Requested(p) <=> \A kind \in {"TX", "RX"}, m \in Machines : <<kind, m>> \in p.up <=> <<kind, m>> \in O!Requested(p)
  BY <1>1, <1>3
<1> QED BY <1>2, <1>4 DEF TellsNow, TellsBut

LEMMA OrderIs ==
  /\ Cardinality(Machines) \in Nat /\ DOMAIN O!Order = 1 .. Cardinality(Machines)
  /\ \A k \in 1 .. Cardinality(Machines) : O!Order[k] \in Machines
  /\ \A m \in Machines : \E k \in 1 .. Cardinality(Machines) : O!Order[k] = m
  /\ \A j, k \in 1 .. Cardinality(Machines) : O!Order[j] = O!Order[k] => j = k
<1>1. O!IsFiniteSet(Machines) /\ Machines = 0 .. O!Cardinality(Machines) - 1
  BY PeripheralsAssumption DEF O!PioAssumption
<1>3. IsFiniteSet(Machines) <=> O!IsFiniteSet(Machines)
  BY DEF IsFiniteSet, O!IsFiniteSet
<1>4. Cardinality(Machines) = O!Cardinality(Machines)
  BY Zenon DEF Cardinality, O!Cardinality
<1>2. Cardinality(Machines) \in Nat
  BY <1>1, <1>3, FS_CardinalityType
<1>5. O!Order = [i \in 1 .. Cardinality(Machines) |-> i - 1]
  BY <1>4 DEF O!Order
<1>6. ASSUME NEW m \in Machines PROVE \E k \in 1 .. Cardinality(Machines) : O!Order[k] = m
  <2>1. m + 1 \in 1 .. Cardinality(Machines) /\ (m + 1) - 1 = m
    BY <1>1, <1>2, <1>4
  <2>2. O!Order[m + 1] = m
    BY <1>5, <2>1
  <2> QED BY <2>1, <2>2
<1> QED BY <1>1, <1>2, <1>4, <1>5, <1>6

\* What a change leaves of the requests.
LEMMA SameTells ==
  ASSUME NEW but, NEW p \in TellsBut(but), NEW e \in PioState, e.up = p.up, NEW more,
         \A m \in Machines : m \in more \/ SameFifos(e.sm[m], p.sm[m])
  PROVE  e \in TellsBut(but \cup {"TX", "RX"} \X more)
<1> SUFFICES ASSUME NEW kind \in {"TX", "RX"}, NEW m \in Machines, <<kind, m>> \notin but, m \notin more
             PROVE  <<kind, m>> \in e.up <=> Calls(e, kind, m)
  BY DEF TellsBut
<1>1. <<kind, m>> \in p.up <=> Calls(p, kind, m)
  BY DEF TellsBut
<1>2. Calls(e, kind, m) <=> Calls(p, kind, m)
  BY DEF Calls, O!TxFull, O!TxDepth, SameFifos
<1> QED BY <1>1, <1>2

\* One machine changes.
LEMMA MachineChanges ==
  ASSUME NEW p \in PioState, NEW m \in Machines, NEW r \in MachineState
  PROVE  LET e == [p EXCEPT !.sm[m] = r]
         IN  /\ e \in PioState /\ e.up = p.up /\ e.sm[m] = r /\ \A n \in Machines \ {m} : e.sm[n] = p.sm[n]
             /\ e.flag = p.flag /\ e.pin = p.pin /\ e.next = p.next /\ e.inte = p.inte /\ e.line = p.line
<1> DEFINE e == [p EXCEPT !.sm[m] = r]
           sm == [p.sm EXCEPT ![m] = r]
<1>1. sm \in [Machines -> MachineState] /\ sm[m] = r /\ \A n \in Machines \ {m} : sm[n] = p.sm[n]
  BY DEF PioState
<1>2. e = [p EXCEPT !.sm = sm]
  OBVIOUS
<1> HIDE DEF sm
<1>3. e \in PioState /\ e.sm = sm
  BY <1>1, <1>2 DEF PioState
<1>4. e.up = p.up /\ e.flag = p.flag /\ e.pin = p.pin /\ e.next = p.next /\ e.inte = p.inte /\ e.line = p.line
  BY <1>2 DEF PioState
<1> QED BY <1>1, <1>3, <1>4

\* _update_dma_tx() and _update_dma_rx() tell of one FIFO.
LEMMA UpdateDmaTells ==
  ASSUME NEW but, NEW p \in TellsBut(but), NEW kind \in {"TX", "RX"}, NEW m \in Machines
  PROVE  O!UpdateDma(p, kind, m) \in TellsBut(but \ {<<kind, m>>}) /\ O!UpdateDma(p, kind, m).sm = p.sm
<1> DEFINE e == O!UpdateDma(p, kind, m)
           up == IF <<kind, m>> \in O!Requested(p) THEN p.up \cup {<<kind, m>>} ELSE p.up \ {<<kind, m>>}
<1>1. p \in PioState
  BY DEF TellsBut
<1>2. e = [p EXCEPT !.up = up]
  BY DEF O!UpdateDma
<1>3. up \in SUBSET ({"TX", "RX"} \X Machines)
  BY <1>1 DEF PioState
<1>4. /\ <<kind, m>> \in up <=> <<kind, m>> \in O!Requested(p)
      /\ \A k \in {"TX", "RX"}, n \in Machines : <<k, n>> # <<kind, m>> => (<<k, n>> \in up <=> <<k, n>> \in p.up)
  OBVIOUS
<1> HIDE DEF up
<1>5. e \in PioState /\ e.sm = p.sm /\ e.up = up
  BY <1>1, <1>2, <1>3 DEF PioState
<1>6. <<kind, m>> \in O!Requested(p) <=> Calls(p, kind, m)
  BY DEF O!Requested, Calls
<1>7. \A k, n : Calls(e, k, n) <=> Calls(p, k, n)
  BY <1>5 DEF Calls, O!TxFull, O!TxDepth
<1>8. ASSUME NEW k \in {"TX", "RX"}, NEW n \in Machines, <<k, n>> \notin but \ {<<kind, m>>}
      PROVE  <<k, n>> \in e.up <=> Calls(e, k, n)
  <2>1. CASE <<k, n>> = <<kind, m>>
    BY <1>4, <1>5, <1>6, <1>7, <2>1
  <2>2. CASE <<k, n>> # <<kind, m>>
    <3>1. <<k, n>> \in p.up <=> Calls(p, k, n)
      BY <1>8, <2>2 DEF TellsBut
    <3> QED BY <1>4, <1>5, <1>7, <2>2, <3>1
  <2> QED BY <2>1, <2>2
<1> QED BY <1>5, <1>8 DEF TellsBut

LEMMA PioCheckTells ==
  ASSUME NEW but, NEW p \in TellsBut(but)
  PROVE  O!CheckInterrupts(p) \in TellsBut(but) /\ O!CheckInterrupts(p).sm = p.sm
<1>1. p \in PioState /\ (O!Raw(p) \cap p.inte # {}) \in BOOLEAN
  BY DEF TellsBut
<1>2. O!CheckInterrupts(p) = [p EXCEPT !.line = (O!Raw(p) \cap p.inte # {})]
  BY DEF O!CheckInterrupts
<1> DEFINE line == (O!Raw(p) \cap p.inte # {})
<1> HIDE DEF line
<1>3. O!CheckInterrupts(p) \in PioState /\ O!CheckInterrupts(p).sm = p.sm /\ O!CheckInterrupts(p).up = p.up
  BY <1>1, <1>2 DEF PioState, line
<1>4. O!CheckInterrupts(p) \in TellsBut(but \cup {"TX", "RX"} \X {})
  BY <1>3, SameTells DEF SameFifos
<1> QED BY <1>3, <1>4

\* A FIFO's words change by an access, which tells of it.
LEMMA AccessTells ==
  ASSUME NEW p \in TellsNow, NEW m \in Machines, NEW n \in Int
  PROVE  /\ O!UpdateDma([p EXCEPT !.sm[m].rx = n], "RX", m) \in TellsNow
         /\ O!UpdateDma([p EXCEPT !.sm[m].tx = n], "TX", m) \in TellsNow
<1>1. p \in PioState /\ p.sm[m] \in MachineState
  BY DEF TellsNow, TellsBut, PioState
<1>2. ASSUME NEW kind \in {"TX", "RX"}, NEW r \in MachineState,
             r.join = p.sm[m].join, kind = "TX" => r.rx = p.sm[m].rx, kind = "RX" => r.tx = p.sm[m].tx
      PROVE  O!UpdateDma([p EXCEPT !.sm[m] = r], kind, m) \in TellsNow
  <2> DEFINE e == [p EXCEPT !.sm[m] = r]
  <2>1. e \in PioState /\ e.up = p.up /\ e.sm[m] = r /\ \A k \in Machines \ {m} : e.sm[k] = p.sm[k]
    BY <1>1, MachineChanges
  <2> HIDE DEF e
  <2>2. ASSUME NEW k \in {"TX", "RX"}, NEW j \in Machines, <<k, j>> # <<kind, m>>
        PROVE  <<k, j>> \in e.up <=> Calls(e, k, j)
    <3>1. <<k, j>> \in p.up <=> Calls(p, k, j)
      BY DEF TellsNow, TellsBut
    <3>2. Calls(e, k, j) <=> Calls(p, k, j)
      <4>1. CASE j # m
        BY <2>1, <4>1 DEF Calls, O!TxFull, O!TxDepth
      <4>2. CASE j = m /\ k # kind
        <5>1. CASE k = "TX"
          <6>1. e.sm[j].tx = p.sm[j].tx /\ e.sm[j].join = p.sm[j].join
            BY <1>2, <2>1, <4>2, <5>1
          <6> QED BY <5>1, <6>1 DEF Calls, O!TxFull, O!TxDepth
        <5>2. CASE k = "RX"
          <6>1. e.sm[j].rx = p.sm[j].rx
            BY <1>2, <2>1, <4>2, <5>2
          <6> QED BY <5>2, <6>1 DEF Calls
        <5> QED BY <5>1, <5>2
      <4> QED BY <2>2, <4>1, <4>2
    <3> QED BY <2>1, <3>1, <3>2
  <2>3. e \in TellsBut({<<kind, m>>})
    BY <2>1, <2>2 DEF TellsBut
  <2>4. O!UpdateDma(e, kind, m) \in TellsBut({<<kind, m>>} \ {<<kind, m>>})
    BY <2>3, UpdateDmaTells
  <2>5. {<<kind, m>>} \ {<<kind, m>>} = {}
    OBVIOUS
  <2> QED BY <2>4, <2>5 DEF e, TellsNow
<1>3. [p EXCEPT !.sm[m].rx = n] = [p EXCEPT !.sm[m] = [p.sm[m] EXCEPT !.rx = n]]
  OBVIOUS
<1>4. [p EXCEPT !.sm[m].tx = n] = [p EXCEPT !.sm[m] = [p.sm[m] EXCEPT !.tx = n]]
  OBVIOUS
<1>5. LET r == [p.sm[m] EXCEPT !.rx = n] IN r \in MachineState /\ r.join = p.sm[m].join /\ r.tx = p.sm[m].tx
  BY <1>1 DEF MachineState
<1>6. LET r == [p.sm[m] EXCEPT !.tx = n] IN r \in MachineState /\ r.join = p.sm[m].join /\ r.rx = p.sm[m].rx
  BY <1>1 DEF MachineState
<1> QED BY <1>2, <1>3, <1>4, <1>5, <1>6

LEMMA PushPullTell ==
  ASSUME NEW p \in TellsNow, NEW m \in Machines
  PROVE  O!Push(p, m) \in TellsNow /\ O!Pull(p, m) \in TellsNow
<1>1. p.sm[m].rx + 1 \in Int /\ p.sm[m].tx - 1 \in Int
  BY DEF TellsNow, TellsBut, PioState, MachineState
<1>2. O!UpdateDma([p EXCEPT !.sm[m].rx = p.sm[m].rx + 1], "RX", m) \in TellsNow
  BY <1>1, AccessTells
<1>3. O!UpdateDma([p EXCEPT !.sm[m].tx = p.sm[m].tx - 1], "TX", m) \in TellsNow
  BY <1>1, AccessTells
<1>4. O!Push(p, m) = O!CheckInterrupts(O!UpdateDma([p EXCEPT !.sm[m].rx = p.sm[m].rx + 1], "RX", m))
  BY DEF O!Push
<1>5. O!Pull(p, m) = O!CheckInterrupts(O!UpdateDma([p EXCEPT !.sm[m].tx = p.sm[m].tx - 1], "TX", m))
  BY DEF O!Pull
<1> QED BY <1>2, <1>3, <1>4, <1>5, PioCheckTells DEF TellsNow

\* Nothing else that changes matters to the requests.
LEMMA MachineTells ==
  ASSUME NEW p \in TellsNow, NEW m \in Machines, NEW r \in MachineState, SameFifos(r, p.sm[m])
  PROVE  [p EXCEPT !.sm[m] = r] \in TellsNow
<1> DEFINE e == [p EXCEPT !.sm[m] = r]
<1>1. p \in PioState
  BY DEF TellsNow, TellsBut
<1>2. e \in PioState /\ e.up = p.up /\ e.sm[m] = r /\ \A k \in Machines \ {m} : e.sm[k] = p.sm[k]
  BY <1>1, MachineChanges
<1> HIDE DEF e
<1>3. \A k \in Machines : SameFifos(e.sm[k], p.sm[k])
  BY <1>2 DEF SameFifos
<1>4. e \in TellsBut({} \cup {"TX", "RX"} \X {})
  BY <1>2, <1>3, SameTells DEF TellsNow
<1> QED BY <1>4 DEF TellsNow, e

LEMMA FieldTells ==
  ASSUME NEW p \in TellsNow
  PROVE  /\ \A x \in BOOLEAN : [p EXCEPT !.flag = x] \in TellsNow /\ [p EXCEPT !.pin = x] \in TellsNow
         /\ \A n \in Int : [p EXCEPT !.next = n] \in TellsNow
         /\ \A s \in SUBSET O!Interrupts : [p EXCEPT !.inte = s] \in TellsNow
<1>1. p \in PioState
  BY DEF TellsNow, TellsBut
<1>2. ASSUME NEW e \in PioState, e.up = p.up, e.sm = p.sm PROVE e \in TellsNow
  <2>1. e \in TellsBut({} \cup {"TX", "RX"} \X {})
    BY <1>2, SameTells DEF TellsNow, SameFifos
  <2> QED BY <2>1 DEF TellsNow
<1>3. ASSUME NEW x \in BOOLEAN PROVE [p EXCEPT !.flag = x] \in TellsNow
  BY <1>1, <1>2 DEF PioState
<1>4. ASSUME NEW x \in BOOLEAN PROVE [p EXCEPT !.pin = x] \in TellsNow
  BY <1>1, <1>2 DEF PioState
<1>5. ASSUME NEW n \in Int PROVE [p EXCEPT !.next = n] \in TellsNow
  BY <1>1, <1>2 DEF PioState
<1>6. ASSUME NEW s \in SUBSET O!Interrupts PROVE [p EXCEPT !.inte = s] \in TellsNow
  BY <1>1, <1>2 DEF PioState
<1> QED BY <1>3, <1>4, <1>5, <1>6

LEMMA MachineWaits ==
  ASSUME NEW s \in MachineState, NEW due \in Int
  PROVE  LET r == [s EXCEPT !.wait = O!Running, !.delay = 0, !.due = due]
         IN  r \in MachineState /\ SameFifos(r, s)
<1> DEFINE r == [s EXCEPT !.wait = O!Running, !.delay = 0, !.due = due]
<1>1. r \in MachineState
  <2>1. ASSUME NEW w \in O!Waits \cup {O!Running}, NEW delay \in Int
        PROVE  [s EXCEPT !.wait = w, !.delay = delay, !.due = due] \in MachineState
    BY DEF MachineState
  <2>2. O!Running \in O!Waits \cup {O!Running} /\ 0 \in Int
    OBVIOUS
  <2> QED BY <2>1, <2>2
<1>2. SameFifos(r, s)
  BY DEF MachineState, SameFifos
<1> QED BY <1>1, <1>2

\* A wait changes the machine only.
LEMMA WaitTells ==
  ASSUME NEW p \in TellsNow, NEW m \in Machines
  PROVE  /\ O!Unstalled(p, m) \in TellsNow
         /\ \A for \in O!Waits, delay \in Int : O!Wait(p, m, for, delay) \in TellsNow
         /\ \A due \in Int : [p EXCEPT !.sm[m].due = due] \in TellsNow
<1>1. p \in PioState /\ p.sm[m] \in MachineState
  BY DEF TellsNow, TellsBut, PioState
<1>2. O!Unstalled(p, m) \in TellsNow
  <2> DEFINE due == IF p.sm[m].on THEN 1 + p.sm[m].delay ELSE 0
             next == O!Earlier(p.next, 1 + p.sm[m].delay)
             r == [p.sm[m] EXCEPT !.wait = O!Running, !.delay = 0, !.due = due]
             e == [p EXCEPT !.sm[m] = r]
  <2>1. due \in Int /\ next \in Int
    BY <1>1 DEF MachineState, PioState, O!Earlier
  <2>3. O!Unstalled(p, m) = [e EXCEPT !.next = next]
    BY <1>1 DEF O!Unstalled, PioState, MachineState
  <2> HIDE DEF due, next
  <2>2. r \in MachineState /\ SameFifos(r, p.sm[m])
    BY <1>1, <2>1, MachineWaits
  <2> HIDE DEF r
  <2>4. e \in TellsNow
    BY <2>2, MachineTells
  <2> HIDE DEF e
  <2> QED BY <2>1, <2>3, <2>4, FieldTells
<1>3. ASSUME NEW for \in O!Waits, NEW delay \in Int PROVE O!Wait(p, m, for, delay) \in TellsNow
  <2> DEFINE r == [p.sm[m] EXCEPT !.wait = for, !.delay = delay]
  <2>1. r \in MachineState /\ SameFifos(r, p.sm[m])
    BY <1>1 DEF MachineState, SameFifos
  <2>2. O!Wait(p, m, for, delay) = [p EXCEPT !.sm[m] = r]
    BY <1>1 DEF O!Wait, PioState, MachineState
  <2> HIDE DEF r
  <2> QED BY <2>1, <2>2, MachineTells
<1>4. ASSUME NEW due \in Int PROVE [p EXCEPT !.sm[m].due = due] \in TellsNow
  <2> DEFINE r == [p.sm[m] EXCEPT !.due = due]
  <2>1. r \in MachineState /\ SameFifos(r, p.sm[m])
    BY <1>1 DEF MachineState, SameFifos
  <2>2. [p EXCEPT !.sm[m].due = due] = [p EXCEPT !.sm[m] = r]
    OBVIOUS
  <2> HIDE DEF r
  <2> QED BY <2>1, <2>2, MachineTells
<1> QED BY <1>2, <1>3, <1>4

LEMMA CheckWaitTells ==
  ASSUME NEW p \in TellsNow, NEW m \in Machines
  PROVE  O!CheckWait(p, m) \in TellsNow
<1> DEFINE q == CASE p.sm[m].wait = "RX" -> O!Push(p, m)
                  [] p.sm[m].wait = "TX" -> O!Pull(p, m)
                  [] p.sm[m].wait = "IRQ set" -> [p EXCEPT !.flag = FALSE]
                  [] OTHER -> p
<1>1. q \in TellsNow
  BY PushPullTell, FieldTells
<1>2. O!CheckWait(p, m) = IF ~ O!Ready(p, m) THEN p ELSE O!Unstalled(q, m)
  BY DEF O!CheckWait
<1> HIDE DEF q
<1> QED BY <1>1, <1>2, WaitTells

\* All machines look whether what they wait for is there.
LEMMA EveryoneLooks ==
  ASSUME NEW Good, NEW p \in Good, \A t \in Good, m \in Machines : O!CheckWait(t, m) \in Good
  PROVE  O!FoldLeft(O!CheckWait, p, O!Order) \in Good
<1> DEFINE n == Cardinality(Machines)
           Folds(f) == f = [s \in SUBSET (DOMAIN O!Order) |->
                              IF s = {} THEN p ELSE LET x == O!Max(s) IN O!CheckWait(f[s \ {x}], O!Order[x])]
           iter == CHOOSE f : Folds(f)
           op == [q \in (1 .. n) \X Good |-> O!CheckWait(q[2], O!Order[q[1]])]
<1>1. O!FoldLeft(O!CheckWait, p, O!Order) = iter[DOMAIN O!Order]
  BY DEF O!FoldLeft, O!MapThenFoldSet
<1>2. /\ n \in Nat /\ DOMAIN O!Order = 1 .. n /\ p \in Good
      /\ \A k \in 1 .. n : O!Order[k] \in Machines
  BY OrderIs
<1>3. ASSUME NEW t \in Good, NEW k \in 1 .. n PROVE O!CheckWait(t, O!Order[k]) \in Good
  BY <1>2
<1>4. \A s : O!Max(s) = Max(s)
  BY DEF O!Max, Max
<1> HIDE DEF n
<1>5. op \in [(1 .. n) \X Good -> Good]
  BY <1>3
<1>6. PICK g \in [SUBSET (1 .. n) -> Good] : IsFold(n, p, op, g)
  <2> HIDE DEF op
  <2> QED BY <1>2, <1>5, FoldExists
<1>7. Folds(g)
  <2>1. ASSUME NEW s \in SUBSET (1 .. n), s # {}
        PROVE  op[<<Max(s), g[s \ {Max(s)}]>>] = O!CheckWait(g[s \ {Max(s)}], O!Order[Max(s)])
    <3>1. Max(s) \in 1 .. n
      BY <1>2, <2>1, MaxIsIn
    <3>2. g[s \ {Max(s)}] \in Good
      OBVIOUS
    <3> QED BY <3>1, <3>2
  <2> HIDE DEF op
  <2> QED BY <1>2, <1>4, <1>6, <2>1 DEF IsFold
<1>8. Folds(iter)
  <2> HIDE DEF Folds
  <2> QED BY <1>7, Zenon
<1> HIDE DEF iter
<1>12. \A s \in SUBSET (1 .. n) : s # {} => iter[s] = O!CheckWait(iter[s \ {Max(s)}], O!Order[Max(s)])
  BY <1>2, <1>4, <1>8
<1>9. iter[{}] = p
  BY <1>2, <1>8
<1>10. ASSUME NEW k \in 0 .. n - 1, iter[1 .. k] \in Good PROVE iter[1 .. k + 1] \in Good
  <2>1. /\ k + 1 \in 1 .. n /\ 1 .. k + 1 # {} /\ (1 .. k + 1) \ {k + 1} = 1 .. k
        /\ 1 .. k + 1 \in SUBSET (1 .. n) /\ O!Max(1 .. k + 1) = k + 1
    BY <1>2, <1>4, UpToNext
  <2>2. iter[1 .. k + 1] = O!CheckWait(iter[1 .. k], O!Order[k + 1])
    <3> DEFINE s == 1 .. k + 1
    <3>1. s \in SUBSET (1 .. n) /\ s # {} /\ Max(s) = k + 1 /\ s \ {Max(s)} = 1 .. k
      BY <1>4, <2>1
    <3> HIDE DEF s
    <3>2. iter[s] = O!CheckWait(iter[s \ {Max(s)}], O!Order[Max(s)])
      BY <1>12, <3>1, Zenon
    <3>3. iter[s] = O!CheckWait(iter[1 .. k], O!Order[k + 1])
      BY <3>1, <3>2, Zenon
    <3> QED BY <3>3 DEF s
  <2> QED BY <1>3, <1>10, <2>1, <2>2
<1>11. iter[1 .. n] \in Good
  BY <1>2, <1>9, <1>10, FoldStays
<1> QED BY <1>1, <1>2, <1>11

LEMMA IrqUpdatedTells ==
  ASSUME NEW p \in TellsNow
  PROVE  O!IrqUpdated(p) \in TellsNow
<1>1. \A t \in TellsNow, m \in Machines : O!CheckWait(t, m) \in TellsNow
  BY CheckWaitTells
<1>2. O!FoldLeft(O!CheckWait, p, O!Order) \in TellsNow
  BY <1>1, EveryoneLooks
<1> QED BY <1>2, PioCheckTells DEF O!IrqUpdated, TellsNow

LEMMA EffectTells ==
  ASSUME NEW p \in TellsNow, NEW m \in Machines, NEW instruction \in O!Instructions, NEW delay \in Int
  PROVE  /\ O!Effect(p, m, instruction, delay) \in TellsNow
         /\ O!ExecuteInstruction(p, m, instruction, delay) \in TellsNow
         /\ O!Stepped(p, m, instruction, delay) \in TellsNow
<1> DEFINE t == O!Effect(p, m, instruction, delay)
<1>1. O!Push(p, m) \in TellsNow /\ O!Pull(p, m) \in TellsNow
  BY PushPullTell
<1>2. \A for \in O!Waits : O!Wait(p, m, for, delay) \in TellsNow
  BY WaitTells
<1>3. \A x \in BOOLEAN : O!IrqUpdated([p EXCEPT !.flag = x]) \in TellsNow
  BY FieldTells, IrqUpdatedTells
<1>4. O!Wait(O!IrqUpdated([p EXCEPT !.flag = TRUE]), m, "IRQ clear", delay) \in TellsNow
  BY <1>3, WaitTells DEF O!Waits
<1>5. t \in TellsNow
  BY <1>1, <1>2, <1>3, <1>4 DEF O!Effect, O!Waits
<1> DEFINE u == O!CheckWait(t, m)
           from == IF p.sm[m].due < - MaxArrears THEN 0 ELSE p.sm[m].due
<1>6. u \in TellsNow
  BY <1>5, CheckWaitTells
<1>7. from + 1 + delay \in Int
  BY DEF TellsNow, TellsBut, PioState, MachineState
<1>8. O!Stepped(p, m, instruction, delay) \in
        {[t EXCEPT !.sm[m].due = from + 1 + delay], u, [u EXCEPT !.sm[m].due = 0]}
  BY DEF O!Stepped
<1>9. O!ExecuteInstruction(p, m, instruction, delay) = u
  BY DEF O!ExecuteInstruction
<1> HIDE DEF t, u, from
<1>10. O!Stepped(p, m, instruction, delay) \in TellsNow
  <2>1. [t EXCEPT !.sm[m].due = from + 1 + delay] \in TellsNow
    BY <1>5, <1>7, WaitTells
  <2>2. [u EXCEPT !.sm[m].due = 0] \in TellsNow
    <3>1. 0 \in Int
      OBVIOUS
    <3> QED BY <1>6, <3>1, WaitTells
  <2> QED BY <1>6, <1>8, <2>1, <2>2
<1> QED BY <1>5, <1>6, <1>9, <1>10 DEF t

\* The machines that are told of a pin look.
LEMMA EnabledOnesLook ==
  ASSUME NEW Good, NEW p \in Good, \A t \in Good, m \in Machines : O!CheckWait(t, m) \in Good
  PROVE  O!FoldLeft(LAMBDA q, m : IF q.sm[m].on /\ q.sm[m].wait \in {"PIN high", "PIN low"} THEN O!CheckWait(q, m) ELSE q, p, O!Order) \in Good
<1> DEFINE n == Cardinality(Machines)
           Folds(f) == f = [s \in SUBSET (DOMAIN O!Order) |->
                              IF s = {} THEN p ELSE LET x == O!Max(s) IN (IF f[s \ {x}].sm[O!Order[x]].on /\ f[s \ {x}].sm[O!Order[x]].wait \in {"PIN high", "PIN low"} THEN O!CheckWait(f[s \ {x}], O!Order[x]) ELSE f[s \ {x}])]
           iter == CHOOSE f : Folds(f)
           op == [q \in (1 .. n) \X Good |-> (IF q[2].sm[O!Order[q[1]]].on /\ q[2].sm[O!Order[q[1]]].wait \in {"PIN high", "PIN low"} THEN O!CheckWait(q[2], O!Order[q[1]]) ELSE q[2])]
<1>1. O!FoldLeft(LAMBDA q, m : IF q.sm[m].on /\ q.sm[m].wait \in {"PIN high", "PIN low"} THEN O!CheckWait(q, m) ELSE q, p, O!Order) = iter[DOMAIN O!Order]
  BY DEF O!FoldLeft, O!MapThenFoldSet
<1>2. /\ n \in Nat /\ DOMAIN O!Order = 1 .. n /\ p \in Good
      /\ \A k \in 1 .. n : O!Order[k] \in Machines
  BY OrderIs
<1>3. ASSUME NEW t \in Good, NEW k \in 1 .. n PROVE (IF t.sm[O!Order[k]].on /\ t.sm[O!Order[k]].wait \in {"PIN high", "PIN low"} THEN O!CheckWait(t, O!Order[k]) ELSE t) \in Good
  BY <1>2
<1>4. \A s : O!Max(s) = Max(s)
  BY DEF O!Max, Max
<1> HIDE DEF n
<1>5. op \in [(1 .. n) \X Good -> Good]
  BY <1>3
<1>6. PICK g \in [SUBSET (1 .. n) -> Good] : IsFold(n, p, op, g)
  <2> HIDE DEF op
  <2> QED BY <1>2, <1>5, FoldExists
<1>7. Folds(g)
  <2>1. ASSUME NEW s \in SUBSET (1 .. n), s # {}
        PROVE  op[<<Max(s), g[s \ {Max(s)}]>>] = (IF g[s \ {Max(s)}].sm[O!Order[Max(s)]].on /\ g[s \ {Max(s)}].sm[O!Order[Max(s)]].wait \in {"PIN high", "PIN low"} THEN O!CheckWait(g[s \ {Max(s)}], O!Order[Max(s)]) ELSE g[s \ {Max(s)}])
    <3>1. Max(s) \in 1 .. n
      BY <1>2, <2>1, MaxIsIn
    <3>2. g[s \ {Max(s)}] \in Good
      OBVIOUS
    <3> QED BY <3>1, <3>2
  <2> HIDE DEF op
  <2> QED BY <1>2, <1>4, <1>6, <2>1 DEF IsFold
<1>8. Folds(iter)
  <2> HIDE DEF Folds
  <2> QED BY <1>7, Zenon
<1> HIDE DEF iter
<1>12. \A s \in SUBSET (1 .. n) : s # {} => iter[s] = (IF iter[s \ {Max(s)}].sm[O!Order[Max(s)]].on /\ iter[s \ {Max(s)}].sm[O!Order[Max(s)]].wait \in {"PIN high", "PIN low"} THEN O!CheckWait(iter[s \ {Max(s)}], O!Order[Max(s)]) ELSE iter[s \ {Max(s)}])
  BY <1>2, <1>4, <1>8
<1>9. iter[{}] = p
  BY <1>2, <1>8
<1>10. ASSUME NEW k \in 0 .. n - 1, iter[1 .. k] \in Good PROVE iter[1 .. k + 1] \in Good
  <2>1. /\ k + 1 \in 1 .. n /\ 1 .. k + 1 # {} /\ (1 .. k + 1) \ {k + 1} = 1 .. k
        /\ 1 .. k + 1 \in SUBSET (1 .. n) /\ O!Max(1 .. k + 1) = k + 1
    BY <1>2, <1>4, UpToNext
  <2>2. iter[1 .. k + 1] = (IF iter[1 .. k].sm[O!Order[k + 1]].on /\ iter[1 .. k].sm[O!Order[k + 1]].wait \in {"PIN high", "PIN low"} THEN O!CheckWait(iter[1 .. k], O!Order[k + 1]) ELSE iter[1 .. k])
    <3> DEFINE s == 1 .. k + 1
    <3>1. s \in SUBSET (1 .. n) /\ s # {} /\ Max(s) = k + 1 /\ s \ {Max(s)} = 1 .. k
      BY <1>4, <2>1
    <3> HIDE DEF s
    <3>2. iter[s] = (IF iter[s \ {Max(s)}].sm[O!Order[Max(s)]].on /\ iter[s \ {Max(s)}].sm[O!Order[Max(s)]].wait \in {"PIN high", "PIN low"} THEN O!CheckWait(iter[s \ {Max(s)}], O!Order[Max(s)]) ELSE iter[s \ {Max(s)}])
      BY <1>12, <3>1, Zenon
    <3>3. iter[s] = (IF iter[1 .. k].sm[O!Order[k + 1]].on /\ iter[1 .. k].sm[O!Order[k + 1]].wait \in {"PIN high", "PIN low"} THEN O!CheckWait(iter[1 .. k], O!Order[k + 1]) ELSE iter[1 .. k])
      BY <3>1, <3>2, Zenon
    <3> QED BY <3>3 DEF s
  <2> QED BY <1>3, <1>10, <2>1, <2>2
<1>11. iter[1 .. n] \in Good
  BY <1>2, <1>9, <1>10, FoldStays
<1> QED BY <1>1, <1>2, <1>11

LEMMA NeverIsInt == O!Never \in Int
  BY PeripheralsAssumption DEF O!PioAssumption, O!Never

LEMMA EarlierIsInt ==
  ASSUME NEW p \in TellsNow
  PROVE  \A t \in Int, m \in Machines : O!Earlier(t, p.sm[m].due) \in Int
  BY DEF TellsNow, TellsBut, PioState, MachineState, O!Earlier

\* The earliest of the times at which a machine is due is a time.
LEMMA EarliestIs ==
  ASSUME NEW p \in TellsNow
  PROVE  LET earliest == O!FoldLeft(LAMBDA d, m : IF m \in O!Runnable(p) THEN O!Earlier(d, p.sm[m].due) ELSE d, O!Never, O!Order)
         IN  earliest \in Int /\ \A m \in O!Runnable(p) : earliest <= p.sm[m].due
<1> DEFINE n == Cardinality(Machines)
           Good == Int
           Folds(f) == f = [s \in SUBSET (DOMAIN O!Order) |->
                              IF s = {} THEN O!Never ELSE LET x == O!Max(s) IN (IF O!Order[x] \in O!Runnable(p) THEN O!Earlier(f[s \ {x}], p.sm[O!Order[x]].due) ELSE f[s \ {x}])]
           iter == CHOOSE f : Folds(f)
           op == [q \in (1 .. n) \X Good |-> (IF O!Order[q[1]] \in O!Runnable(p) THEN O!Earlier(q[2], p.sm[O!Order[q[1]]].due) ELSE q[2])]
<1>1. O!FoldLeft(LAMBDA d, m : IF m \in O!Runnable(p) THEN O!Earlier(d, p.sm[m].due) ELSE d, O!Never, O!Order) = iter[DOMAIN O!Order]
  BY DEF O!FoldLeft, O!MapThenFoldSet
<1>2. /\ n \in Nat /\ DOMAIN O!Order = 1 .. n /\ O!Never \in Good
      /\ \A k \in 1 .. n : O!Order[k] \in Machines
  BY OrderIs, NeverIsInt
<1>3. ASSUME NEW t \in Good, NEW k \in 1 .. n PROVE (IF O!Order[k] \in O!Runnable(p) THEN O!Earlier(t, p.sm[O!Order[k]].due) ELSE t) \in Good
  BY <1>2, EarlierIsInt
<1>4. \A s : O!Max(s) = Max(s)
  BY DEF O!Max, Max
<1> HIDE DEF n, Good
<1>5. op \in [(1 .. n) \X Good -> Good]
  BY <1>3
<1>6. PICK g \in [SUBSET (1 .. n) -> Good] : IsFold(n, O!Never, op, g)
  <2> HIDE DEF op
  <2> QED BY <1>2, <1>5, FoldExists
<1>7. Folds(g)
  <2>1. ASSUME NEW s \in SUBSET (1 .. n), s # {}
        PROVE  op[<<Max(s), g[s \ {Max(s)}]>>] = (IF O!Order[Max(s)] \in O!Runnable(p) THEN O!Earlier(g[s \ {Max(s)}], p.sm[O!Order[Max(s)]].due) ELSE g[s \ {Max(s)}])
    <3>1. Max(s) \in 1 .. n
      BY <1>2, <2>1, MaxIsIn
    <3>2. g[s \ {Max(s)}] \in Good
      OBVIOUS
    <3> QED BY <3>1, <3>2
  <2> HIDE DEF op
  <2> QED BY <1>2, <1>4, <1>6, <2>1 DEF IsFold
<1>8. Folds(iter)
  <2> HIDE DEF Folds
  <2> QED BY <1>7, Zenon
<1> HIDE DEF iter
<1>12. \A s \in SUBSET (1 .. n) : s # {} => iter[s] = (IF O!Order[Max(s)] \in O!Runnable(p) THEN O!Earlier(iter[s \ {Max(s)}], p.sm[O!Order[Max(s)]].due) ELSE iter[s \ {Max(s)}])
  BY <1>2, <1>4, <1>8
<1>9. iter[{}] = O!Never
  BY <1>2, <1>8
<1> DEFINE Until(k) == iter[1 .. k] \in Good /\ \A j \in 1 .. k : O!Order[j] \in O!Runnable(p) => iter[1 .. k] <= p.sm[O!Order[j]].due
<1>10. ASSUME NEW k \in 0 .. n - 1, Until(k) PROVE Until(k + 1)
  <2>1. /\ k + 1 \in 1 .. n /\ 1 .. k + 1 # {} /\ (1 .. k + 1) \ {k + 1} = 1 .. k
        /\ 1 .. k + 1 \in SUBSET (1 .. n) /\ O!Max(1 .. k + 1) = k + 1
    BY <1>2, <1>4, UpToNext
  <2>2. iter[1 .. k + 1] = (IF O!Order[k + 1] \in O!Runnable(p) THEN O!Earlier(iter[1 .. k], p.sm[O!Order[k + 1]].due) ELSE iter[1 .. k])
    <3> DEFINE s == 1 .. k + 1
    <3>1. s \in SUBSET (1 .. n) /\ s # {} /\ Max(s) = k + 1 /\ s \ {Max(s)} = 1 .. k
      BY <1>4, <2>1
    <3> HIDE DEF s
    <3>2. iter[s] = (IF O!Order[Max(s)] \in O!Runnable(p) THEN O!Earlier(iter[s \ {Max(s)}], p.sm[O!Order[Max(s)]].due) ELSE iter[s \ {Max(s)}])
      BY <1>12, <3>1, Zenon
    <3>3. iter[s] = (IF O!Order[k + 1] \in O!Runnable(p) THEN O!Earlier(iter[1 .. k], p.sm[O!Order[k + 1]].due) ELSE iter[1 .. k])
      BY <3>1, <3>2, Zenon
    <3> QED BY <3>3 DEF s
  <2>3. iter[1 .. k] \in Int /\ O!Order[k + 1] \in Machines /\ p.sm[O!Order[k + 1]].due \in Int
    BY <1>2, <1>10, <2>1 DEF Good, TellsNow, TellsBut, PioState, MachineState
  <2>4. iter[1 .. k + 1] \in Int /\ iter[1 .. k + 1] <= iter[1 .. k]
    BY <2>2, <2>3 DEF O!Earlier
  <2>5. O!Order[k + 1] \in O!Runnable(p) => iter[1 .. k + 1] <= p.sm[O!Order[k + 1]].due
    BY <2>2, <2>3 DEF O!Earlier
  <2>6. ASSUME NEW j \in 1 .. k + 1, O!Order[j] \in O!Runnable(p) PROVE iter[1 .. k + 1] <= p.sm[O!Order[j]].due
    <3>1. CASE j = k + 1
      BY <2>5, <2>6, <3>1
    <3>2. CASE j \in 1 .. k
      <4>1. O!Order[j] \in Machines
        BY <1>2, <2>1, <3>2
      <4>2. p.sm[O!Order[j]].due \in Int
        BY <4>1 DEF TellsNow, TellsBut, PioState, MachineState
      <4>3. iter[1 .. k] <= p.sm[O!Order[j]].due
        BY <1>10, <2>6, <3>2
      <4> QED BY <2>3, <2>4, <4>2, <4>3
    <3> QED BY <2>1, <3>1, <3>2
  <2> QED BY <2>4, <2>6 DEF Good
<1>11. Until(0)
  BY <1>2, <1>9
<1> DEFINE Holds == {k \in 0 .. n : Until(k)}
<1>13. n \in Holds
  <2>1. 0 \in Holds
    BY <1>2, <1>11
  <2>2. \A k \in 0 .. n - 1 : k \in Holds => k + 1 \in Holds
    <3> HIDE DEF Until
    <3> QED BY <1>2, <1>10
  <2> HIDE DEF Holds
  <2> QED BY <1>2, <2>1, <2>2, UpTo
<1>14. Until(n)
  <2> HIDE DEF Until
  <2> QED BY <1>13
<1>15. \A m \in Machines : \E j \in 1 .. n : O!Order[j] = m
  BY OrderIs DEF n
<1>16. \A m \in O!Runnable(p) : m \in Machines
  BY DEF O!Runnable
<1>17. \A m \in O!Runnable(p) : iter[1 .. n] <= p.sm[m].due
  BY <1>14, <1>15, <1>16
<1>18. iter[DOMAIN O!Order] = iter[1 .. n]
  BY <1>2
<1> QED BY <1>1, <1>14, <1>17, <1>18 DEF Good

LEMMA RecomputeDueTells ==
  ASSUME NEW p \in TellsNow
  PROVE  O!RecomputeDue(p) \in TellsNow
<1> DEFINE earliest == O!FoldLeft(LAMBDA d, m : IF m \in O!Runnable(p) THEN O!Earlier(d, p.sm[m].due) ELSE d, O!Never, O!Order)
<1>1. earliest \in Int
  BY EarliestIs
<1>2. O!RecomputeDue(p) = [p EXCEPT !.next = earliest]
  BY DEF O!RecomputeDue
<1> HIDE DEF earliest
<1> QED BY <1>1, <1>2, FieldTells

\* Time moves what is due, not the FIFOs.
LEMMA MovedTells ==
  ASSUME NEW p \in TellsNow, NEW cycles \in Int
  PROVE  O!Moved(p, cycles) \in TellsNow
<1> DEFINE from(due) == IF due - cycles < - MaxArrears THEN - MaxArrears - 1 ELSE due - cycles
           sm == [m \in Machines |-> IF m \in O!Runnable(p) THEN [p.sm[m] EXCEPT !.due = from(p.sm[m].due)] ELSE p.sm[m]]
           next == IF p.next = O!Never THEN O!Never ELSE from(p.next)
           e == O!Moved(p, cycles)
<1>1. p \in PioState /\ \A m \in Machines : p.sm[m] \in MachineState
  BY DEF TellsNow, TellsBut, PioState
<1>2. MaxArrears \in Int
  BY PeripheralsAssumption DEF O!PioAssumption
<1>3. \A due \in Int : from(due) \in Int
  BY <1>2
<1>4. e = [p EXCEPT !.sm = sm, !.next = next]
  BY DEF O!Moved
<1> HIDE DEF from
<1>5. next \in Int
  BY <1>1, <1>3, NeverIsInt DEF PioState
<1>6. \A m \in Machines : sm[m] \in MachineState /\ SameFifos(sm[m], p.sm[m])
  <2> SUFFICES ASSUME NEW m \in Machines PROVE sm[m] \in MachineState /\ SameFifos(sm[m], p.sm[m])
    OBVIOUS
  <2> DEFINE r == p.sm[m]
             due == from(r.due)
  <2>1. r \in MachineState /\ due \in Int
    BY <1>1, <1>3 DEF MachineState
  <2>2. sm[m] \in {r, [r EXCEPT !.due = due]}
    OBVIOUS
  <2> HIDE DEF due, r, sm
  <2>3. [r EXCEPT !.due = due] \in MachineState /\ SameFifos([r EXCEPT !.due = due], r) /\ SameFifos(r, r)
    BY <2>1 DEF MachineState, SameFifos
  <2> QED BY <2>1, <2>2, <2>3 DEF r
<1>7. sm \in [Machines -> MachineState]
  <2>1. DOMAIN sm = Machines /\ sm = [m \in DOMAIN sm |-> sm[m]]
    OBVIOUS
  <2> HIDE DEF sm
  <2> QED BY <1>6, <2>1
<1> HIDE DEF sm, next
<1>8. e \in PioState /\ e.up = p.up /\ e.sm = sm
  BY <1>1, <1>4, <1>5, <1>7 DEF PioState
<1> HIDE DEF e
<1>9. e \in TellsBut({} \cup {"TX", "RX"} \X {})
  BY <1>6, <1>8, SameTells DEF TellsNow
<1> QED BY <1>9 DEF TellsNow, e

\* The machines that are due execute their instructions.
DueStep(program, q, m) == IF m \in DOMAIN program THEN O!Stepped(q, m, program[m][1], program[m][2]) ELSE q
AllStep(p, program) == O!FoldLeft(LAMBDA q, m : DueStep(program, q, m), p, O!Order)

\* Stage[k] is where the first k machines leave the block.
LEMMA DueOnesStep ==
  ASSUME NEW p \in TellsNow, NEW program,
         \A m \in Machines : m \in DOMAIN program => program[m][1] \in O!Instructions /\ program[m][2] \in Int,
         NEW Stage, p \in Stage[0],
         \A k \in 0 .. Cardinality(Machines) - 1 : \A t \in Stage[k] \cap TellsNow :
           DueStep(program, t, O!Order[k + 1]) \in Stage[k + 1]
  PROVE  AllStep(p, program) \in Stage[Cardinality(Machines)] \cap TellsNow
<1> DEFINE n == Cardinality(Machines)
           Good == TellsNow
           Folds(f) == f = [s \in SUBSET (DOMAIN O!Order) |->
                              IF s = {} THEN p ELSE LET x == O!Max(s) IN DueStep(program, f[s \ {x}], O!Order[x])]
           iter == CHOOSE f : Folds(f)
           op == [q \in (1 .. n) \X Good |-> DueStep(program, q[2], O!Order[q[1]])]
<1>1. AllStep(p, program) = iter[DOMAIN O!Order]
  BY DEF AllStep, O!FoldLeft, O!MapThenFoldSet
<1>2. /\ n \in Nat /\ DOMAIN O!Order = 1 .. n /\ p \in Good
      /\ \A k \in 1 .. n : O!Order[k] \in Machines
  BY OrderIs
<1>3. ASSUME NEW t \in Good, NEW k \in 1 .. n PROVE DueStep(program, t, O!Order[k]) \in Good
  BY <1>2, EffectTells DEF DueStep
<1>4. \A s : O!Max(s) = Max(s)
  BY DEF O!Max, Max
<1> HIDE DEF n, Good
<1>5. op \in [(1 .. n) \X Good -> Good]
  BY <1>3
<1>6. PICK g \in [SUBSET (1 .. n) -> Good] : IsFold(n, p, op, g)
  <2> HIDE DEF op
  <2> QED BY <1>2, <1>5, FoldExists
<1>7. Folds(g)
  <2>1. ASSUME NEW s \in SUBSET (1 .. n), s # {}
        PROVE  op[<<Max(s), g[s \ {Max(s)}]>>] = DueStep(program, g[s \ {Max(s)}], O!Order[Max(s)])
    <3>1. Max(s) \in 1 .. n
      BY <1>2, <2>1, MaxIsIn
    <3>2. g[s \ {Max(s)}] \in Good
      OBVIOUS
    <3> QED BY <3>1, <3>2
  <2> HIDE DEF op
  <2> QED BY <1>2, <1>4, <1>6, <2>1 DEF IsFold
<1>8. Folds(iter)
  <2> HIDE DEF Folds
  <2> QED BY <1>7, Zenon
<1> HIDE DEF iter
<1>12. \A s \in SUBSET (1 .. n) : s # {} => iter[s] = DueStep(program, iter[s \ {Max(s)}], O!Order[Max(s)])
  BY <1>2, <1>4, <1>8
<1>9. iter[{}] = p
  BY <1>2, <1>8
<1>10. ASSUME NEW k \in 0 .. n - 1, iter[1 .. k] \in Stage[k] \cap Good PROVE iter[1 .. k + 1] \in Stage[k + 1] \cap Good
  <2>1. /\ k + 1 \in 1 .. n /\ 1 .. k + 1 # {} /\ (1 .. k + 1) \ {k + 1} = 1 .. k
        /\ 1 .. k + 1 \in SUBSET (1 .. n) /\ O!Max(1 .. k + 1) = k + 1
    BY <1>2, <1>4, UpToNext
  <2>2. iter[1 .. k + 1] = DueStep(program, iter[1 .. k], O!Order[k + 1])
    <3> DEFINE s == 1 .. k + 1
    <3>1. s \in SUBSET (1 .. n) /\ s # {} /\ Max(s) = k + 1 /\ s \ {Max(s)} = 1 .. k
      BY <1>4, <2>1
    <3> HIDE DEF s
    <3>2. iter[s] = DueStep(program, iter[s \ {Max(s)}], O!Order[Max(s)])
      BY <1>12, <3>1, Zenon
    <3>3. iter[s] = DueStep(program, iter[1 .. k], O!Order[k + 1])
      BY <3>1, <3>2, Zenon
    <3> QED BY <3>3 DEF s
  <2>3. iter[1 .. k + 1] \in Good
    BY <1>3, <1>10, <2>1, <2>2
  <2>4. iter[1 .. k + 1] \in Stage[k + 1]
    BY <1>10, <2>2 DEF n, Good
  <2> QED BY <2>3, <2>4
<1> DEFINE Holds == {k \in 0 .. n : iter[1 .. k] \in Stage[k] \cap Good}
<1>11. n \in Holds
  <2>1. 1 .. 0 = {} /\ 0 \in 0 .. n
    BY <1>2
  <2>2. 0 \in Holds
    BY <1>2, <1>9, <2>1
  <2>3. \A k \in 0 .. n - 1 : k \in Holds => k + 1 \in Holds
    BY <1>2, <1>10
  <2> HIDE DEF Holds
  <2> QED BY <1>2, <2>2, <2>3, UpTo
<1>13. iter[1 .. n] \in Stage[n] \cap Good
  BY <1>11
<1> QED BY <1>1, <1>2, <1>13 DEF n, Good

LEMMA RunDueTells ==
  ASSUME NEW p \in TellsNow, NEW program,
         \A m \in Machines : m \in DOMAIN program => program[m][1] \in O!Instructions /\ program[m][2] \in Int
  PROVE  O!RunDue(p, program) \in TellsNow
<1> DEFINE stage == [k \in 0 .. Cardinality(Machines) |-> TellsNow]
           ran == AllStep(p, program)
<1>1. Cardinality(Machines) \in Nat
  BY OrderIs
<1>2. \A k \in 0 .. Cardinality(Machines) : stage[k] = TellsNow
  OBVIOUS
<1> HIDE DEF stage
<1>3. p \in stage[0]
  BY <1>1, <1>2
<1>4. ASSUME NEW k \in 0 .. Cardinality(Machines) - 1, NEW t \in stage[k] \cap TellsNow
      PROVE  DueStep(program, t, O!Order[k + 1]) \in stage[k + 1]
  <2>1. O!Order[k + 1] \in Machines /\ stage[k + 1] = TellsNow
    BY <1>1, <1>2, OrderIs
  <2> QED BY <2>1, EffectTells DEF DueStep
<1>5. ran \in stage[Cardinality(Machines)] \cap TellsNow
  BY <1>3, <1>4, DueOnesStep
<1>6. O!RunDue(p, program) = O!RecomputeDue(ran)
  BY DEF O!RunDue, AllStep, DueStep
<1> HIDE DEF ran
<1> QED BY <1>5, <1>6, RecomputeDueTells

\* The processor's accesses to the FIFOs.
LEMMA FifoAccessTells ==
  ASSUME NEW p \in TellsNow, NEW m \in Machines
  PROVE  O!TxfWritten(p, m) \in TellsNow /\ O!RxfRead(p, m) \in TellsNow
<1>1. p.sm[m].tx + 1 \in Int /\ p.sm[m].rx - 1 \in Int
  BY DEF TellsNow, TellsBut, PioState, MachineState
<1> DEFINE filled == O!CheckWait(O!UpdateDma([p EXCEPT !.sm[m].tx = p.sm[m].tx + 1], "TX", m), m)
           drained == O!CheckWait(O!UpdateDma([p EXCEPT !.sm[m].rx = p.sm[m].rx - 1], "RX", m), m)
<1>2. O!UpdateDma([p EXCEPT !.sm[m].tx = p.sm[m].tx + 1], "TX", m) \in TellsNow
  BY <1>1, AccessTells
<1>3. O!UpdateDma([p EXCEPT !.sm[m].rx = p.sm[m].rx - 1], "RX", m) \in TellsNow
  BY <1>1, AccessTells
<1>4. filled \in TellsNow /\ drained \in TellsNow
  BY <1>2, <1>3, CheckWaitTells
<1>5. O!TxfWritten(p, m) \in {p, filled, O!CheckInterrupts(filled)}
  BY DEF O!TxfWritten
<1>6. O!RxfRead(p, m) \in {p, drained, O!CheckInterrupts(drained)}
  BY DEF O!RxfRead
<1> HIDE DEF filled, drained
<1>7. O!CheckInterrupts(filled) \in TellsNow /\ O!CheckInterrupts(drained) \in TellsNow
  BY <1>4, PioCheckTells DEF TellsNow
<1> QED BY <1>4, <1>5, <1>6, <1>7

\* Both FIFOs of a machine are replaced, and both requests told.
LEMMA JoinedTells ==
  ASSUME NEW p \in TellsNow, NEW m \in Machines, NEW join \in {"none", "tx", "rx"}
  PROVE  O!Joined(p, m, join) \in TellsNow
<1> DEFINE r == [p.sm[m] EXCEPT !.join = join, !.tx = 0, !.rx = 0]
           t == [p EXCEPT !.sm[m] = r]
           one == O!UpdateDma(t, "RX", m)
           both == O!UpdateDma(one, "TX", m)
<1>1. p \in PioState /\ p.sm[m] \in MachineState
  BY DEF TellsNow, TellsBut, PioState
<1>2. r \in MachineState
  <2>1. ASSUME NEW s \in MachineState, NEW j \in {"none", "tx", "rx"}, NEW n \in Int
        PROVE  [s EXCEPT !.join = j, !.tx = n, !.rx = n] \in MachineState
    BY DEF MachineState
  <2> DEFINE n == 0
  <2>2. n \in Int
    OBVIOUS
  <2>3. r = [p.sm[m] EXCEPT !.join = join, !.tx = n, !.rx = n]
    OBVIOUS
  <2> HIDE DEF r, n
  <2> QED BY <1>1, <2>1, <2>2, <2>3
<1>3. t = [p EXCEPT !.sm[m].join = join, !.sm[m].tx = 0, !.sm[m].rx = 0]
  BY <1>1 DEF PioState, MachineState
<1> HIDE DEF r
<1>4. t \in PioState /\ t.up = p.up /\ \A k \in Machines \ {m} : t.sm[k] = p.sm[k]
  BY <1>1, <1>2, MachineChanges
<1>5. O!Joined(p, m, join) \in {p, O!CheckInterrupts(O!CheckWait(both, m))}
  BY <1>3 DEF O!Joined
<1> HIDE DEF t
<1>6. t \in TellsBut({} \cup {"TX", "RX"} \X {m})
  BY <1>4, SameTells DEF TellsNow, SameFifos
<1>7. one \in TellsBut(({} \cup {"TX", "RX"} \X {m}) \ {<<"RX", m>>})
  BY <1>6, UpdateDmaTells
<1> HIDE DEF one
<1>8. both \in TellsBut((({} \cup {"TX", "RX"} \X {m}) \ {<<"RX", m>>}) \ {<<"TX", m>>})
  BY <1>7, UpdateDmaTells
<1>9. (({} \cup {"TX", "RX"} \X {m}) \ {<<"RX", m>>}) \ {<<"TX", m>>} = {}
  OBVIOUS
<1> HIDE DEF both
<1>10. both \in TellsNow
  BY <1>8, <1>9 DEF TellsNow
<1>11. O!CheckInterrupts(O!CheckWait(both, m)) \in TellsNow
  BY <1>10, CheckWaitTells, PioCheckTells DEF TellsNow
<1> QED BY <1>5, <1>11

LEMMA CtrlTells ==
  ASSUME NEW p \in TellsNow, NEW on, NEW restarted, NEW phased
  PROVE  O!CtrlWritten(p, on, restarted, phased) \in TellsNow
<1> DEFINE First(m) == IF m \in on /\ ~ p.sm[m].on THEN [p.sm[m] EXCEPT !.due = 0] ELSE p.sm[m]
           Second(m) == IF m \in restarted THEN [First(m) EXCEPT !.wait = O!Running, !.delay = 0, !.due = 0] ELSE First(m)
           Third(m) == IF m \in phased THEN [Second(m) EXCEPT !.due = 1] ELSE Second(m)
           Machine(m) == [Third(m) EXCEPT !.on = m \in on,
                                          !.due = IF m \in on /\ Third(m).wait = O!Running THEN Third(m).due ELSE 0]
           sm == [m \in Machines |-> Machine(m)]
           e == [p EXCEPT !.sm = sm]
<1>1. p \in PioState /\ \A m \in Machines : p.sm[m] \in MachineState
  BY DEF TellsNow, TellsBut, PioState
<1>2. O!CtrlWritten(p, on, restarted, phased) = O!RecomputeDue(e)
  BY DEF O!CtrlWritten
<1>3. ASSUME NEW m \in Machines PROVE Machine(m) \in MachineState /\ SameFifos(Machine(m), p.sm[m])
  <2> DEFINE s == p.sm[m]
             Like == {r \in MachineState : SameFifos(r, s)}
  <2>1. \A r \in Like, d \in Int : [r EXCEPT !.due = d] \in Like
    BY DEF MachineState, SameFifos
  <2>2. \A r \in Like : [r EXCEPT !.wait = O!Running, !.delay = 0, !.due = 0] \in Like
    <3> SUFFICES ASSUME NEW r \in Like PROVE [r EXCEPT !.wait = O!Running, !.delay = 0, !.due = 0] \in Like
      OBVIOUS
    <3>1. 0 \in Int
      OBVIOUS
    <3> QED BY <3>1, MachineWaits DEF SameFifos
  <2>3. \A r \in Like, x \in BOOLEAN, d \in Int : [r EXCEPT !.on = x, !.due = d] \in Like
    BY DEF MachineState, SameFifos
  <2>4. s \in Like
    BY <1>1 DEF SameFifos
  <2> HIDE DEF Like, s
  <2>5. First(m) \in Like
    <3>1. First(m) \in {s, [s EXCEPT !.due = 0]}
      BY DEF s
    <3> QED BY <2>1, <2>4, <3>1
  <2> HIDE DEF First
  <2>6. Second(m) \in Like
    BY <2>2, <2>5
  <2> HIDE DEF Second
  <2>7. Third(m) \in Like
    BY <2>1, <2>6
  <2> HIDE DEF Third
  <2>8. (m \in on) \in BOOLEAN /\ (IF m \in on /\ Third(m).wait = O!Running THEN Third(m).due ELSE 0) \in Int
    BY <2>7 DEF Like, MachineState
  <2>9. Machine(m) \in Like
    BY <2>3, <2>7, <2>8
  <2> QED BY <2>9 DEF Like, s
<1> HIDE DEF Machine
<1>4. sm \in [Machines -> MachineState]
  BY <1>3
<1>5. e \in PioState /\ e.up = p.up /\ e.sm = sm
  <2> HIDE DEF sm
  <2> QED BY <1>1, <1>4 DEF PioState
<1>6. \A m \in Machines : SameFifos(e.sm[m], p.sm[m])
  BY <1>3, <1>5
<1> HIDE DEF e
<1>7. e \in TellsBut({} \cup {"TX", "RX"} \X {})
  BY <1>5, <1>6, SameTells DEF TellsNow
<1>8. e \in TellsNow
  BY <1>7 DEF TellsNow
<1> QED BY <1>2, <1>8, RecomputeDueTells

\* At reset all FIFOs are empty and have room: the transmit requests are up.
LEMMA PioOn ==
  ASSUME NEW pin \in BOOLEAN
  PROVE  O!PowerOn(pin) \in TellsNow
<1> DEFINE p == O!PowerOn(pin)
           off == [on |-> FALSE, tx |-> 0, rx |-> 0, join |-> "none", wait |-> O!Running, delay |-> 0, due |-> 0]
<1>1. off \in MachineState
  BY DEF MachineState
<1>2. PioDepth \in Nat \ {0}
  BY PeripheralsAssumption DEF O!PioAssumption
<1>3. /\ p = [sm |-> [m \in Machines |-> off], flag |-> FALSE, pin |-> pin, next |-> O!Never, inte |-> {}, line |-> FALSE,
              up |-> {"TX"} \X Machines]
  BY DEF O!PowerOn
<1>4. \A m \in Machines : p.sm[m].tx = 0 /\ p.sm[m].rx = 0 /\ p.sm[m].join = "none"
  BY <1>3
<1>5. p \in PioState
  <2> HIDE DEF off
  <2> QED BY <1>1, <1>3, NeverIsInt DEF PioState
<1>6. p.up = {"TX"} \X Machines
  BY <1>3
<1> HIDE DEF p
<1>7. \A m \in Machines : Calls(p, "TX", m) /\ ~ Calls(p, "RX", m)
  BY <1>2, <1>4 DEF Calls, O!TxFull, O!TxDepth
<1> QED BY <1>5, <1>6, <1>7 DEF TellsNow, TellsBut, p

LEMMA PioStep ==
  ASSUME state \in TellsNow, O!Next
  PROVE  state' \in TellsNow
<1>1. /\ \A m \in Machines : Programs[m] \subseteq O!Instructions
      /\ PioDelays \subseteq Int /\ PioCycles \subseteq Int /\ Joins \subseteq {"none", "tx", "rx"}
      /\ PioEnables \subseteq SUBSET O!Interrupts
  BY PeripheralsAssumption DEF O!PioAssumption
<1>2. CASE O!Advance
  <2>1. PICK cycles \in PioCycles :
          LET p == O!Moved(state, cycles)
          IN  \/ state' = p
              \/ \E program \in [O!Due(p) -> (UNION {Programs[m] : m \in Machines}) \X PioDelays] : state' = O!RunDue(p, program)
    BY <1>2 DEF O!Advance
  <2> DEFINE p == O!Moved(state, cycles)
  <2>2. p \in TellsNow
    BY <1>1, MovedTells
  <2> HIDE DEF p
  <2>3. ASSUME NEW program \in [O!Due(p) -> (UNION {Programs[m] : m \in Machines}) \X PioDelays], state' = O!RunDue(p, program)
        PROVE  state' \in TellsNow
    <3> DEFINE all == UNION {Programs[m] : m \in Machines}
    <3>2. all \subseteq O!Instructions
      BY <1>1
    <3> HIDE DEF all
    <3>3. DOMAIN program = O!Due(p) /\ \A m \in O!Due(p) : program[m] \in all \X PioDelays
      BY <2>3 DEF all
    <3>1. \A m \in DOMAIN program : program[m][1] \in O!Instructions /\ program[m][2] \in Int
      BY <1>1, <3>2, <3>3
    <3> QED BY <2>2, <2>3, <3>1, RunDueTells
  <2> QED BY <2>1, <2>2, <2>3 DEF p
<1>3. CASE O!WriteTxf \/ O!ReadRxf
  BY <1>3, FifoAccessTells DEF O!WriteTxf, O!ReadRxf
<1>4. CASE O!WriteShiftctrl
  BY <1>1, <1>4, JoinedTells DEF O!WriteShiftctrl
<1>5. CASE O!WriteInstr
  <2>1. PICK m \in Machines :
          \E instruction \in Programs[m], delay \in PioDelays :
            state' = O!RecomputeDue(O!ExecuteInstruction(state, m, instruction, delay))
    BY <1>5 DEF O!WriteInstr
  <2>3. PICK instruction \in Programs[m], delay \in PioDelays :
          state' = O!RecomputeDue(O!ExecuteInstruction(state, m, instruction, delay))
    BY <2>1
  <2>2. O!ExecuteInstruction(state, m, instruction, delay) \in TellsNow
    BY <1>1, EffectTells
  <2> QED BY <2>2, <2>3, RecomputeDueTells
<1>6. CASE O!WriteCtrl
  BY <1>6, CtrlTells DEF O!WriteCtrl
<1>7. CASE O!WriteIrq \/ O!WriteIrqForce
  BY <1>7, FieldTells, IrqUpdatedTells DEF O!WriteIrq, O!WriteIrqForce
<1>8. CASE O!PinChanges
  <2> DEFINE p == [state EXCEPT !.pin = ~ state.pin]
  <2>1. (~ state.pin) \in BOOLEAN
    OBVIOUS
  <2>2. p \in TellsNow
    BY <2>1, FieldTells
  <2>3. \A t \in TellsNow, m \in Machines : O!CheckWait(t, m) \in TellsNow
    BY CheckWaitTells
  <2> QED BY <1>8, <2>2, <2>3, EnabledOnesLook DEF O!PinChanges
<1>9. CASE O!WriteInte
  <2>1. PICK inte \in PioEnables : state' = O!CheckInterrupts([state EXCEPT !.inte = inte])
    BY <1>9 DEF O!WriteInte
  <2>2. [state EXCEPT !.inte = inte] \in TellsNow
    BY <1>1, FieldTells
  <2> QED BY <2>1, <2>2, PioCheckTells DEF TellsNow
<1>10. CASE O!Reset
  <2>1. state.pin \in BOOLEAN
    BY DEF TellsNow, TellsBut, PioState
  <2> QED BY <1>10, <2>1, PioOn DEF O!Reset
<1> QED BY <1>2, <1>3, <1>4, <1>5, <1>6, <1>7, <1>8, <1>9, <1>10 DEF O!Next

-----------------------------------------------------------------------------
(* The requests of the SPI, the UART, the ADC and a PIO block. *)

RequestsTold ==
  /\ part = "spi" => SpiTold(state)
  /\ part = "uart" => UartTold(state)
  /\ part = "adc" => AdcTold(state)
  /\ part = "pio" => state \in TellsNow

LEMMA RequestsBegin == PeripheralsInit => RequestsTold
<1> SUFFICES ASSUME PeripheralsInit PROVE RequestsTold
  OBVIOUS
<1>1. ASSUME part = "spi" PROVE SpiTold(state)
  <2>1. PICK prompt \in Prompts : state = S!Clear(<<>>, prompt, FALSE)
    BY <1>1 DEF PeripheralsInit, S!Init
  <2>2. prompt \in BOOLEAN /\ <<>> \in Seq(Words)
    BY PeripheralsAssumption DEF S!SpiAssumption
  <2> QED BY <2>1, <2>2, SpiClear
<1>2. ASSUME part = "uart" PROVE UartTold(state)
  BY <1>2, UartOn DEF PeripheralsInit, U!Init
<1>3. ASSUME part = "adc" PROVE AdcTold(state)
  BY <1>3, AdcOn DEF PeripheralsInit, A!Init
<1>4. ASSUME part = "pio" PROVE state \in TellsNow
  BY <1>4, PioOn DEF PeripheralsInit, O!Init
<1> QED BY <1>1, <1>2, <1>3, <1>4 DEF RequestsTold

LEMMA RequestsStayTold == RequestsTold /\ PeripheralsNext /\ part' = part => RequestsTold'
<1> SUFFICES ASSUME RequestsTold, PeripheralsNext, part' = part PROVE RequestsTold'
  OBVIOUS
<1>1. ASSUME part = "spi" PROVE SpiTold(state')
  BY <1>1, SpiStep DEF PeripheralsNext, RequestsTold
<1>2. ASSUME part = "uart" PROVE UartTold(state')
  BY <1>2, UartStep DEF PeripheralsNext, RequestsTold
<1>3. ASSUME part = "adc" PROVE AdcTold(state')
  BY <1>3, AdcStep DEF PeripheralsNext, RequestsTold
<1>4. ASSUME part = "pio" PROVE state' \in TellsNow
  BY <1>4, PioStep DEF PeripheralsNext, RequestsTold
<1> QED BY <1>1, <1>2, <1>3, <1>4 DEF RequestsTold

LEMMA ToldAreTheRequests == RequestsTold => RequestsTellFifos
<1> SUFFICES ASSUME RequestsTold PROVE RequestsTellFifos
  OBVIOUS
<1>1. part = "spi" => S!RequestsTellFifos
  BY DEF RequestsTold, SpiTold, S!RequestsTellFifos
<1>2. part = "uart" => U!RequestsTellFifos
  BY DEF RequestsTold, UartTold, U!RequestsTellFifos
<1>3. part = "adc" => A!RequestsTellFifos
  BY DEF RequestsTold, AdcTold, A!RequestsTellFifos
<1>4. part = "pio" => O!RequestsTellFifos
  BY TellsMeans DEF RequestsTold, TellsNow, TellsBut, O!RequestsTellFifos
<1> QED BY <1>1, <1>2, <1>3, <1>4 DEF RequestsTellFifos

-----------------------------------------------------------------------------
(* When the machines of a PIO block are due. *)

\* Times that an instruction leaves: a delay is five bits, and nobody is due later than that and a cycle.
Bounded(s) == s.delay \in 0 .. 31 /\ s.due <= 32
\* The machines of `held` are due, and have still to execute.
PioHolds(held) ==
  {p \in TellsNow : \A m \in Machines : Bounded(p.sm[m]) /\ (m \in held => p.sm[m].wait = O!Running /\ p.sm[m].due <= 0)}
PioTimed == {p \in PioHolds({}) : \A m \in O!Runnable(p) : p.next <= p.sm[m].due}
SameTimes(e, p) ==
  /\ e.next = p.next
  /\ \A m \in Machines : e.sm[m].on = p.sm[m].on /\ e.sm[m].wait = p.sm[m].wait /\ e.sm[m].delay = p.sm[m].delay /\ e.sm[m].due = p.sm[m].due

LEMMA SameTimesKeep ==
  ASSUME NEW held, NEW p, NEW e \in TellsNow, SameTimes(e, p)
  PROVE  (p \in PioHolds(held) => e \in PioHolds(held)) /\ (p \in PioTimed => e \in PioTimed)
<1>1. p \in PioHolds(held) => e \in PioHolds(held)
  BY DEF PioHolds, SameTimes, Bounded
<1>2. p \in PioHolds({}) => e \in PioHolds({})
  BY DEF PioHolds, SameTimes, Bounded
<1>3. O!Runnable(e) = O!Runnable(p)
  BY DEF O!Runnable, SameTimes
<1>4. \A m \in O!Runnable(p) : e.sm[m].due = p.sm[m].due /\ e.next = p.next
  BY DEF O!Runnable, SameTimes
<1>5. p \in PioTimed => e \in PioTimed
  BY <1>2, <1>3, <1>4 DEF PioTimed
<1> QED BY <1>1, <1>5

LEMMA UpdateDmaSame ==
  ASSUME NEW p \in PioState, NEW kind, NEW m
  PROVE  SameTimes(O!UpdateDma(p, kind, m), p) /\ SameTimes(O!CheckInterrupts(p), p)
  BY DEF SameTimes, O!UpdateDma, O!CheckInterrupts, PioState

LEMMA FifoSame ==
  ASSUME NEW p \in PioState, NEW m \in Machines, NEW n \in Int
  PROVE  /\ SameTimes([p EXCEPT !.sm[m].tx = n], p) /\ SameTimes([p EXCEPT !.sm[m].rx = n], p)
         /\ [p EXCEPT !.sm[m].rx = n] \in PioState /\ [p EXCEPT !.sm[m].tx = n] \in PioState
<1>1. p.sm[m] \in MachineState
  BY DEF PioState
<1>2. [p.sm[m] EXCEPT !.rx = n] \in MachineState /\ [p.sm[m] EXCEPT !.tx = n] \in MachineState
  BY <1>1 DEF MachineState
<1>3. /\ [p EXCEPT !.sm[m].rx = n] = [p EXCEPT !.sm[m] = [p.sm[m] EXCEPT !.rx = n]]
      /\ [p EXCEPT !.sm[m].tx = n] = [p EXCEPT !.sm[m] = [p.sm[m] EXCEPT !.tx = n]]
  OBVIOUS
<1>4. [p EXCEPT !.sm[m].rx = n] \in PioState /\ [p EXCEPT !.sm[m].tx = n] \in PioState
  BY <1>2, <1>3, MachineChanges
<1>5. SameTimes([p EXCEPT !.sm[m].tx = n], p) /\ SameTimes([p EXCEPT !.sm[m].rx = n], p)
  BY DEF SameTimes, PioState, MachineState
<1> QED BY <1>4, <1>5

LEMMA SameTimesChain == ASSUME NEW a, NEW b, NEW c, SameTimes(a, b), SameTimes(b, c) PROVE SameTimes(a, c)
  BY DEF SameTimes

LEMMA PushPullSame ==
  ASSUME NEW p \in TellsNow, NEW m \in Machines
  PROVE  SameTimes(O!Push(p, m), p) /\ SameTimes(O!Pull(p, m), p)
<1> DEFINE pushed == [p EXCEPT !.sm[m].rx = p.sm[m].rx + 1]
           pulled == [p EXCEPT !.sm[m].tx = p.sm[m].tx - 1]
           toldRx == O!UpdateDma(pushed, "RX", m)
           toldTx == O!UpdateDma(pulled, "TX", m)
<1>1. p \in PioState /\ p.sm[m].rx + 1 \in Int /\ p.sm[m].tx - 1 \in Int
  BY DEF TellsNow, TellsBut, PioState, MachineState
<1>2. SameTimes(pushed, p) /\ SameTimes(pulled, p)
  BY <1>1, FifoSame
<1>3. toldRx \in TellsNow /\ toldTx \in TellsNow
  BY <1>1, AccessTells
<1>4. pushed \in PioState /\ pulled \in PioState
  BY <1>1, FifoSame
<1>5. O!Push(p, m) = O!CheckInterrupts(toldRx) /\ O!Pull(p, m) = O!CheckInterrupts(toldTx)
  BY DEF O!Push, O!Pull
<1> HIDE DEF pushed, pulled
<1>6. SameTimes(toldRx, pushed) /\ SameTimes(toldTx, pulled)
  BY <1>4, UpdateDmaSame
<1>7. toldRx \in PioState /\ toldTx \in PioState
  BY <1>3 DEF TellsNow, TellsBut
<1> HIDE DEF toldRx, toldTx
<1>8. SameTimes(O!Push(p, m), toldRx) /\ SameTimes(O!Pull(p, m), toldTx)
  BY <1>5, <1>7, UpdateDmaSame
<1> QED BY <1>2, <1>6, <1>8 DEF SameTimes

LEMMA FieldSame ==
  ASSUME NEW p \in PioState
  PROVE  /\ \A x \in BOOLEAN : SameTimes([p EXCEPT !.flag = x], p) /\ SameTimes([p EXCEPT !.pin = x], p)
         /\ \A s \in SUBSET O!Interrupts : SameTimes([p EXCEPT !.inte = s], p)
  BY DEF SameTimes, PioState

LEMMA UnstalledIs ==
  ASSUME NEW p \in TellsNow, NEW m \in Machines
  PROVE  LET e == O!Unstalled(p, m)
             due == 1 + p.sm[m].delay
         IN  /\ e.next = O!Earlier(p.next, due) /\ \A n \in Machines \ {m} : e.sm[n] = p.sm[n]
             /\ e.sm[m].wait = O!Running /\ e.sm[m].on = p.sm[m].on /\ e.sm[m].delay = 0
             /\ e.sm[m].due = IF p.sm[m].on THEN due ELSE 0
<1> DEFINE due == 1 + p.sm[m].delay
           here == IF p.sm[m].on THEN due ELSE 0
           next == O!Earlier(p.next, due)
           s == p.sm[m]
           r == [s EXCEPT !.wait = O!Running, !.delay = 0, !.due = here]
           e == [p EXCEPT !.sm[m] = r]
<1>1. p \in PioState /\ s \in MachineState
  BY DEF TellsNow, TellsBut, PioState
<1>2. O!Unstalled(p, m) = [e EXCEPT !.next = next]
  BY <1>1 DEF O!Unstalled, PioState, MachineState
<1>3. here \in Int
  BY <1>1 DEF MachineState
<1>4. r \in MachineState
  <2> HIDE DEF here
  <2> QED BY <1>1, <1>3, MachineWaits
<1>5. r.wait = O!Running /\ r.on = s.on /\ r.delay = 0 /\ r.due = here
  <2> HIDE DEF here
  <2> QED BY <1>1 DEF MachineState
<1> HIDE DEF r
<1>6. e.sm[m] = r /\ e \in PioState /\ \A n \in Machines \ {m} : e.sm[n] = p.sm[n]
  BY <1>1, <1>4, MachineChanges
<1> HIDE DEF e, here, next
<1>7. [e EXCEPT !.next = next].sm = e.sm /\ [e EXCEPT !.next = next].next = next
  BY <1>6 DEF PioState
<1> QED BY <1>2, <1>5, <1>6, <1>7 DEF here, next

\* check_wait() does nothing to a machine that runs, and otherwise leaves it due in time.
LEMMA CheckWaitHolds ==
  ASSUME NEW held, NEW p \in PioHolds(held), NEW m \in Machines
  PROVE  O!CheckWait(p, m) \in PioHolds(held) /\ (p \in PioTimed => O!CheckWait(p, m) \in PioTimed)
<1> DEFINE q == CASE p.sm[m].wait = "RX" -> O!Push(p, m)
                  [] p.sm[m].wait = "TX" -> O!Pull(p, m)
                  [] p.sm[m].wait = "IRQ set" -> [p EXCEPT !.flag = FALSE]
                  [] OTHER -> p
           e == O!CheckWait(p, m)
<1>1. p \in TellsNow /\ p \in PioState
  BY DEF PioHolds, TellsNow, TellsBut
<1>2. q \in TellsNow
  BY <1>1, PushPullTell, FieldTells
<1>3. SameTimes(q, p)
  <2>1. SameTimes(p, p) /\ SameTimes([p EXCEPT !.flag = FALSE], p)
    BY <1>1, FieldSame DEF SameTimes
  <2> QED BY <1>1, <2>1, PushPullSame
<1>4. e = IF ~ O!Ready(p, m) THEN p ELSE O!Unstalled(q, m)
  BY DEF O!CheckWait
<1> HIDE DEF q
<1>5. e \in TellsNow
  BY <1>1, CheckWaitTells DEF e
<1>6. CASE ~ O!Ready(p, m)
  BY <1>4, <1>6
<1>7. CASE O!Ready(p, m)
  <2>1. p.sm[m].wait # O!Running
    BY <1>7 DEF O!Ready, O!Running
  <2> DEFINE due == 1 + p.sm[m].delay
  <2>2. p.sm[m].delay \in 0 .. 31 /\ p.next \in Int
    BY <1>1 DEF PioHolds, Bounded, PioState
  <2>3. /\ e.next = O!Earlier(p.next, due) /\ \A n \in Machines \ {m} : e.sm[n] = q.sm[n]
        /\ e.sm[m].wait = O!Running /\ e.sm[m].on = p.sm[m].on /\ e.sm[m].delay = 0
        /\ e.sm[m].due = IF p.sm[m].on THEN due ELSE 0
    <3>1. q.next = p.next /\ q.sm[m].delay = p.sm[m].delay /\ q.sm[m].on = p.sm[m].on
      BY <1>3 DEF SameTimes
    <3> QED BY <1>2, <1>4, <1>7, <3>1, UnstalledIs
  <2> HIDE DEF e
  <2>4. Bounded(e.sm[m]) /\ m \notin held
    BY <2>1, <2>2, <2>3 DEF Bounded, PioHolds
  <2>5. ASSUME NEW n \in Machines \ {m}
        PROVE  Bounded(e.sm[n]) /\ (n \in held => e.sm[n].wait = O!Running /\ e.sm[n].due <= 0)
    BY <1>3, <2>3 DEF Bounded, PioHolds, SameTimes
  <2>6. e \in PioHolds(held)
    BY <1>5, <2>4, <2>5 DEF PioHolds
  <2>7. ASSUME p \in PioTimed PROVE e \in PioTimed
    <3>1. e \in PioHolds({})
      BY <2>6 DEF PioHolds
    <3>2. e.next \in Int /\ e.next <= p.next /\ e.next <= due
      BY <2>2, <2>3 DEF O!Earlier
    <3>3. ASSUME NEW n \in O!Runnable(e) PROVE e.next <= e.sm[n].due
      <4>1. CASE n = m
        <5>1. e.sm[m].on
          BY <3>3, <4>1 DEF O!Runnable
        <5> QED BY <2>3, <3>2, <4>1, <5>1
      <4>2. CASE n # m
        <5>1. n \in Machines \ {m}
          BY <3>3, <4>2 DEF O!Runnable
        <5>2. n \in O!Runnable(p) /\ e.sm[n].due = p.sm[n].due
          BY <1>3, <2>3, <3>3, <5>1 DEF O!Runnable, SameTimes
        <5>3. p.next <= p.sm[n].due /\ p.sm[n].due \in Int
          BY <1>1, <2>7, <5>1, <5>2 DEF PioTimed, PioState, MachineState
        <5> QED BY <2>2, <3>2, <5>2, <5>3
      <4> QED BY <4>1, <4>2
    <3> QED BY <3>1, <3>3 DEF PioTimed
  <2> QED BY <2>6, <2>7 DEF e
<1> QED BY <1>6, <1>7

LEMMA IrqUpdatedHolds ==
  ASSUME NEW held, NEW p \in PioHolds(held)
  PROVE  O!IrqUpdated(p) \in PioHolds(held) /\ (p \in PioTimed => O!IrqUpdated(p) \in PioTimed)
<1> DEFINE e == O!FoldLeft(O!CheckWait, p, O!Order)
<1>1. e \in PioHolds(held)
  <2>1. \A t \in PioHolds(held), m \in Machines : O!CheckWait(t, m) \in PioHolds(held)
    BY CheckWaitHolds
  <2> QED BY <2>1, EveryoneLooks
<1>2. ASSUME p \in PioTimed PROVE e \in PioTimed
  <2>1. \A t \in PioTimed : t \in PioHolds({})
    BY DEF PioTimed
  <2>2. \A t \in PioTimed, m \in Machines : O!CheckWait(t, m) \in PioTimed
    BY <2>1, CheckWaitHolds
  <2> QED BY <1>2, <2>2, EveryoneLooks
<1>3. O!IrqUpdated(p) = O!CheckInterrupts(e)
  BY DEF O!IrqUpdated
<1> HIDE DEF e
<1>4. e \in TellsNow /\ e \in PioState
  BY <1>1 DEF PioHolds, TellsNow, TellsBut
<1>5. O!CheckInterrupts(e) \in TellsNow
  BY <1>4, PioCheckTells DEF TellsNow
<1>6. SameTimes(O!CheckInterrupts(e), e)
  BY <1>4, UpdateDmaSame
<1> QED BY <1>1, <1>2, <1>3, <1>5, <1>6, SameTimesKeep

\* A flag, the pin and the interrupt enables have no time.
LEMMA FieldHolds ==
  ASSUME NEW held, NEW p \in PioHolds(held)
  PROVE  /\ \A x \in BOOLEAN :
              /\ [p EXCEPT !.flag = x] \in PioHolds(held) /\ [p EXCEPT !.pin = x] \in PioHolds(held)
              /\ p \in PioTimed => [p EXCEPT !.flag = x] \in PioTimed /\ [p EXCEPT !.pin = x] \in PioTimed
         /\ \A s \in SUBSET O!Interrupts : p \in PioTimed => O!CheckInterrupts([p EXCEPT !.inte = s]) \in PioTimed
<1>1. p \in TellsNow /\ p \in PioState
  BY DEF PioHolds, TellsNow, TellsBut
<1>2. ASSUME NEW x \in BOOLEAN
      PROVE  /\ [p EXCEPT !.flag = x] \in PioHolds(held) /\ [p EXCEPT !.pin = x] \in PioHolds(held)
             /\ p \in PioTimed => [p EXCEPT !.flag = x] \in PioTimed /\ [p EXCEPT !.pin = x] \in PioTimed
  <2> DEFINE a == [p EXCEPT !.flag = x]
             b == [p EXCEPT !.pin = x]
  <2>1. a \in TellsNow /\ b \in TellsNow /\ SameTimes(a, p) /\ SameTimes(b, p)
    BY <1>1, FieldTells, FieldSame
  <2> HIDE DEF a, b
  <2>2. a \in PioHolds(held) /\ b \in PioHolds(held) /\ (p \in PioTimed => a \in PioTimed /\ b \in PioTimed)
    BY <2>1, SameTimesKeep
  <2> QED BY <2>2 DEF a, b
<1>3. ASSUME NEW s \in SUBSET O!Interrupts, p \in PioTimed PROVE O!CheckInterrupts([p EXCEPT !.inte = s]) \in PioTimed
  <2> DEFINE a == [p EXCEPT !.inte = s]
  <2>1. a \in TellsNow /\ SameTimes(a, p)
    BY <1>1, FieldTells, FieldSame
  <2> HIDE DEF a
  <2>2. a \in PioTimed
    BY <1>3, <2>1, SameTimesKeep
  <2>5. O!CheckInterrupts(a) \in TellsNow
    BY <2>1, PioCheckTells DEF TellsNow
  <2>3. O!CheckInterrupts(a) \in TellsNow /\ a \in PioState
    BY <2>1, <2>5 DEF TellsNow, TellsBut
  <2>4. SameTimes(O!CheckInterrupts(a), a)
    BY <2>3, UpdateDmaSame
  <2> QED BY <2>2, <2>3, <2>4, SameTimesKeep DEF a
<1> QED BY <1>2, <1>3

\* A machine that is not held stalls, or is due again.
LEMMA WaitHolds ==
  ASSUME NEW held, NEW p \in PioHolds(held), NEW m \in Machines, m \notin held
  PROVE  /\ \A for \in O!Waits, delay \in 0 .. 31 : O!Wait(p, m, for, delay) \in PioHolds(held)
         /\ \A due \in Int : due <= 32 => [p EXCEPT !.sm[m].due = due] \in PioHolds(held)
<1>1. p \in TellsNow /\ p \in PioState /\ p.sm[m] \in MachineState
  BY DEF PioHolds, TellsNow, TellsBut, PioState
<1>2. ASSUME NEW r \in MachineState, Bounded(r), [p EXCEPT !.sm[m] = r] \in TellsNow
      PROVE  [p EXCEPT !.sm[m] = r] \in PioHolds(held)
  <2> DEFINE e == [p EXCEPT !.sm[m] = r]
  <2>1. e.sm[m] = r /\ \A n \in Machines \ {m} : e.sm[n] = p.sm[n]
    BY <1>1, MachineChanges
  <2> HIDE DEF e
  <2>2. e \in TellsNow
    BY <1>2 DEF e
  <2>3. e \in PioHolds(held)
    BY <1>2, <2>1, <2>2 DEF PioHolds
  <2> QED BY <2>3 DEF e
<1>3. ASSUME NEW for \in O!Waits, NEW delay \in 0 .. 31 PROVE O!Wait(p, m, for, delay) \in PioHolds(held)
  <2> DEFINE r == [p.sm[m] EXCEPT !.wait = for, !.delay = delay]
  <2>1. r \in MachineState /\ r.delay = delay /\ r.due = p.sm[m].due
    <3>1. ASSUME NEW d \in Int
          PROVE  LET q == [p.sm[m] EXCEPT !.wait = for, !.delay = d]
                 IN  q \in MachineState /\ q.delay = d /\ q.due = p.sm[m].due
      BY <1>1 DEF MachineState
    <3>2. delay \in Int
      OBVIOUS
    <3> QED BY <3>1, <3>2, Zenon
  <2>2. O!Wait(p, m, for, delay) = [p EXCEPT !.sm[m] = r]
    BY <1>1 DEF O!Wait, PioState, MachineState
  <2>3. O!Wait(p, m, for, delay) \in TellsNow
    BY <1>1, WaitTells
  <2> HIDE DEF r
  <2>4. Bounded(r)
    BY <2>1 DEF PioHolds, Bounded
  <2> QED BY <1>2, <2>1, <2>2, <2>3, <2>4
<1>4. ASSUME NEW due \in Int, due <= 32 PROVE [p EXCEPT !.sm[m].due = due] \in PioHolds(held)
  <2> DEFINE r == [p.sm[m] EXCEPT !.due = due]
  <2>1. r \in MachineState /\ r.delay = p.sm[m].delay /\ r.due = due
    BY <1>1 DEF MachineState
  <2>2. [p EXCEPT !.sm[m].due = due] = [p EXCEPT !.sm[m] = r]
    OBVIOUS
  <2>3. [p EXCEPT !.sm[m].due = due] \in TellsNow
    BY <1>1, WaitTells
  <2> HIDE DEF r
  <2>4. Bounded(r)
    BY <1>4, <2>1 DEF PioHolds, Bounded
  <2> QED BY <1>2, <2>1, <2>2, <2>3, <2>4
<1> QED BY <1>3, <1>4

LEMMA PushPullHold ==
  ASSUME NEW held, NEW p \in PioHolds(held), NEW m \in Machines
  PROVE  O!Push(p, m) \in PioHolds(held) /\ O!Pull(p, m) \in PioHolds(held)
<1>1. p \in TellsNow
  BY DEF PioHolds
<1> QED BY <1>1, PushPullTell, PushPullSame, SameTimesKeep

LEMMA EffectHolds ==
  ASSUME NEW held, NEW p \in PioHolds(held), NEW m \in Machines, m \notin held,
         NEW instruction \in O!Instructions, NEW delay \in 0 .. 31
  PROVE  /\ O!Effect(p, m, instruction, delay) \in PioHolds(held)
         /\ O!ExecuteInstruction(p, m, instruction, delay) \in PioHolds(held)
<1>1. O!Push(p, m) \in PioHolds(held) /\ O!Pull(p, m) \in PioHolds(held)
  BY PushPullHold
<1>2. \A for \in O!Waits : O!Wait(p, m, for, delay) \in PioHolds(held)
  BY WaitHolds
<1>3. \A x \in BOOLEAN : O!IrqUpdated([p EXCEPT !.flag = x]) \in PioHolds(held)
  <2>1. \A x \in BOOLEAN : [p EXCEPT !.flag = x] \in PioHolds(held)
    BY FieldHolds
  <2> QED BY <2>1, IrqUpdatedHolds
<1>4. O!Wait(O!IrqUpdated([p EXCEPT !.flag = TRUE]), m, "IRQ clear", delay) \in PioHolds(held)
  BY <1>3, WaitHolds DEF O!Waits
<1> DEFINE t == O!Effect(p, m, instruction, delay)
<1>5. t \in PioHolds(held)
  BY <1>1, <1>2, <1>3, <1>4 DEF O!Effect, O!Waits
<1>6. O!ExecuteInstruction(p, m, instruction, delay) = O!CheckWait(t, m)
  BY DEF O!ExecuteInstruction
<1> HIDE DEF t
<1> QED BY <1>5, <1>6, CheckWaitHolds DEF t

\* A machine that was due executes.
LEMMA SteppedHolds ==
  ASSUME NEW held, NEW m \in Machines, m \notin held, NEW p \in PioHolds(held \cup {m}),
         NEW instruction \in O!Instructions, NEW delay \in 0 .. 31
  PROVE  O!Stepped(p, m, instruction, delay) \in PioHolds(held)
<1> DEFINE t == O!Effect(p, m, instruction, delay)
           u == O!CheckWait(t, m)
           from == IF p.sm[m].due < - MaxArrears THEN 0 ELSE p.sm[m].due
<1>1. p \in PioHolds(held) /\ p.sm[m].due <= 0 /\ p.sm[m].due \in Int
  BY DEF PioHolds, TellsNow, TellsBut, PioState, MachineState
<1>2. t \in PioHolds(held) /\ u \in PioHolds(held)
  BY <1>1, EffectHolds, CheckWaitHolds
<1>3. from + 1 + delay \in Int /\ from + 1 + delay <= 32
  BY <1>1
<1>4. O!Stepped(p, m, instruction, delay) \in {[t EXCEPT !.sm[m].due = from + 1 + delay], u, [u EXCEPT !.sm[m].due = 0]}
  BY DEF O!Stepped
<1> HIDE DEF t, u, from
<1>5. [t EXCEPT !.sm[m].due = from + 1 + delay] \in PioHolds(held)
  BY <1>2, <1>3, WaitHolds
<1>6. [u EXCEPT !.sm[m].due = 0] \in PioHolds(held)
  <2>1. 0 \in Int /\ 0 <= 32
    OBVIOUS
  <2> QED BY <1>2, <2>1, WaitHolds
<1> QED BY <1>2, <1>4, <1>5, <1>6

\* _recompute_due() finds the earliest time.
LEMMA RecomputeDueHolds ==
  ASSUME NEW p \in PioHolds({})
  PROVE  O!RecomputeDue(p) \in PioTimed
<1> DEFINE earliest == O!FoldLeft(LAMBDA d, m : IF m \in O!Runnable(p) THEN O!Earlier(d, p.sm[m].due) ELSE d, O!Never, O!Order)
           e == O!RecomputeDue(p)
<1>1. p \in TellsNow /\ p \in PioState
  BY DEF PioHolds, TellsNow, TellsBut
<1>2. earliest \in Int /\ \A m \in O!Runnable(p) : earliest <= p.sm[m].due
  BY <1>1, EarliestIs
<1>3. e = [p EXCEPT !.next = earliest]
  BY DEF O!RecomputeDue
<1>4. e \in TellsNow
  BY <1>1, RecomputeDueTells
<1> HIDE DEF earliest, e
<1>5. e.sm = p.sm /\ e.next = earliest
  BY <1>1, <1>3 DEF PioState
<1>6. e \in PioHolds({})
  BY <1>4, <1>5 DEF PioHolds
<1>7. O!Runnable(e) = O!Runnable(p)
  BY <1>5 DEF O!Runnable
<1> QED BY <1>2, <1>5, <1>6, <1>7 DEF PioTimed, e

\* All that are due get as much earlier as the time of the block.
LEMMA MovedHolds ==
  ASSUME NEW p \in PioTimed, NEW cycles \in Nat
  PROVE  O!Moved(p, cycles) \in PioTimed
<1> DEFINE from(due) == IF due - cycles < - MaxArrears THEN - MaxArrears - 1 ELSE due - cycles
           e == O!Moved(p, cycles)
<1>1. p \in TellsNow /\ p \in PioState /\ p.next \in Int /\ \A m \in Machines : p.sm[m] \in MachineState /\ Bounded(p.sm[m])
  BY DEF PioTimed, PioHolds, TellsNow, TellsBut, PioState
<1>2. e \in TellsNow
  BY <1>1, MovedTells
<1>3. MaxArrears \in Nat /\ O!Never = MaxArrears + 100
  BY PeripheralsAssumption DEF O!PioAssumption, O!Never
<1>4. /\ e.next = IF p.next = O!Never THEN O!Never ELSE from(p.next)
      /\ \A m \in Machines : e.sm[m] = IF m \in O!Runnable(p) THEN [p.sm[m] EXCEPT !.due = from(p.sm[m].due)] ELSE p.sm[m]
  BY <1>1 DEF O!Moved, PioState
<1>5. \A a, b \in Int : /\ from(a) \in Int /\ (a <= b => from(a) <= from(b))
                        /\ a <= 32 => from(a) <= 32
  BY <1>3
<1> HIDE DEF from, e
<1>6. ASSUME NEW m \in Machines
      PROVE  Bounded(e.sm[m]) /\ e.sm[m].on = p.sm[m].on /\ e.sm[m].wait = p.sm[m].wait
  <2> DEFINE s == p.sm[m]
             due == from(s.due)
  <2>1. s \in MachineState /\ Bounded(s)
    BY <1>1
  <2>4. s.due \in Int
    BY <2>1 DEF MachineState
  <2>2. due \in Int /\ due <= 32
    BY <1>5, <2>1, <2>4 DEF Bounded
  <2>3. e.sm[m] = s \/ e.sm[m] = [s EXCEPT !.due = due]
    BY <1>4
  <2> HIDE DEF s, due
  <2> QED BY <2>1, <2>2, <2>3 DEF MachineState, Bounded, s
<1>7. O!Runnable(e) = O!Runnable(p)
  BY <1>6 DEF O!Runnable
<1>8. ASSUME NEW m \in O!Runnable(p) PROVE e.next <= e.sm[m].due
  <2>1. m \in Machines /\ p.next <= p.sm[m].due /\ p.sm[m].due <= 32 /\ p.sm[m].due \in Int
    BY <1>1 DEF PioTimed, O!Runnable, Bounded, MachineState
  <2>2. p.next # O!Never
    BY <1>1, <1>3, <2>1
  <2>3. e.next = from(p.next) /\ e.sm[m] = [p.sm[m] EXCEPT !.due = from(p.sm[m].due)]
    BY <1>4, <2>1, <2>2
  <2>4. e.sm[m].due = from(p.sm[m].due)
    BY <1>1, <2>1, <2>3 DEF MachineState
  <2> QED BY <1>1, <1>5, <2>1, <2>3, <2>4
<1>9. e \in PioHolds({})
  BY <1>2, <1>6 DEF PioHolds, e
<1> QED BY <1>7, <1>8, <1>9 DEF PioTimed, e

\* The machines that are due have it behind them.
LEMMA RunDueHolds ==
  ASSUME NEW p \in PioHolds({}), NEW program, DOMAIN program = O!Due(p),
         \A m \in O!Due(p) : program[m][1] \in O!Instructions /\ program[m][2] \in 0 .. 31
  PROVE  O!RunDue(p, program) \in PioTimed
<1> DEFINE n == Cardinality(Machines)
           Later(k) == {m \in O!Due(p) : \E j \in k + 1 .. n : O!Order[j] = m}
           stage == [k \in 0 .. n |-> PioHolds(Later(k))]
           ran == AllStep(p, program)
<1>1. n \in Nat /\ \A k \in 1 .. n : O!Order[k] \in Machines
  BY OrderIs
<1>2. \A k \in 0 .. n : stage[k] = PioHolds(Later(k))
  OBVIOUS
<1> HIDE DEF stage
<1>3. p \in TellsNow
  BY DEF PioHolds
<1>4. p \in stage[0]
  <2>1. \A m \in Later(0) : p.sm[m].wait = O!Running /\ p.sm[m].due <= 0
    BY DEF O!Due, O!Runnable
  <2> HIDE DEF Later
  <2>2. p \in PioHolds(Later(0))
    BY <2>1 DEF PioHolds
  <2> QED BY <1>1, <1>2, <2>2
<1>5. ASSUME NEW k \in 0 .. n - 1, NEW t \in stage[k] \cap TellsNow
      PROVE  DueStep(program, t, O!Order[k + 1]) \in stage[k + 1]
  <2> DEFINE m == O!Order[k + 1]
             rest == Later(k + 1)
  <2>1. k + 1 \in 1 .. n /\ k \in 0 .. n /\ k + 1 \in 0 .. n
    BY <1>1
  <2>2. m \in Machines /\ \A j \in k + 2 .. n : O!Order[j] # m
    BY <1>1, <2>1, OrderIs
  <2>3. stage[k] = PioHolds(Later(k)) /\ stage[k + 1] = PioHolds(rest)
    BY <1>2, <2>1
  <2>4. m \notin rest /\ rest \subseteq Later(k)
    BY <2>1, <2>2
  <2>5. m \in O!Due(p) => Later(k) = rest \cup {m}
    BY <1>1, <2>1
  <2> HIDE DEF m, Later, rest
  <2>6. t \in PioHolds(rest)
    BY <2>3, <2>4 DEF PioHolds
  <2>7. ASSUME m \in O!Due(p) PROVE O!Stepped(t, m, program[m][1], program[m][2]) \in PioHolds(rest)
    <3>1. t \in PioHolds(rest \cup {m})
      BY <2>3, <2>5, <2>7
    <3> QED BY <2>2, <2>4, <2>7, <3>1, SteppedHolds
  <2>8. DueStep(program, t, m) \in PioHolds(rest)
    BY <2>6, <2>7 DEF DueStep
  <2> QED BY <2>3, <2>8 DEF m
<1> HIDE DEF Later
<1>6. \A m \in Machines : m \in DOMAIN program => program[m][1] \in O!Instructions /\ program[m][2] \in Int
  OBVIOUS
<1>7. ran \in stage[n] \cap TellsNow
  BY <1>3, <1>4, <1>5, <1>6, DueOnesStep
<1>8. ran \in PioHolds({})
  BY <1>1, <1>2, <1>7 DEF PioHolds
<1>9. O!RunDue(p, program) = O!RecomputeDue(ran)
  BY DEF O!RunDue, AllStep, DueStep
<1> HIDE DEF ran
<1> QED BY <1>8, <1>9, RecomputeDueHolds

\* Accesses to the FIFOs and changes of their join.
LEMMA AccessHolds ==
  ASSUME NEW p \in PioTimed, NEW m \in Machines
  PROVE  O!TxfWritten(p, m) \in PioTimed /\ O!RxfRead(p, m) \in PioTimed
<1> DEFINE more == [p EXCEPT !.sm[m].tx = p.sm[m].tx + 1]
           less == [p EXCEPT !.sm[m].rx = p.sm[m].rx - 1]
           toldTx == O!UpdateDma(more, "TX", m)
           toldRx == O!UpdateDma(less, "RX", m)
           filled == O!CheckWait(toldTx, m)
           drained == O!CheckWait(toldRx, m)
<1>1. p \in TellsNow /\ p \in PioState /\ p.sm[m].tx + 1 \in Int /\ p.sm[m].rx - 1 \in Int
  BY DEF PioTimed, PioHolds, TellsNow, TellsBut, PioState, MachineState
<1>2. toldTx \in TellsNow /\ toldRx \in TellsNow
  BY <1>1, AccessTells
<1>3. SameTimes(more, p) /\ SameTimes(less, p) /\ more \in PioState /\ less \in PioState
  BY <1>1, FifoSame
<1>5. O!TxfWritten(p, m) \in {p, filled, O!CheckInterrupts(filled)}
  BY DEF O!TxfWritten
<1>6. O!RxfRead(p, m) \in {p, drained, O!CheckInterrupts(drained)}
  BY DEF O!RxfRead
<1> HIDE DEF more, less
<1>4. SameTimes(toldTx, more) /\ SameTimes(toldRx, less)
  BY <1>3, UpdateDmaSame
<1> HIDE DEF toldTx, toldRx
<1>7. toldTx \in PioTimed /\ toldRx \in PioTimed
  <2>1. SameTimes(toldTx, p) /\ SameTimes(toldRx, p)
    BY <1>3, <1>4 DEF SameTimes
  <2> QED BY <1>2, <2>1, SameTimesKeep
<1>8. \A t \in PioTimed : O!CheckWait(t, m) \in PioTimed /\ O!CheckInterrupts(t) \in PioTimed
  <2> SUFFICES ASSUME NEW t \in PioTimed PROVE O!CheckWait(t, m) \in PioTimed /\ O!CheckInterrupts(t) \in PioTimed
    OBVIOUS
  <2>1. t \in PioHolds({}) /\ t \in TellsNow /\ t \in PioState
    BY DEF PioTimed, PioHolds, TellsNow, TellsBut
  <2>2. O!CheckInterrupts(t) \in TellsNow
    BY <2>1, PioCheckTells DEF TellsNow
  <2>3. SameTimes(O!CheckInterrupts(t), t)
    BY <2>1, UpdateDmaSame
  <2> QED BY <2>1, <2>2, <2>3, CheckWaitHolds, SameTimesKeep
<1> QED BY <1>5, <1>6, <1>7, <1>8

LEMMA JoinedHolds ==
  ASSUME NEW p \in PioTimed, NEW m \in Machines, NEW join \in {"none", "tx", "rx"}
  PROVE  O!Joined(p, m, join) \in PioTimed
<1> DEFINE r == [p.sm[m] EXCEPT !.join = join, !.tx = 0, !.rx = 0]
           t == [p EXCEPT !.sm[m] = r]
           one == O!UpdateDma(t, "RX", m)
           both == O!UpdateDma(one, "TX", m)
           e == O!CheckWait(both, m)
<1>1. p \in TellsNow /\ p \in PioState /\ p.sm[m] \in MachineState
  BY DEF PioTimed, PioHolds, TellsNow, TellsBut, PioState
<1>2. /\ r \in MachineState /\ r.on = p.sm[m].on /\ r.wait = p.sm[m].wait /\ r.delay = p.sm[m].delay /\ r.due = p.sm[m].due
  <2> DEFINE s == p.sm[m]
             n == 0
  <2>1. s \in MachineState /\ n \in Int
    BY <1>1
  <2>2. r = [s EXCEPT !.join = join, !.tx = n, !.rx = n]
    OBVIOUS
  <2> HIDE DEF r, n, s
  <2>3. r \in MachineState
    BY <2>1, <2>2 DEF MachineState
  <2>4. r.on = s.on /\ r.wait = s.wait /\ r.delay = s.delay /\ r.due = s.due
    BY <2>1, <2>2 DEF MachineState
  <2> QED BY <2>3, <2>4 DEF s
<1>3. t = [p EXCEPT !.sm[m].join = join, !.sm[m].tx = 0, !.sm[m].rx = 0]
  BY <1>1 DEF PioState, MachineState
<1> HIDE DEF r
<1>4. t \in PioState /\ t.up = p.up /\ t.next = p.next /\ t.sm[m] = r /\ \A k \in Machines \ {m} : t.sm[k] = p.sm[k]
  BY <1>1, <1>2, MachineChanges
<1>5. O!Joined(p, m, join) \in {p, O!CheckInterrupts(e)}
  BY <1>3 DEF O!Joined
<1> HIDE DEF t
<1>6. SameTimes(t, p)
  BY <1>2, <1>4 DEF SameTimes
<1>7. t \in TellsBut({} \cup {"TX", "RX"} \X {m})
  BY <1>1, <1>4, SameTells DEF TellsNow, SameFifos
<1>8. one \in TellsBut(({} \cup {"TX", "RX"} \X {m}) \ {<<"RX", m>>}) /\ SameTimes(one, t)
  BY <1>4, <1>7, UpdateDmaTells, UpdateDmaSame
<1> HIDE DEF one
<1>9. both \in TellsBut((({} \cup {"TX", "RX"} \X {m}) \ {<<"RX", m>>}) \ {<<"TX", m>>})
  BY <1>8, UpdateDmaTells
<1>10. (({} \cup {"TX", "RX"} \X {m}) \ {<<"RX", m>>}) \ {<<"TX", m>>} = {} /\ one \in PioState
  BY <1>8 DEF TellsBut
<1>11. SameTimes(both, one)
  BY <1>10, UpdateDmaSame
<1> HIDE DEF both
<1>12. both \in PioTimed
  <2>1. SameTimes(both, p) /\ both \in TellsNow
    BY <1>6, <1>8, <1>9, <1>10, <1>11 DEF SameTimes, TellsNow
  <2> QED BY <2>1, SameTimesKeep
<1>13. e \in PioTimed
  BY <1>12, CheckWaitHolds DEF PioTimed
<1> HIDE DEF e
<1>14. O!CheckInterrupts(e) \in PioTimed
  <2>1. e \in TellsNow /\ e \in PioState
    BY <1>13 DEF PioTimed, PioHolds, TellsNow, TellsBut
  <2>2. O!CheckInterrupts(e) \in TellsNow
    BY <2>1, PioCheckTells DEF TellsNow
  <2>3. SameTimes(O!CheckInterrupts(e), e)
    BY <2>1, UpdateDmaSame
  <2> QED BY <1>13, <2>2, <2>3, SameTimesKeep
<1> QED BY <1>5, <1>14

\* A write of CTRL makes machines due now or in a cycle, or leaves them due when they are.
LEMMA CtrlHolds ==
  ASSUME NEW p \in PioTimed, NEW on, NEW restarted, NEW phased
  PROVE  O!CtrlWritten(p, on, restarted, phased) \in PioTimed
<1> DEFINE First(m) == IF m \in on /\ ~ p.sm[m].on THEN [p.sm[m] EXCEPT !.due = 0] ELSE p.sm[m]
           Second(m) == IF m \in restarted THEN [First(m) EXCEPT !.wait = O!Running, !.delay = 0, !.due = 0] ELSE First(m)
           Third(m) == IF m \in phased THEN [Second(m) EXCEPT !.due = 1] ELSE Second(m)
           Machine(m) == [Third(m) EXCEPT !.on = m \in on,
                                          !.due = IF m \in on /\ Third(m).wait = O!Running THEN Third(m).due ELSE 0]
           sm == [m \in Machines |-> Machine(m)]
           e == [p EXCEPT !.sm = sm]
<1>1. p \in PioState /\ p \in TellsNow /\ \A m \in Machines : p.sm[m] \in MachineState /\ Bounded(p.sm[m])
  BY DEF PioTimed, PioHolds, TellsNow, TellsBut, PioState
<1>2. O!CtrlWritten(p, on, restarted, phased) = O!RecomputeDue(e)
  BY DEF O!CtrlWritten
<1>3. ASSUME NEW m \in Machines PROVE Machine(m) \in MachineState /\ SameFifos(Machine(m), p.sm[m]) /\ Bounded(Machine(m))
  <2> DEFINE s == p.sm[m]
             Like == {r \in MachineState : SameFifos(r, s) /\ Bounded(r)}
  <2>1. \A r \in Like, d \in Int : d <= 32 => [r EXCEPT !.due = d] \in Like
    BY DEF MachineState, SameFifos, Bounded
  <2>2. \A r \in Like : [r EXCEPT !.wait = O!Running, !.delay = 0, !.due = 0] \in Like
    <3> SUFFICES ASSUME NEW r \in Like PROVE [r EXCEPT !.wait = O!Running, !.delay = 0, !.due = 0] \in Like
      OBVIOUS
    <3> DEFINE q == [r EXCEPT !.wait = O!Running, !.delay = 0, !.due = 0]
    <3>1. q \in MachineState /\ SameFifos(q, r)
      <4>1. 0 \in Int
        OBVIOUS
      <4> QED BY <4>1, MachineWaits
    <3>2. q.delay = 0 /\ q.due = 0
      BY DEF MachineState
    <3> HIDE DEF q
    <3>3. q \in Like
      BY <3>1, <3>2 DEF SameFifos, Bounded
    <3> QED BY <3>3 DEF q
  <2>3. \A r \in Like, x \in BOOLEAN, d \in Int : d <= 32 => [r EXCEPT !.on = x, !.due = d] \in Like
    BY DEF MachineState, SameFifos, Bounded
  <2>4. s \in Like
    BY <1>1 DEF SameFifos
  <2> HIDE DEF Like, s
  <2>5. First(m) \in Like
    <3>1. First(m) \in {s, [s EXCEPT !.due = 0]}
      BY DEF s
    <3> QED BY <2>1, <2>4, <3>1
  <2> HIDE DEF First
  <2>6. Second(m) \in Like
    BY <2>2, <2>5
  <2> HIDE DEF Second
  <2>7. Third(m) \in Like
    BY <2>1, <2>6
  <2> HIDE DEF Third
  <2>8. LET due == IF m \in on /\ Third(m).wait = O!Running THEN Third(m).due ELSE 0
        IN  (m \in on) \in BOOLEAN /\ due \in Int /\ due <= 32
    BY <2>7 DEF Like, MachineState, Bounded
  <2>9. Machine(m) \in Like
    BY <2>3, <2>7, <2>8
  <2> QED BY <2>9 DEF Like, s
<1> HIDE DEF Machine
<1>4. sm \in [Machines -> MachineState]
  BY <1>3
<1>5. e \in PioState /\ e.up = p.up /\ e.sm = sm
  <2> HIDE DEF sm
  <2> QED BY <1>1, <1>4 DEF PioState
<1>6. \A m \in Machines : SameFifos(e.sm[m], p.sm[m]) /\ Bounded(e.sm[m])
  BY <1>3, <1>5
<1> HIDE DEF e
<1>7. e \in TellsBut({} \cup {"TX", "RX"} \X {})
  BY <1>1, <1>5, <1>6, SameTells DEF TellsNow
<1>8. e \in PioHolds({})
  BY <1>6, <1>7 DEF PioHolds, TellsNow
<1> QED BY <1>2, <1>8, RecomputeDueHolds

LEMMA PioBegins ==
  ASSUME NEW pin \in BOOLEAN
  PROVE  O!PowerOn(pin) \in PioTimed
<1>1. /\ O!PowerOn(pin) \in TellsNow
      /\ \A m \in Machines : ~ O!PowerOn(pin).sm[m].on /\ O!PowerOn(pin).sm[m].delay = 0 /\ O!PowerOn(pin).sm[m].due = 0
  BY PioOn DEF O!PowerOn
<1>2. O!PowerOn(pin) \in PioHolds({})
  BY <1>1 DEF PioHolds, Bounded
<1> QED BY <1>1, <1>2 DEF PioTimed, O!Runnable

LEMMA PioStaysTimed ==
  ASSUME state \in PioTimed, O!Next
  PROVE  state' \in PioTimed
<1>1. /\ \A m \in Machines : Programs[m] \subseteq O!Instructions
      /\ PioDelays \subseteq 0 .. 31 /\ PioCycles \subseteq Nat /\ Joins \subseteq {"none", "tx", "rx"}
      /\ PioEnables \subseteq SUBSET O!Interrupts
  BY PeripheralsAssumption DEF O!PioAssumption
<1>2. state \in PioHolds({}) /\ state.pin \in BOOLEAN
  BY DEF PioTimed, PioHolds, TellsNow, TellsBut, PioState
<1>3. CASE O!Advance
  <2> DEFINE Instruction == (UNION {Programs[m] : m \in Machines}) \X PioDelays
  <2>1. PICK cycles \in PioCycles :
          LET p == O!Moved(state, cycles)
          IN  \/ state' = p
              \/ \E program \in [O!Due(p) -> Instruction] : state' = O!RunDue(p, program)
    BY <1>3 DEF O!Advance
  <2> DEFINE p == O!Moved(state, cycles)
  <2>2. p \in PioTimed
    BY <1>1, MovedHolds
  <2>3. Instruction \subseteq O!Instructions \X (0 .. 31)
    BY <1>1
  <2> HIDE DEF p, Instruction
  <2>4. ASSUME NEW program \in [O!Due(p) -> Instruction], state' = O!RunDue(p, program)
        PROVE  state' \in PioTimed
    <3>1. DOMAIN program = O!Due(p) /\ \A m \in O!Due(p) : program[m] \in O!Instructions \X (0 .. 31)
      BY <2>3, <2>4
    <3>2. \A m \in O!Due(p) : program[m][1] \in O!Instructions /\ program[m][2] \in 0 .. 31
      BY <3>1
    <3>3. p \in PioHolds({})
      BY <2>2 DEF PioTimed
    <3> QED BY <2>4, <3>1, <3>2, <3>3, RunDueHolds
  <2> QED BY <2>1, <2>2, <2>4 DEF p
<1>4. CASE O!WriteTxf \/ O!ReadRxf
  BY <1>4, AccessHolds DEF O!WriteTxf, O!ReadRxf
<1>5. CASE O!WriteShiftctrl
  BY <1>1, <1>5, JoinedHolds DEF O!WriteShiftctrl
<1>6. CASE O!WriteInstr
  <2>1. PICK m \in Machines :
          \E instruction \in Programs[m], delay \in PioDelays :
            state' = O!RecomputeDue(O!ExecuteInstruction(state, m, instruction, delay))
    BY <1>6 DEF O!WriteInstr
  <2>2. PICK instruction \in Programs[m], delay \in PioDelays :
          state' = O!RecomputeDue(O!ExecuteInstruction(state, m, instruction, delay))
    BY <2>1
  <2>3. O!ExecuteInstruction(state, m, instruction, delay) \in PioHolds({})
    BY <1>1, <1>2, EffectHolds
  <2> QED BY <2>2, <2>3, RecomputeDueHolds
<1>7. CASE O!WriteCtrl
  BY <1>7, CtrlHolds DEF O!WriteCtrl
<1>8. CASE O!WriteIrq \/ O!WriteIrqForce
  <2>1. \A x \in BOOLEAN : [state EXCEPT !.flag = x] \in PioTimed
    BY <1>2, FieldHolds
  <2>2. \A p \in PioTimed : O!IrqUpdated(p) \in PioTimed
    BY IrqUpdatedHolds DEF PioTimed
  <2> QED BY <1>8, <2>1, <2>2 DEF O!WriteIrq, O!WriteIrqForce
<1>9. CASE O!PinChanges
  <2> DEFINE p == [state EXCEPT !.pin = ~ state.pin]
  <2>1. (~ state.pin) \in BOOLEAN
    OBVIOUS
  <2>2. p \in PioTimed
    BY <1>2, <2>1, FieldHolds
  <2>3. \A t \in PioTimed, m \in Machines : O!CheckWait(t, m) \in PioTimed
    BY CheckWaitHolds DEF PioTimed
  <2> QED BY <1>9, <2>2, <2>3, EnabledOnesLook DEF O!PinChanges
<1>10. CASE O!WriteInte
  BY <1>1, <1>2, <1>10, FieldHolds DEF O!WriteInte
<1>11. CASE O!Reset
  BY <1>2, <1>11, PioBegins DEF O!Reset
<1> QED BY <1>3, <1>4, <1>5, <1>6, <1>7, <1>8, <1>9, <1>10, <1>11 DEF O!Next

-----------------------------------------------------------------------------
(* The alarms of the timer, and its count. *)

TimerState ==
  [count : Int, sub : Nat, elapsed : Nat, period : Nat, paused : BOOLEAN, armed : SUBSET Alarms,
   target : [Alarms -> 0 .. Low - 1], due : [Alarms -> Int], raw : SUBSET Alarms, inte : SUBSET Alarms,
   intf : SUBSET Alarms, lines : SUBSET Alarms]

\* The alarm d ticks ahead is for the first tick at which the low word is n.
OnTarget(t, d, n) == d \in Nat /\ T!LowIn(t, d) = n /\ \A e \in 0 .. d - 1 : T!LowIn(t, e) # n

TimerTimed(t) ==
  /\ t \in TimerState
  /\ \A a \in Alarms : IF a \in t.armed /\ ~ T!Frozen(t) THEN OnTarget(t, t.due[a], t.target[a]) ELSE t.due[a] = T!Never

LEMMA TicksToTarget ==
  ASSUME NEW t \in TimerState, ~ T!Frozen(t), NEW n \in 0 .. Low - 1
  PROVE  OnTarget(t, T!TicksTo(t, n), n)
<1> DEFINE p == t.period
           count == t.count
           total == T!Total(t)
           q == total \div p
           r == total % p
           c == (n - count - q) % Low
           d == T!TicksTo(t, n)
<1>0. Low \in Nat \ {0} /\ p \in Nat \ {0} /\ count \in Int /\ total \in Nat /\ n \in 0 .. Low - 1
  BY PeripheralsAssumption DEF T!TimerAssumption, TimerState, T!Frozen, T!Total
<1>5. c = (n - count - q) % Low /\ d = IF c = 0 THEN 0 ELSE (q + c) * p - total
  BY DEF T!TicksTo, T!Passed
<1>6. \A e : T!LowIn(t, e) = (count + ((total + e) \div p)) % Low
  BY DEF T!LowIn
<1> HIDE DEF p, count, total, c, d
<1>1. q \in Int /\ r \in 0 .. p - 1 /\ total = p * q + r
  BY <1>0, Division
<1> HIDE DEF q, r
<1>2. /\ c \in 0 .. Low - 1 /\ ((count + q) + c) % Low = n
      /\ \A j \in 0 .. c - 1 : ((count + q) + j) % Low # n
  <2> DEFINE now == count + q
  <2>1. now \in Int /\ (n - now) % Low = c
    BY <1>0, <1>1, <1>5
  <2> HIDE DEF now
  <2>2. LET ahead == (n - now) % Low
        IN  /\ ahead \in 0 .. Low - 1 /\ (now + ahead) % Low = n
            /\ \A j \in 0 .. ahead - 1 : (now + j) % Low # n
    BY <1>0, <2>1, TargetIsAhead
  <2> QED BY <1>0, <2>1, <2>2 DEF now
<1> DEFINE Right == /\ d \in Nat /\ (count + ((total + d) \div p)) % Low = n
                    /\ \A e \in 0 .. d - 1 : (count + ((total + e) \div p)) % Low # n
<1>3. ASSUME c = 0 PROVE Right
  <2>1. d = 0 /\ total + d = total /\ (count + q) + c = count + q
    BY <1>0, <1>1, <1>3, <1>5
  <2>2. (count + (total \div p)) % Low = n
    BY <1>0, <1>2, <2>1 DEF q
  <2>3. 0 .. d - 1 = {}
    BY <1>0, <2>1
  <2> QED BY <1>0, <2>1, <2>2, <2>3
<1>4. ASSUME c # 0 PROVE Right
  <2>1. d = (q + c) * p - total
    BY <1>0, <1>4, <1>5
  <2>2. p * c \in Int /\ p * c >= p /\ p * q \in Int
    <3>1. \A x \in Int : x >= 1 => p * x >= p
      BY <1>0
    <3>2. c >= 1
      BY <1>0, <1>2, <1>4
    <3> QED BY <1>0, <1>1, <1>2, <3>1, <3>2
  <2>3. (q + c) * p = p * q + p * c /\ p * (q + c) = p * q + p * c
    BY <1>0, <1>1, <1>2
  <2>4. d = p * c - r /\ d \in Nat
    BY <1>0, <1>1, <2>1, <2>2, <2>3
  <2>5. (total + d) \div p = q + c
    <3> DEFINE f == q + c
               z == 0
    <3>1. f \in Int /\ z \in 0 .. p - 1 /\ total + d = p * f + z
      BY <1>0, <1>1, <1>2, <2>2, <2>3, <2>4
    <3> HIDE DEF f, z
    <3>2. (p * f + z) \div p = f
      BY <1>0, <3>1, DivisionIsUnique
    <3>3. (total + d) \div p = f
      BY <1>0, <3>1, <3>2, Zenon
    <3> QED BY <1>0, <3>3 DEF f
  <2>6. count + (q + c) = (count + q) + c
    BY <1>0, <1>1, <1>2
  <2>7. (count + ((total + d) \div p)) % Low = n
    BY <1>0, <1>2, <2>5, <2>6
  <2>8. ASSUME NEW e \in 0 .. d - 1 PROVE (count + ((total + e) \div p)) % Low # n
    <3> DEFINE s == total + e
               f == s \div p
               g == s % p
    <3>1. s \in Int /\ s >= p * q /\ s < p * q + p * c
      BY <1>0, <1>1, <2>2, <2>4
    <3> HIDE DEF s
    <3>2. f \in Int /\ g \in 0 .. p - 1 /\ s = p * f + g
      BY <1>0, <3>1, Division
    <3> HIDE DEF f, g
    <3>3. p * f \in Int
      BY <1>0, <3>2
    <3>4. ~ (f - q <= -1)
      <4>1. ASSUME f - q <= -1 PROVE p * f + p <= p * q
        <5>1. f - q + 1 \in Int /\ f - q + 1 <= 0
          BY <1>0, <1>1, <3>2, <4>1
        <5>2. \A x \in Int : x <= 0 => p * x <= 0
          BY <1>0
        <5>3. p * (f - q + 1) <= 0
          BY <1>0, <5>1, <5>2
        <5>4. p * (f - q + 1) = p * f - p * q + p
          BY <1>0, <1>1, <3>2
        <5> QED BY <1>0, <2>2, <3>3, <5>3, <5>4
      <4> QED BY <1>0, <2>2, <3>1, <3>2, <3>3, <4>1
    <3>5. ~ (f - q >= c)
      <4>1. ASSUME f - q >= c PROVE p * f >= p * q + p * c
        <5>1. f - q - c \in Int /\ f - q - c >= 0
          BY <1>0, <1>1, <1>2, <3>2, <4>1
        <5>2. \A x \in Int : x >= 0 => p * x >= 0
          BY <1>0
        <5>3. p * (f - q - c) >= 0
          BY <1>0, <5>1, <5>2
        <5>4. p * (f - q - c) = p * f - p * q - p * c
          BY <1>0, <1>1, <1>2, <3>2
        <5> QED BY <1>0, <2>2, <3>3, <5>3, <5>4
      <4> QED BY <1>0, <2>2, <3>1, <3>2, <3>3, <4>1
    <3>6. f - q \in 0 .. c - 1
      BY <1>0, <1>1, <1>2, <3>2, <3>4, <3>5
    <3>7. (count + q) + (f - q) = count + f
      BY <1>0, <1>1, <3>2
    <3>8. (count + f) % Low # n
      BY <1>0, <1>2, <3>6, <3>7
    <3> QED BY <1>0, <3>8 DEF f, s
  <2> QED BY <1>0, <2>4, <2>7, <2>8
<1> HIDE DEF Right
<1>7. Right
  BY <1>3, <1>4
<1> QED BY <1>6, <1>7 DEF OnTarget, Right, d

\* Fields that the alarms do not depend on.
LEMMA TimerSame ==
  ASSUME NEW t, TimerTimed(t), NEW e \in TimerState, e.count = t.count, e.sub = t.sub, e.elapsed = t.elapsed,
         e.period = t.period, e.paused = t.paused,
         \A a \in Alarms : \/ e.due[a] = T!Never /\ (a \notin e.armed \/ T!Frozen(t))
                           \/ e.due[a] = t.due[a] /\ e.target[a] = t.target[a] /\ (a \in e.armed <=> a \in t.armed)
  PROVE  TimerTimed(e)
<1>1. T!Frozen(e) = T!Frozen(t)
  BY DEF T!Frozen
<1>2. \A d : T!LowIn(e, d) = T!LowIn(t, d)
  BY DEF T!LowIn, T!Total
<1>3. \A d, n : OnTarget(e, d, n) <=> OnTarget(t, d, n)
  BY <1>2 DEF OnTarget
<1> QED BY <1>1, <1>3 DEF TimerTimed

\* Whatever the count and the rate have become, the armed alarms are timed anew.
LEMMA RescheduledAreTimed ==
  ASSUME NEW t \in TimerState, ~ T!Frozen(t), \A a \in Alarms \ t.armed : t.due[a] = T!Never
  PROVE  TimerTimed(T!RescheduleArmed(t))
<1> DEFINE due == [a \in Alarms |-> IF a \in t.armed THEN T!TicksTo(t, t.target[a]) ELSE t.due[a]]
           e == T!RescheduleArmed(t)
<1>1. \A a \in Alarms : OnTarget(t, T!TicksTo(t, t.target[a]), t.target[a])
  BY TicksToTarget DEF TimerState
<1>2. due \in [Alarms -> Int]
  BY <1>1 DEF OnTarget, TimerState
<1>3. e = [t EXCEPT !.due = due]
  BY DEF T!RescheduleArmed, T!Armed, TimerState
<1>4. \A a \in Alarms : due[a] = IF a \in t.armed THEN T!TicksTo(t, t.target[a]) ELSE T!Never
  OBVIOUS
<1> HIDE DEF due
<1>5. /\ e \in TimerState /\ e.due = due /\ e.count = t.count /\ e.sub = t.sub /\ e.elapsed = t.elapsed
      /\ e.period = t.period /\ e.paused = t.paused /\ e.armed = t.armed /\ e.target = t.target
  BY <1>2, <1>3 DEF TimerState
<1> HIDE DEF e
<1>6. ~ T!Frozen(e) /\ \A d, n : OnTarget(e, d, n) <=> OnTarget(t, d, n)
  BY <1>5 DEF T!Frozen, OnTarget, T!LowIn, T!Total
<1> QED BY <1>1, <1>4, <1>5, <1>6 DEF TimerTimed, e

\* A stopped count has no alarm with the clock.
LEMMA StoppedIsTimed ==
  ASSUME NEW t \in TimerState, T!Frozen(t)
  PROVE  TimerTimed([t EXCEPT !.due = [a \in Alarms |-> T!Never]])
<1> DEFINE due == [a \in Alarms |-> T!Never]
           e == [t EXCEPT !.due = due]
<1>1. due \in [Alarms -> Int] /\ \A a \in Alarms : due[a] = T!Never
  BY DEF T!Never
<1> HIDE DEF due
<1>2. e \in TimerState /\ e.due = due /\ e.period = t.period /\ e.paused = t.paused
  BY <1>1 DEF TimerState
<1> HIDE DEF e
<1>3. T!Frozen(e)
  BY <1>2 DEF T!Frozen
<1> QED BY <1>1, <1>2, <1>3 DEF TimerTimed, e, due

LEMMA AppliedIsTimed ==
  ASSUME NEW t, TimerTimed(t), NEW paused \in BOOLEAN, NEW period \in Nat
  PROVE  TimerTimed(T!Applied(t, paused, period))
<1>1. t \in TimerState /\ \A a \in Alarms \ t.armed : t.due[a] = T!Never
  BY DEF TimerTimed
<1>2. T!Count(t) \in Int /\ T!Sub(t) \in Nat
  <2>1. Low * High \in Nat \ {0}
    BY PeripheralsAssumption DEF T!TimerAssumption
  <2>2. T!Passed(t) \in Int
    <3>1. CASE T!Frozen(t)
      BY <3>1 DEF T!Passed
    <3>2. CASE ~ T!Frozen(t)
      <4>1. t.period \in Nat \ {0} /\ T!Total(t) \in Int
        BY <1>1, <3>2 DEF TimerState, T!Frozen, T!Total
      <4> QED BY <3>2, <4>1, Division DEF T!Passed
    <3> QED BY <3>1, <3>2
  <2>3. T!Sub(t) \in Nat
    <3>1. CASE T!Frozen(t)
      BY <1>1, <3>1 DEF T!Sub, TimerState
    <3>2. CASE ~ T!Frozen(t)
      <4>1. t.period \in Nat \ {0} /\ T!Total(t) \in Int
        BY <1>1, <3>2 DEF TimerState, T!Frozen, T!Total
      <4>2. (T!Total(t) % t.period) \in 0 .. t.period - 1
        BY <4>1, Division
      <4> QED BY <3>2, <4>1, <4>2 DEF T!Sub
    <3> QED BY <3>1, <3>2
  <2>4. t.count + T!Passed(t) \in Int
    BY <1>1, <2>2 DEF TimerState
  <2> DEFINE n == t.count + T!Passed(t)
             all == Low * High
  <2>5. T!Count(t) = n % all
    BY DEF T!Count
  <2>6. n \in Int /\ all \in Nat \ {0}
    BY <2>1, <2>4
  <2> HIDE DEF n, all
  <2>7. (n % all) \in 0 .. all - 1
    BY <2>6, Division
  <2> QED BY <2>3, <2>5, <2>6, <2>7
<1> DEFINE u == [t EXCEPT !.paused = paused, !.period = period, !.count = T!Count(t), !.elapsed = 0, !.sub = T!Sub(t)]
           v == [u EXCEPT !.sub = (u.sub * period) \div t.period]
           w == IF T!Frozen(t) THEN u ELSE v
<1>3. /\ u \in TimerState /\ u.armed = t.armed /\ u.due = t.due /\ u.sub = T!Sub(t)
      /\ u.period = period /\ u.paused = paused
  <2>1. 0 \in Nat
    OBVIOUS
  <2> QED BY <1>1, <1>2, <2>1 DEF TimerState
<1>4. T!Applied(t, paused, period) =
        IF T!Frozen(u) THEN [u EXCEPT !.due = [a \in Alarms |-> T!Never]] ELSE T!RescheduleArmed(w)
  BY DEF T!Applied
<1>5. ASSUME ~ T!Frozen(t) PROVE v \in TimerState /\ v.armed = t.armed /\ v.due = t.due /\ v.period = period /\ v.paused = paused
  <2>1. (u.sub * period) \div t.period \in Nat
    <3>1. t.period \in Nat \ {0} /\ u.sub * period \in Nat
      BY <1>1, <1>2, <1>3, <1>5 DEF TimerState, T!Frozen
    <3> DEFINE a == u.sub * period
    <3>2. \A x \in Nat, p \in Nat \ {0} : x \div p \in Nat
      OBVIOUS
    <3> HIDE DEF u
    <3> QED BY <3>1, <3>2
  <2> HIDE DEF u
  <2> QED BY <1>3, <2>1 DEF TimerState
<1> HIDE DEF u, v
<1>6. ASSUME ~ T!Frozen(u) PROVE TimerTimed(T!RescheduleArmed(w))
  <2>1. w \in TimerState /\ w.armed = t.armed /\ w.due = t.due /\ w.period = period /\ w.paused = paused
    BY <1>3, <1>5
  <2>2. ~ T!Frozen(w)
    BY <1>3, <1>6, <2>1 DEF T!Frozen
  <2> HIDE DEF w
  <2> QED BY <1>1, <2>1, <2>2, RescheduledAreTimed
<1> HIDE DEF w
<1> QED BY <1>3, <1>4, <1>6, StoppedIsTimed

LEMMA TimerChecked ==
  ASSUME NEW t, TimerTimed(t)
  PROVE  TimerTimed(T!CheckInterrupts(t))
<1> DEFINE e == T!CheckInterrupts(t)
<1>1. (t.raw \cap t.inte) \cup t.intf \in SUBSET Alarms
  BY DEF TimerTimed, TimerState
<1>2. /\ e \in TimerState /\ e.count = t.count /\ e.sub = t.sub /\ e.elapsed = t.elapsed /\ e.period = t.period
      /\ e.paused = t.paused /\ e.armed = t.armed /\ e.due = t.due /\ e.target = t.target
  BY <1>1 DEF TimerTimed, TimerState, T!CheckInterrupts
<1> HIDE DEF e
<1>3. TimerTimed(e)
  BY <1>2, TimerSame
<1> QED BY <1>3 DEF e

LEMMA DisarmedIsTimed ==
  ASSUME NEW t, TimerTimed(t), NEW a \in Alarms
  PROVE  TimerTimed(T!Disarmed(t, a))
<1> DEFINE e == T!Disarmed(t, a)
           due == [t.due EXCEPT ![a] = T!Never]
<1>1. due \in [Alarms -> Int] /\ due[a] = T!Never /\ \A b \in Alarms \ {a} : due[b] = t.due[b]
  BY DEF TimerTimed, TimerState, T!Never
<1>2. e = [t EXCEPT !.armed = t.armed \ {a}, !.due = due]
  BY DEF T!Disarmed
<1> HIDE DEF due
<1>3. /\ e \in TimerState /\ e.count = t.count /\ e.sub = t.sub /\ e.elapsed = t.elapsed /\ e.period = t.period
      /\ e.paused = t.paused /\ e.armed = t.armed \ {a} /\ e.due = due /\ e.target = t.target
  BY <1>1, <1>2 DEF TimerTimed, TimerState
<1> HIDE DEF e
<1>4. TimerTimed(e)
  BY <1>1, <1>3, TimerSame
<1> QED BY <1>4 DEF e

\* One alarm is armed, or armed again; the others stay.
LEMMA WrittenIsTimed ==
  ASSUME NEW t, TimerTimed(t), NEW a \in Alarms, NEW n \in 0 .. Low - 1
  PROVE  TimerTimed(T!AlarmWritten(t, a, n))
<1> DEFINE target == [t.target EXCEPT ![a] = n]
           u == [t EXCEPT !.armed = t.armed \cup {a}, !.target = target]
           due == [b \in Alarms |-> IF b \in {a} THEN T!TicksTo(u, u.target[b]) ELSE u.due[b]]
           e == [u EXCEPT !.due = due]
<1>1. t \in TimerState /\ target \in [Alarms -> 0 .. Low - 1] /\ target[a] = n /\ \A b \in Alarms \ {a} : target[b] = t.target[b]
  BY DEF TimerTimed, TimerState
<1>2. T!AlarmWritten(t, a, n) = IF T!Frozen(t) THEN u ELSE e
  BY DEF T!AlarmWritten, T!Armed
<1> HIDE DEF target
<1>3. /\ u \in TimerState /\ u.count = t.count /\ u.sub = t.sub /\ u.elapsed = t.elapsed /\ u.period = t.period
      /\ u.paused = t.paused /\ u.armed = t.armed \cup {a} /\ u.due = t.due /\ u.target = target
  BY <1>1 DEF TimerState
<1> HIDE DEF u
<1>4. T!Frozen(u) = T!Frozen(t) /\ \A d, k : OnTarget(u, d, k) <=> OnTarget(t, d, k)
  BY <1>3 DEF T!Frozen, OnTarget, T!LowIn, T!Total
<1>5. ASSUME T!Frozen(t) PROVE TimerTimed(u)
  <2>1. \A b \in Alarms : u.due[b] = T!Never
    BY <1>3, <1>5 DEF TimerTimed
  <2> QED BY <1>3, <1>4, <1>5, <2>1 DEF TimerTimed
<1>6. ASSUME ~ T!Frozen(t) PROVE TimerTimed(e)
  <2>1. OnTarget(u, T!TicksTo(u, n), n)
    BY <1>3, <1>4, <1>6, TicksToTarget
  <2>2. due \in [Alarms -> Int] /\ due[a] = T!TicksTo(u, n) /\ \A b \in Alarms \ {a} : due[b] = t.due[b]
    BY <1>1, <1>3, <2>1 DEF OnTarget, TimerState
  <2> HIDE DEF due
  <2>3. /\ e \in TimerState /\ e.count = u.count /\ e.sub = u.sub /\ e.elapsed = u.elapsed /\ e.period = u.period
        /\ e.paused = u.paused /\ e.armed = u.armed /\ e.due = due /\ e.target = target
    BY <1>3, <2>2 DEF TimerState
  <2> HIDE DEF e
  <2>4. ~ T!Frozen(e) /\ \A d, k : OnTarget(e, d, k) <=> OnTarget(u, d, k)
    BY <1>4, <1>6, <2>3 DEF T!Frozen, OnTarget, T!LowIn, T!Total
  <2>5. ASSUME NEW b \in Alarms
        PROVE  IF b \in e.armed THEN OnTarget(e, e.due[b], e.target[b]) ELSE e.due[b] = T!Never
    <3>1. CASE b = a
      BY <1>1, <1>3, <2>1, <2>2, <2>3, <2>4, <3>1
    <3>2. CASE b # a
      <4>1. IF b \in t.armed THEN OnTarget(t, t.due[b], t.target[b]) ELSE t.due[b] = T!Never
        BY <1>6 DEF TimerTimed
      <4> QED BY <1>1, <1>3, <1>4, <2>2, <2>3, <2>4, <3>2, <4>1
    <3> QED BY <3>1, <3>2
  <2> QED BY <2>3, <2>4, <2>5 DEF TimerTimed
<1> QED BY <1>2, <1>5, <1>6

LEMMA SetIsTimed ==
  ASSUME NEW t, TimerTimed(t), NEW n \in Int
  PROVE  TimerTimed(T!TimeSet(t, n))
<1> DEFINE u == [t EXCEPT !.count = n, !.sub = 0, !.elapsed = 0]
<1>1. t \in TimerState /\ \A a \in Alarms \ t.armed : t.due[a] = T!Never
  BY DEF TimerTimed
<1>2. u \in TimerState /\ u.armed = t.armed /\ u.due = t.due /\ u.target = t.target /\ u.period = t.period /\ u.paused = t.paused
  <2> DEFINE zero == 0
  <2>1. zero \in Nat /\ u = [t EXCEPT !.count = n, !.sub = zero, !.elapsed = zero]
    OBVIOUS
  <2> HIDE DEF zero, u
  <2> QED BY <1>1, <2>1 DEF TimerState
<1>3. T!TimeSet(t, n) = IF T!Frozen(t) THEN u ELSE T!RescheduleArmed(u)
  BY DEF T!TimeSet
<1> HIDE DEF u
<1>4. T!Frozen(u) = T!Frozen(t)
  BY <1>2 DEF T!Frozen
<1>5. T!Frozen(t) => TimerTimed(u)
  BY <1>2, <1>4 DEF TimerTimed
<1> QED BY <1>1, <1>2, <1>3, <1>4, <1>5, RescheduledAreTimed

\* What a count and its ticks are.
LEMMA CountIs ==
  ASSUME NEW t \in TimerState, ~ T!Frozen(t)
  PROVE  /\ t.period \in Nat \ {0} /\ T!Total(t) \in Nat /\ T!Passed(t) = T!Total(t) \div t.period /\ T!Passed(t) \in Nat
         /\ T!Sub(t) = T!Total(t) % t.period /\ T!Sub(t) \in 0 .. t.period - 1
         /\ Low * High \in Nat \ {0} /\ T!Count(t) = (t.count + T!Passed(t)) % (Low * High)
<1>1. t.period \in Nat \ {0} /\ T!Total(t) \in Nat
  BY DEF TimerState, T!Frozen, T!Total
<1>2. T!Passed(t) = T!Total(t) \div t.period /\ T!Sub(t) = T!Total(t) % t.period
  BY DEF T!Passed, T!Sub
<1>3. \A a \in Nat, p \in Nat \ {0} : a \div p \in Nat /\ (a % p) \in 0 .. p - 1
  OBVIOUS
<1>4. Low * High \in Nat \ {0}
  BY PeripheralsAssumption DEF T!TimerAssumption
<1> QED BY <1>1, <1>2, <1>3, <1>4 DEF T!Count

\* The clock's origin moves: the low word goes on as it would have.
LEMMA RebasedIsTimed ==
  ASSUME NEW t, TimerTimed(t)
  PROVE  TimerTimed(T!Rebased(t))
<1> DEFINE e == T!Rebased(t)
<1>1. t \in TimerState /\ Low \in Nat \ {0} /\ High \in Nat \ {0} /\ Low * High \in Nat \ {0}
  BY PeripheralsAssumption DEF T!TimerAssumption, TimerTimed
<1> DEFINE count == T!Count(t)
           sub == T!Sub(t)
           zero == 0
<1>2. zero \in Nat /\ zero = 0 /\ e = [t EXCEPT !.count = count, !.sub = sub, !.elapsed = zero]
  BY DEF T!Rebased
<1> HIDE DEF e, count, sub, zero
<1>3. ASSUME count \in Int, sub \in Nat
      PROVE  /\ e \in TimerState /\ e.count = count /\ e.sub = sub /\ e.elapsed = 0 /\ e.period = t.period
             /\ e.paused = t.paused /\ e.armed = t.armed /\ e.due = t.due /\ e.target = t.target
  BY <1>1, <1>2, <1>3 DEF TimerState
<1>4. CASE T!Frozen(t)
  <2>1. T!Count(t) \in Int /\ T!Sub(t) \in Nat
    <3> DEFINE all == Low * High
    <3>1. T!Count(t) = (t.count + 0) % all /\ T!Sub(t) = t.sub /\ t.count + 0 \in Int /\ all \in Nat \ {0}
      BY <1>1, <1>4 DEF T!Count, T!Passed, T!Sub, TimerState
    <3> HIDE DEF all
    <3> QED BY <1>1, <3>1, Division DEF TimerState
  <2>2. e \in TimerState /\ e.due = t.due /\ e.period = t.period /\ e.paused = t.paused
    BY <1>3, <2>1 DEF count, sub
  <2> QED BY <1>4, <2>2 DEF TimerTimed, T!Frozen, e
<1>5. CASE ~ T!Frozen(t)
  <2> DEFINE p == t.period
             total == T!Total(t)
             q == total \div p
             n == t.count + q
  <2>1. p \in Nat \ {0} /\ total \in Nat /\ T!Count(t) = n % (Low * High) /\ T!Sub(t) = total % p /\ (total % p) \in Nat /\ n \in Int
    BY <1>1, <1>5, CountIs DEF TimerState
  <2>2. T!Count(t) \in Int
    <3> DEFINE all == Low * High
    <3> HIDE DEF all, n
    <3> QED BY <1>1, <2>1, Division DEF all
  <2>3. /\ e \in TimerState /\ e.count = T!Count(t) /\ e.sub = T!Sub(t) /\ e.elapsed = 0 /\ e.period = t.period
        /\ e.paused = t.paused /\ e.armed = t.armed /\ e.due = t.due /\ e.target = t.target
    <3>1. T!Sub(t) \in Nat
      BY <2>1
    <3> QED BY <1>3, <2>2, <3>1 DEF count, sub
  <2>4. ASSUME NEW d \in Nat PROVE T!LowIn(e, d) = T!LowIn(t, d)
    <3> DEFINE k == ((total % p) + d) \div p
               c == T!Count(t)
    <3>1. T!LowIn(e, d) = (c + k) % Low
      <4>1. T!Total(e) = total % p
        BY <2>1, <2>3 DEF T!Total
      <4> QED BY <2>3, <4>1 DEF T!LowIn
    <3>2. T!LowIn(t, d) = (t.count + ((total + d) \div p)) % Low
      BY DEF T!LowIn
    <3>3. (total + d) \div p = q + k /\ k \in Int
      <4> HIDE DEF p, total
      <4>1. total \in Int /\ d \in Int
        BY <2>1
      <4>2. (total + d) \div p = q + k
        BY <2>1, <4>1, Continued
      <4>3. (total % p) + d \in Int
        BY <2>1
      <4> QED BY <2>1, <4>2, <4>3, Division
    <3>4. t.count + ((total + d) \div p) = n + k
      <4>1. q \in Int /\ t.count \in Int
        BY <1>1, <2>1 DEF TimerState
      <4> HIDE DEF k, q
      <4> QED BY <3>3, <4>1
    <3>5. (c + k) % Low = (n + k) % Low
      <4> HIDE DEF k, n
      <4> QED BY <1>1, <2>1, <3>3, WordOfRemainder
    <3> QED BY <3>1, <3>2, <3>4, <3>5
  <2>5. ASSUME NEW d, NEW k, OnTarget(t, d, k) PROVE OnTarget(e, d, k)
    <3> HIDE DEF p, total
    <3> QED BY <2>4, <2>5 DEF OnTarget
  <2>6. T!Frozen(e) = T!Frozen(t)
    BY <2>3 DEF T!Frozen
  <2> QED BY <1>5, <2>3, <2>5, <2>6 DEF TimerTimed, e
<1> QED BY <1>4, <1>5

LEMMA TickIsTimed ==
  ASSUME TimerTimed(state), T!Tick
  PROVE  TimerTimed(state')
<1> DEFINE t == state
           e == state'
           due == [a \in Alarms |-> IF t.due[a] = T!Never THEN T!Never ELSE t.due[a] - 1]
<1>1. /\ t \in TimerState /\ ~ T!Frozen(t) /\ \A a \in Alarms : t.due[a] # 0
      /\ e = [t EXCEPT !.elapsed = t.elapsed + 1, !.due = due]
  BY DEF TimerTimed, T!Tick
<1>2. due \in [Alarms -> Int]
  BY <1>1 DEF TimerState, T!Never
<1>3. t.elapsed + 1 \in Nat
  BY <1>1 DEF TimerState
<1>4. \A a \in Alarms : due[a] = IF t.due[a] = T!Never THEN T!Never ELSE t.due[a] - 1
  OBVIOUS
<1>9. \A a \in Alarms : IF a \in t.armed THEN OnTarget(t, t.due[a], t.target[a]) ELSE t.due[a] = T!Never
  BY <1>1 DEF TimerTimed
<1> HIDE DEF due, t, e
<1>5. /\ e \in TimerState /\ e.count = t.count /\ e.sub = t.sub /\ e.elapsed = t.elapsed + 1 /\ e.period = t.period
      /\ e.paused = t.paused /\ e.armed = t.armed /\ e.due = due /\ e.target = t.target
  BY <1>1, <1>2, <1>3 DEF TimerState
<1>6. ~ T!Frozen(e) /\ \A d \in Int : T!LowIn(e, d) = T!LowIn(t, d + 1)
  <2>1. ASSUME NEW d \in Int PROVE T!Total(e) + d = T!Total(t) + (d + 1)
    BY <1>1, <1>5 DEF T!Total, TimerState
  <2> QED BY <1>1, <1>5, <2>1 DEF T!Frozen, T!LowIn
<1>7. ASSUME NEW a \in Alarms, a \in t.armed PROVE OnTarget(e, due[a], t.target[a])
  <2> DEFINE d == t.due[a]
             n == t.target[a]
  <2>1. OnTarget(t, d, n) /\ d # 0
    BY <1>1, <1>7, <1>9
  <2>2. due[a] = d - 1 /\ d \in Nat /\ d - 1 \in Nat
    <3>1. d \in Nat /\ d # 0
      BY <2>1 DEF OnTarget
    <3>2. d # T!Never
      BY <3>1 DEF T!Never
    <3> QED BY <1>4, <3>1, <3>2
  <2>3. T!LowIn(e, d - 1) = n
    <3>1. (d - 1) + 1 = d
      BY <2>2
    <3> QED BY <1>6, <2>1, <2>2, <3>1 DEF OnTarget
  <2>4. \A k \in 0 .. (d - 1) - 1 : T!LowIn(e, k) # n
    <3>1. \A k \in 0 .. (d - 1) - 1 : k \in Int /\ k + 1 \in 0 .. d - 1
      BY <2>2
    <3> QED BY <1>6, <2>1, <3>1 DEF OnTarget
  <2> HIDE DEF d, n
  <2> QED BY <2>2, <2>3, <2>4 DEF OnTarget, n
<1>8. ASSUME NEW a \in Alarms, a \notin t.armed PROVE due[a] = T!Never
  BY <1>4, <1>8, <1>9
<1>10. TimerTimed(e)
  BY <1>5, <1>6, <1>7, <1>8 DEF TimerTimed
<1> QED BY <1>10 DEF e

LEMMA TimerOn ==
  ASSUME NEW period \in Nat
  PROVE  TimerTimed(T!PowerOn(period))
<1> DEFINE zero == 0
           due == [a \in Alarms |-> T!Never]
           target == [a \in Alarms |-> zero]
           e == T!PowerOn(period)
<1>1. /\ zero \in Nat /\ due \in [Alarms -> Int] /\ target \in [Alarms -> 0 .. Low - 1]
      /\ \A a \in Alarms : due[a] = T!Never
  BY PeripheralsAssumption DEF T!TimerAssumption, T!Never
<1>2. e = [count |-> zero, sub |-> zero, elapsed |-> zero, period |-> period, paused |-> FALSE,
           armed |-> {}, target |-> target, due |-> due, raw |-> {}, inte |-> {}, intf |-> {}, lines |-> {}]
  BY DEF T!PowerOn
<1> HIDE DEF zero, due, target
<1>3. e \in TimerState /\ e.armed = {} /\ e.due = due
  BY <1>1, <1>2 DEF TimerState
<1> HIDE DEF e
<1> QED BY <1>1, <1>3 DEF TimerTimed, e

LEMMA TimerStep ==
  ASSUME TimerTimed(state), T!Next
  PROVE  TimerTimed(state')
<1>1. /\ Low \in Nat \ {0} /\ Low * High \in Nat /\ Periods \subseteq Nat /\ TimerEnables \subseteq SUBSET Alarms
      /\ state \in TimerState
  BY PeripheralsAssumption DEF T!TimerAssumption, TimerTimed
<1>2. CASE T!Fire
  <2>1. PICK a \in Alarms : state' = T!Fired(state, a)
    BY <1>2 DEF T!Fire
  <2> DEFINE t == T!Disarmed(state, a)
             e == [t EXCEPT !.raw = t.raw \cup {a}]
  <2>2. TimerTimed(t)
    BY DisarmedIsTimed
  <2>3. state' = T!CheckInterrupts(e)
    BY <2>1 DEF T!Fired
  <2> HIDE DEF t
  <2>4. /\ e \in TimerState /\ e.count = t.count /\ e.sub = t.sub /\ e.elapsed = t.elapsed /\ e.period = t.period
        /\ e.paused = t.paused /\ e.armed = t.armed /\ e.due = t.due /\ e.target = t.target
    BY <2>2 DEF TimerTimed, TimerState
  <2> HIDE DEF e
  <2>5. TimerTimed(e)
    BY <2>2, <2>4, TimerSame
  <2> QED BY <2>3, <2>5, TimerChecked
<1>3. CASE T!WriteAlarm \/ T!WriteArmed \/ T!Rebase
  BY <1>3, WrittenIsTimed, DisarmedIsTimed, RebasedIsTimed DEF T!WriteAlarm, T!WriteArmed, T!Rebase
<1>4. CASE T!WritePause
  <2>1. (~ state.paused) \in BOOLEAN /\ state.period \in Nat
    BY <1>1 DEF TimerState
  <2> QED BY <1>4, <2>1, AppliedIsTimed DEF T!WritePause
<1>5. CASE T!TickChanged
  <2>1. PICK p \in Periods \cup {0} : state' = T!Applied(state, state.paused, p)
    BY <1>5 DEF T!TickChanged
  <2>2. p \in Nat /\ state.paused \in BOOLEAN
    BY <1>1 DEF TimerState
  <2> QED BY <2>1, <2>2, AppliedIsTimed
<1>6. CASE T!WriteTime
  BY <1>1, <1>6, SetIsTimed DEF T!WriteTime
<1>7. CASE T!WriteIntr \/ T!WriteInte \/ T!WriteIntf
  <2>1. ASSUME NEW raw \in SUBSET Alarms, NEW inte \in SUBSET Alarms, NEW intf \in SUBSET Alarms, NEW e,
               e = [state EXCEPT !.raw = raw, !.inte = inte, !.intf = intf], state' = T!CheckInterrupts(e)
        PROVE  TimerTimed(state')
    <3>1. /\ e \in TimerState /\ e.count = state.count /\ e.sub = state.sub /\ e.elapsed = state.elapsed /\ e.period = state.period
          /\ e.paused = state.paused /\ e.armed = state.armed /\ e.due = state.due /\ e.target = state.target
      BY <1>1, <2>1 DEF TimerState
    <3>2. TimerTimed(e)
      BY <3>1, TimerSame
    <3> QED BY <2>1, <3>2, TimerChecked
  <2>2. state.raw \in SUBSET Alarms /\ state.inte \in SUBSET Alarms /\ state.intf \in SUBSET Alarms
    BY <1>1 DEF TimerState
  <2>3. CASE T!WriteIntr
    <3>1. PICK a \in Alarms : state' = T!CheckInterrupts([state EXCEPT !.raw = state.raw \ {a}])
      BY <2>3 DEF T!WriteIntr
    <3>2. [state EXCEPT !.raw = state.raw \ {a}] = [state EXCEPT !.raw = state.raw \ {a}, !.inte = state.inte, !.intf = state.intf]
      BY <1>1 DEF TimerState
    <3>3. state.raw \ {a} \in SUBSET Alarms
      BY <2>2
    <3> QED BY <2>1, <2>2, <3>1, <3>2, <3>3
  <2>4. CASE T!WriteInte
    <3>1. PICK s \in TimerEnables : state' = T!CheckInterrupts([state EXCEPT !.inte = s])
      BY <2>4 DEF T!WriteInte
    <3>2. [state EXCEPT !.inte = s] = [state EXCEPT !.raw = state.raw, !.inte = s, !.intf = state.intf]
      BY <1>1 DEF TimerState
    <3> QED BY <1>1, <2>1, <2>2, <3>1, <3>2
  <2>5. CASE T!WriteIntf
    <3>1. PICK s \in TimerEnables : state' = T!CheckInterrupts([state EXCEPT !.intf = s])
      BY <2>5 DEF T!WriteIntf
    <3>2. [state EXCEPT !.intf = s] = [state EXCEPT !.raw = state.raw, !.inte = state.inte, !.intf = s]
      BY <1>1 DEF TimerState
    <3> QED BY <1>1, <2>1, <2>2, <3>1, <3>2
  <2> QED BY <1>7, <2>3, <2>4, <2>5
<1>8. CASE T!Reset
  <2>1. state.period \in Nat
    BY <1>1 DEF TimerState
  <2> QED BY <1>8, <2>1, TimerOn DEF T!Reset
<1> QED BY <1>2, <1>3, <1>4, <1>5, <1>6, <1>7, <1>8, TickIsTimed DEF T!Next

\* The ticks into the current count do not fill a period.
SubFits(t) == t.period > 0 => t.sub < t.period

\* A count is kept if what counts it is, and its ticks fit.
LEMMA CountStays ==
  ASSUME NEW t \in TimerState, NEW e \in TimerState,
         \/ e.count = t.count /\ e.sub = t.sub /\ e.elapsed = t.elapsed /\ e.period = t.period /\ e.paused = t.paused
         \/ e.count = T!Count(t) /\ e.elapsed = 0 /\ SubFits(e)
  PROVE  T!Count(e) = T!Count(t)
<1>1. CASE e.count = t.count /\ e.sub = t.sub /\ e.elapsed = t.elapsed /\ e.period = t.period /\ e.paused = t.paused
  BY <1>1 DEF T!Count, T!Passed, T!Total, T!Frozen
<1>2. CASE e.count = T!Count(t) /\ e.elapsed = 0 /\ SubFits(e)
  <2> DEFINE all == Low * High
             n == t.count + T!Passed(t)
  <2>1. T!Passed(e) = 0
    <3>1. CASE T!Frozen(e)
      BY <3>1 DEF T!Passed
    <3>2. CASE ~ T!Frozen(e)
      <4>1. e.period \in Nat \ {0} /\ e.sub \in 0 .. e.period - 1 /\ T!Total(e) = e.sub
        BY <1>2, <3>2 DEF TimerState, SubFits, T!Frozen, T!Total
      <4>2. \A p \in Nat \ {0} : \A x \in 0 .. p - 1 : x \div p = 0
        OBVIOUS
      <4> QED BY <3>2, <4>1, <4>2 DEF T!Passed
    <3> QED BY <3>1, <3>2
  <2>2. all \in Nat \ {0} /\ n \in Int /\ T!Count(t) = n % all
    <3>1. T!Passed(t) \in Int
      BY CountIs DEF T!Passed
    <3> QED BY <3>1, PeripheralsAssumption DEF T!TimerAssumption, TimerState, T!Count
  <2>3. T!Count(e) = (T!Count(t) + 0) % all
    BY <1>2, <2>1 DEF T!Count
  <2> HIDE DEF n, all
  <2>4. (n % all) \in 0 .. all - 1
    BY <2>2, Division
  <2>5. \A y \in 0 .. all - 1 : (y + 0) % all = y
    BY <2>2
  <2> QED BY <2>2, <2>3, <2>4, <2>5
<1> QED BY <1>1, <1>2

\* A pause, a resumption and a new rate keep the count, and bring its ticks to the new period.
LEMMA AppliedKeepsCount ==
  ASSUME NEW t, TimerTimed(t), SubFits(t), NEW paused \in BOOLEAN, NEW period \in Nat,
         T!Frozen(t) => period = 0 \/ t.sub < period, paused = t.paused \/ period = t.period
  PROVE  SubFits(T!Applied(t, paused, period)) /\ T!Count(T!Applied(t, paused, period)) = T!Count(t)
<1> DEFINE count == T!Count(t)
           ticks == T!Sub(t)
           zero == 0
           u == [t EXCEPT !.paused = paused, !.period = period, !.count = count, !.elapsed = zero, !.sub = ticks]
           scaled == (u.sub * period) \div t.period
           v == [u EXCEPT !.sub = scaled]
           w == IF T!Frozen(t) THEN u ELSE v
           none == [a \in Alarms |-> T!Never]
           e == T!Applied(t, paused, period)
<1>1. t \in TimerState
  BY DEF TimerTimed
<1>2. e = IF T!Frozen(u) THEN [u EXCEPT !.due = none] ELSE T!RescheduleArmed(w)
  BY DEF T!Applied
<1>3. e \in TimerState
  BY AppliedIsTimed DEF TimerTimed
<1>4. zero = 0 /\ none \in [Alarms -> Int]
  BY DEF T!Never
<1> HIDE DEF e, zero, none, count, ticks
<1>5. u.count = count /\ u.elapsed = 0 /\ u.period = period /\ u.paused = paused /\ u.sub = ticks
  BY <1>1, <1>4 DEF TimerState
<1>6. v.count = count /\ v.elapsed = 0 /\ v.period = period /\ v.sub = scaled /\ v.paused = paused
  <2> HIDE DEF scaled
  <2> QED BY <1>1, <1>4 DEF TimerState
<1>9. scaled = (ticks * period) \div t.period
  BY <1>5
<1>10. ASSUME NEW x PROVE LET y == T!RescheduleArmed(x) IN y.count = x.count /\ y.elapsed = x.elapsed /\ y.sub = x.sub /\ y.period = x.period
  BY DEF T!RescheduleArmed, T!Armed
<1> HIDE DEF scaled, u, v
<1>7. /\ e.count = count /\ e.elapsed = 0 /\ e.period = period
      /\ e.sub = (IF T!Frozen(t) \/ T!Frozen(u) THEN ticks ELSE scaled)
  <2>1. CASE T!Frozen(u)
    <3>1. e = [u EXCEPT !.due = none]
      BY <1>2, <2>1
    <3>2. e.count = u.count /\ e.elapsed = u.elapsed /\ e.period = u.period /\ e.sub = u.sub
      BY <3>1
    <3> QED BY <1>5, <2>1, <3>2
  <2>2. CASE ~ T!Frozen(u)
    <3>1. e = T!RescheduleArmed(w)
      BY <1>2, <2>2
    <3>2. e.count = w.count /\ e.elapsed = w.elapsed /\ e.period = w.period /\ e.sub = w.sub
      BY <1>10, <3>1
    <3> QED BY <1>5, <1>6, <2>2, <3>2
  <2> QED BY <2>1, <2>2
<1>8. SubFits(e)
  <2> SUFFICES ASSUME period > 0 PROVE e.sub < period
    BY <1>7 DEF SubFits
  <2>1. CASE T!Frozen(t)
    BY <1>7, <2>1 DEF T!Sub, ticks
  <2>2. CASE ~ T!Frozen(t)
    <3>1. ticks \in 0 .. t.period - 1 /\ t.period \in Nat \ {0}
      BY <1>1, <2>2, CountIs DEF ticks
    <3>2. scaled \in 0 .. period - 1
      <4> DEFINE old == t.period
      <4>1. old \in Nat \ {0} /\ period \in Nat \ {0} /\ ticks \in 0 .. old - 1
        BY <3>1
      <4> HIDE DEF old
      <4>2. (ticks * period) \div old \in 0 .. period - 1
        BY <4>1, Proportion
      <4> QED BY <1>9, <4>2 DEF old
    <3>3. CASE ~ T!Frozen(u)
      BY <1>7, <2>2, <3>2, <3>3
    <3>4. CASE T!Frozen(u)
      \* A running count that is stopped: its ticks are those of the rate it had.
      BY <1>5, <1>7, <2>2, <3>1, <3>4 DEF T!Frozen
    <3> QED BY <3>3, <3>4
  <2> QED BY <2>1, <2>2
<1> QED BY <1>1, <1>3, <1>7, <1>8, CountStays DEF e, count

\* A tick takes the count to where it was or to the next value.
LEMMA TickCounts ==
  ASSUME TimerTimed(state), T!Tick
  PROVE  T!Count(state') \in {T!Count(state), (T!Count(state) + 1) % (Low * High)}
<1> DEFINE t == state
           e == state'
           p == t.period
           total == T!Total(t)
           q == total \div p
           r == total % p
           s == (r + 1) \div p
           all == Low * High
           n == t.count + q
<1>1. t \in TimerState /\ e \in TimerState /\ ~ T!Frozen(t)
  BY TickIsTimed DEF TimerTimed, T!Tick
<1>2. /\ e.count = t.count /\ e.sub = t.sub /\ e.elapsed = t.elapsed + 1 /\ e.period = p /\ e.paused = t.paused
  BY <1>1 DEF T!Tick, TimerState
<1>3. /\ p \in Nat \ {0} /\ total \in Nat /\ r \in 0 .. p - 1 /\ q \in Int /\ all \in Nat \ {0}
      /\ T!Count(t) = n % all
  BY <1>1, CountIs
<1>4. T!Count(e) = (t.count + ((total + 1) \div p)) % all
  <2>1. T!Total(e) = total + 1 /\ ~ T!Frozen(e)
    BY <1>1, <1>2 DEF T!Total, T!Frozen, TimerState
  <2> QED BY <1>2, <2>1 DEF T!Count, T!Passed
<1>5. t.count \in Int /\ n \in Int
  BY <1>1, <1>3 DEF TimerState
<1> HIDE DEF e, t, p, total, all
<1>6. (total + 1) \div p = q + s
  <2>1. total \in Int /\ 1 \in Int
    BY <1>3
  <2> QED BY <1>3, <2>1, Continued
<1>7. s \in {0, 1}
  <2>1. \A k \in Nat \ {0} : \A x \in 0 .. k - 1 : (x + 1) \div k \in {0, 1}
    <3> SUFFICES ASSUME NEW k \in Nat \ {0}, NEW x \in 0 .. k - 1 PROVE (x + 1) \div k \in {0, 1}
      OBVIOUS
    <3>1. CASE x + 1 = k
      BY <3>1
    <3>2. CASE x + 1 < k
      BY <3>2
    <3> QED BY <3>1, <3>2
  <2> HIDE DEF r
  <2> QED BY <1>3, <2>1
<1> HIDE DEF q, s
<1>8. t.count + (q + s) = n + s
  BY <1>3, <1>5, <1>7
<1>9. T!Count(e) = (n + s) % all
  BY <1>4, <1>6, <1>8
<1> HIDE DEF n
<1> DEFINE one == 1
<1>12. all \in Nat \ {0} /\ n \in Int /\ one \in Int
  BY <1>3, <1>5
<1> HIDE DEF one
<1>13. ((n % all) + one) % all = (n + one) % all
  BY <1>12, NextRemainder
<1>10. CASE s = 0
  BY <1>3, <1>5, <1>9, <1>10 DEF t, e
<1>11. CASE s = 1
  <2>1. s = one
    BY <1>11 DEF one
  <2>2. T!Count(e) = (T!Count(t) + one) % all
    BY <1>3, <1>9, <1>13, <2>1
  <2> QED BY <2>2 DEF t, e, all, one
<1> QED BY <1>7, <1>10, <1>11

LEMMA TimerCounts ==
  ASSUME ~ RetunesStopped, TimerTimed(state), SubFits(state), T!Next
  PROVE  SubFits(state') /\ T!CountSteps
<1>1. state \in TimerState /\ state' \in TimerState
  BY TimerStep DEF TimerTimed
<1>2. Periods \subseteq Nat \ {0}
  BY PeripheralsAssumption DEF T!TimerAssumption
<1>3. ASSUME state'.count = state.count, state'.sub = state.sub, state'.elapsed = state.elapsed,
             state'.period = state.period, state'.paused = state.paused
      PROVE  SubFits(state') /\ T!CountSteps
  <2>1. T!Count(state') = T!Count(state)
    BY <1>1, <1>3, CountStays
  <2> QED BY <1>3, <2>1 DEF T!CountSteps, SubFits
<1>4. CASE T!Tick
  <2>1. state'.sub = state.sub /\ state'.period = state.period
    BY <1>1, <1>4 DEF T!Tick, TimerState
  <2> QED BY <1>4, <2>1, TickCounts DEF T!CountSteps, SubFits
<1>5. CASE T!Fire
  BY <1>3, <1>5 DEF T!Fire, T!Fired, T!Disarmed, T!CheckInterrupts
<1>6. CASE T!Rebase
  <2> DEFINE count == T!Count(state)
             sub == T!Sub(state)
             zero == 0
  <2>1. zero = 0 /\ state' = [state EXCEPT !.count = count, !.sub = sub, !.elapsed = zero]
    BY <1>6 DEF T!Rebase, T!Rebased
  <2> HIDE DEF count, sub, zero
  <2>2. state'.count = count /\ state'.sub = sub /\ state'.elapsed = 0 /\ state'.period = state.period
    BY <1>1, <2>1 DEF TimerState
  <2>3. SubFits(state')
    <3>1. CASE T!Frozen(state)
      BY <2>2, <3>1 DEF sub, T!Sub, SubFits
    <3>2. CASE ~ T!Frozen(state)
      <4>1. sub \in 0 .. state.period - 1
        BY <1>1, <3>2, CountIs DEF sub
      <4> QED BY <1>1, <2>2, <4>1 DEF SubFits, TimerState
    <3> QED BY <3>1, <3>2
  <2>4. T!Count(state') = T!Count(state)
    BY <1>1, <2>2, <2>3, CountStays DEF count
  <2> QED BY <2>3, <2>4 DEF T!CountSteps
<1>7. CASE T!WriteAlarm
  <2>1. PICK a \in Alarms, n \in 0 .. Low - 1 : state' = T!AlarmWritten(state, a, n)
    BY <1>7 DEF T!WriteAlarm
  <2> QED BY <1>3, <2>1 DEF T!AlarmWritten, T!Armed
<1>8. CASE T!WriteArmed
  BY <1>3, <1>8 DEF T!WriteArmed, T!Disarmed
<1>9. CASE T!WritePause
  <2>1. (~ state.paused) \in BOOLEAN /\ state.period \in Nat
    BY <1>1 DEF TimerState
  <2>2. state.period = 0 \/ state.sub < state.period
    BY <2>1 DEF SubFits
  <2>3. SubFits(state') /\ T!Count(state') = T!Count(state)
    BY <1>9, <2>1, <2>2, AppliedKeepsCount DEF T!WritePause
  <2> QED BY <2>3 DEF T!CountSteps
<1>10. CASE T!TickChanged
  <2>1. PICK p \in Periods \cup {0} :
          (T!Frozen(state) => p = 0 \/ state.sub < p) /\ state' = T!Applied(state, state.paused, p)
    BY <1>10 DEF T!TickChanged
  <2>2. p \in Nat /\ state.paused \in BOOLEAN
    BY <1>1, <1>2 DEF TimerState
  <2>3. SubFits(state') /\ T!Count(state') = T!Count(state)
    BY <2>1, <2>2, AppliedKeepsCount
  <2> QED BY <2>3 DEF T!CountSteps
<1>11. CASE T!WriteTime
  <2>1. PICK n \in 0 .. Low * High - 1 : state' = T!TimeSet(state, n)
    BY <1>11 DEF T!WriteTime
  <2> DEFINE zero == 0
             u == [state EXCEPT !.count = n, !.sub = zero, !.elapsed = zero]
  <2>2. zero = 0 /\ state' \in {u, T!RescheduleArmed(u)}
    BY <2>1 DEF T!TimeSet
  <2> HIDE DEF zero
  <2>3. u.sub = 0
    BY <1>1, <2>2 DEF TimerState
  <2> HIDE DEF u
  <2>5. T!RescheduleArmed(u).sub = 0
    BY <1>1, <2>2, <2>3 DEF T!RescheduleArmed, T!Armed, TimerState
  <2>4. state'.sub = 0
    BY <2>2, <2>3, <2>5
  <2> QED BY <1>11, <2>4 DEF T!CountSteps, SubFits
<1>12. CASE T!WriteIntr \/ T!WriteInte \/ T!WriteIntf
  <2>1. CASE T!WriteIntr
    BY <1>1, <1>3, <2>1 DEF T!WriteIntr, T!CheckInterrupts, TimerState
  <2>2. CASE T!WriteInte
    BY <1>1, <1>3, <2>2 DEF T!WriteInte, T!CheckInterrupts, TimerState
  <2>3. CASE T!WriteIntf
    BY <1>1, <1>3, <2>3 DEF T!WriteIntf, T!CheckInterrupts, TimerState
  <2> QED BY <1>12, <2>1, <2>2, <2>3
<1>13. CASE T!Reset
  BY <1>13 DEF T!Reset, T!PowerOn, T!CountSteps, SubFits
<1> QED BY <1>4, <1>5, <1>6, <1>7, <1>8, <1>9, <1>10, <1>11, <1>12, <1>13 DEF T!Next

-----------------------------------------------------------------------------
(* The watchdog's alarm. *)

WatchdogState ==
  [enable : BOOLEAN, ticking : BOOLEAN, run : BOOLEAN, alarm : BOOLEAN, count : 0 .. CountValues - 1,
   due : 0 .. CountValues \cup {W!Never}, reason : {"NONE", "FORCE", "TIMER"}]

\* The countdown and its alarm run together, and the alarm is where the countdown reaches zero.
Counting(w) ==
  /\ w \in WatchdogState /\ w.run = w.alarm
  /\ IF w.run THEN w.due = w.count \/ (w.due = CountValues /\ w.count = 0) ELSE w.due = W!Never
WatchdogTimed(w) == Counting(w) /\ w.run = (w.enable /\ w.ticking)

SameEnables(e, w) == e.enable = w.enable /\ e.ticking = w.ticking

LEMMA CountValuesIs == CountValues \in Nat \ {0} /\ Loads \subseteq 0 .. CountValues - 1
  BY PeripheralsAssumption DEF W!WatchdogAssumption

LEMMA ScheduledIs ==
  ASSUME NEW w \in WatchdogState
  PROVE  LET e == W!Scheduled(w)
         IN  /\ e \in WatchdogState /\ SameEnables(e, w) /\ e.run = w.run /\ e.alarm = w.alarm
             /\ w.run = w.alarm => Counting(e)
<1> DEFINE due == IF ~ (w.run /\ w.alarm) THEN W!Never ELSE IF w.count = 0 THEN CountValues ELSE w.count
           e == W!Scheduled(w)
<1>1. w.count \in 0 .. CountValues - 1
  BY DEF WatchdogState
<1>2. due \in 0 .. CountValues \cup {W!Never}
  BY <1>1, CountValuesIs
<1>3. e = [w EXCEPT !.due = due]
  BY DEF W!Scheduled
<1> HIDE DEF due, e
<1>4. /\ e \in WatchdogState /\ SameEnables(e, w) /\ e.run = w.run /\ e.alarm = w.alarm /\ e.due = due /\ e.count = w.count
  BY <1>2, <1>3 DEF WatchdogState, SameEnables
<1>5. w.run = w.alarm => Counting(e)
  BY <1>4 DEF Counting, due
<1> QED BY <1>4, <1>5 DEF e

LEMMA EnabledIs ==
  ASSUME NEW w, Counting(w), NEW on \in BOOLEAN
  PROVE  LET e == W!Enabled(w, on) IN Counting(e) /\ SameEnables(e, w) /\ e.run = on
<1> DEFINE u == [w EXCEPT !.run = on]
           t == IF w.run = on THEN w ELSE W!Scheduled(u)
           v == [t EXCEPT !.alarm = on]
<1>1. W!Enabled(w, on) = IF t.alarm = on THEN t ELSE W!Scheduled(v)
  BY DEF W!Enabled
<1>2. w \in WatchdogState /\ w.run = w.alarm
  BY DEF Counting
<1>3. CASE w.run = on
  <2>1. t = w /\ W!Enabled(w, on) = w
    BY <1>1, <1>2, <1>3
  <2> QED BY <1>3, <2>1 DEF SameEnables
<1>4. CASE w.run # on
  <2>1. u \in WatchdogState /\ u.run = on /\ u.alarm = w.alarm /\ SameEnables(u, w)
    BY <1>2 DEF WatchdogState, SameEnables
  <2>2. t = W!Scheduled(u)
    BY <1>4
  <2> HIDE DEF u, t
  <2>3. t \in WatchdogState /\ t.run = on /\ t.alarm # on /\ SameEnables(t, w)
    BY <1>2, <1>4, <2>1, <2>2, ScheduledIs DEF SameEnables
  <2>4. v \in WatchdogState /\ v.run = on /\ v.alarm = on /\ SameEnables(v, w)
    BY <2>3 DEF WatchdogState, SameEnables
  <2> HIDE DEF v
  <2>5. W!Enabled(w, on) = W!Scheduled(v)
    BY <1>1, <2>3
  <2> QED BY <2>4, <2>5, ScheduledIs DEF SameEnables
<1> QED BY <1>3, <1>4

LEMMA WatchdogOn == WatchdogTimed(W!PowerOn)
<1> DEFINE never == W!Never
           zero == 0
           e == [enable |-> FALSE, ticking |-> FALSE, run |-> FALSE, alarm |-> FALSE, count |-> zero, due |-> never,
                 reason |-> "NONE"]
<1>1. zero \in 0 .. CountValues - 1 /\ never \in 0 .. CountValues \cup {W!Never} /\ never = W!Never
  BY CountValuesIs
<1>2. W!PowerOn = e
  BY DEF W!PowerOn
<1> HIDE DEF never, zero
<1>3. e \in WatchdogState /\ e.run = FALSE /\ e.alarm = FALSE /\ e.due = W!Never /\ e.enable = FALSE
  BY <1>1 DEF WatchdogState
<1> HIDE DEF e
<1>4. Counting(e)
  BY <1>3 DEF Counting, WatchdogState
<1> QED BY <1>2, <1>3, <1>4 DEF WatchdogTimed

LEMMA LoadedIs ==
  ASSUME NEW w, Counting(w), NEW n \in 0 .. CountValues - 1
  PROVE  LET e == W!Loaded(w, n) IN Counting(e) /\ SameEnables(e, w) /\ e.run = w.run
<1> DEFINE u == [w EXCEPT !.count = n]
<1>1. u \in WatchdogState /\ u.run = w.run /\ u.alarm = w.alarm /\ SameEnables(u, w) /\ w.run = w.alarm
  BY DEF Counting, WatchdogState, SameEnables
<1>2. W!Loaded(w, n) = W!Scheduled(u)
  BY DEF W!Loaded
<1> HIDE DEF u
<1> QED BY <1>1, <1>2, ScheduledIs DEF SameEnables

LEMMA ReticksIs ==
  ASSUME NEW w, Counting(w), NEW ticking \in BOOLEAN
  PROVE  WatchdogTimed(W!Reticked(w, ticking))
<1> DEFINE t == [w EXCEPT !.ticking = ticking]
           u == IF ticking THEN W!Scheduled(t) ELSE t
           on == t.enable /\ ticking
<1>1. /\ Counting(t) /\ t.ticking = ticking
  BY DEF Counting, WatchdogState
<1>2. W!Reticked(w, ticking) = W!Enabled(u, on)
  BY DEF W!Reticked
<1> HIDE DEF t
<1>3. Counting(u) /\ SameEnables(u, t)
  BY <1>1, ScheduledIs DEF Counting, SameEnables
<1>4. on \in BOOLEAN
  BY <1>1 DEF Counting, WatchdogState
<1> HIDE DEF u, on
<1>5. Counting(W!Enabled(u, on)) /\ SameEnables(W!Enabled(u, on), u) /\ W!Enabled(u, on).run = on
  BY <1>3, <1>4, EnabledIs
<1> QED BY <1>1, <1>2, <1>3, <1>5 DEF WatchdogTimed, SameEnables, on

LEMMA WatchdogStep ==
  ASSUME WatchdogTimed(state), W!Next
  PROVE  WatchdogTimed(state')
<1>1. state \in WatchdogState /\ Counting(state) /\ state.run = state.alarm
  BY DEF WatchdogTimed, Counting
<1>2. CASE W!Count
  <2> DEFINE count == (state.count - 1) % CountValues
             due == state.due - 1
  <2>1. state.run /\ state.due # 0 /\ state.due # W!Never
    BY <1>1, <1>2, CountValuesIs DEF W!Count, Counting, WatchdogState, W!Never
  <2>2. state' = [state EXCEPT !.count = count, !.due = due]
    BY <1>2, <2>1 DEF W!Count
  <2>3. /\ state.count \in 0 .. CountValues - 1
        /\ state.due = state.count \/ (state.due = CountValues /\ state.count = 0)
    BY <1>1, <2>1 DEF Counting, WatchdogState
  <2>4. count = due /\ due \in 0 .. CountValues - 1
    <3>1. CASE state.due = state.count
      <4> DEFINE n == state.count
      <4>1. n \in 1 .. CountValues - 1 /\ state.due = n
        BY <2>1, <2>3, <3>1, CountValuesIs
      <4> HIDE DEF n
      <4>2. (n - 1) % CountValues = n - 1
        BY <4>1, CountValuesIs
      <4> QED BY <4>1, <4>2, CountValuesIs DEF n
    <3>2. CASE state.due = CountValues /\ state.count = 0
      <4>1. (0 - 1) % CountValues = CountValues - 1
        BY CountValuesIs
      <4> QED BY <3>2, <4>1, CountValuesIs
    <3> QED BY <2>3, <3>1, <3>2
  <2> HIDE DEF count, due
  <2>5. due \in 0 .. CountValues \cup {W!Never}
    BY <2>4, CountValuesIs
  <2>6. /\ state' \in WatchdogState /\ state'.run = state.run /\ state'.alarm = state.alarm /\ SameEnables(state', state)
        /\ state'.count = count /\ state'.due = due
    BY <1>1, <2>2, <2>4, <2>5 DEF WatchdogState, SameEnables
  <2> QED BY <1>1, <2>1, <2>4, <2>6 DEF WatchdogTimed, Counting, SameEnables
<1>3. CASE W!TimesOut
  <2> DEFINE why == "TIMER"
             u == [state EXCEPT !.reason = why]
  <2>1. state' = W!Scheduled(u) /\ why \in {"NONE", "FORCE", "TIMER"}
    BY <1>3 DEF W!TimesOut
  <2> HIDE DEF why
  <2>2. u \in WatchdogState /\ u.run = state.run /\ u.alarm = state.alarm /\ SameEnables(u, state)
    BY <1>1, <2>1 DEF WatchdogState, SameEnables
  <2> HIDE DEF u
  <2> QED BY <1>1, <2>1, <2>2, ScheduledIs DEF WatchdogTimed, SameEnables
<1>4. CASE W!WriteCtrl
  <2>1. PICK trigger, enable \in BOOLEAN : state' = W!CtrlWritten(state, trigger, enable)
    BY <1>4 DEF W!WriteCtrl
  <2> DEFINE why == IF trigger THEN "FORCE" ELSE state.reason
             t == [state EXCEPT !.reason = why, !.enable = enable]
             on == enable /\ t.ticking
  <2>2. state' = W!Enabled(t, on) /\ why \in {"NONE", "FORCE", "TIMER"}
    BY <1>1, <2>1 DEF W!CtrlWritten, WatchdogState
  <2> HIDE DEF why
  <2>3. Counting(t) /\ t.enable = enable /\ t.ticking \in BOOLEAN
    BY <1>1, <2>2 DEF Counting, WatchdogState
  <2> HIDE DEF t
  <2>4. on \in BOOLEAN
    BY <2>3
  <2> HIDE DEF on
  <2>5. Counting(state') /\ SameEnables(state', t) /\ state'.run = on
    BY <2>2, <2>3, <2>4, EnabledIs
  <2> QED BY <2>3, <2>5 DEF WatchdogTimed, SameEnables, on
<1>5. CASE W!WriteLoad
  <2>1. PICK n \in Loads : state' = W!Loaded(state, n)
    BY <1>5 DEF W!WriteLoad
  <2>2. n \in 0 .. CountValues - 1
    BY CountValuesIs
  <2> QED BY <1>1, <2>1, <2>2, LoadedIs DEF WatchdogTimed, SameEnables
<1>6. CASE W!Retick
  BY <1>1, <1>6, ReticksIs DEF W!Retick
<1>7. CASE W!Reset
  <2> DEFINE why == "NONE"
             no == FALSE
             zero == 0
             t == [state EXCEPT !.reason = why, !.enable = no]
             u == W!Enabled(t, no)
             v == W!Loaded(u, zero)
  <2>1. state' = W!Reticked(v, no) /\ why \in {"NONE", "FORCE", "TIMER"} /\ no \in BOOLEAN /\ zero \in 0 .. CountValues - 1
    BY <1>7, CountValuesIs DEF W!Reset, W!WasReset
  <2> HIDE DEF why, no, zero
  <2>2. Counting(t)
    BY <1>1, <2>1 DEF Counting, WatchdogState
  <2> HIDE DEF t
  <2>3. Counting(u)
    BY <2>1, <2>2, EnabledIs
  <2> HIDE DEF u
  <2>4. Counting(v)
    BY <2>1, <2>3, LoadedIs
  <2> HIDE DEF v
  <2> QED BY <2>1, <2>4, ReticksIs
<1> QED BY <1>2, <1>3, <1>4, <1>5, <1>6, <1>7 DEF W!Next

\* The alarm is a whole number of wraps from the count.
LEMMA CountingIsOnTarget == WatchdogTimed(state) => W!AlarmsComeOnTarget
<1> SUFFICES ASSUME WatchdogTimed(state) PROVE W!AlarmsComeOnTarget
  OBVIOUS
<1>1. state \in WatchdogState /\ state.run = (state.enable /\ state.ticking)
  BY DEF WatchdogTimed, Counting
<1>2. CASE state.run
  <2>1. /\ state.due = state.count \/ (state.due = CountValues /\ state.count = 0)
        /\ state.count \in 0 .. CountValues - 1
    BY <1>2 DEF WatchdogTimed, Counting, WatchdogState
  <2>2. state.due # W!Never
    BY <2>1, CountValuesIs DEF W!Never
  <2>3. (state.count - state.due) % CountValues = 0
    <3>1. CASE state.due = state.count
      <4>1. 0 % CountValues = 0 /\ state.count - state.due = 0
        BY <2>1, <3>1, CountValuesIs
      <4> QED BY <4>1
    <3>2. CASE state.due = CountValues /\ state.count = 0
      <4>1. (0 - CountValues) % CountValues = 0
        BY CountValuesIs
      <4> QED BY <3>2, <4>1
    <3> QED BY <2>1, <3>1, <3>2
  <2> QED BY <1>1, <1>2, <2>2, <2>3 DEF W!AlarmsComeOnTarget
<1>3. CASE ~ state.run
  <2>1. state.due = W!Never
    BY <1>3 DEF WatchdogTimed, Counting
  <2> QED BY <1>1, <1>3, <2>1 DEF W!AlarmsComeOnTarget
<1> QED BY <1>2, <1>3

-----------------------------------------------------------------------------
(* The alarms of a PWM slice. *)

PwmState ==
  [en : BOOLEAN, ph : BOOLEAN, gated : BOOLEAN, b : BOOLEAN, slow : BOOLEAN, run : BOOLEAN, count : Nat, top : Nat,
   target : [P!Events -> Nat], due : [P!Events -> Nat \cup {P!Never}], cc : Nat, ctop : Nat, cc_updated : BOOLEAN,
   top_updated : BOOLEAN, lcc : Nat, ltop : Nat \cup {P!NoTop}, out : BOOLEAN, raw : BOOLEAN, inte : BOOLEAN,
   intf : BOOLEAN, line : BOOLEAN, steady : BOOLEAN]

\* The counter of p is in its period.
InPeriod(p) == p \in PwmState /\ (p.run => p.count <= p.top)

\* The alarm of event e is with the clock for the count it waits for.
Comes(p, e) ==
  IF p.run /\ p.target[e] <= p.top THEN p.due[e] # P!Never /\ (p.count + p.due[e]) % (p.top + 1) = p.target[e]
  ELSE p.due[e] = P!Never

PwmTimed(p) == InPeriod(p) /\ \A e \in P!Events : Comes(p, e)

\* The alarms depend on these.
SameCounter(q, p) ==
  q.run = p.run /\ q.count = p.count /\ q.top = p.top /\ q.target = p.target /\ q.due = p.due

LEMMA PwmSame ==
  ASSUME NEW p, NEW q \in PwmState, SameCounter(q, p)
  PROVE  (InPeriod(p) => InPeriod(q)) /\ (PwmTimed(p) => PwmTimed(q))
  BY DEF PwmTimed, InPeriod, Comes, SameCounter

\* A target in the period comes in a whole number of counts, at the count it waits for.
LEMMA CountsToIs ==
  ASSUME NEW count \in Nat, NEW target \in Nat, NEW top \in Nat, count <= top
  PROVE  /\ P!CountsTo(count, target, top) \in Nat \cup {P!Never}
         /\ IF target <= top
            THEN /\ P!CountsTo(count, target, top) # P!Never
                 /\ (count + P!CountsTo(count, target, top)) % (top + 1) = target
            ELSE P!CountsTo(count, target, top) = P!Never
<1> DEFINE k == top + 1
           d == P!CountsTo(count, target, top)
<1>1. k \in Nat \ {0} /\ P!Never = -1
  BY DEF P!Never
<1>2. CASE target > top
  BY <1>1, <1>2 DEF P!CountsTo
<1>3. CASE target <= top /\ target > count
  <2>1. d = target - count /\ d \in Nat /\ count + d = target
    BY <1>3 DEF P!CountsTo
  <2>2. target % k = target
    <3>1. target \in 0 .. k - 1
      BY <1>3
    <3> HIDE DEF k
    <3> QED BY <1>1, <3>1
  <2> QED BY <1>1, <1>3, <2>1, <2>2
<1>4. CASE target <= top /\ ~ (target > count)
  <2>1. d = target - count + top + 1 /\ d \in Nat /\ count + d = target + k
    BY <1>4 DEF P!CountsTo
  <2>2. (target + k) % k = target
    <3> DEFINE one == 1
    <3>1. target \in 0 .. k - 1 /\ one \in Int /\ k * one = k /\ target \in Int
      BY <1>4
    <3> HIDE DEF k, one
    <3>2. (k * one + target) % k = target
      BY <1>1, <3>1, DivisionIsUnique
    <3> QED BY <1>1, <3>1, <3>2
  <2> HIDE DEF k
  <2>3. (count + d) % k = target
    BY <2>1, <2>2
  <2> QED BY <1>1, <1>4, <2>1, <2>3 DEF k
<1> QED BY <1>2, <1>3, <1>4

\* What is scheduled anew comes.
LEMMA ScheduledComes ==
  ASSUME NEW p, InPeriod(p), NEW events, \A e \in P!Events \ events : Comes(p, e)
  PROVE  LET q == P!Scheduled(p, events)
         IN  PwmTimed(q) /\ q.run = p.run /\ q.top = p.top /\ q.ltop = p.ltop
<1> DEFINE to(e) == P!CountsTo(p.count, p.target[e], p.top)
           due == [e \in P!Events |-> IF e \notin events THEN p.due[e] ELSE IF p.run THEN to(e) ELSE P!Never]
           q == P!Scheduled(p, events)
<1>1. q = [p EXCEPT !.due = due]
  BY DEF P!Scheduled
<1>2. p \in PwmState /\ (p.run => p.count <= p.top)
  BY DEF InPeriod
<1>3. \A e \in P!Events : p.target[e] \in Nat /\ p.due[e] \in Nat \cup {P!Never} /\ p.count \in Nat /\ p.top \in Nat
  BY <1>2 DEF PwmState
<1>4. ASSUME NEW e \in P!Events, p.run
      PROVE  /\ to(e) \in Nat \cup {P!Never}
             /\ IF p.target[e] <= p.top THEN to(e) # P!Never /\ (p.count + to(e)) % (p.top + 1) = p.target[e]
                ELSE to(e) = P!Never
  <2> DEFINE count == p.count
             target == p.target[e]
             top == p.top
  <2>1. count \in Nat /\ target \in Nat /\ top \in Nat /\ count <= top
    BY <1>2, <1>3, <1>4
  <2> HIDE DEF count, target, top
  <2>2. /\ P!CountsTo(count, target, top) \in Nat \cup {P!Never}
        /\ IF target <= top
           THEN /\ P!CountsTo(count, target, top) # P!Never
                /\ (count + P!CountsTo(count, target, top)) % (top + 1) = target
           ELSE P!CountsTo(count, target, top) = P!Never
    BY <2>1, CountsToIs
  <2> QED BY <2>2 DEF count, target, top
<1> HIDE DEF to
<1>5. \A e \in P!Events : due[e] \in Nat \cup {P!Never}
  BY <1>3, <1>4
<1>6. due \in [P!Events -> Nat \cup {P!Never}]
  <2> DEFINE v(e) == IF e \notin events THEN p.due[e] ELSE IF p.run THEN to(e) ELSE P!Never
  <2>1. \A e \in P!Events : v(e) \in Nat \cup {P!Never}
    BY <1>3, <1>4
  <2> HIDE DEF v
  <2>2. [e \in P!Events |-> v(e)] \in [P!Events -> Nat \cup {P!Never}]
    BY <2>1
  <2> QED BY <2>2 DEF v
<1>7. ASSUME NEW e \in P!Events
      PROVE  IF p.run /\ p.target[e] <= p.top THEN due[e] # P!Never /\ (p.count + due[e]) % (p.top + 1) = p.target[e]
             ELSE due[e] = P!Never
  <2>1. CASE e \notin events
    BY <2>1 DEF Comes
  <2>2. CASE e \in events /\ p.run
    BY <1>4, <2>2
  <2>3. CASE e \in events /\ ~ p.run
    BY <2>3
  <2> QED BY <2>1, <2>2, <2>3
<1> HIDE DEF due, q
<1>8. /\ q \in PwmState /\ q.run = p.run /\ q.count = p.count /\ q.top = p.top /\ q.target = p.target /\ q.due = due
      /\ q.ltop = p.ltop
  BY <1>1, <1>2, <1>6 DEF PwmState
<1>9. PwmTimed(q)
  BY <1>2, <1>7, <1>8 DEF PwmTimed, InPeriod, Comes
<1> QED BY <1>8, <1>9 DEF q

LEMMA UpdatedComes ==
  ASSUME NEW p, InPeriod(p)
  PROVE  LET q == P!Updated(p) IN PwmTimed(q) /\ q.run = p.run /\ q.top = p.top /\ q.ltop = p.ltop
  BY ScheduledComes DEF P!Updated

LEMMA Counts ==
  ASSUME NEW n \in Int, NEW top \in Nat
  PROVE  n % (top + 1) \in Nat /\ n % (top + 1) <= top
<1> DEFINE k == top + 1
<1>1. k \in Nat \ {0}
  OBVIOUS
<1> HIDE DEF k
<1>2. (n % k) \in 0 .. k - 1
  BY <1>1, Division
<1> QED BY <1>1, <1>2 DEF k

LEMMA PlacedComes ==
  ASSUME NEW p \in PwmState, NEW n \in Nat
  PROVE  LET q == P!Placed(p, n) IN PwmTimed(q) /\ q.run = p.run /\ q.top = p.top /\ q.ltop = p.ltop
<1> DEFINE count == IF p.run THEN n % (p.top + 1) ELSE n
           u == [p EXCEPT !.count = count]
<1>1. p.top \in Nat
  BY DEF PwmState
<1>2. count \in Nat /\ (p.run => count <= p.top)
  <2> DEFINE top == p.top
             m == n % (top + 1)
  <2>1. top \in Nat /\ n \in Int
    BY <1>1
  <2> HIDE DEF top
  <2>2. m \in Nat /\ m <= top
    BY <2>1, Counts
  <2> HIDE DEF m
  <2>3. count = IF p.run THEN m ELSE n
    BY DEF m, top
  <2> HIDE DEF count
  <2> QED BY <2>2, <2>3 DEF top
<1>3. P!Placed(p, n) = P!Updated(u)
  BY DEF P!Placed
<1> HIDE DEF count
<1>4. InPeriod(u) /\ u.run = p.run /\ u.top = p.top /\ u.ltop = p.ltop
  BY <1>2 DEF InPeriod, PwmState
<1> HIDE DEF u
<1> QED BY <1>3, <1>4, UpdatedComes

LEMMA RunComes ==
  ASSUME NEW p, PwmTimed(p), NEW run \in BOOLEAN
  PROVE  LET q == P!Run(p, run) IN PwmTimed(q) /\ q.run = run /\ q.top = p.top /\ q.ltop = p.ltop
<1> DEFINE u == [p EXCEPT !.run = run]
<1>1. p \in PwmState /\ p.count \in Nat
  BY DEF PwmTimed, InPeriod, PwmState
<1>2. P!Run(p, run) = IF run = p.run THEN p ELSE P!Placed(u, p.count)
  BY DEF P!Run
<1>3. u \in PwmState /\ u.run = run /\ u.top = p.top /\ u.ltop = p.ltop
  BY <1>1 DEF PwmState
<1> HIDE DEF u
<1>4. LET q == P!Placed(u, p.count) IN PwmTimed(q) /\ q.run = u.run /\ q.top = u.top /\ q.ltop = u.ltop
  BY <1>1, <1>3, PlacedComes
<1> QED BY <1>2, <1>3, <1>4

LEMMA AdvancedComes ==
  ASSUME NEW p \in PwmState, NEW delta \in Int
  PROVE  LET q == P!Advanced(p, delta) IN PwmTimed(q) /\ q.run = p.run /\ q.top = p.top /\ q.ltop = p.ltop
<1> DEFINE n == p.count + delta
           count == n % (p.top + 1)
           no == FALSE
           u == [p EXCEPT !.count = count, !.steady = no]
<1>1. p.top \in Nat /\ n \in Int /\ no \in BOOLEAN
  BY DEF PwmState
<1>2. P!Advanced(p, delta) = P!Updated(u)
  BY DEF P!Advanced
<1>3. count \in Nat /\ count <= p.top
  <2> DEFINE top == p.top
  <2>1. top \in Nat
    BY <1>1
  <2> HIDE DEF top, n
  <2>2. n % (top + 1) \in Nat /\ n % (top + 1) <= top
    BY <1>1, <2>1, Counts
  <2> QED BY <2>2 DEF top
<1> HIDE DEF count, n, no
<1>4. InPeriod(u) /\ u.run = p.run /\ u.top = p.top /\ u.ltop = p.ltop
  BY <1>1, <1>3 DEF InPeriod, PwmState
<1> HIDE DEF u
<1> QED BY <1>2, <1>4, UpdatedComes

LEMMA RetargetedComes ==
  ASSUME NEW p, PwmTimed(p), NEW e \in P!Events, NEW n \in Nat
  PROVE  LET q == P!Retargeted(p, e, n) IN PwmTimed(q) /\ q.run = p.run /\ q.top = p.top /\ q.ltop = p.ltop
<1> DEFINE target == [p.target EXCEPT ![e] = n]
           u == [p EXCEPT !.target = target]
<1>1. p \in PwmState /\ (p.run => p.count <= p.top) /\ \A f \in P!Events : Comes(p, f)
  BY DEF PwmTimed, InPeriod
<1>2. P!Retargeted(p, e, n) = IF p.target[e] = n THEN p ELSE P!Scheduled(u, {e})
  BY DEF P!Retargeted
<1>3. target \in [P!Events -> Nat] /\ \A f \in P!Events \ {e} : target[f] = p.target[f]
  BY <1>1 DEF PwmState
<1> HIDE DEF target
<1>4. /\ u \in PwmState /\ u.run = p.run /\ u.top = p.top /\ u.ltop = p.ltop /\ u.count = p.count /\ u.due = p.due
      /\ u.target = target
  BY <1>1, <1>3 DEF PwmState
<1> HIDE DEF u
<1>5. InPeriod(u) /\ \A f \in P!Events \ {e} : Comes(u, f)
  BY <1>1, <1>3, <1>4 DEF InPeriod, Comes
<1>6. LET q == P!Scheduled(u, {e}) IN PwmTimed(q) /\ q.run = u.run /\ q.top = u.top /\ q.ltop = u.ltop
  BY <1>5, ScheduledComes
<1> QED BY <1>2, <1>4, <1>6

LEMMA ToppedComes ==
  ASSUME NEW p, PwmTimed(p), NEW top \in Nat
  PROVE  LET q == P!Topped(p, top) IN PwmTimed(q) /\ q.run = p.run /\ q.ltop = p.ltop
<1> DEFINE count == IF p.count <= top THEN p.count ELSE 0
           u == [p EXCEPT !.top = top, !.count = count]
<1>1. p \in PwmState
  BY DEF PwmTimed, InPeriod
<1>2. P!Topped(p, top) = IF p.top = top THEN p ELSE P!Updated(u)
  BY DEF P!Topped
<1>3. count \in Nat /\ count <= top
  BY <1>1 DEF PwmState
<1> HIDE DEF count
<1>4. InPeriod(u) /\ u.run = p.run /\ u.ltop = p.ltop
  BY <1>1, <1>3 DEF InPeriod, PwmState
<1> HIDE DEF u
<1>5. LET q == P!Updated(u) IN PwmTimed(q) /\ q.run = u.run /\ q.ltop = u.ltop
  BY <1>4, UpdatedComes
<1> QED BY <1>2, <1>4, <1>5

\* A latched period is timed.
LEMMA ApplyLatchedComes ==
  ASSUME NEW p, PwmTimed(p)
  PROVE  LET q == P!ApplyLatched(p) IN PwmTimed(q) /\ q.run = p.run
<1> DEFINE top == p.ltop
           period == (top + 1) * (IF p.ph THEN 2 ELSE 1)
           fall == IF ~ p.ph \/ p.lcc <= top THEN p.lcc ELSE period
           rise == IF p.ph /\ 1 <= p.lcc /\ p.lcc <= top THEN period - p.lcc ELSE period
           wrap == period - 1
           u == P!Topped(p, wrap)
           v == P!Retargeted(u, "fall", fall)
           w == P!Retargeted(v, "rise", rise)
<1>1. P!ApplyLatched(p) = IF top = P!NoTop THEN p ELSE w
  BY DEF P!ApplyLatched
<1>2. p \in PwmState
  BY DEF PwmTimed, InPeriod
<1>3. CASE top = P!NoTop
  BY <1>1, <1>3
<1>4. CASE top # P!NoTop
  <2>1. top \in Nat /\ p.lcc \in Nat
    BY <1>2, <1>4 DEF PwmState
  <2>2. period \in Nat \ {0} /\ period >= top + 1
    BY <2>1
  <2> HIDE DEF period
  <2>3. wrap \in Nat /\ fall \in Nat /\ rise \in Nat
    BY <2>1, <2>2
  <2> HIDE DEF wrap, fall, rise
  <2>4. PwmTimed(u) /\ u.run = p.run
    BY <2>3, ToppedComes
  <2> HIDE DEF u
  <2>5. PwmTimed(v) /\ v.run = p.run
    BY <2>3, <2>4, RetargetedComes DEF P!Events
  <2> HIDE DEF v
  <2>6. PwmTimed(w) /\ w.run = p.run
    BY <2>3, <2>5, RetargetedComes DEF P!Events
  <2> HIDE DEF w
  <2> QED BY <1>1, <1>4, <2>6
<1> QED BY <1>3, <1>4

LEMMA DoubleBufferedComes ==
  ASSUME NEW p, PwmTimed(p)
  PROVE  LET q == P!UpdateDoubleBuffered(p) IN PwmTimed(q) /\ q.run = p.run
<1> DEFINE lcc == IF p.cc_updated THEN p.cc ELSE p.lcc
           ltop == IF p.top_updated THEN p.ctop ELSE p.ltop
           no == FALSE
           u == [p EXCEPT !.lcc = lcc, !.ltop = ltop, !.cc_updated = no, !.top_updated = no]
           v == [u EXCEPT !.steady = no]
<1>1. P!UpdateDoubleBuffered(p) = IF p.cc_updated \/ p.top_updated THEN P!ApplyLatched(v) ELSE p
  BY DEF P!UpdateDoubleBuffered
<1>2. p \in PwmState /\ no \in BOOLEAN
  BY DEF PwmTimed, InPeriod
<1>3. lcc \in Nat /\ ltop \in Nat \cup {P!NoTop}
  BY <1>2 DEF PwmState
<1> HIDE DEF lcc, ltop, no
<1>4. u \in PwmState /\ SameCounter(u, p)
  BY <1>2, <1>3 DEF PwmState, SameCounter
<1> HIDE DEF u
<1>5. v \in PwmState /\ SameCounter(v, p)
  BY <1>2, <1>4 DEF PwmState, SameCounter
<1> HIDE DEF v
<1>6. PwmTimed(v) /\ v.run = p.run
  BY <1>5, PwmSame DEF SameCounter
<1> QED BY <1>1, <1>6, ApplyLatchedComes

LEMMA PwmChecked ==
  ASSUME NEW p, PwmTimed(p)
  PROVE  LET q == P!CheckInterrupts(p) IN PwmTimed(q) /\ q.run = p.run
<1> DEFINE line == (p.raw /\ p.inte) \/ p.intf
           q == P!CheckInterrupts(p)
<1>1. p \in PwmState
  BY DEF PwmTimed, InPeriod
<1>2. line \in BOOLEAN /\ q = [p EXCEPT !.line = line]
  BY <1>1 DEF P!CheckInterrupts, PwmState
<1> HIDE DEF line, q
<1>3. q \in PwmState /\ SameCounter(q, p)
  BY <1>1, <1>2 DEF PwmState, SameCounter
<1> QED BY <1>3, PwmSame DEF q, SameCounter

LEMMA EnableComes ==
  ASSUME NEW p, PwmTimed(p)
  PROVE  PwmTimed(P!UpdateEnable(p))
<1> DEFINE run == p.en /\ (p.gated => p.b)
<1>1. run \in BOOLEAN
  BY DEF PwmTimed, InPeriod, PwmState
<1>2. P!UpdateEnable(p) = P!Run(p, run)
  BY DEF P!UpdateEnable
<1> HIDE DEF run
<1> QED BY <1>1, <1>2, RunComes

\* A change of a field that is not the counter's.
LEMMA FieldsStay ==
  ASSUME NEW p, PwmTimed(p), NEW x \in BOOLEAN, NEW n \in Nat
  PROVE  /\ PwmTimed([p EXCEPT !.en = x]) /\ PwmTimed([p EXCEPT !.b = x]) /\ PwmTimed([p EXCEPT !.slow = x])
         /\ PwmTimed([p EXCEPT !.steady = x]) /\ PwmTimed([p EXCEPT !.out = x]) /\ PwmTimed([p EXCEPT !.raw = x])
         /\ PwmTimed([p EXCEPT !.inte = x]) /\ PwmTimed([p EXCEPT !.intf = x])
         /\ PwmTimed([p EXCEPT !.cc = n, !.cc_updated = x]) /\ PwmTimed([p EXCEPT !.ctop = n, !.top_updated = x])
<1>1. p \in PwmState
  BY DEF PwmTimed, InPeriod
<1>2. ASSUME NEW q \in PwmState, SameCounter(q, p) PROVE PwmTimed(q)
  BY <1>2, PwmSame
<1>3. PwmTimed([p EXCEPT !.en = x])
  BY <1>1, <1>2 DEF PwmState, SameCounter
<1>4. PwmTimed([p EXCEPT !.b = x])
  BY <1>1, <1>2 DEF PwmState, SameCounter
<1>5. PwmTimed([p EXCEPT !.slow = x])
  BY <1>1, <1>2 DEF PwmState, SameCounter
<1>6. PwmTimed([p EXCEPT !.steady = x])
  BY <1>1, <1>2 DEF PwmState, SameCounter
<1>7. PwmTimed([p EXCEPT !.out = x])
  BY <1>1, <1>2 DEF PwmState, SameCounter
<1>8. PwmTimed([p EXCEPT !.raw = x])
  BY <1>1, <1>2 DEF PwmState, SameCounter
<1>9. PwmTimed([p EXCEPT !.inte = x])
  BY <1>1, <1>2 DEF PwmState, SameCounter
<1>10. PwmTimed([p EXCEPT !.intf = x])
  BY <1>1, <1>2 DEF PwmState, SameCounter
<1>11. PwmTimed([p EXCEPT !.cc = n, !.cc_updated = x])
  BY <1>1, <1>2 DEF PwmState, SameCounter
<1>12. PwmTimed([p EXCEPT !.ctop = n, !.top_updated = x])
  BY <1>1, <1>2 DEF PwmState, SameCounter
<1> QED BY <1>3, <1>4, <1>5, <1>6, <1>7, <1>8, <1>9, <1>10, <1>11, <1>12

LEMMA CsrComes ==
  ASSUME NEW p, PwmTimed(p), NEW en \in BOOLEAN, NEW ph \in BOOLEAN, NEW gated \in BOOLEAN, NEW move \in {-1, 0, 1}
  PROVE  PwmTimed(P!CsrWritten(p, en, ph, gated, move))
<1> DEFINE u == IF en /\ ~ p.en THEN P!UpdateDoubleBuffered(p) ELSE p
           v == [u EXCEPT !.en = en, !.ph = ph, !.gated = gated]
           w == IF en /\ ((move = 1 /\ p.slow) \/ move = -1) THEN P!Advanced(v, move) ELSE v
           x == P!UpdateEnable(w)
           no == FALSE
           y == [x EXCEPT !.steady = no]
<1>1. P!CsrWritten(p, en, ph, gated, move) = IF ph = p.ph THEN x ELSE P!ApplyLatched(y)
  BY DEF P!CsrWritten
<1>2. PwmTimed(u)
  BY DoubleBufferedComes
<1> HIDE DEF u
<1>7. u \in PwmState
  BY <1>2 DEF PwmTimed, InPeriod
<1>3. v \in PwmState /\ SameCounter(v, u)
  <2>1. v \in PwmState
    BY <1>7 DEF PwmState
  <2>2. SameCounter(v, u)
    BY <1>7 DEF PwmState, SameCounter
  <2> QED BY <2>1, <2>2
<1> HIDE DEF v
<1>4. PwmTimed(v)
  BY <1>2, <1>3, PwmSame
<1>5. PwmTimed(w)
  <2>1. PwmTimed(P!Advanced(v, move))
    BY <1>3, AdvancedComes
  <2> QED BY <1>4, <2>1
<1> HIDE DEF w
<1>6. PwmTimed(x)
  BY <1>5, EnableComes
<1> HIDE DEF x
<1>8. PwmTimed(y)
  BY <1>6, FieldsStay
<1> HIDE DEF y
<1> QED BY <1>1, <1>6, <1>8, ApplyLatchedComes

LEMMA EnComes ==
  ASSUME NEW p, PwmTimed(p), NEW en \in BOOLEAN
  PROVE  PwmTimed(P!EnWritten(p, en))
<1> DEFINE u == IF en /\ ~ p.en THEN P!UpdateDoubleBuffered(p) ELSE p
           v == [u EXCEPT !.en = en]
<1>1. PwmTimed(u)
  BY DoubleBufferedComes
<1> HIDE DEF u
<1>2. PwmTimed(v)
  <2> DEFINE zero == 0
  <2>1. zero \in Nat
    OBVIOUS
  <2> HIDE DEF zero
  <2> QED BY <1>1, <2>1, FieldsStay
<1> HIDE DEF v
<1>3. P!EnWritten(p, en) = P!UpdateEnable(v)
  BY DEF P!EnWritten, v, u
<1> QED BY <1>2, <1>3, EnableComes

LEMMA DivComes ==
  ASSUME NEW p, PwmTimed(p), NEW slow \in BOOLEAN
  PROVE  PwmTimed(P!DivWritten(p, slow))
<1> DEFINE yes == TRUE
           u == P!Run(p, yes)
           v == [u EXCEPT !.slow = slow]
<1>1. P!DivWritten(p, slow) = P!Updated(v) /\ yes \in BOOLEAN
  BY DEF P!DivWritten
<1> HIDE DEF yes
<1>2. PwmTimed(u)
  BY <1>1, RunComes
<1> HIDE DEF u
<1>3. InPeriod(v)
  BY <1>2 DEF PwmTimed, InPeriod, PwmState
<1> HIDE DEF v
<1> QED BY <1>1, <1>3, UpdatedComes

LEMMA WrappedComes ==
  ASSUME NEW p, PwmTimed(p)
  PROVE  PwmTimed(P!Wrapped(p))
<1> DEFINE yes == TRUE
           raised == [p EXCEPT !.raw = yes]
           checked == P!CheckInterrupts(raised)
           u == P!UpdateDoubleBuffered(checked)
           out == u.lcc > 0
           e == [u EXCEPT !.out = out, !.steady = yes]
           zero == 0
<1>1. P!Wrapped(p) = e /\ yes \in BOOLEAN /\ zero \in Nat
  BY DEF P!Wrapped
<1> HIDE DEF yes, zero
<1>2. PwmTimed(raised)
  BY <1>1, FieldsStay
<1> HIDE DEF raised
<1>3. PwmTimed(checked)
  BY <1>2, PwmChecked
<1> HIDE DEF checked
<1>4. PwmTimed(u)
  BY <1>3, DoubleBufferedComes
<1> HIDE DEF u
<1>5. out \in BOOLEAN
  OBVIOUS
<1> HIDE DEF out
<1>6. u \in PwmState
  BY <1>4 DEF PwmTimed, InPeriod
<1>7. e \in PwmState
  BY <1>1, <1>5, <1>6 DEF PwmState
<1>8. SameCounter(e, u)
  BY <1>6 DEF PwmState, SameCounter
<1> HIDE DEF e
<1> QED BY <1>1, <1>4, <1>7, <1>8, PwmSame

LEMMA PwmResetComes ==
  ASSUME NEW p, PwmTimed(p)
  PROVE  PwmTimed(P!WasReset(p))
<1> DEFINE no == FALSE
           yes == TRUE
           zero == 0
           top == ResetTop
           s == P!CsrWritten(p, no, no, no, zero)
           t == P!DivWritten(s, no)
           u == P!Run(t, no)
           r == [u EXCEPT !.count = zero, !.cc = zero, !.cc_updated = yes, !.ctop = top, !.top_updated = yes]
           v == [r EXCEPT !.raw = no, !.inte = no, !.intf = no, !.line = no, !.steady = no]
<1>1. /\ no \in BOOLEAN /\ ~ no /\ yes \in BOOLEAN /\ zero \in Nat /\ zero \in {-1, 0, 1} /\ top \in Nat
  BY PeripheralsAssumption DEF P!PwmAssumption
<1>2. P!WasReset(p) = v
  BY DEF P!WasReset
<1> HIDE DEF no, yes, zero, top
<1>3. PwmTimed(s)
  BY <1>1, CsrComes
<1> HIDE DEF s
<1>4. PwmTimed(t)
  BY <1>1, <1>3, DivComes
<1> HIDE DEF t
<1>5. PwmTimed(u) /\ u.run = no
  BY <1>1, <1>4, RunComes
<1> HIDE DEF u
<1>6. u \in PwmState /\ \A e \in P!Events : u.due[e] = P!Never
  BY <1>1, <1>5 DEF PwmTimed, InPeriod, Comes
<1>7. v \in PwmState /\ v.run = no /\ v.due = u.due
  <2>1. r \in PwmState /\ r.run = u.run /\ r.due = u.due
    BY <1>1, <1>6 DEF PwmState
  <2> HIDE DEF r
  <2>2. v \in PwmState /\ v.run = u.run /\ v.due = u.due
    BY <1>1, <2>1 DEF PwmState
  <2> QED BY <1>5, <2>1, <2>2
<1> HIDE DEF v
<1>8. PwmTimed(v)
  BY <1>1, <1>6, <1>7 DEF PwmTimed, InPeriod, Comes
<1> QED BY <1>2, <1>8

LEMMA PwmOn == PwmTimed(P!PowerOn)
<1> DEFINE never == P!Never
           notop == P!NoTop
           zero == 0
           no == FALSE
           yes == TRUE
           due == [e \in P!Events |-> never]
           target == [e \in P!Events |-> zero]
           top == Wide - 1
           reset == ResetTop
           v == [en |-> no, ph |-> no, gated |-> no, b |-> no, slow |-> no, run |-> no,
                 count |-> zero, top |-> top, target |-> target, due |-> due,
                 cc |-> zero, ctop |-> reset, cc_updated |-> yes, top_updated |-> yes, lcc |-> zero, ltop |-> notop,
                 out |-> no, raw |-> no, inte |-> no, intf |-> no, line |-> no, steady |-> no]
<1>1. Wide \in Nat /\ reset \in Nat /\ 2 * (reset + 1) < Wide
  BY PeripheralsAssumption DEF P!PwmAssumption
<1>2. /\ no \in BOOLEAN /\ ~ no /\ yes \in BOOLEAN /\ zero \in Nat /\ top \in Nat
      /\ notop \in Nat \cup {P!NoTop} /\ due \in [P!Events -> Nat \cup {P!Never}] /\ target \in [P!Events -> Nat]
      /\ \A e \in P!Events : due[e] = P!Never
  BY <1>1
<1>3. P!PowerOn = v
  BY DEF P!PowerOn
<1> HIDE DEF no, yes, zero, top, notop, due, target, reset
<1>4. v \in PwmState
  BY <1>1, <1>2 DEF PwmState
<1>5. v.run = no /\ v.due = due
  OBVIOUS
<1> HIDE DEF v
<1>6. PwmTimed(v)
  BY <1>2, <1>4, <1>5 DEF PwmTimed, InPeriod, Comes
<1> QED BY <1>3, <1>6

LEMMA PwmTick ==
  ASSUME PwmTimed(state), P!Tick
  PROVE  PwmTimed(state')
<1> DEFINE k == state.top + 1
           count == (state.count + 1) % k
           due == [e \in P!Events |-> IF state.due[e] = P!Never THEN P!Never ELSE state.due[e] - 1]
<1>1. /\ state \in PwmState /\ state.run /\ \A e \in P!Events : Comes(state, e) /\ state.due[e] # 0
  BY DEF PwmTimed, InPeriod, P!Tick, P!Settled
<1>2. state' = [state EXCEPT !.count = count, !.due = due]
  BY DEF P!Tick
<1>3. /\ k \in Nat \ {0} /\ state.count \in Nat /\ state.top \in Nat
      /\ \A e \in P!Events : state.due[e] \in Nat \cup {P!Never} /\ state.target[e] \in Nat
  BY <1>1 DEF PwmState
<1>4. count \in Nat /\ count <= state.top
  <2> DEFINE n == state.count + 1
             top == state.top
  <2>1. n \in Int /\ top \in Nat
    BY <1>3
  <2> HIDE DEF n, top
  <2>2. n % (top + 1) \in Nat /\ n % (top + 1) <= top
    BY <2>1, Counts
  <2> QED BY <2>2 DEF n, top
<1>5. due \in [P!Events -> Nat \cup {P!Never}]
  <2> DEFINE v(e) == IF state.due[e] = P!Never THEN P!Never ELSE state.due[e] - 1
  <2>1. \A e \in P!Events : v(e) \in Nat \cup {P!Never}
    BY <1>1, <1>3
  <2> HIDE DEF v
  <2>2. [e \in P!Events |-> v(e)] \in [P!Events -> Nat \cup {P!Never}]
    BY <2>1
  <2> QED BY <2>2 DEF v
<1>6. ASSUME NEW e \in P!Events
      PROVE  IF state.target[e] <= state.top THEN due[e] # P!Never /\ (count + due[e]) % k = state.target[e]
             ELSE due[e] = P!Never
  <2>1. Comes(state, e) /\ state.due[e] \in Nat \cup {P!Never} /\ state.due[e] # 0
    BY <1>1, <1>3
  <2>2. CASE state.target[e] <= state.top
    <3> DEFINE d == state.due[e] - 1
               n == state.count + 1
    <3>1. state.due[e] # P!Never /\ (state.count + state.due[e]) % k = state.target[e]
      BY <1>1, <2>1, <2>2 DEF Comes
    <3>2. due[e] = d /\ d \in Nat /\ n \in Int /\ n + d = state.count + state.due[e] /\ d # P!Never
      BY <1>3, <2>1, <3>1 DEF P!Never
    <3> HIDE DEF d, k, due
    <3>3. ((n % k) + d) % k = (n + d) % k
      <4> HIDE DEF n
      <4> QED BY <1>3, <3>2, NextRemainder
    <3>4. (count + due[e]) % k = (n + d) % k
      BY <3>2, <3>3
    <3> QED BY <2>2, <3>1, <3>2, <3>4
  <2>3. CASE ~ (state.target[e] <= state.top)
    BY <2>1, <2>3 DEF Comes
  <2> QED BY <2>2, <2>3
<1> HIDE DEF count, due
<1>7. /\ state' \in PwmState /\ state'.run = state.run /\ state'.count = count /\ state'.due = due
      /\ state'.target = state.target /\ state'.top = state.top
  BY <1>1, <1>2, <1>4, <1>5 DEF PwmState
<1> QED BY <1>1, <1>4, <1>6, <1>7 DEF PwmTimed, InPeriod, Comes

LEMMA PwmStep ==
  ASSUME PwmTimed(state), P!Next
  PROVE  PwmTimed(state')
<1> DEFINE zero == 0
           no == FALSE
           yes == TRUE
<1>1. state \in PwmState /\ zero \in Nat /\ no \in BOOLEAN /\ yes \in BOOLEAN
  BY DEF PwmTimed, InPeriod
<1> HIDE DEF zero, no, yes
<1>2. CASE P!EventComes
  <2>1. PICK e \in P!Events : state' = P!Scheduled(P!Happened(state, e), {e})
    BY <1>2 DEF P!EventComes
  <2> DEFINE out == (e = "rise")
             u == P!Happened(state, e)
  <2>2. u = IF e = "wrap" THEN P!Wrapped(state) ELSE [state EXCEPT !.out = out]
    BY DEF P!Happened
  <2>3. out \in BOOLEAN
    OBVIOUS
  <2> HIDE DEF out, u
  <2>4. PwmTimed(u)
    BY <1>1, <2>2, <2>3, WrappedComes, FieldsStay
  <2>5. InPeriod(u) /\ \A f \in P!Events \ {e} : Comes(u, f)
    BY <2>4 DEF PwmTimed
  <2>6. state' = P!Scheduled(u, {e})
    BY <2>1 DEF u
  <2> QED BY <2>5, <2>6, ScheduledComes
<1>3. CASE P!WriteCsr
  BY <1>3, CsrComes DEF P!WriteCsr
<1>4. CASE P!WriteEn
  <2>1. (~ state.en) \in BOOLEAN
    OBVIOUS
  <2> QED BY <1>4, <2>1, EnComes DEF P!WriteEn
<1>5. CASE P!WriteDiv
  <2>1. (~ state.slow) \in BOOLEAN
    OBVIOUS
  <2> QED BY <1>5, <2>1, DivComes DEF P!WriteDiv
<1>6. CASE P!WriteCtr
  <2>1. PICK n \in Ctrs : state' = P!CtrWritten(state, n)
    BY <1>6 DEF P!WriteCtr
  <2> DEFINE u == [state EXCEPT !.steady = no]
  <2>2. state' = P!Placed(u, n) /\ n \in Nat
    BY <2>1, PeripheralsAssumption DEF P!CtrWritten, no, P!PwmAssumption
  <2>3. u \in PwmState
    BY <1>1 DEF PwmState
  <2> HIDE DEF u
  <2> QED BY <2>2, <2>3, PlacedComes
<1>7. CASE P!WriteCc \/ P!WriteTop
  <2>1. CASE P!WriteCc
    <3>1. PICK n \in Ccs : state' = [state EXCEPT !.cc = n, !.cc_updated = yes]
      BY <2>1 DEF P!WriteCc, yes
    <3>2. n \in Nat
      BY PeripheralsAssumption DEF P!PwmAssumption
    <3> QED BY <1>1, <3>1, <3>2, FieldsStay
  <2>2. CASE P!WriteTop
    <3>1. PICK n \in Tops : state' = [state EXCEPT !.ctop = n, !.top_updated = yes]
      BY <2>2 DEF P!WriteTop, yes
    <3>2. n \in Nat
      BY PeripheralsAssumption DEF P!PwmAssumption
    <3> QED BY <1>1, <3>1, <3>2, FieldsStay
  <2> QED BY <1>7, <2>1, <2>2
<1>8. CASE P!BChanges
  <2> DEFINE x == ~ state.b
             u == [state EXCEPT !.b = x]
  <2>1. x \in BOOLEAN
    OBVIOUS
  <2>2. state' = IF u.gated THEN P!UpdateEnable(u) ELSE u
    BY <1>8 DEF P!BChanges
  <2> HIDE DEF x
  <2>3. PwmTimed(u)
    BY <1>1, <2>1, FieldsStay
  <2> HIDE DEF u
  <2> QED BY <2>2, <2>3, EnableComes
<1>9. CASE P!WriteIntr
  <2>1. state' = P!CheckInterrupts([state EXCEPT !.raw = no])
    BY <1>9 DEF P!WriteIntr, no
  <2> QED BY <1>1, <2>1, FieldsStay, PwmChecked
<1>10. CASE P!WriteInte
  <2> DEFINE x == ~ state.inte
  <2>1. state' = P!CheckInterrupts([state EXCEPT !.inte = x]) /\ x \in BOOLEAN
    BY <1>10 DEF P!WriteInte
  <2> HIDE DEF x
  <2> QED BY <1>1, <2>1, FieldsStay, PwmChecked
<1>11. CASE P!WriteIntf
  <2> DEFINE x == ~ state.intf
  <2>1. state' = P!CheckInterrupts([state EXCEPT !.intf = x]) /\ x \in BOOLEAN
    BY <1>11 DEF P!WriteIntf
  <2> HIDE DEF x
  <2> QED BY <1>1, <2>1, FieldsStay, PwmChecked
<1>12. CASE P!Reset
  BY <1>12, PwmResetComes DEF P!Reset
<1> QED BY <1>2, <1>3, <1>4, <1>5, <1>6, <1>7, <1>8, <1>9, <1>10, <1>11, <1>12, PwmTick DEF P!Next

-----------------------------------------------------------------------------
(* The RTC's seconds, and its calendar. *)

RtcState ==
  [clkdiv_m1 : Nat, setup0 : C!DateType, setup1 : C!TimeType, date : C!DateType, time : C!TimeType,
   match_ena : BOOLEAN, irq_setup0 : Matches0 \cup {C!NoMatch}, irq_setup1 : Matches1 \cup {C!NoMatch},
   inte : BOOLEAN, intf : BOOLEAN, force_not_leap_year : BOOLEAN, enable : BOOLEAN, period : Nat,
   line : BOOLEAN, left : Nat \cup {-1}, age : Nat, passed : Nat, set : BOOLEAN]

\* A second is under way while the counter runs, and was timed from its beginning.
Underway(r) == ((r.left # -1) <=> C!Running(r)) /\ (C!Running(r) => r.left + r.age = C!SecondTicks(r))
RtcTimed(r) == r \in RtcState /\ Underway(r) /\ (r.set => r.age = 0)

\* The second under way depends on these.
SameSecond(e, r) ==
  /\ e.left = r.left /\ e.age = r.age /\ e.enable = r.enable /\ e.period = r.period /\ e.clkdiv_m1 = r.clkdiv_m1

LEMMA RtcSame ==
  ASSUME NEW r, RtcTimed(r), NEW e \in RtcState, SameSecond(e, r), e.set => r.set \/ r.age = 0
  PROVE  RtcTimed(e)
  BY DEF RtcTimed, Underway, SameSecond, C!Running, C!SecondTicks

LEMMA RtcChecked ==
  ASSUME NEW r \in RtcState
  PROVE  LET e == C!CheckInterrupts(r)
         IN  /\ e \in RtcState /\ SameSecond(e, r) /\ e.set = r.set /\ e.date = r.date /\ e.time = r.time
             /\ e.force_not_leap_year = r.force_not_leap_year
<1> DEFINE line == (C!RawInterrupt(r) /\ r.inte) \/ r.intf
<1>1. line \in BOOLEAN
  OBVIOUS
<1>2. C!CheckInterrupts(r) = [r EXCEPT !.line = line]
  BY DEF C!CheckInterrupts
<1> HIDE DEF line
<1> QED BY <1>1, <1>2 DEF RtcState, SameSecond

LEMMA SecondTicksIsNat ==
  ASSUME NEW r \in RtcState
  PROVE  C!SecondTicks(r) \in Nat
<1>1. r.clkdiv_m1 + 1 \in Nat /\ r.period \in Nat
  BY DEF RtcState
<1>2. \A x, y \in Nat : x * y \in Nat
  OBVIOUS
<1> QED BY <1>1, <1>2 DEF C!SecondTicks

\* A second begins, or one that was timed goes on.
LEMMA RetimedIsTimed ==
  ASSUME NEW r \in RtcState, NEW restart \in BOOLEAN,
         restart \/ r.left = -1 \/ (C!Running(r) => Underway(r)), ~ restart => ~ r.set \/ r.age = 0
  PROVE  LET e == C!Retime(r, restart)
         IN  RtcTimed(e) /\ e.set = r.set /\ e.date = r.date /\ e.time = r.time
             /\ e.force_not_leap_year = r.force_not_leap_year /\ (restart => e.age = 0)
<1> DEFINE e == C!Retime(r, restart)
           ticks == C!SecondTicks(r)
           zero == 0
           none == -1
<1>1. ticks \in Nat /\ zero = 0 /\ none = -1
  BY SecondTicksIsNat
<1>2. e = IF ~ C!Running(r) THEN [r EXCEPT !.left = none, !.age = zero]
          ELSE IF restart \/ r.left = -1 THEN [r EXCEPT !.left = ticks, !.age = zero] ELSE r
  BY DEF C!Retime
<1> HIDE DEF ticks, zero, none, e
<1>3. e \in RtcState
  <2>1. [r EXCEPT !.left = none, !.age = zero] \in RtcState
    BY <1>1 DEF RtcState
  <2>2. [r EXCEPT !.left = ticks, !.age = zero] \in RtcState
    BY <1>1 DEF RtcState
  <2> QED BY <1>2, <2>1, <2>2
<1>4. /\ e.set = r.set /\ e.date = r.date /\ e.time = r.time /\ e.force_not_leap_year = r.force_not_leap_year
      /\ e.enable = r.enable /\ e.period = r.period /\ e.clkdiv_m1 = r.clkdiv_m1
  BY <1>2 DEF RtcState
<1>5. (C!Running(e) <=> C!Running(r)) /\ C!SecondTicks(e) = ticks
  BY <1>4 DEF C!Running, C!SecondTicks, ticks
<1>6. CASE ~ C!Running(r)
  <2>1. e.left = -1 /\ e.age = 0
    BY <1>1, <1>2, <1>6 DEF RtcState
  <2> QED BY <1>3, <1>4, <1>5, <1>6, <2>1 DEF RtcTimed, Underway, e
<1>7. CASE C!Running(r) /\ (restart \/ r.left = -1)
  <2>1. e.left = ticks /\ e.age = 0
    BY <1>1, <1>2, <1>7 DEF RtcState
  <2> QED BY <1>1, <1>3, <1>4, <1>5, <1>7, <2>1 DEF RtcTimed, Underway, e
<1>8. CASE C!Running(r) /\ ~ restart /\ r.left # -1
  <2>1. e = r
    BY <1>2, <1>8
  <2> QED BY <1>3, <1>8, <2>1 DEF RtcTimed, e
<1> QED BY <1>6, <1>7, <1>8

LEMMA Wrap ==
  ASSUME NEW k \in Nat \ {0}, NEW n \in 1 .. k
  PROVE  n % k = IF n = k THEN 0 ELSE n
<1>1. CASE n = k
  BY <1>1
<1>2. CASE n < k
  BY <1>2
<1> QED BY <1>1, <1>2

\* The date after a date.
LEMMA NextDateIs ==
  ASSUME NEW d \in C!DateType, NEW leap \in BOOLEAN
  PROVE  LET e == C!NextDate(d, leap)
             long == C!DaysInMonth(d.month, leap)
         IN  /\ e \in C!DateType /\ long \in 28 .. 31
             /\ \/ d.day < long /\ e.day = d.day + 1 /\ e.month = d.month /\ e.year = d.year
                \/ d.day >= long /\ d.month < 12 /\ e.day = 1 /\ e.month = d.month + 1 /\ e.year = d.year
                \/ d.day >= long /\ d.month >= 12 /\ e.day = 1 /\ e.month = 1 /\ e.year = IF d.year = 4095 THEN 0 ELSE d.year + 1
<1> DEFINE e == C!NextDate(d, leap)
           long == C!DaysInMonth(d.month, leap)
           year == (d.year + 1) % (C!MaxYear + 1)
<1>1. long \in 28 .. 31
  BY DEF C!DaysInMonth
<1>2. d.day \in Int /\ d.month \in Int /\ d.year \in 0 .. 4095 /\ d.day \in 0 .. 31 /\ d.month \in 0 .. 15
  BY DEF C!DateType, C!MaxYear
<1>4. e = CASE d.day < long -> [d EXCEPT !.day = d.day + 1]
            [] d.day >= long /\ d.month < 12 -> [d EXCEPT !.day = 1, !.month = d.month + 1]
            [] OTHER -> [year |-> year, month |-> 1, day |-> 1]
  BY DEF C!NextDate
<1> HIDE DEF e, long
<1>8. year = IF d.year = 4095 THEN 0 ELSE d.year + 1
  <2> DEFINE y == d.year
             n == y + 1
             k == C!MaxYear + 1
  <2>5. y \in 0 .. 4095 /\ C!MaxYear = 4095 /\ year = n % k
    BY <1>2 DEF C!MaxYear
  <2> HIDE DEF y, year
  <2>1. n \in 1 .. k /\ k \in Nat \ {0}
    BY <2>5
  <2> HIDE DEF n, k
  <2>2. n % k = IF n = k THEN 0 ELSE n
    BY <2>1, Wrap
  <2>4. year = IF n = k THEN 0 ELSE n
    BY <2>2, <2>5
  <2>6. year = IF y = 4095 THEN 0 ELSE y + 1
    BY <2>4, <2>5 DEF n, k
  <2> QED BY <2>6 DEF y
<1> HIDE DEF year
<1> DEFINE y == d.year
<1>9. y \in 0 .. 4095 /\ year = IF y = 4095 THEN 0 ELSE y + 1
  BY <1>2, <1>8
<1> HIDE DEF y
<1>3. year \in 0 .. 4095 /\ C!MaxYear = 4095
  BY <1>9 DEF C!MaxYear
<1>5. CASE d.day < long
  <2>1. e = [d EXCEPT !.day = d.day + 1] /\ d.day + 1 \in 0 .. 31
    BY <1>1, <1>2, <1>4, <1>5
  <2>2. e.day = d.day + 1 /\ e.month = d.month /\ e.year = d.year
    BY <2>1 DEF C!DateType
  <2>3. e \in C!DateType
    BY <2>1 DEF C!DateType
  <2> QED BY <1>1, <1>5, <2>2, <2>3 DEF e, long
<1>6. CASE d.day >= long /\ d.month < 12
  <2> DEFINE one == 1
  <2>1. e = [d EXCEPT !.day = one, !.month = d.month + 1] /\ d.month + 1 \in 0 .. 15 /\ one \in 0 .. 31 /\ one = 1
    BY <1>1, <1>2, <1>4, <1>6
  <2> HIDE DEF one
  <2>2. e.day = 1 /\ e.month = d.month + 1 /\ e.year = d.year
    BY <2>1 DEF C!DateType
  <2>3. e \in C!DateType
    BY <2>1 DEF C!DateType
  <2> QED BY <1>1, <1>6, <2>2, <2>3 DEF e, long
<1>7. CASE d.day >= long /\ d.month >= 12
  <2>1. e = [year |-> year, month |-> 1, day |-> 1]
    BY <1>1, <1>2, <1>4, <1>7
  <2>2. e.day = 1 /\ e.month = 1 /\ e.year = year
    BY <2>1
  <2>3. e \in C!DateType
    <3>1. year \in 0 .. C!MaxYear /\ 1 \in 0 .. 15 /\ 1 \in 0 .. 31
      BY <1>3
    <3> QED BY <2>1, <3>1 DEF C!DateType
  <2> QED BY <1>1, <1>7, <1>8, <2>2, <2>3 DEF e, long
<1> QED BY <1>1, <1>2, <1>5, <1>6, <1>7

\* The time and the date after a second, field by field.
LEMMA AdvancedIs ==
  ASSUME NEW r \in RtcState
  PROVE  LET e == C!AdvanceSecond(r)
             t == r.time
         IN  /\ e \in RtcState /\ SameSecond(e, r) /\ e.set = r.set
             /\ e.force_not_leap_year = r.force_not_leap_year
             /\ \/ /\ t.second < 59 /\ e.date = r.date /\ e.time.second = t.second + 1 /\ e.time.minute = t.minute
                   /\ e.time.hour = t.hour /\ e.time.dotw = t.dotw
                \/ /\ t.second >= 59 /\ t.minute < 59 /\ e.date = r.date /\ e.time.second = 0
                   /\ e.time.minute = t.minute + 1 /\ e.time.hour = t.hour /\ e.time.dotw = t.dotw
                \/ /\ t.second >= 59 /\ t.minute >= 59 /\ t.hour < 23 /\ e.date = r.date /\ e.time.second = 0
                   /\ e.time.minute = 0 /\ e.time.hour = t.hour + 1 /\ e.time.dotw = t.dotw
                \/ /\ t.second >= 59 /\ t.minute >= 59 /\ t.hour >= 23 /\ e.date = C!NextDate(r.date, C!LeapYear(r))
                   /\ e.time.second = 0 /\ e.time.minute = 0 /\ e.time.hour = 0
                   /\ e.time.dotw = IF t.dotw >= 6 THEN 0 ELSE t.dotw + 1
<1> DEFINE e == C!AdvanceSecond(r)
           t == r.time
           zero == 0
           midnight == [dotw |-> IF t.dotw >= 6 THEN 0 ELSE t.dotw + 1, hour |-> 0, minute |-> 0, second |-> 0]
           date == C!NextDate(r.date, C!LeapYear(r))
           seconds == [t EXCEPT !.second = t.second + 1]
           minutes == [t EXCEPT !.second = zero, !.minute = t.minute + 1]
           hours == [t EXCEPT !.second = zero, !.minute = zero, !.hour = t.hour + 1]
<1>1. t \in C!TimeType /\ r.date \in C!DateType /\ C!LeapYear(r) \in BOOLEAN /\ zero = 0
  BY DEF RtcState, C!LeapYear
<1>2. date \in C!DateType
  BY <1>1, NextDateIs
<1>3. /\ t.second \in 0 .. 63 /\ t.minute \in 0 .. 63 /\ t.hour \in 0 .. 31 /\ t.dotw \in 0 .. 7
  BY <1>1 DEF C!TimeType
<1>4. midnight \in C!TimeType /\ midnight.second = 0 /\ midnight.minute = 0 /\ midnight.hour = 0
      /\ midnight.dotw = IF t.dotw >= 6 THEN 0 ELSE t.dotw + 1
  BY <1>3 DEF C!TimeType
<1>5. e = CASE t.second < 59 -> [r EXCEPT !.time = seconds]
            [] t.second >= 59 /\ t.minute < 59 -> [r EXCEPT !.time = minutes]
            [] t.second >= 59 /\ t.minute >= 59 /\ t.hour < 23 -> [r EXCEPT !.time = hours]
            [] OTHER -> [r EXCEPT !.time = midnight, !.date = date]
  BY DEF C!AdvanceSecond
<1> HIDE DEF e, t, midnight, date, zero
<1>6. ASSUME NEW x \in C!TimeType, e = [r EXCEPT !.time = x]
      PROVE  /\ e \in RtcState /\ SameSecond(e, r) /\ e.set = r.set /\ e.date = r.date /\ e.time = x
             /\ e.force_not_leap_year = r.force_not_leap_year
  BY <1>6 DEF RtcState, SameSecond
<1>7. CASE t.second < 59
  <2>1. e = [r EXCEPT !.time = seconds]
    <3> HIDE DEF seconds, minutes, hours
    <3> QED BY <1>3, <1>5, <1>7
  <2>2. t.second + 1 \in 0 .. 63
    BY <1>3, <1>7
  <2>3. /\ seconds \in C!TimeType /\ seconds.second = t.second + 1 /\ seconds.minute = t.minute /\ seconds.hour = t.hour
        /\ seconds.dotw = t.dotw
    BY <1>1, <2>2 DEF C!TimeType
  <2> HIDE DEF seconds
  <2> QED BY <1>6, <1>7, <2>1, <2>3 DEF e, t
<1>8. CASE t.second >= 59 /\ t.minute < 59
  <2>1. e = [r EXCEPT !.time = minutes]
    BY <1>3, <1>5, <1>8
  <2>2. t.minute + 1 \in 0 .. 63 /\ zero \in 0 .. 63
    BY <1>1, <1>3, <1>8
  <2>3. /\ minutes \in C!TimeType /\ minutes.second = 0 /\ minutes.minute = t.minute + 1 /\ minutes.hour = t.hour
        /\ minutes.dotw = t.dotw
    BY <1>1, <2>2 DEF C!TimeType
  <2> HIDE DEF minutes
  <2> QED BY <1>6, <1>8, <2>1, <2>3 DEF e, t
<1>9. CASE t.second >= 59 /\ t.minute >= 59 /\ t.hour < 23
  <2>1. e = [r EXCEPT !.time = hours]
    BY <1>3, <1>5, <1>9
  <2>2. t.hour + 1 \in 0 .. 31 /\ zero \in 0 .. 63
    BY <1>1, <1>3, <1>9
  <2>3. /\ hours \in C!TimeType /\ hours.second = 0 /\ hours.minute = 0 /\ hours.hour = t.hour + 1 /\ hours.dotw = t.dotw
    BY <1>1, <2>2 DEF C!TimeType
  <2> HIDE DEF hours
  <2> QED BY <1>6, <1>9, <2>1, <2>3 DEF e, t
<1>10. CASE t.second >= 59 /\ t.minute >= 59 /\ t.hour >= 23
  <2>1. e = [r EXCEPT !.time = midnight, !.date = date]
    BY <1>3, <1>5, <1>10
  <2>2. /\ e \in RtcState /\ SameSecond(e, r) /\ e.set = r.set /\ e.date = date /\ e.time = midnight
        /\ e.force_not_leap_year = r.force_not_leap_year
    BY <1>2, <1>4, <2>1 DEF RtcState, SameSecond
  <2> QED BY <1>4, <1>10, <2>2 DEF e, t, date
<1> QED BY <1>3, <1>7, <1>8, <1>9, <1>10

\* The twelve months' lengths are those of the table of the days before them.
LEMMA MonthsAre ==
  ASSUME NEW m \in 1 .. 12
  PROVE  /\ C!DaysBefore[m] \in Int /\ C!DaysBefore[m + 1] \in Int
         /\ \A leap \in BOOLEAN :
              C!DaysInMonth(m, leap) = C!DaysBefore[m + 1] - C!DaysBefore[m] + IF m = 2 /\ leap THEN 1 ELSE 0
<1>1. C!DaysBefore = << 0, 31, 59, 90, 120, 151, 181, 212, 243, 273, 304, 334, 365 >>
  BY DEF C!DaysBefore
<1>2. m \in {1, 2, 3, 4, 5, 6, 7, 8, 9, 10, 11, 12}
  OBVIOUS
<1>3. CASE m = 1
  BY <1>1, <1>3 DEF C!DaysInMonth
<1>4. CASE m = 2
  BY <1>1, <1>4 DEF C!DaysInMonth
<1>5. CASE m = 3
  BY <1>1, <1>5 DEF C!DaysInMonth
<1>6. CASE m = 4
  BY <1>1, <1>6 DEF C!DaysInMonth
<1>7. CASE m = 5
  BY <1>1, <1>7 DEF C!DaysInMonth
<1>8. CASE m = 6
  BY <1>1, <1>8 DEF C!DaysInMonth
<1>9. CASE m = 7
  BY <1>1, <1>9 DEF C!DaysInMonth
<1>10. CASE m = 8
  BY <1>1, <1>10 DEF C!DaysInMonth
<1>11. CASE m = 9
  BY <1>1, <1>11 DEF C!DaysInMonth
<1>12. CASE m = 10
  BY <1>1, <1>12 DEF C!DaysInMonth
<1>13. CASE m = 11
  BY <1>1, <1>13 DEF C!DaysInMonth
<1>14. CASE m = 12
  BY <1>1, <1>14 DEF C!DaysInMonth
<1> QED BY <1>2, <1>3, <1>4, <1>5, <1>6, <1>7, <1>8, <1>9, <1>10, <1>11, <1>12, <1>13, <1>14

\* The leap days before a year and before its third month.
LEMMA LeapDays ==
  ASSUME NEW y \in Nat
  PROVE  /\ (y + 3) \div 4 \in Int /\ (y + 4) \div 4 \in Int
         /\ (y + 4) \div 4 = (y + 3) \div 4 + IF y % 4 = 0 THEN 1 ELSE 0
  OBVIOUS

LEMMA Once ==
  ASSUME NEW k \in Nat, k > 1
  PROVE  1 % k = 1 /\ (1 - k) % k = 1
<1>1. 1 % k = 1
  OBVIOUS
<1>2. (1 - k) % k = 1
  OBVIOUS
<1> QED BY <1>1, <1>2

LEMMA DaysAre ==
  \A leaps \in BOOLEAN :
    C!Days(leaps) \in Nat /\ C!Days(leaps) > 1 /\ C!Days(leaps) = 365 * 4096 + IF leaps THEN 1024 ELSE 0
  BY SMT DEF C!Days, C!MaxYear

\* A date that the calendar can be on.
ValidDate(d, leap) ==
  /\ d \in C!DateType /\ d.month \in 1 .. 12
  /\ d.day \in 1 .. C!DaysBefore[d.month + 1] - C!DaysBefore[d.month] + IF d.month = 2 /\ leap THEN 1 ELSE 0

Leaps(d, leaps) == leaps /\ d.year % 4 = 0

\* The date after a valid one is the valid date whose number is the next.
LEMMA NextDateIsNext ==
  ASSUME NEW d, NEW leaps \in BOOLEAN, ValidDate(d, Leaps(d, leaps))
  PROVE  LET e == C!NextDate(d, Leaps(d, leaps))
         IN  /\ ValidDate(e, Leaps(e, leaps))
             /\ (C!DayNumber(e, leaps) - C!DayNumber(d, leaps)) % C!Days(leaps) = 1
<1> DEFINE leap == Leaps(d, leaps)
           e == C!NextDate(d, leap)
           y == d.year
           m == d.month
           before == C!DaysBefore
           long == C!DaysInMonth(m, leap)
           n == C!DayNumber(d, leaps)
           o == C!DayNumber(e, leaps)
           all == C!Days(leaps)
           third == (y + 3) \div 4
           fourth == (y + 4) \div 4
<1>13. d \in C!DateType /\ m \in 1 .. 12 /\ d.day \in 1 .. before[m + 1] - before[m] + IF m = 2 /\ leap THEN 1 ELSE 0
  BY DEF ValidDate
<1>14. y \in 0 .. 4095 /\ d.day \in Int
  BY <1>13 DEF C!DateType, C!MaxYear
<1>15. leap \in BOOLEAN
  BY DEF Leaps
<1>16. /\ before[m] \in Int /\ before[m + 1] \in Int
       /\ long = before[m + 1] - before[m] + IF m = 2 /\ leap THEN 1 ELSE 0
  <2> HIDE DEF m, leap
  <2> QED BY <1>13, <1>15, MonthsAre
<1>1. /\ leap \in BOOLEAN /\ d \in C!DateType /\ m \in 1 .. 12 /\ y \in 0 .. 4095 /\ d.day \in Int
      /\ before[m] \in Int /\ before[m + 1] \in Int
      /\ long = before[m + 1] - before[m] + IF m = 2 /\ leap THEN 1 ELSE 0
      /\ d.day \in 1 .. long
  <2> HIDE DEF m, leap, before, long, y
  <2> QED BY <1>13, <1>14, <1>15, <1>16
<1>2. /\ e \in C!DateType /\ long \in 28 .. 31
      /\ \/ d.day < long /\ e.day = d.day + 1 /\ e.month = d.month /\ e.year = d.year
         \/ d.day >= long /\ d.month < 12 /\ e.day = 1 /\ e.month = d.month + 1 /\ e.year = d.year
         \/ d.day >= long /\ d.month >= 12 /\ e.day = 1 /\ e.month = 1 /\ e.year = IF d.year = 4095 THEN 0 ELSE d.year + 1
  BY <1>1, NextDateIs
<1>3. third \in Int /\ fourth \in Int /\ fourth = third + IF y % 4 = 0 THEN 1 ELSE 0
  <2> HIDE DEF y
  <2>1. y \in Nat
    BY <1>1
  <2> QED BY <2>1
<1>4. n = 365 * y + before[m] + d.day - 1 + (IF leaps THEN (IF m > 2 THEN fourth ELSE third) ELSE 0)
  BY <1>1 DEF C!DayNumber
<1>5. o = 365 * e.year + before[e.month] + e.day - 1
          + (IF leaps THEN (e.year + (IF e.month > 2 THEN 4 ELSE 3)) \div 4 ELSE 0)
  BY DEF C!DayNumber
<1>6. all \in Nat /\ all > 1 /\ all = 365 * 4096 + IF leaps THEN 1024 ELSE 0
  BY DaysAre, SMT
<1>7. n \in Int
  <2> HIDE DEF y, m, before, n, third, fourth
  <2>1. 365 * y + before[m] + d.day - 1 \in Int
    BY <1>1
  <2> QED BY <1>1, <1>3, <1>4, <2>1
<1>8. before[1] = 0 /\ before[2] = 31 /\ before[12] = 334 /\ before[13] = 365
  BY DEF C!DaysBefore
<1>9. leap <=> leaps /\ y % 4 = 0
  BY DEF Leaps
<1> HIDE DEF e, y, m, before, long, n, o, all, leap, third, fourth
<1>10. CASE d.day < long
  <2>1. e.day = d.day + 1 /\ e.month = m /\ e.year = y
    BY <1>1, <1>2, <1>10 DEF m, y
  <2>2. Leaps(e, leaps) = leap
    BY <2>1 DEF Leaps, leap, y
  <2>3. ValidDate(e, Leaps(e, leaps))
    BY <1>1, <1>2, <1>10, <2>1, <2>2 DEF ValidDate, before
  <2>4. o = n + 1
    <3>1. CASE m > 2
      BY <1>1, <1>3, <1>4, <1>5, <2>1, <3>1 DEF fourth
    <3>2. CASE ~ (m > 2)
      BY <1>1, <1>3, <1>4, <1>5, <2>1, <3>2 DEF third
    <3> QED BY <3>1, <3>2
  <2>5. o - n = 1
    BY <1>7, <2>4
  <2> QED BY <1>6, <2>3, <2>5, Once DEF e, n, o, all, leap
<1>11. CASE d.day >= long /\ m < 12
  <2>1. e.day = 1 /\ e.month = m + 1 /\ e.year = y /\ d.day = long /\ m + 1 \in 2 .. 12
    BY <1>1, <1>2, <1>11 DEF m, y
  <2>2. Leaps(e, leaps) = leap
    BY <2>1 DEF Leaps, leap, y
  <2> DEFINE next == m + 1
  <2>6. next \in 1 .. 12
    BY <2>1
  <2> HIDE DEF next
  <2>7. C!DaysInMonth(next, leap) \in 28 .. 31
    BY DEF C!DaysInMonth
  <2>8. /\ before[next] \in Int /\ before[next + 1] \in Int
        /\ C!DaysInMonth(next, leap) = before[next + 1] - before[next] + IF next = 2 /\ leap THEN 1 ELSE 0
    BY <1>1, <2>6, MonthsAre DEF before
  <2>3. ValidDate(e, Leaps(e, leaps))
    <3>1. e.month = next
      BY <2>1 DEF next
    <3>2. 1 \in 1 .. before[next + 1] - before[next] + IF next = 2 /\ leap THEN 1 ELSE 0
      BY <2>7, <2>8
    <3> QED BY <1>2, <2>1, <2>2, <2>6, <3>1, <3>2 DEF ValidDate, before
  <2>4. o = n + 1
    <3>1. CASE m > 2
      BY <1>1, <1>3, <1>4, <1>5, <2>1, <3>1 DEF fourth
    <3>2. CASE m = 2
      BY <1>1, <1>3, <1>4, <1>5, <1>9, <2>1, <3>2 DEF fourth, third
    <3>3. CASE m = 1
      BY <1>1, <1>3, <1>4, <1>5, <2>1, <3>3 DEF third
    <3> QED BY <1>1, <3>1, <3>2, <3>3
  <2>5. o - n = 1
    BY <1>7, <2>4
  <2> QED BY <1>6, <2>3, <2>5, Once DEF e, n, o, all, leap
<1>12. CASE d.day >= long /\ m >= 12
  <2>1. e.day = 1 /\ e.month = 1 /\ d.day = long /\ m = 12 /\ e.year = IF y = 4095 THEN 0 ELSE y + 1
    BY <1>1, <1>2, <1>12 DEF m, y
  <2>2. long = 31
    BY <1>1, <1>8, <2>1
  <2>3. ValidDate(e, Leaps(e, leaps))
    <3>1. 1 \in 1 .. before[1 + 1] - before[1] + IF FALSE THEN 1 ELSE 0
      BY <1>8
    <3> QED BY <1>2, <2>1, <3>1 DEF ValidDate, before
  <2>4. n = 365 * y + 364 + (IF leaps THEN fourth ELSE 0)
    BY <1>1, <1>3, <1>4, <1>8, <2>1, <2>2
  <2>5. o = 365 * e.year + (IF leaps THEN (e.year + 3) \div 4 ELSE 0)
    <3>1. e.year \in Int /\ before[e.month] + e.day - 1 = 0
      BY <1>1, <1>8, <2>1
    <3> QED BY <1>5, <1>8, <2>1, <3>1
  <2>6. CASE y < 4095
    <3>1. e.year = y + 1 /\ (e.year + 3) \div 4 = fourth
      BY <1>1, <2>1, <2>6 DEF fourth
    <3>2. o - n = 1
      BY <1>1, <1>3, <2>4, <2>5, <3>1
    <3> QED BY <1>6, <2>3, <3>2, Once DEF e, n, o, all, leap
  <2>7. CASE y = 4095
    <3>1. e.year = 0 /\ (e.year + 3) \div 4 = 0 /\ fourth = 1024
      BY <2>1, <2>7 DEF fourth
    <3>2. o - n = 1 - all
      BY <1>6, <2>4, <2>5, <2>7, <3>1
    <3> QED BY <1>6, <2>3, <3>2, Once DEF e, n, o, all, leap
  <2>8. y < 4095 \/ y = 4095
    BY <1>1
  <2> QED BY <2>6, <2>7, <2>8
<1> QED BY <1>1, <1>10, <1>11, <1>12

LEMMA DayNumberIsInt ==
  ASSUME NEW d \in C!DateType, d.month \in 1 .. 12, NEW leaps \in BOOLEAN
  PROVE  C!DayNumber(d, leaps) \in Int
<1> DEFINE y == d.year
           m == d.month
           before == C!DaysBefore[m]
           leap == (y + (IF m > 2 THEN 4 ELSE 3)) \div 4
<1>1. y \in Int /\ m \in 1 .. 12 /\ d.day \in Int
  BY DEF C!DateType
<1>2. before \in Int
  BY MonthsAre
<1> HIDE DEF y, m, before
<1>3. leap \in Int
  BY <1>1
<1> HIDE DEF leap
<1>4. 365 * y + before + d.day - 1 \in Int
  BY <1>1, <1>2
<1>5. C!DayNumber(d, leaps) = 365 * y + before + d.day - 1 + (IF leaps THEN leap ELSE 0)
  BY DEF C!DayNumber, y, m, before, leap
<1> QED BY <1>3, <1>4, <1>5

LEMMA ValidIs ==
  ASSUME NEW r \in RtcState
  PROVE  C!Valid(r) <=> /\ ValidDate(r.date, Leaps(r.date, ~ r.force_not_leap_year))
                        /\ r.time.dotw < 7 /\ r.time.hour < 24 /\ r.time.minute < 60 /\ r.time.second < 60
<1>1. Leaps(r.date, ~ r.force_not_leap_year) <=> C!LeapYear(r)
  BY DEF Leaps, C!LeapYear
<1>2. r.date \in C!DateType
  BY DEF RtcState
<1> QED BY <1>1, <1>2 DEF C!Valid, C!LeapDay, ValidDate

\* A second later the calendar is on the second after.
LEMMA AdvancedIsNext ==
  ASSUME NEW r \in RtcState, C!Valid(r), NEW e \in RtcState, e.date = C!AdvanceSecond(r).date,
         e.time = C!AdvanceSecond(r).time, e.force_not_leap_year = r.force_not_leap_year
  PROVE  /\ C!Valid(e)
         /\ LET leaps == ~ r.force_not_leap_year
                day == C!DayNumber(e.date, leaps) - C!DayNumber(r.date, leaps)
            IN  \/ day = 0 /\ C!SecondOfDay(e.time) = C!SecondOfDay(r.time) + 1 /\ e.time.dotw = r.time.dotw
                \/ /\ day % C!Days(leaps) = 1 /\ C!SecondOfDay(e.time) = 0
                   /\ C!SecondOfDay(r.time) = 24 * 60 * 60 - 1
                   /\ e.time.dotw = (r.time.dotw + 1) % 7
<1> DEFINE leaps == ~ r.force_not_leap_year
           s == r.time
           t == e.time
           leap == Leaps(r.date, leaps)
<1>1. /\ leaps \in BOOLEAN /\ ValidDate(r.date, leap) /\ s.dotw \in 0 .. 6 /\ s.hour \in 0 .. 23 /\ s.minute \in 0 .. 59
      /\ s.second \in 0 .. 59
  BY ValidIs DEF RtcState, C!TimeType
<1>2. leap <=> C!LeapYear(r)
  BY DEF Leaps, C!LeapYear
<1>3. \/ /\ s.second < 59 /\ e.date = r.date /\ t.second = s.second + 1 /\ t.minute = s.minute
         /\ t.hour = s.hour /\ t.dotw = s.dotw
      \/ /\ s.second >= 59 /\ s.minute < 59 /\ e.date = r.date /\ t.second = 0
         /\ t.minute = s.minute + 1 /\ t.hour = s.hour /\ t.dotw = s.dotw
      \/ /\ s.second >= 59 /\ s.minute >= 59 /\ s.hour < 23 /\ e.date = r.date /\ t.second = 0
         /\ t.minute = 0 /\ t.hour = s.hour + 1 /\ t.dotw = s.dotw
      \/ /\ s.second >= 59 /\ s.minute >= 59 /\ s.hour >= 23 /\ e.date = C!NextDate(r.date, leap)
         /\ t.second = 0 /\ t.minute = 0 /\ t.hour = 0 /\ t.dotw = IF s.dotw >= 6 THEN 0 ELSE s.dotw + 1
  <2>1. leap = C!LeapYear(r)
    BY <1>2 DEF Leaps, C!LeapYear
  <2> HIDE DEF leap
  <2> QED BY <2>1, AdvancedIs
<1>4. C!SecondOfDay(s) = (s.hour * 60 + s.minute) * 60 + s.second /\ C!SecondOfDay(t) = (t.hour * 60 + t.minute) * 60 + t.second
  BY DEF C!SecondOfDay
<1>5. C!Valid(e) <=> /\ ValidDate(e.date, Leaps(e.date, leaps))
                     /\ t.dotw < 7 /\ t.hour < 24 /\ t.minute < 60 /\ t.second < 60
  BY ValidIs
<1>6. CASE s.second < 59 \/ s.minute < 59 \/ s.hour < 23
  <2>1. e.date = r.date /\ t.dotw = s.dotw /\ C!SecondOfDay(t) = C!SecondOfDay(s) + 1 /\ t.hour < 24 /\ t.minute < 60 /\ t.second < 60
    <3> DEFINE hour == s.hour
               minute == s.minute
               second == s.second
    <3> HIDE DEF s, t, leap
    <3>1. e.date = r.date /\ t.dotw = s.dotw
      BY <1>1, <1>3, <1>6
    <3>2. /\ hour \in 0 .. 23 /\ minute \in 0 .. 59 /\ second \in 0 .. 59
          /\ C!SecondOfDay(s) = (hour * 60 + minute) * 60 + second
      BY <1>1, <1>4
    <3>3. \/ second < 59 /\ t.second = second + 1 /\ t.minute = minute /\ t.hour = hour
          \/ second >= 59 /\ minute < 59 /\ t.second = 0 /\ t.minute = minute + 1 /\ t.hour = hour
          \/ second >= 59 /\ minute >= 59 /\ hour < 23 /\ t.second = 0 /\ t.minute = 0 /\ t.hour = hour + 1
      BY <1>1, <1>3, <1>6
    <3> HIDE DEF hour, minute, second
    <3>4. CASE second < 59
      <4>1. t.second = second + 1 /\ t.minute = minute /\ t.hour = hour
        BY <3>2, <3>3, <3>4
      <4>2. C!SecondOfDay(t) = (hour * 60 + minute) * 60 + (second + 1)
        BY <1>4, <4>1
      <4>3. C!SecondOfDay(t) = C!SecondOfDay(s) + 1
        BY <3>2, <4>2
      <4> QED BY <3>1, <3>2, <3>4, <4>1, <4>3
    <3>5. CASE second >= 59 /\ minute < 59
      <4>1. second = 59 /\ t.second = 0 /\ t.minute = minute + 1 /\ t.hour = hour
        BY <3>2, <3>3, <3>5
      <4>2. C!SecondOfDay(t) = (hour * 60 + (minute + 1)) * 60 + 0
        BY <1>4, <4>1
      <4>3. C!SecondOfDay(t) = C!SecondOfDay(s) + 1
        BY <3>2, <4>1, <4>2
      <4> QED BY <3>1, <3>2, <3>5, <4>1, <4>3
    <3>6. CASE second >= 59 /\ minute >= 59
      BY <1>4, <3>1, <3>2, <3>3, <3>6, SMT
    <3> QED BY <3>2, <3>4, <3>5, <3>6
  <2>2. C!DayNumber(r.date, leaps) \in Int
    BY <1>1, DayNumberIsInt DEF ValidDate
  <2>3. C!DayNumber(e.date, leaps) - C!DayNumber(r.date, leaps) = 0
    BY <2>1, <2>2
  <2>4. C!Valid(e)
    BY <1>1, <1>5, <2>1
  <2> QED BY <2>1, <2>3, <2>4
<1>7. CASE ~ (s.second < 59 \/ s.minute < 59 \/ s.hour < 23)
  <2>1. /\ e.date = C!NextDate(r.date, leap) /\ t.second = 0 /\ t.minute = 0 /\ t.hour = 0
        /\ t.dotw = IF s.dotw >= 6 THEN 0 ELSE s.dotw + 1
    <3> HIDE DEF s, t, leap
    <3> QED BY <1>1, <1>3, <1>7
  <2>2. s.second = 59 /\ s.minute = 59 /\ s.hour = 23
    <3> HIDE DEF s
    <3> QED BY <1>1, <1>7
  <2>3. C!SecondOfDay(t) = 0 /\ C!SecondOfDay(s) = 24 * 60 * 60 - 1
    <3> HIDE DEF s, t
    <3> QED BY <1>4, <2>1, <2>2, SMT
  <2>4. t.dotw = (s.dotw + 1) % 7 /\ t.dotw < 7
    <3> HIDE DEF s, t
    <3> QED BY <1>1, <2>1
  <2>5. /\ ValidDate(e.date, Leaps(e.date, leaps))
        /\ (C!DayNumber(e.date, leaps) - C!DayNumber(r.date, leaps)) % C!Days(leaps) = 1
    <3> HIDE DEF leaps
    <3> QED BY <1>1, <2>1, NextDateIsNext DEF leap
  <2>6. C!Valid(e)
    BY <1>5, <2>1, <2>4, <2>5
  <2> QED BY <2>3, <2>4, <2>5, <2>6, SMT
<1> QED BY <1>6, <1>7, SMT

LEMMA RtcOther ==
  ASSUME NEW r, RtcTimed(r)
  PROVE  LET e == C!Other(r)
         IN  RtcTimed(e) /\ SameSecond(e, r) /\ ~ e.set /\ e.date = r.date /\ e.time = r.time
             /\ e.force_not_leap_year = r.force_not_leap_year
<1> DEFINE e == C!Other(r)
           no == FALSE
<1>1. r \in RtcState /\ no \in BOOLEAN /\ ~ no
  BY DEF RtcTimed
<1>2. e = [r EXCEPT !.set = no]
  BY DEF C!Other
<1> HIDE DEF e, no
<1>3. /\ e \in RtcState /\ SameSecond(e, r) /\ ~ e.set /\ e.date = r.date /\ e.time = r.time
      /\ e.force_not_leap_year = r.force_not_leap_year
  BY <1>1, <1>2 DEF RtcState, SameSecond
<1> QED BY <1>3, RtcSame DEF e

\* Nothing is set, on or loaded.
LEMMA NothingFits ==
  /\ C!NoDate \in C!DateType /\ C!NoTime \in C!TimeType /\ C!NoMatch \in Matches0 \cup {C!NoMatch}
  /\ C!NoMatch \in Matches1 \cup {C!NoMatch} /\ 0 \in Nat /\ FALSE \in BOOLEAN
  BY SMT DEF C!NoDate, C!NoTime, C!DateType, C!TimeType, C!MaxYear

LEMMA ResetFits ==
  ASSUME NEW r \in RtcState
  PROVE  C!ResetFields(r) \in RtcState
<1> DEFINE d == C!NoDate
           t == C!NoTime
           m == C!NoMatch
           zero == 0
           no == FALSE
<1>1. /\ d \in C!DateType /\ t \in C!TimeType /\ m \in Matches0 \cup {C!NoMatch}
      /\ m \in Matches1 \cup {C!NoMatch} /\ zero \in Nat /\ no \in BOOLEAN
  BY NothingFits
<1> DEFINE stopped == [r EXCEPT !.clkdiv_m1 = zero, !.setup0 = d, !.setup1 = t, !.date = d, !.time = t,
                                !.force_not_leap_year = no, !.enable = no]
<1>2. C!ResetFields(r) =
        [stopped EXCEPT !.match_ena = no, !.irq_setup0 = m, !.irq_setup1 = m, !.inte = no, !.intf = no]
  BY DEF C!ResetFields
<1> HIDE DEF d, t, m, zero, no
<1>3. stopped \in RtcState
  BY <1>1 DEF RtcState
<1> HIDE DEF stopped
<1> QED BY <1>1, <1>2, <1>3 DEF RtcState

LEMMA RtcOn ==
  ASSUME C!Init
  PROVE  RtcTimed(state)
<1>1. state \in RtcState
  <2>1. -1 \in Nat \cup {-1}
    OBVIOUS
  <2> QED BY <2>1, NothingFits DEF C!Init, RtcState
<1>2. ~ C!Running(state) /\ state.left = -1 /\ ~ state.set
  BY DEF C!Init, C!Running
<1> QED BY <1>1, <1>2 DEF RtcTimed, Underway

RtcKeeps(e) == e.date = state.date /\ e.time = state.time

LEMMA RtcStep ==
  ASSUME RtcTimed(state), C!Next
  PROVE  RtcTimed(state') /\ C!CountSteps
<1> DEFINE o == C!Other(state)
           yes == TRUE
<1>1. /\ RtcTimed(o) /\ SameSecond(o, state) /\ ~ o.set /\ o.date = state.date /\ o.time = state.time
      /\ o.force_not_leap_year = state.force_not_leap_year
  BY RtcOther
<1>2. state \in RtcState /\ o \in RtcState /\ yes \in BOOLEAN /\ yes
  BY <1>1 DEF RtcTimed
<1>3. ASSUME RtcKeeps(state') \/ state'.set PROVE C!CountSteps
  BY <1>3 DEF RtcKeeps, C!CountSteps
<1>4. ASSUME NEW e \in RtcState, state' = C!CheckInterrupts(e), SameSecond(e, o), ~ e.set, e.date = o.date, e.time = o.time
      PROVE  RtcTimed(state') /\ C!CountSteps
  <2>1. RtcTimed(e)
    BY <1>1, <1>4, RtcSame
  <2>2. /\ state' \in RtcState /\ SameSecond(state', e) /\ state'.set = e.set /\ state'.date = e.date /\ state'.time = e.time
    BY <1>4, RtcChecked
  <2>3. RtcTimed(state')
    BY <1>4, <2>1, <2>2, RtcSame
  <2>4. RtcKeeps(state')
    BY <1>1, <1>4, <2>2 DEF RtcKeeps
  <2> QED BY <1>3, <2>3, <2>4
<1> HIDE DEF o, yes
<1>5. CASE C!Tick
  <2> DEFINE left == o.left - 1
             age == o.age + 1
  <2>1. state' = [o EXCEPT !.left = left, !.age = age] /\ o.left > 0
    BY <1>1, <1>5 DEF C!Tick, o, SameSecond
  <2>2. left \in Nat /\ age \in Nat
    BY <1>2, <2>1 DEF RtcState
  <2>3. left + age = o.left + o.age
    BY <1>2, <2>1 DEF RtcState
  <2> HIDE DEF left, age
  <2>4. /\ state' \in RtcState /\ state'.left = left /\ state'.age = age /\ state'.set = o.set /\ state'.date = o.date
        /\ state'.time = o.time /\ state'.enable = o.enable /\ state'.period = o.period /\ state'.clkdiv_m1 = o.clkdiv_m1
    BY <1>2, <2>1, <2>2 DEF RtcState
  <2>5. (C!Running(state') <=> C!Running(o)) /\ C!SecondTicks(state') = C!SecondTicks(o)
    BY <2>4 DEF C!Running, C!SecondTicks
  <2>6. C!Running(o) /\ o.left + o.age = C!SecondTicks(o)
    BY <1>1, <2>1 DEF RtcTimed, Underway
  <2>7. RtcTimed(state')
    BY <1>1, <2>2, <2>3, <2>4, <2>5, <2>6 DEF RtcTimed, Underway
  <2> QED BY <1>1, <1>3, <2>4, <2>7 DEF RtcKeeps
<1>6. CASE C!OnSecond
  <2> DEFINE u == C!AdvanceSecond(o)
             none == -1
             passed == u.passed + 1
             v == [u EXCEPT !.left = none, !.passed = passed]
             w == C!Retime(v, yes)
  <2>1. state' = C!CheckInterrupts(w)
    BY <1>6 DEF C!OnSecond, o, yes
  <2>2. u \in RtcState /\ u.set = o.set /\ u.force_not_leap_year = o.force_not_leap_year
    BY <1>2, AdvancedIs
  <2> HIDE DEF u
  <2>3. passed \in Nat /\ none \in Nat \cup {-1} /\ none = -1
    BY <2>2 DEF RtcState
  <2> HIDE DEF passed, none
  <2>4. v \in RtcState /\ v.left = -1 /\ v.set = u.set /\ v.date = u.date /\ v.time = u.time
        /\ v.force_not_leap_year = u.force_not_leap_year
    BY <2>2, <2>3 DEF RtcState
  <2> HIDE DEF v
  <2>5. RtcTimed(w) /\ w.set = v.set /\ w.date = v.date /\ w.time = v.time /\ w.force_not_leap_year = v.force_not_leap_year
    BY <1>2, <2>4, RetimedIsTimed
  <2> HIDE DEF w
  <2>6. /\ state' \in RtcState /\ SameSecond(state', w) /\ state'.set = w.set /\ state'.date = w.date /\ state'.time = w.time
        /\ state'.force_not_leap_year = w.force_not_leap_year
    BY <2>1, <2>5, RtcChecked DEF RtcTimed
  <2>7. RtcTimed(state')
    BY <2>5, <2>6, RtcSame
  <2>8. C!CountSteps
    <3> SUFFICES ASSUME C!Valid(state)
                 PROVE  /\ C!Valid(state')
                        /\ LET leaps == ~ state.force_not_leap_year
                               day == C!DayNumber(state'.date, leaps) - C!DayNumber(state.date, leaps)
                           IN  \/ day = 0 /\ C!SecondOfDay(state'.time) = C!SecondOfDay(state.time) + 1 /\ state'.time.dotw = state.time.dotw
                               \/ /\ day % C!Days(leaps) = 1 /\ C!SecondOfDay(state'.time) = 0
                                  /\ C!SecondOfDay(state.time) = 24 * 60 * 60 - 1
                                  /\ state'.time.dotw = (state.time.dotw + 1) % 7
      BY Zenon DEF C!CountSteps
    <3>1. C!Valid(o)
      BY <1>1, <1>2, ValidIs
    <3>2. /\ state'.date = u.date /\ state'.time = u.time /\ state'.force_not_leap_year = o.force_not_leap_year
      BY <2>2, <2>4, <2>5, <2>6
    <3> QED BY <1>1, <1>2, <2>6, <3>1, <3>2, AdvancedIsNext, SMT DEF u
  <2> QED BY <2>7, <2>8
<1>7. ASSUME NEW e \in RtcState, state' = C!Retime(e, TRUE), ~ e.set, e.date = o.date, e.time = o.time
      PROVE  RtcTimed(state') /\ C!CountSteps
  <2>1. state' = C!Retime(e, yes)
    BY <1>2, <1>7 DEF yes
  <2>2. RtcTimed(state') /\ state'.date = e.date /\ state'.time = e.time
    BY <1>2, <1>7, <2>1, RetimedIsTimed
  <2> QED BY <1>1, <1>3, <1>7, <2>2 DEF RtcKeeps
<1>8. CASE C!ClkRtcChanged
  <2>1. PICK p \in RtcPeriods : state' = C!Retime([o EXCEPT !.period = p], TRUE)
    BY <1>8 DEF C!ClkRtcChanged, o
  <2> DEFINE e == [o EXCEPT !.period = p]
  <2>2. p \in Nat
    BY PeripheralsAssumption DEF C!RtcAssumption
  <2>3. e \in RtcState /\ e.set = o.set /\ e.date = o.date /\ e.time = o.time
    BY <1>2, <2>2 DEF RtcState
  <2> HIDE DEF e
  <2> QED BY <1>1, <1>7, <2>1, <2>3 DEF e
<1>9. CASE C!WriteDivider
  <2>1. PICK p \in Dividers : state' = C!Retime([o EXCEPT !.clkdiv_m1 = p], TRUE)
    BY <1>9 DEF C!WriteDivider, o
  <2> DEFINE e == [o EXCEPT !.clkdiv_m1 = p]
  <2>2. p \in Nat
    BY PeripheralsAssumption DEF C!RtcAssumption
  <2>3. e \in RtcState /\ e.set = o.set /\ e.date = o.date /\ e.time = o.time
    BY <1>2, <2>2 DEF RtcState
  <2> HIDE DEF e
  <2> QED BY <1>1, <1>7, <2>1, <2>3 DEF e
<1>10. CASE C!WriteSetup0 \/ C!WriteSetup1
  <2>1. /\ state' \in RtcState /\ SameSecond(state', o) /\ state'.set = o.set /\ state'.date = o.date
        /\ state'.time = o.time
    <3>1. Dates \subseteq C!DateType /\ Times \subseteq C!TimeType
      BY PeripheralsAssumption DEF C!RtcAssumption
    <3>2. CASE C!WriteSetup0
      <4>1. PICK d \in Dates : state' = [o EXCEPT !.setup0 = d]
        BY <3>2 DEF C!WriteSetup0, o
      <4> QED BY <1>2, <3>1, <4>1 DEF RtcState, SameSecond
    <3>3. CASE C!WriteSetup1
      <4>1. PICK t \in Times : state' = [o EXCEPT !.setup1 = t]
        BY <3>3 DEF C!WriteSetup1, o
      <4> QED BY <1>2, <3>1, <4>1 DEF RtcState, SameSecond
    <3> QED BY <1>10, <3>2, <3>3
  <2>2. RtcTimed(state')
    BY <1>1, <2>1, RtcSame
  <2> QED BY <1>1, <1>3, <2>1, <2>2 DEF RtcKeeps
<1>11. CASE C!WriteCtrl
  <2>1. PICK enable, force, load \in BOOLEAN :
          state' = [C!CtrlWritten(state, enable, force, load) EXCEPT !.set = load, !.passed = IF load THEN 0 ELSE @]
    BY <1>11 DEF C!WriteCtrl
  <2> DEFINE e == [state EXCEPT !.enable = enable, !.force_not_leap_year = force]
             date == e.setup0
             time == e.setup1
             loaded == [e EXCEPT !.date = date, !.time = time]
             v == C!Retime(loaded, TRUE)
             w == C!Retime(e, FALSE)
             x == C!CheckInterrupts(v)
  <2>2. /\ load => C!CtrlWritten(state, enable, force, load) = x
        /\ ~ load => C!CtrlWritten(state, enable, force, load) = w
    BY DEF C!CtrlWritten, C!Load
  <2>3. /\ e \in RtcState /\ e.left = state.left /\ e.age = state.age /\ e.set = state.set /\ e.period = state.period
        /\ e.clkdiv_m1 = state.clkdiv_m1 /\ e.date = state.date /\ e.time = state.time
    BY <1>2 DEF RtcState
  <2> HIDE DEF e
  <2>4. date \in C!DateType /\ time \in C!TimeType
    BY <2>3 DEF RtcState
  <2> HIDE DEF date, time
  <2>5. loaded \in RtcState
    BY <2>3, <2>4 DEF RtcState
  <2>6. ASSUME NEW y, RtcTimed(y), load => y.age = 0, state' = [y EXCEPT !.set = load, !.passed = IF load THEN 0 ELSE y.passed]
        PROVE  RtcTimed(state') /\ state'.set = load /\ state'.date = y.date /\ state'.time = y.time
    <3> DEFINE passed == IF load THEN 0 ELSE y.passed
    <3>1. passed \in Nat /\ y \in RtcState
      BY <2>6 DEF RtcTimed, RtcState
    <3> HIDE DEF passed
    <3>2. state' = [y EXCEPT !.set = load, !.passed = passed]
      BY <2>6 DEF passed
    <3>3. /\ state' \in RtcState /\ SameSecond(state', y) /\ state'.set = load /\ state'.date = y.date /\ state'.time = y.time
      BY <3>1, <3>2 DEF RtcState, SameSecond
    <3> QED BY <2>6, <3>3, RtcSame
  <2> HIDE DEF loaded
  <2>7. CASE load
    <3>1. RtcTimed(v) /\ v.age = 0
      <4>1. v = C!Retime(loaded, yes)
        BY <1>2 DEF yes
      <4> HIDE DEF v
      <4> QED BY <1>2, <2>5, <4>1, RetimedIsTimed
    <3> HIDE DEF v
    <3>2. x \in RtcState /\ SameSecond(x, v) /\ x.set = v.set
      BY <3>1, RtcChecked DEF RtcTimed
    <3> HIDE DEF x
    <3>3. RtcTimed(x) /\ x.age = 0
      BY <3>1, <3>2, RtcSame DEF SameSecond
    <3>4. RtcTimed(state') /\ state'.set = load
      <4>1. state' = [x EXCEPT !.set = load, !.passed = IF load THEN 0 ELSE x.passed]
        BY <2>1, <2>2, <2>7
      <4> QED BY <2>6, <3>3, <4>1
    <3> QED BY <1>3, <2>7, <3>4
  <2>8. CASE ~ load
    <3> DEFINE no == FALSE
    <3>1. C!SecondTicks(e) = C!SecondTicks(state)
      BY <2>3 DEF C!SecondTicks
    <3>2. e.left = -1 \/ (C!Running(e) => Underway(e))
      BY <2>3, <3>1 DEF Underway, RtcTimed
    <3>3. ~ e.set \/ e.age = 0
      BY <2>3 DEF RtcTimed
    <3>5. w = C!Retime(e, no) /\ no \in BOOLEAN /\ ~ no
      OBVIOUS
    <3> HIDE DEF no, w
    <3>6. RtcTimed(w) /\ w.date = e.date /\ w.time = e.time
      BY <2>3, <3>2, <3>3, <3>5, RetimedIsTimed
    <3>7. RtcTimed(state') /\ state'.date = w.date /\ state'.time = w.time
      <4>1. state' = [w EXCEPT !.set = load, !.passed = IF load THEN 0 ELSE w.passed]
        BY <2>1, <2>2, <2>8
      <4> QED BY <2>6, <2>8, <3>6, <4>1
    <3> QED BY <1>3, <2>3, <3>6, <3>7 DEF RtcKeeps
  <2> QED BY <2>7, <2>8
<1>12. CASE C!WriteIrqSetup0
  <2>1. PICK ena \in BOOLEAN, m \in Matches0 : state' = C!CheckInterrupts([o EXCEPT !.match_ena = ena, !.irq_setup0 = m])
    BY <1>12 DEF C!WriteIrqSetup0, o
  <2> DEFINE e == [o EXCEPT !.match_ena = ena, !.irq_setup0 = m]
  <2>2. e \in RtcState /\ SameSecond(e, o) /\ e.set = o.set /\ e.date = o.date /\ e.time = o.time
    BY <1>2 DEF RtcState, SameSecond
  <2> HIDE DEF e
  <2> QED BY <1>1, <1>4, <2>1, <2>2 DEF e
<1>13. CASE C!WriteIrqSetup1
  <2>1. PICK m \in Matches1 : state' = C!CheckInterrupts([o EXCEPT !.irq_setup1 = m])
    BY <1>13 DEF C!WriteIrqSetup1, o
  <2> DEFINE e == [o EXCEPT !.irq_setup1 = m]
  <2>2. e \in RtcState /\ SameSecond(e, o) /\ e.set = o.set /\ e.date = o.date /\ e.time = o.time
    BY <1>2 DEF RtcState, SameSecond
  <2> HIDE DEF e
  <2> QED BY <1>1, <1>4, <2>1, <2>2 DEF e
<1>14. CASE C!WriteInte
  <2>1. PICK on \in BOOLEAN : state' = C!CheckInterrupts([o EXCEPT !.inte = on])
    BY <1>14 DEF C!WriteInte, o
  <2> DEFINE e == [o EXCEPT !.inte = on]
  <2>2. e \in RtcState /\ SameSecond(e, o) /\ e.set = o.set /\ e.date = o.date /\ e.time = o.time
    BY <1>2 DEF RtcState, SameSecond
  <2> HIDE DEF e
  <2> QED BY <1>1, <1>4, <2>1, <2>2 DEF e
<1>15. CASE C!WriteIntf
  <2>1. PICK on \in BOOLEAN : state' = C!CheckInterrupts([o EXCEPT !.intf = on])
    BY <1>15 DEF C!WriteIntf, o
  <2> DEFINE e == [o EXCEPT !.intf = on]
  <2>2. e \in RtcState /\ SameSecond(e, o) /\ e.set = o.set /\ e.date = o.date /\ e.time = o.time
    BY <1>2 DEF RtcState, SameSecond
  <2> HIDE DEF e
  <2> QED BY <1>1, <1>4, <2>1, <2>2 DEF e
<1>16. CASE C!Reset
  <2> DEFINE e == C!ResetFields(state)
             v == C!Retime(e, TRUE)
             x == C!CheckInterrupts(v)
             zero == 0
  <2>1. state' = [x EXCEPT !.set = yes, !.passed = zero] /\ zero \in Nat
    BY <1>16 DEF C!Reset, yes
  <2>2. e \in RtcState
    BY <1>2, ResetFits
  <2>3. v = C!Retime(e, yes)
    BY DEF yes
  <2> HIDE DEF e, v, zero
  <2>4. RtcTimed(v) /\ v.age = 0
    BY <1>2, <2>2, <2>3, RetimedIsTimed
  <2>5. x \in RtcState /\ SameSecond(x, v) /\ x.set = v.set
    BY <2>4, RtcChecked DEF RtcTimed
  <2> HIDE DEF x
  <2>6. RtcTimed(x) /\ x.age = 0
    BY <2>4, <2>5, RtcSame DEF SameSecond
  <2>7. state' \in RtcState /\ SameSecond(state', x) /\ state'.set
    BY <1>2, <2>1, <2>5 DEF RtcState, SameSecond
  <2>8. RtcTimed(state')
    BY <2>6, <2>7, RtcSame
  <2> QED BY <1>3, <2>7, <2>8
<1> QED BY <1>5, <1>6, <1>8, <1>9, <1>10, <1>11, <1>12, <1>13, <1>14, <1>15, <1>16 DEF C!Next

-----------------------------------------------------------------------------
(* The alarms and the counts of these. *)

Timed ==
  /\ part = "timer" => TimerTimed(state)
  /\ part = "pwm" => PwmTimed(state)
  /\ part = "watchdog" => WatchdogTimed(state)
  /\ part = "pio" => state \in PioTimed
  /\ part = "rtc" => RtcTimed(state)

LEMMA TimesBegin == PeripheralsInit => Timed
<1> SUFFICES ASSUME PeripheralsInit PROVE Timed
  OBVIOUS
<1>1. ASSUME part = "timer" PROVE TimerTimed(state)
  <2>1. state = T!PowerOn(0) /\ 0 \in Nat
    BY <1>1 DEF PeripheralsInit, T!Init
  <2> QED BY <2>1, TimerOn
<1>2. ASSUME part = "pwm" PROVE PwmTimed(state)
  BY <1>2, PwmOn DEF PeripheralsInit, P!Init
<1>3. ASSUME part = "watchdog" PROVE WatchdogTimed(state)
  BY <1>3, WatchdogOn DEF PeripheralsInit, W!Init
<1>4. ASSUME part = "pio" PROVE state \in PioTimed
  BY <1>4, PioBegins DEF PeripheralsInit, O!Init
<1>5. ASSUME part = "rtc" PROVE RtcTimed(state)
  BY <1>5, RtcOn DEF PeripheralsInit
<1> QED BY <1>1, <1>2, <1>3, <1>4, <1>5 DEF Timed

LEMMA TimesStay == Timed /\ PeripheralsNext /\ part' = part => Timed'
<1> SUFFICES ASSUME Timed, PeripheralsNext, part' = part PROVE Timed'
  OBVIOUS
<1>1. ASSUME part = "timer" PROVE TimerTimed(state')
  BY <1>1, TimerStep DEF PeripheralsNext, Timed
<1>2. ASSUME part = "pwm" PROVE PwmTimed(state')
  BY <1>2, PwmStep DEF PeripheralsNext, Timed
<1>3. ASSUME part = "watchdog" PROVE WatchdogTimed(state')
  BY <1>3, WatchdogStep DEF PeripheralsNext, Timed
<1>4. ASSUME part = "pio" PROVE state' \in PioTimed
  BY <1>4, PioStaysTimed DEF PeripheralsNext, Timed
<1>5. ASSUME part = "rtc" PROVE RtcTimed(state')
  BY <1>5, RtcStep DEF PeripheralsNext, Timed
<1>6. (part = "timer" => TimerTimed(state')) => (part = "timer" => TimerTimed(state)')
  BY DEF TimerTimed, TimerState, OnTarget, T!Frozen, T!LowIn, T!Passed, T!Total
<1> QED BY <1>1, <1>2, <1>3, <1>4, <1>5 DEF Timed

LEMMA TimedAreOnTarget == Timed => AlarmsComeOnTarget
<1> SUFFICES ASSUME Timed PROVE AlarmsComeOnTarget
  OBVIOUS
<1>1. part = "timer" => T!AlarmsComeOnTarget
  <2> SUFFICES ASSUME TimerTimed(state), NEW a \in Alarms
               PROVE  IF a \in state.armed /\ ~ T!Frozen(state)
                      THEN /\ state.due[a] # T!Never
                           /\ T!LowIn(state, state.due[a]) = state.target[a]
                           /\ \A d \in 0 .. state.due[a] - 1 : T!LowIn(state, d) # state.target[a]
                      ELSE state.due[a] = T!Never
    BY DEF Timed, T!AlarmsComeOnTarget
  <2>1. T!Never \notin Nat
    BY DEF T!Never
  <2> QED BY <2>1 DEF TimerTimed, OnTarget
<1>2. part = "pwm" => P!AlarmsComeOnTarget
  BY DEF Timed, PwmTimed, Comes, P!AlarmsComeOnTarget
<1>3. part = "watchdog" => W!AlarmsComeOnTarget
  BY CountingIsOnTarget DEF Timed
<1>4. part = "pio" => O!AlarmsComeOnTarget
  BY DEF Timed, PioTimed, O!AlarmsComeOnTarget
<1>5. part = "rtc" => C!AlarmsComeOnTarget
  BY DEF Timed, RtcTimed, Underway, C!AlarmsComeOnTarget
<1> QED BY <1>1, <1>2, <1>3, <1>4, <1>5 DEF AlarmsComeOnTarget

SubsFit == part = "timer" => SubFits(state)

LEMMA SubsBegin == PeripheralsInit => SubsFit
<1> SUFFICES ASSUME PeripheralsInit, part = "timer" PROVE SubFits(state)
  BY DEF SubsFit
<1>1. state = T!PowerOn(0)
  BY DEF PeripheralsInit, T!Init
<1> QED BY <1>1 DEF SubFits, T!PowerOn

LEMMA CountsStep ==
  ASSUME ~ RetunesStopped, Timed, SubsFit, PeripheralsNext, part' = part
  PROVE  SubsFit' /\ CountSteps
<1>1. ASSUME part = "timer" PROVE SubFits(state') /\ T!CountSteps
  BY <1>1, TimerCounts DEF PeripheralsNext, Timed, SubsFit
<1>2. ASSUME part = "rtc" PROVE C!CountSteps
  BY <1>2, RtcStep DEF PeripheralsNext, Timed
<1>3. SubsFit'
  BY <1>1 DEF SubsFit, SubFits
<1> QED BY <1>1, <1>2, <1>3 DEF CountSteps

-----------------------------------------------------------------------------
(* The line of the SPI. *)

\* The line is the masked status, and the raw bits of the FIFOs are their levels.
SpiLined(s) == s \in SpiState /\ s.line = (S!Status(s) # {})
SpiLevels(s) == {i \in {"TX", "RX"} : IF i = "TX" THEN 2 * Len(s.tx) <= FifoDepth ELSE 2 * Len(s.rx) >= FifoDepth}
SpiShows(s) == SpiLined(s) /\ s.raw \cap {"TX", "RX"} = SpiLevels(s)

\* Line and levels depend on these.
LikeLine(e, s) == e.line = s.line /\ e.raw = s.raw /\ e.imsc = s.imsc
LikeFifos(e, s) == e.tx = s.tx /\ e.rx = s.rx

LEMMA SpiSameLine ==
  ASSUME NEW s, NEW e \in SpiState, LikeLine(e, s)
  PROVE  (SpiLined(s) => SpiLined(e)) /\ (SpiShows(s) /\ LikeFifos(e, s) => SpiShows(e))
<1>1. S!Status(e) = S!Status(s)
  BY DEF S!Status, LikeLine
<1>2. SpiLined(s) => SpiLined(e)
  BY <1>1 DEF SpiLined, LikeLine
<1>3. LikeFifos(e, s) => SpiLevels(e) = SpiLevels(s)
  BY DEF SpiLevels, LikeFifos
<1> QED BY <1>2, <1>3 DEF SpiShows, LikeLine

LEMMA SpiCheckShows ==
  ASSUME NEW s \in SpiState
  PROVE  /\ SpiLined(S!CheckInterrupts(s))
         /\ s.raw \cap {"TX", "RX"} = SpiLevels(s) => SpiShows(S!CheckInterrupts(s))
<1> DEFINE e == S!CheckInterrupts(s)
<1>1. e \in SpiState
  BY SpiTells
<1>2. e.raw = s.raw /\ e.imsc = s.imsc /\ e.tx = s.tx /\ e.rx = s.rx
  BY DEF SpiState, S!CheckInterrupts
<1>3. e.line = (S!Status(s) # {})
  BY DEF SpiState, S!CheckInterrupts
<1> HIDE DEF e
<1>4. S!Status(e) = S!Status(s) /\ SpiLevels(e) = SpiLevels(s)
  BY <1>2 DEF S!Status, SpiLevels
<1>5. SpiLined(e)
  BY <1>1, <1>3, <1>4 DEF SpiLined
<1>6. s.raw \cap {"TX", "RX"} = SpiLevels(s) => SpiShows(e)
  BY <1>2, <1>4, <1>5 DEF SpiShows
<1> QED BY <1>5, <1>6 DEF e

LEMMA SpiFifosShow ==
  ASSUME NEW s, SpiLined(s)
  PROVE  SpiShows(S!FifosUpdated(s))
<1> DEFINE levels == SpiLevels(s)
           raw == (s.raw \cap {"ROR"}) \cup levels
           t == [s EXCEPT !.raw = raw]
           u == IF S!Status(t) # S!Status(s) THEN S!CheckInterrupts(t) ELSE t
<1>1. s \in SpiState
  BY DEF SpiLined
<1>2. S!FifosUpdated(s) = S!UpdateDma(u)
  BY <1>1 DEF S!FifosUpdated, SpiState, SpiLevels
<1>3. raw \in SUBSET S!Interrupts /\ raw \cap {"TX", "RX"} = levels
  BY DEF S!Interrupts, SpiLevels
<1> HIDE DEF levels, raw
<1>4. t \in SpiState /\ t.raw = raw /\ t.line = s.line /\ t.tx = s.tx /\ t.rx = s.rx
  BY <1>1, <1>3 DEF SpiState
<1>5. SpiLevels(t) = levels
  BY <1>4 DEF SpiLevels, levels
<1>6. SpiShows(u)
  <2> HIDE DEF t
  <2>1. CASE S!Status(t) # S!Status(s)
    BY <1>3, <1>4, <1>5, <2>1, SpiCheckShows
  <2>2. CASE S!Status(t) = S!Status(s)
    BY <1>3, <1>4, <1>5, <2>2 DEF SpiShows, SpiLined
  <2> QED BY <2>1, <2>2
<1> HIDE DEF u
<1>7. SpiTold(S!UpdateDma(u))
  BY <1>6, SpiTells DEF SpiShows, SpiLined
<1>8. S!UpdateDma(u) \in SpiState
  BY <1>7 DEF SpiTold
<1>9. LikeLine(S!UpdateDma(u), u) /\ LikeFifos(S!UpdateDma(u), u)
  BY <1>6 DEF SpiShows, SpiLined, SpiState, S!UpdateDma, LikeLine, LikeFifos
<1> QED BY <1>2, <1>6, <1>8, <1>9, SpiSameLine

LEMMA ReceivedShows ==
  ASSUME NEW s, SpiLined(s), NEW w \in Words
  PROVE  SpiShows(S!Received(s, w))
<1> DEFINE room == [s EXCEPT !.busy = FALSE, !.rx = Append(s.rx, w)]
           over == [s EXCEPT !.busy = FALSE, !.raw = s.raw \cup {"ROR"}, !.lost = TRUE]
<1>1. s \in SpiState
  BY DEF SpiLined
<1>2. room \in SpiState /\ over \in SpiState
  BY <1>1, SpiMoves
<1>3. S!Received(s, w) \in {S!FifosUpdated(room), S!FifosUpdated(S!CheckInterrupts(over))}
  BY <1>1 DEF S!Received, SpiState
<1>4. LikeLine(room, s)
  BY <1>1 DEF LikeLine, SpiState
<1> HIDE DEF room, over
<1>5. SpiLined(room)
  BY <1>2, <1>4, SpiSameLine
<1>6. SpiLined(S!CheckInterrupts(over))
  BY <1>2, SpiCheckShows
<1> QED BY <1>3, <1>5, <1>6, SpiFifosShow

\* A turn leaves the line and the levels as they should be, or everything as it was.
LEMMA DoTxShows ==
  ASSUME NEW s, SpiLined(s)
  PROVE  S!DoTx(s) = s \/ SpiShows(S!DoTx(s))
<1> SUFFICES ASSUME ~ (s.busy \/ s.tx = <<>> \/ ~ s.sse) PROVE SpiShows(S!DoTx(s))
  BY DEF S!DoTx
<1> DEFINE w == Head(s.tx)
           rest == Tail(s.tx)
           frame == s.frame \/ s.timed
           reply == IF s.timed THEN None ELSE s.reply
           t == [s EXCEPT !.tx = rest, !.busy = TRUE, !.frame = frame, !.reply = reply]
           u == IF s.lbm \/ s.prompt THEN S!CompleteTransmit(t, w) ELSE [t EXCEPT !.owes = Append(t.owes, w)]
<1>1. s \in SpiState
  BY DEF SpiLined
<1>2. w \in Words /\ rest \in Seq(Words)
  <2>1. s.tx \in Seq(Words)
    BY <1>1 DEF SpiState
  <2> QED BY <2>1
<1>3. frame \in BOOLEAN /\ reply \in Words \cup {None}
  BY <1>1 DEF SpiState
<1>4. S!DoTx(s) = S!FifosUpdated(u)
  BY <1>1 DEF S!DoTx, SpiState
<1> HIDE DEF w, rest, frame, reply
<1>5. t \in SpiState /\ LikeLine(t, s)
  BY <1>1, <1>2, <1>3 DEF SpiState, LikeLine
<1> HIDE DEF t
<1>6. SpiLined(t)
  BY <1>5, SpiSameLine
<1>7. u \in {[t EXCEPT !.reply = w], S!Received(t, w), [t EXCEPT !.owes = Append(t.owes, w)]}
  BY DEF S!CompleteTransmit
<1>8. SpiLined([t EXCEPT !.reply = w]) /\ SpiLined([t EXCEPT !.owes = Append(t.owes, w)])
  <2>1. [t EXCEPT !.reply = w] \in SpiState /\ [t EXCEPT !.owes = Append(t.owes, w)] \in SpiState
    BY <1>2, <1>5, SpiMoves
  <2>2. LikeLine([t EXCEPT !.reply = w], t) /\ LikeLine([t EXCEPT !.owes = Append(t.owes, w)], t)
    BY <1>5 DEF SpiState, LikeLine
  <2> QED BY <1>6, <2>1, <2>2, SpiSameLine
<1>9. SpiLined(S!Received(t, w))
  BY <1>2, <1>6, ReceivedShows DEF SpiShows
<1>10. SpiLined(u)
  BY <1>7, <1>8, <1>9
<1> QED BY <1>4, <1>10, SpiFifosShow

LEMMA PumpedShows ==
  ASSUME NEW s, SpiLined(s)
  PROVE  SpiLined(S!Pumped(s)) /\ (SpiShows(s) => SpiShows(S!Pumped(s)))
<1> DEFINE Good == {t \in SpiState : SpiLined(t) /\ (SpiShows(s) => SpiShows(t))}
<1>1. s \in Good
  BY DEF SpiLined
<1>2. \A t \in Good : S!DoTx(t) \in Good
  BY DoTxShows DEF SpiShows, SpiLined
<1>3. S!Pumped(s) \in Good
  <2> HIDE DEF Good
  <2> QED BY <1>1, <1>2, PumpedIn
<1> QED BY <1>3

LEMMA DeliveredShows ==
  ASSUME NEW s, SpiLined(s), NEW w \in Words
  PROVE  SpiShows(S!Delivered(s, w))
  BY ReceivedShows, PumpedShows DEF S!Delivered, SpiShows

LEMMA SpiClearShows ==
  ASSUME NEW owes \in Seq(Words), NEW prompt \in BOOLEAN, NEW stale \in BOOLEAN
  PROVE  SpiShows(S!Clear(owes, prompt, stale))
<1> DEFINE e == S!Clear(owes, prompt, stale)
<1>1. e \in SpiState
  BY SpiClear DEF SpiTold
<1>2. e.raw = {"TX"} /\ e.imsc = {} /\ e.line = FALSE /\ e.tx = <<>> /\ e.rx = <<>>
  BY DEF S!Clear
<1> HIDE DEF e
<1>3. S!Status(e) = {}
  BY <1>2 DEF S!Status
<1>4. FifoDepth \in Nat \ {0} /\ Len(e.tx) = 0 /\ Len(e.rx) = 0
  BY <1>2, PeripheralsAssumption DEF S!SpiAssumption
<1>5. SpiLevels(e) = {"TX"}
  BY <1>4 DEF SpiLevels
<1>6. SpiShows(e)
  BY <1>1, <1>2, <1>3, <1>5 DEF SpiShows, SpiLined
<1> QED BY <1>6 DEF e

LEMMA SpiStepShows ==
  ASSUME SpiTold(state), SpiShows(state), S!Next
  PROVE  SpiShows(state')
<1>1. state \in SpiState /\ SpiLined(state)
  BY DEF SpiTold, SpiShows
<1>2. ASSUME NEW word \in Words, S!WriteDr(word) PROVE SpiShows(state')
  <2> DEFINE t == [state EXCEPT !.tx = Append(state.tx, word)]
  <2>1. state' \in {state, S!FifosUpdated(S!Pumped(t))}
    BY <1>2 DEF S!WriteDr, S!DrWritten
  <2>2. t \in SpiState
    BY <1>1, SpiMoves
  <2>3. LikeLine(t, state)
    BY <1>1 DEF SpiState, LikeLine
  <2> HIDE DEF t
  <2> QED BY <1>1, <2>1, <2>2, <2>3, SpiSameLine, PumpedShows, SpiFifosShow
<1>3. CASE S!ReadDr
  <2> DEFINE t == [state EXCEPT !.rx = Tail(state.rx)]
  <2>1. state' = state \/ (state.rx # <<>> /\ state' = S!FifosUpdated(t))
    BY <1>3 DEF S!ReadDr, S!DrRead
  <2>2. state.rx # <<>> => t \in SpiState
    <3>1. state.rx # <<>> => Tail(state.rx) \in Seq(Words)
      BY <1>1 DEF SpiState
    <3> QED BY <1>1, <3>1 DEF SpiState
  <2>3. LikeLine(t, state)
    BY <1>1 DEF SpiState, LikeLine
  <2> HIDE DEF t
  <2> QED BY <1>1, <2>1, <2>2, <2>3, SpiSameLine, SpiFifosShow
<1>4. ASSUME NEW sse \in BOOLEAN, NEW lbm \in BOOLEAN, S!WriteCr1(sse, lbm) PROVE SpiShows(state')
  <2> DEFINE t == [state EXCEPT !.sse = sse, !.lbm = lbm]
  <2>1. state' = S!FifosUpdated(S!Pumped(t))
    BY <1>4 DEF S!WriteCr1, S!Cr1Written
  <2>2. t \in SpiState /\ LikeLine(t, state)
    BY <1>1 DEF SpiState, LikeLine
  <2> HIDE DEF t
  <2> QED BY <1>1, <2>1, <2>2, SpiSameLine, PumpedShows, SpiFifosShow
<1>5. ASSUME NEW timed \in BOOLEAN, S!WriteClock(timed) PROVE SpiShows(state')
  <2>1. state' \in SpiState
    BY <1>1, <1>5 DEF S!WriteClock, SpiState
  <2>2. LikeLine(state', state) /\ LikeFifos(state', state)
    BY <1>1, <1>5 DEF S!WriteClock, SpiState, LikeLine, LikeFifos
  <2> QED BY <2>1, <2>2, SpiSameLine
<1>6. ASSUME NEW enables \in Enables, S!WriteDmacr(enables) PROVE SpiShows(state')
  <2> DEFINE t == [state EXCEPT !.dmacr = enables]
  <2>1. enables \in SUBSET {16, 17}
    BY PeripheralsAssumption DEF S!SpiAssumption
  <2>2. t \in SpiState /\ LikeLine(t, state) /\ LikeFifos(t, state)
    BY <1>1, <2>1 DEF SpiState, LikeLine, LikeFifos
  <2>3. state' = S!UpdateDma(t)
    BY <1>6 DEF S!WriteDmacr, S!DmacrWritten
  <2> HIDE DEF t
  <2>4. state' \in SpiState
    BY <2>2, <2>3, SpiTells DEF SpiTold
  <2>5. LikeLine(state', t) /\ LikeFifos(state', t)
    BY <2>2, <2>3 DEF SpiState, S!UpdateDma, LikeLine, LikeFifos
  <2>6. SpiShows(t)
    BY <2>2, SpiSameLine
  <2> QED BY <2>4, <2>5, <2>6, SpiSameLine
<1>7. ASSUME NEW enabled \in Masks, S!WriteImsc(enabled) PROVE SpiShows(state')
  <2> DEFINE t == [state EXCEPT !.imsc = enabled]
  <2>1. enabled \in SUBSET S!Interrupts
    BY PeripheralsAssumption DEF S!SpiAssumption, S!Interrupts
  <2>2. t \in SpiState /\ t.raw = state.raw /\ t.tx = state.tx /\ t.rx = state.rx
    BY <1>1, <2>1 DEF SpiState
  <2>3. state' = S!CheckInterrupts(t)
    BY <1>7 DEF S!WriteImsc
  <2> HIDE DEF t
  <2>4. t.raw \cap {"TX", "RX"} = SpiLevels(t)
    BY <2>2 DEF SpiShows, SpiLevels
  <2> QED BY <2>2, <2>3, <2>4, SpiCheckShows
<1>8. CASE S!WriteIcr
  <2> DEFINE t == [state EXCEPT !.raw = state.raw \ {"ROR"}, !.lost = FALSE]
  <2>1. t \in SpiState /\ t.raw = state.raw \ {"ROR"} /\ t.tx = state.tx /\ t.rx = state.rx
    BY <1>1 DEF SpiState
  <2>2. state' = S!CheckInterrupts(t)
    BY <1>8 DEF S!WriteIcr
  <2> HIDE DEF t
  <2>3. t.raw \cap {"TX", "RX"} = SpiLevels(t)
    BY <2>1 DEF SpiShows, SpiLevels
  <2> QED BY <2>1, <2>2, <2>3, SpiCheckShows
<1>9. CASE S!FrameDone
  <2> DEFINE t == [state EXCEPT !.frame = FALSE, !.reply = None]
  <2>1. t \in SpiState /\ LikeLine(t, state) /\ LikeFifos(t, state)
    BY <1>1 DEF SpiState, LikeLine, LikeFifos
  <2>2. state' = IF state.reply = None THEN t ELSE S!Delivered(t, state.reply)
    BY <1>9 DEF S!FrameDone, S!FrameEnded
  <2>3. state.reply # None => state.reply \in Words
    BY <1>1 DEF SpiState
  <2> HIDE DEF t
  <2> QED BY <1>1, <2>1, <2>2, <2>3, SpiSameLine, DeliveredShows
<1>10. CASE S!DeviceAnswers
  <2> DEFINE t == [state EXCEPT !.owes = Tail(state.owes)]
             h == Head(state.owes)
  <2>1. state.owes # <<>>
    BY <1>10 DEF S!DeviceAnswers
  <2>2. h \in Words
    BY <1>1, <2>1 DEF SpiState
  <2>3. t \in SpiState
    BY <1>1, <2>1, <2>2, SpiMoves
  <2>4. LikeLine(t, state) /\ LikeFifos(t, state)
    BY <1>1 DEF SpiState, LikeLine, LikeFifos
  <2>5. state' = IF state.frame THEN [t EXCEPT !.reply = h] ELSE S!Delivered(t, h)
    BY <1>10 DEF S!DeviceAnswers, S!Answered
  <2> HIDE DEF t, h
  <2>6. SpiShows(t)
    BY <2>3, <2>4, SpiSameLine
  <2>7. SpiShows([t EXCEPT !.reply = h])
    <3>1. [t EXCEPT !.reply = h] \in SpiState /\ LikeLine([t EXCEPT !.reply = h], t) /\ LikeFifos([t EXCEPT !.reply = h], t)
      BY <2>2, <2>3 DEF SpiState, LikeLine, LikeFifos
    <3> QED BY <2>6, <3>1, SpiSameLine
  <2> QED BY <2>2, <2>5, <2>6, <2>7, DeliveredShows DEF SpiShows
<1>11. CASE S!Reset
  <2>1. state' = S!Clear(state.owes, state.prompt, state.stale \/ state.owes # <<>>)
    BY <1>11 DEF S!Reset
  <2>2. state.owes \in Seq(Words) /\ state.prompt \in BOOLEAN /\ (state.stale \/ state.owes # <<>>) \in BOOLEAN
    BY <1>1 DEF SpiState
  <2> QED BY <2>1, <2>2, SpiClearShows
<1> QED BY <1>2, <1>3, <1>4, <1>5, <1>6, <1>7, <1>8, <1>9, <1>10, <1>11 DEF S!Next, S!Program

LEMMA SpiIsShown == SpiShows(state) => S!LineTellsStatus
<1> SUFFICES ASSUME SpiShows(state) PROVE S!LineTellsStatus
  OBVIOUS
<1>1. \A i \in {"TX", "RX"} : i \in state.raw <=> i \in SpiLevels(state)
  BY DEF SpiShows
<1>2. /\ "TX" \in SpiLevels(state) <=> 2 * Len(state.tx) <= FifoDepth
      /\ "RX" \in SpiLevels(state) <=> 2 * Len(state.rx) >= FifoDepth
  BY DEF SpiLevels
<1> QED BY <1>1, <1>2 DEF SpiShows, SpiLined, S!LineTellsStatus

-----------------------------------------------------------------------------
(* The line of the UART. *)

UartShows(u) == u \in UartState /\ u.line = (u.status \cap u.mask # {})

LEMMA UartSameLine ==
  ASSUME NEW u, UartShows(u), NEW e \in UartState, e.line = u.line, e.status = u.status, e.mask = u.mask
  PROVE  UartShows(e)
  BY DEF UartShows

LEMMA UartCheckShows ==
  ASSUME NEW u \in UartState
  PROVE  UartShows(U!CheckInterrupts(u)) /\ UartShows(U!UpdateDreq(U!CheckInterrupts(u)))
<1> DEFINE c == U!CheckInterrupts(u)
<1>1. c \in UartState /\ U!UpdateDreq(c) \in UartState
  BY UartTells
<1>2. c.line = (u.status \cap u.mask # {}) /\ c.status = u.status /\ c.mask = u.mask
  BY DEF UartState, U!CheckInterrupts
<1> HIDE DEF c
<1>3. UartShows(c)
  BY <1>1, <1>2 DEF UartShows
<1>4. U!UpdateDreq(c).line = c.line /\ U!UpdateDreq(c).status = c.status /\ U!UpdateDreq(c).mask = c.mask
  BY <1>1 DEF UartState, U!UpdateDreq
<1>5. UartShows(U!UpdateDreq(c))
  BY <1>1, <1>3, <1>4, UartSameLine
<1> QED BY <1>3, <1>5 DEF c

LEMMA UartDreqShows ==
  ASSUME NEW u, UartShows(u)
  PROVE  UartShows(U!UpdateDreq(u))
<1>1. u \in UartState
  BY DEF UartShows
<1>2. U!UpdateDreq(u).line = u.line /\ U!UpdateDreq(u).status = u.status /\ U!UpdateDreq(u).mask = u.mask
  BY <1>1 DEF UartState, U!UpdateDreq
<1> QED BY <1>1, <1>2, UartTells, UartSameLine

LEMMA FeedByteShows ==
  ASSUME NEW u, UartShows(u)
  PROVE  UartShows(U!FeedByte(u))
<1> DEFINE over == [u EXCEPT !.status = u.status \cup {U!OE}]
           fed == [u EXCEPT !.rx = u.rx + 1, !.status = u.status \cup {U!RX}]
<1>1. u \in UartState
  BY DEF UartShows
<1>2. over \in UartState /\ fed \in UartState
  <2>1. /\ u.status \cup {U!OE} \in SUBSET {"TX", "RX", "OE"} /\ u.status \cup {U!RX} \in SUBSET {"TX", "RX", "OE"}
        /\ u.rx + 1 \in Nat
    BY <1>1 DEF UartState, U!OE, U!RX
  <2>2. over \in UartState
    BY <1>1, <2>1 DEF UartState
  <2>3. fed \in UartState
    BY <1>1, <2>1 DEF UartState
  <2> QED BY <2>2, <2>3
<1>3. U!FeedByte(u) \in {u, U!UpdateDreq(U!CheckInterrupts(over)), U!UpdateDreq(U!CheckInterrupts(fed))}
  BY <1>1 DEF U!FeedByte, UartState
<1> HIDE DEF over, fed
<1> QED BY <1>2, <1>3, UartCheckShows

LEMMA UartOnShows == UartShows(U!PowerOn)
<1>1. U!PowerOn \in UartState
  BY UartOn DEF UartTold
<1>2. U!PowerOn.line = FALSE /\ U!PowerOn.status = {}
  BY DEF U!PowerOn
<1> QED BY <1>1, <1>2 DEF UartShows

\* Every method that changes the status looks at the line after it, last or but for the requests.
LEMMA UartStepShows ==
  ASSUME UartTold(state), UartShows(state), U!Next
  PROVE  UartShows(state')
<1>1. state \in UartState
  BY DEF UartTold
<1>2. CASE U!ByteArrives
  BY <1>2, FeedByteShows DEF U!ByteArrives
<1>3. CASE U!CharacterDone
  <2>1. U!Pump(U!Emit([state EXCEPT !.shifting = FALSE])) \in UartState
    BY <1>1, UartChanges, FeedByteStays, PumpStays
  <2> QED BY <1>3, <2>1, UartCheckShows DEF U!CharacterDone, U!TxDone
<1>4. CASE U!WriteDr
  <2> DEFINE t == IF U!TxFull(state) THEN state ELSE [state EXCEPT !.tx = state.tx + 1]
             risen == IF ~ U!TxFull(state) /\ t.tx > U!TxTrigger(t) THEN [t EXCEPT !.status = t.status \ {U!TX}] ELSE t
  <2>1. t \in UartState
    BY <1>1, UartChanges
  <2>2. state' = IF U!TxEnabled(state) THEN U!UpdateDreq(U!CheckInterrupts(U!Pump(risen))) ELSE state
    BY <1>1, <1>4 DEF U!WriteDr, U!DrWritten, UartState
  <2> HIDE DEF t
  <2>3. risen \in UartState
    BY <2>1, UartChanges
  <2> HIDE DEF risen
  <2> QED BY <2>2, <2>3, PumpStays, UartCheckShows
<1>5. CASE U!ReadDr
  <2> DEFINE t == IF state.rx = 0 THEN state ELSE [state EXCEPT !.rx = state.rx - 1]
             read == [t EXCEPT !.status = IF t.rx = 0 THEN t.status \ {U!RX} ELSE t.status \cup {U!RX}]
  <2>1. [state EXCEPT !.rx = IF state.rx = 0 THEN 0 ELSE state.rx - 1] = t
    BY <1>1 DEF UartState
  <2>2. t \in UartState
    BY <1>1, UartChanges
  <2>3. state' = U!UpdateDreq(U!CheckInterrupts(read))
    BY <1>5, <2>1 DEF U!ReadDr, U!DrRead
  <2> HIDE DEF t
  <2>4. read \in {[t EXCEPT !.status = t.status \ {U!RX}], [t EXCEPT !.status = t.status \cup {U!RX}]}
    OBVIOUS
  <2>5. read \in UartState
    BY <2>2, <2>4, UartChanges
  <2> QED BY <2>3, <2>5, UartCheckShows
<1>6. CASE U!WriteCr
  <2>1. PICK cr \in UartControls : state' = U!CrWritten(state, cr)
    BY <1>6 DEF U!WriteCr
  <2> DEFINE t == [state EXCEPT !.cr = cr]
             p == U!Pump(t)
  <2>2. t \in UartState /\ p \in UartState
    BY <1>1, UartChanges, PumpStays
  <2>3. state' \in {U!UpdateDreq(t), U!UpdateDreq(U!CheckInterrupts(p))}
    BY <2>1 DEF U!CrWritten
  <2>4. t.line = state.line /\ t.status = state.status /\ t.mask = state.mask
    BY <1>1 DEF UartState
  <2> HIDE DEF t, p
  <2>5. UartShows(t)
    BY <2>2, <2>4, UartSameLine
  <2> QED BY <2>2, <2>3, <2>5, UartCheckShows, UartDreqShows
<1>7. CASE U!WriteLcr
  <2> DEFINE fen == ~ state.fen
             t == [state EXCEPT !.fen = fen]
  <2>1. state' = U!UpdateDreq(t) /\ fen \in BOOLEAN
    BY <1>7 DEF U!WriteLcr, U!LcrWritten
  <2> HIDE DEF fen
  <2>2. t \in UartState /\ t.line = state.line /\ t.status = state.status /\ t.mask = state.mask
    BY <1>1, <2>1 DEF UartState
  <2> HIDE DEF t
  <2> QED BY <2>1, <2>2, UartSameLine, UartDreqShows
<1>8. CASE U!WriteIfls
  <2>1. PICK n \in UartTriggers : state' = [state EXCEPT !.trigger = n]
    BY <1>8 DEF U!WriteIfls
  <2>2. state' \in UartState
    BY <2>1, UartKeepsTold DEF UartTold
  <2>3. state'.line = state.line /\ state'.status = state.status /\ state'.mask = state.mask
    BY <1>1, <2>1 DEF UartState
  <2> QED BY <2>2, <2>3, UartSameLine
<1>9. CASE U!WriteDivisor
  <2> DEFINE timed == ~ state.timed
  <2>1. state' = [state EXCEPT !.timed = timed] /\ timed \in BOOLEAN
    BY <1>9 DEF U!WriteDivisor
  <2> HIDE DEF timed
  <2>2. state' \in UartState
    BY <2>1, UartKeepsTold DEF UartTold
  <2>3. state'.line = state.line /\ state'.status = state.status /\ state'.mask = state.mask
    BY <1>1, <2>1 DEF UartState
  <2> QED BY <2>2, <2>3, UartSameLine
<1>10. CASE U!WriteDmacr
  <2>1. PICK d \in UartDmacrs : state' = U!UpdateDreq([state EXCEPT !.dmacr = d])
    BY <1>10 DEF U!WriteDmacr
  <2> DEFINE t == [state EXCEPT !.dmacr = d]
  <2>2. t \in UartState
    BY <1>1, UartChanges
  <2>3. t.line = state.line /\ t.status = state.status /\ t.mask = state.mask
    BY <1>1 DEF UartState
  <2> HIDE DEF t
  <2>4. UartShows(t)
    BY <2>2, <2>3, UartSameLine
  <2> QED BY <2>1, <2>4, UartDreqShows DEF t
<1>11. CASE U!WriteImsc
  <2>1. UartMasks \subseteq SUBSET {"TX", "RX", "OE"}
    BY PeripheralsAssumption DEF U!UartAssumption, U!TX, U!RX, U!OE
  <2>2. PICK m \in UartMasks : state' = U!CheckInterrupts([state EXCEPT !.mask = m])
    BY <1>11 DEF U!WriteImsc
  <2>3. [state EXCEPT !.mask = m] \in UartState
    BY <1>1, <2>1 DEF UartState
  <2> QED BY <2>2, <2>3, UartCheckShows
<1>12. CASE U!WriteIcr
  <2>1. PICK i : state' = U!UpdateDreq(U!CheckInterrupts([state EXCEPT !.status = state.status \ {i}]))
    BY <1>12 DEF U!WriteIcr
  <2> QED BY <1>1, <2>1, UartChanges, UartCheckShows
<1>13. CASE U!Reset
  BY <1>13, UartOnShows DEF U!Reset
<1> QED BY <1>2, <1>3, <1>4, <1>5, <1>6, <1>7, <1>8, <1>9, <1>10, <1>11, <1>12, <1>13 DEF U!Next

-----------------------------------------------------------------------------
(* The line of the ADC. *)

AdcFields == {"line", "level", "threshold", "inte", "intf"}
AdcLined(a) == AdcFields \subseteq DOMAIN a /\ a.line = A!Status(a)

LEMMA AdcCheckLines ==
  ASSUME NEW a, AdcFields \subseteq DOMAIN a
  PROVE  AdcLined(A!CheckInterrupts(a))
<1> DEFINE line == (a.level >= a.threshold /\ a.inte) \/ a.intf
           e == [a EXCEPT !.line = line]
<1>1. A!CheckInterrupts(a) = e
  BY Zenon DEF A!CheckInterrupts, A!Status, A!Raw
<1> HIDE DEF line
<1>2. /\ DOMAIN e = DOMAIN a /\ e.line = line /\ e.level = a.level /\ e.threshold = a.threshold /\ e.inte = a.inte
      /\ e.intf = a.intf
  BY Zenon DEF AdcFields
<1> HIDE DEF e
<1> QED BY <1>1, <1>2, Zenon DEF AdcLined, A!Status, A!Raw, line

LEMMA AdcFieldsKeepLine ==
  ASSUME NEW a, AdcLined(a), NEW v, NEW w
  PROVE  /\ AdcLined([a EXCEPT !.busy = v, !.sampling = w]) /\ AdcLined([a EXCEPT !.en = v, !.start_many = w])
         /\ AdcLined([a EXCEPT !.pausing = v]) /\ AdcLined([a EXCEPT !.paced = v]) /\ AdcLined([a EXCEPT !.errors = v])
  BY Zenon DEF AdcLined, AdcFields, A!Status, A!Raw

\* The level, the threshold and the masks: their fields are there for the line.
LEMMA AdcKeepsFields ==
  ASSUME NEW a, AdcFields \subseteq DOMAIN a, NEW v
  PROVE  /\ AdcFields \subseteq DOMAIN [a EXCEPT !.level = v] /\ AdcFields \subseteq DOMAIN [a EXCEPT !.inte = v]
         /\ AdcFields \subseteq DOMAIN [a EXCEPT !.intf = v] /\ AdcFields \subseteq DOMAIN A!UpdateDma(a)
  BY Zenon DEF AdcFields, A!UpdateDma

LEMMA AdcCountLines ==
  ASSUME NEW a, AdcFields \subseteq DOMAIN a, NEW n
  PROVE  AdcLined(A!CheckInterrupts(A!UpdateDma([a EXCEPT !.level = n])))
  BY AdcKeepsFields, AdcCheckLines

LEMMA AdcStartLined ==
  ASSUME NEW a, AdcLined(a)
  PROVE  AdcLined(A!StartRead(a))
  BY AdcFieldsKeepLine, Zenon DEF A!StartRead

LEMMA AdcOnLined == AdcLined(A!PowerOn)
<1>1. A!PowerOn.line = FALSE /\ A!PowerOn.inte = FALSE /\ A!PowerOn.intf = FALSE /\ AdcFields \subseteq DOMAIN A!PowerOn
  BY DEF A!PowerOn, AdcFields
<1> QED BY <1>1, Zenon DEF AdcLined, A!Status

LEMMA AdcStepLined ==
  ASSUME AdcLined(state), A!Next
  PROVE  AdcLined(state')
<1> DEFINE yes == TRUE
           no == FALSE
<1>1. AdcFields \subseteq DOMAIN state
  BY Zenon DEF AdcLined
<1>2. CASE A!SampleDone
  <2> DEFINE t == [state EXCEPT !.busy = no, !.sampling = no]
             p == A!Pushed(t)
  <2>1. state' = A!CompleteRead(state)
    BY <1>2, Zenon DEF A!SampleDone
  <2>2. state' \in {p, [p EXCEPT !.pausing = yes], A!StartRead(p)}
    BY <2>1, Zenon DEF A!CompleteRead
  <2> HIDE DEF yes, no
  <2>3. AdcLined(t)
    BY AdcFieldsKeepLine, Zenon
  <2>4. p \in {t, [t EXCEPT !.errors = t.errors \cup {"OVER"}], A!CheckInterrupts(A!UpdateDma([t EXCEPT !.level = t.level + 1]))}
    BY Zenon DEF A!Pushed
  <2> HIDE DEF t, p
  <2>5. AdcLined([t EXCEPT !.errors = t.errors \cup {"OVER"}])
    BY <2>3, AdcFieldsKeepLine, Zenon
  <2>6. AdcLined(A!CheckInterrupts(A!UpdateDma([t EXCEPT !.level = t.level + 1])))
    BY <2>3, AdcCountLines, Zenon DEF AdcLined
  <2>7. AdcLined(p)
    BY <2>3, <2>4, <2>5, <2>6, Zenon
  <2>8. AdcLined([p EXCEPT !.pausing = yes]) /\ AdcLined(A!StartRead(p))
    BY <2>7, AdcFieldsKeepLine, AdcStartLined, Zenon
  <2> QED BY <2>2, <2>7, <2>8, Zenon
<1>3. CASE A!PauseDone
  <2> DEFINE a == [state EXCEPT !.pausing = no]
  <2>1. state' \in {a, A!StartRead(a)}
    BY <1>3, Zenon DEF A!PauseDone
  <2> HIDE DEF yes, no
  <2>2. AdcLined(a)
    BY AdcFieldsKeepLine, Zenon
  <2> HIDE DEF a
  <2> QED BY <2>1, <2>2, AdcStartLined, Zenon
<1>4. CASE A!WriteCs
  <2>1. PICK en, one, many \in BOOLEAN : state' = A!CsWritten(state, en, one, many)
    BY <1>4, Zenon DEF A!WriteCs
  <2> DEFINE t == [state EXCEPT !.en = en, !.start_many = many]
  <2>2. state' \in {t, A!StartRead(t)}
    BY <2>1, Zenon DEF A!CsWritten
  <2>3. AdcLined(t)
    BY AdcFieldsKeepLine, Zenon
  <2> HIDE DEF t
  <2> QED BY <2>2, <2>3, AdcStartLined, Zenon
<1>5. CASE A!WriteFcs
  <2>1. PICK f, d \in BOOLEAN, n \in AdcThresholds, c \in SUBSET {"OVER", "UNDER"} : state' = A!FcsWritten(state, f, d, n, c)
    BY <1>5, Zenon DEF A!WriteFcs
  <2> DEFINE t == [state EXCEPT !.fifo_en = f, !.dreq_en = d, !.threshold = n, !.errors = state.errors \ c]
  <2>2. state' = A!CheckInterrupts(A!UpdateDma(t))
    BY <2>1, Zenon DEF A!FcsWritten
  <2>3. AdcFields \subseteq DOMAIN t
    BY <1>1, Zenon
  <2> HIDE DEF t
  <2>4. AdcLined(A!CheckInterrupts(A!UpdateDma(t)))
    BY <2>3, AdcKeepsFields, AdcCheckLines
  <2> QED BY <2>2, <2>4, Zenon
<1>6. CASE A!WriteDiv
  <2>1. state' = [state EXCEPT !.paced = ~ state.paced]
    BY <1>6, Zenon DEF A!WriteDiv
  <2>2. AdcLined([state EXCEPT !.paced = ~ state.paced])
    BY AdcFieldsKeepLine, Zenon
  <2> QED BY <2>1, <2>2, Zenon
<1>7. CASE A!WriteInte \/ A!WriteIntf
  <2> DEFINE inte == ~ state.inte
             intf == ~ state.intf
  <2>1. state' \in {A!CheckInterrupts([state EXCEPT !.inte = inte]), A!CheckInterrupts([state EXCEPT !.intf = intf])}
    BY <1>7, Zenon DEF A!WriteInte, A!WriteIntf
  <2> HIDE DEF inte, intf
  <2>2. AdcLined(A!CheckInterrupts([state EXCEPT !.inte = inte])) /\ AdcLined(A!CheckInterrupts([state EXCEPT !.intf = intf]))
    BY <1>1, AdcKeepsFields, AdcCheckLines
  <2> QED BY <2>1, <2>2, Zenon
<1>8. CASE A!ReadFifo
  <2>1. state' \in {[state EXCEPT !.errors = state.errors \cup {"UNDER"}], A!CheckInterrupts(A!UpdateDma([state EXCEPT !.level = state.level - 1]))}
    BY <1>8, Zenon DEF A!ReadFifo, A!FifoRead
  <2>2. AdcLined([state EXCEPT !.errors = state.errors \cup {"UNDER"}])
    BY AdcFieldsKeepLine, Zenon
  <2>3. AdcLined(A!CheckInterrupts(A!UpdateDma([state EXCEPT !.level = state.level - 1])))
    BY <1>1, AdcCountLines, Zenon
  <2> QED BY <2>1, <2>2, <2>3, Zenon
<1>9. CASE A!Reset
  BY <1>9, AdcOnLined, Zenon DEF A!Reset
<1> QED BY <1>2, <1>3, <1>4, <1>5, <1>6, <1>7, <1>8, <1>9, Zenon DEF A!Next
-----------------------------------------------------------------------------
(* The lines of the timer. *)

TimerLined(t) ==
  /\ {"lines", "raw", "inte", "intf"} \subseteq DOMAIN t
  /\ t.lines = (t.raw \cap t.inte) \cup t.intf

LEMMA TimerKeepsLines ==
  ASSUME NEW t, TimerLined(t)
  PROVE  /\ \A due : TimerLined([t EXCEPT !.due = due])
         /\ \A sub : TimerLined([t EXCEPT !.sub = sub])
         /\ \A armed, due : TimerLined([t EXCEPT !.armed = armed, !.due = due])
         /\ \A armed, target : TimerLined([t EXCEPT !.armed = armed, !.target = target])
         /\ \A elapsed, due : TimerLined([t EXCEPT !.elapsed = elapsed, !.due = due])
         /\ \A count, sub, elapsed : TimerLined([t EXCEPT !.count = count, !.sub = sub, !.elapsed = elapsed])
  BY Zenon DEF TimerLined

LEMMA TimerChecksLines ==
  ASSUME NEW t, TimerLined(t), NEW v
  PROVE  /\ TimerLined(T!CheckInterrupts([t EXCEPT !.raw = v])) /\ TimerLined(T!CheckInterrupts([t EXCEPT !.inte = v]))
         /\ TimerLined(T!CheckInterrupts([t EXCEPT !.intf = v]))
  BY Zenon DEF TimerLined, T!CheckInterrupts

LEMMA TimerSetsKeepLines ==
  ASSUME NEW t, TimerLined(t), NEW alarms
  PROVE  /\ TimerLined(T!Armed(t, alarms)) /\ TimerLined(T!RescheduleArmed(t)) /\ TimerLined(T!Rebased(t))
         /\ \A a : TimerLined(T!Disarmed(t, a)) /\ TimerLined(T!Fired(t, a))
         /\ \A a, n : TimerLined(T!AlarmWritten(t, a, n))
         /\ \A n : TimerLined(T!TimeSet(t, n))
         /\ \A paused, period : TimerLined(T!Applied(t, paused, period))
<1>1. \A u, s : TimerLined(u) => TimerLined(T!Armed(u, s)) /\ TimerLined(T!RescheduleArmed(u))
  BY TimerKeepsLines, Zenon DEF T!Armed, T!RescheduleArmed
<1>2. TimerLined(T!Rebased(t))
  BY TimerKeepsLines, Zenon DEF T!Rebased
<1>3. \A a : TimerLined(T!Disarmed(t, a))
  BY TimerKeepsLines, Zenon DEF T!Disarmed
<1>4. \A a : TimerLined(T!Fired(t, a))
  BY <1>3, TimerChecksLines, Zenon DEF T!Fired
<1>5. \A a, n : TimerLined(T!AlarmWritten(t, a, n))
  BY <1>1, TimerKeepsLines, Zenon DEF T!AlarmWritten
<1>6. \A n : TimerLined(T!TimeSet(t, n))
  BY <1>1, TimerKeepsLines, Zenon DEF T!TimeSet
<1>7. ASSUME NEW paused, NEW period PROVE TimerLined(T!Applied(t, paused, period))
  <2> DEFINE u == [t EXCEPT !.paused = paused, !.period = period, !.count = T!Count(t), !.elapsed = 0, !.sub = T!Sub(t)]
             runs_on == [u EXCEPT !.sub = (u.sub * period) \div t.period]
  <2>1. TimerLined(u)
    BY Zenon DEF TimerLined
  <2> HIDE DEF u
  <2>2. TimerLined(runs_on) /\ TimerLined([u EXCEPT !.due = [a \in Alarms |-> T!Never]])
    BY <2>1, TimerKeepsLines, Zenon
  <2>3. T!Applied(t, paused, period) = IF T!Frozen(u) THEN [u EXCEPT !.due = [a \in Alarms |-> T!Never]]
                                       ELSE T!RescheduleArmed(IF T!Frozen(t) THEN u ELSE runs_on)
    BY Zenon DEF T!Applied, u
  <2> HIDE DEF runs_on
  <2> QED BY <1>1, <2>1, <2>2, <2>3, Zenon
<1> QED BY <1>1, <1>2, <1>3, <1>4, <1>5, <1>6, <1>7, Zenon

LEMMA TimerOnLined == \A period : TimerLined(T!PowerOn(period))
  BY DEF T!PowerOn, TimerLined

LEMMA TimerStepLined ==
  ASSUME TimerLined(state), T!Next
  PROVE  TimerLined(state')
<1>1. CASE T!Tick
  BY <1>1, TimerKeepsLines, Zenon DEF T!Tick
<1>2. CASE T!Fire \/ T!Rebase \/ T!WriteAlarm \/ T!WriteArmed \/ T!WritePause \/ T!TickChanged \/ T!WriteTime
  BY <1>2, TimerSetsKeepLines, Zenon
     DEF T!Fire, T!Rebase, T!WriteAlarm, T!WriteArmed, T!WritePause, T!TickChanged, T!WriteTime
<1>3. CASE T!WriteIntr \/ T!WriteInte \/ T!WriteIntf
  <2>1. PICK v : \/ state' = T!CheckInterrupts([state EXCEPT !.raw = v])
                 \/ state' = T!CheckInterrupts([state EXCEPT !.inte = v])
                 \/ state' = T!CheckInterrupts([state EXCEPT !.intf = v])
    BY <1>3, Zenon DEF T!WriteIntr, T!WriteInte, T!WriteIntf
  <2> QED BY <2>1, TimerChecksLines, Zenon
<1>4. CASE T!Reset
  BY <1>4, TimerOnLined, Zenon DEF T!Reset
<1> QED BY <1>1, <1>2, <1>3, <1>4 DEF T!Next
-----------------------------------------------------------------------------
(* The line of a PWM slice. *)

PwmLine(p) == (p.raw /\ p.inte) \/ p.intf
PwmLined(p) ==
  /\ {"line", "raw", "inte", "intf"} \subseteq DOMAIN p
  /\ p.line = PwmLine(p)

LEMMA PwmKeepsLine ==
  ASSUME NEW p, PwmLined(p), NEW e, DOMAIN e = DOMAIN p, e.line = p.line, e.raw = p.raw, e.inte = p.inte, e.intf = p.intf
  PROVE  PwmLined(e)
  BY Zenon DEF PwmLined, PwmLine

LEMMA PwmCheckLines ==
  ASSUME NEW p, {"line", "raw", "inte", "intf"} \subseteq DOMAIN p
  PROVE  PwmLined(P!CheckInterrupts(p))
<1> DEFINE line == (p.raw /\ p.inte) \/ p.intf
           e == [p EXCEPT !.line = line]
<1>1. P!CheckInterrupts(p) = e
  BY Zenon DEF P!CheckInterrupts
<1>2. line = PwmLine(p)
  BY Zenon DEF PwmLine
<1> HIDE DEF line
<1>3. DOMAIN e = DOMAIN p /\ e.line = line /\ e.raw = p.raw /\ e.inte = p.inte /\ e.intf = p.intf
  BY Zenon
<1> HIDE DEF e
<1> QED BY <1>1, <1>2, <1>3, Zenon DEF PwmLined, PwmLine

\* A change of fields that the line does not show.
LEMMA PwmFieldsKeepLine ==
  ASSUME NEW p, PwmLined(p)
  PROVE  /\ \A v : PwmLined([p EXCEPT !.due = v]) /\ PwmLined([p EXCEPT !.count = v]) /\ PwmLined([p EXCEPT !.run = v])
         /\ \A v : PwmLined([p EXCEPT !.steady = v]) /\ PwmLined([p EXCEPT !.en = v]) /\ PwmLined([p EXCEPT !.slow = v])
         /\ \A v : PwmLined([p EXCEPT !.b = v]) /\ PwmLined([p EXCEPT !.out = v]) /\ PwmLined([p EXCEPT !.target = v])
  BY Zenon DEF PwmLined, PwmLine

LEMMA PwmPairsKeepLine ==
  ASSUME NEW p, PwmLined(p), NEW v, NEW w
  PROVE  /\ PwmLined([p EXCEPT !.out = v, !.steady = w]) /\ PwmLined([p EXCEPT !.count = v, !.steady = w])
         /\ PwmLined([p EXCEPT !.top = v, !.count = w]) /\ PwmLined([p EXCEPT !.count = v, !.due = w])
         /\ PwmLined([p EXCEPT !.cc = v, !.cc_updated = w]) /\ PwmLined([p EXCEPT !.ctop = v, !.top_updated = w])
  BY Zenon DEF PwmLined, PwmLine

LEMMA PwmModesKeepLine ==
  ASSUME NEW p, PwmLined(p)
  PROVE  /\ \A v, w, x : PwmLined([p EXCEPT !.en = v, !.ph = w, !.gated = x])
         /\ \A v, w, x, y : PwmLined([p EXCEPT !.lcc = v, !.ltop = w, !.cc_updated = x, !.top_updated = y])
<1>1. ASSUME NEW v, NEW w, NEW x PROVE PwmLined([p EXCEPT !.en = v, !.ph = w, !.gated = x])
  BY Zenon DEF PwmLined, PwmLine
<1>2. ASSUME NEW v, NEW w, NEW x, NEW y
      PROVE  PwmLined([p EXCEPT !.lcc = v, !.ltop = w, !.cc_updated = x, !.top_updated = y])
  BY Zenon DEF PwmLined, PwmLine
<1> QED BY <1>1, <1>2

\* The counter's methods leave the line alone.
LEMMA PwmCountsKeepLine ==
  /\ \A p, events : PwmLined(p) => PwmLined(P!Scheduled(p, events)) /\ PwmLined(P!Updated(p))
  /\ \A p, n : PwmLined(p) => /\ PwmLined(P!Placed(p, n)) /\ PwmLined(P!Run(p, n)) /\ PwmLined(P!Advanced(p, n))
                              /\ PwmLined(P!Topped(p, n)) /\ PwmLined(P!CtrWritten(p, n)) /\ PwmLined(P!DivWritten(p, n))
  /\ \A p, e, n : PwmLined(p) => PwmLined(P!Retargeted(p, e, n))
<1>1. ASSUME NEW p, PwmLined(p), NEW events PROVE PwmLined(P!Scheduled(p, events))
  BY <1>1, PwmFieldsKeepLine, Zenon DEF P!Scheduled
<1>2. ASSUME NEW p, PwmLined(p) PROVE PwmLined(P!Updated(p))
  BY <1>1, <1>2, Zenon DEF P!Updated
<1>3. ASSUME NEW p, PwmLined(p), NEW n PROVE PwmLined(P!Placed(p, n))
  BY <1>2, <1>3, PwmFieldsKeepLine, Zenon DEF P!Placed
<1>4. ASSUME NEW p, PwmLined(p), NEW n PROVE PwmLined(P!Run(p, n))
  BY <1>3, <1>4, PwmFieldsKeepLine, Zenon DEF P!Run
<1>5. ASSUME NEW p, PwmLined(p), NEW n PROVE PwmLined(P!Advanced(p, n))
  BY <1>2, <1>5, PwmPairsKeepLine, Zenon DEF P!Advanced
<1>6. ASSUME NEW p, PwmLined(p), NEW n PROVE PwmLined(P!Topped(p, n))
  BY <1>2, <1>6, PwmPairsKeepLine, Zenon DEF P!Topped
<1>7. ASSUME NEW p, PwmLined(p), NEW n PROVE PwmLined(P!CtrWritten(p, n))
  BY <1>3, <1>7, PwmFieldsKeepLine, Zenon DEF P!CtrWritten
<1>8. ASSUME NEW p, PwmLined(p), NEW n PROVE PwmLined(P!DivWritten(p, n))
  BY <1>2, <1>4, <1>8, PwmFieldsKeepLine, Zenon DEF P!DivWritten
<1>9. ASSUME NEW p, PwmLined(p), NEW e, NEW n PROVE PwmLined(P!Retargeted(p, e, n))
  <2> DEFINE t == [p EXCEPT !.target[e] = n]
  <2>1. PwmLined(t)
    BY <1>9, Zenon DEF PwmLined, PwmLine
  <2> HIDE DEF t
  <2>2. P!Retargeted(p, e, n) = IF p.target[e] = n THEN p ELSE P!Scheduled(t, {e})
    BY Zenon DEF P!Retargeted, t
  <2> QED BY <1>1, <1>9, <2>1, <2>2, Zenon
<1> QED BY <1>1, <1>2, <1>3, <1>4, <1>5, <1>6, <1>7, <1>8, <1>9, Zenon

\* So do the slice's, but for the wrap, which looks at it.
LEMMA PwmMethodsKeepLine ==
  /\ \A p : PwmLined(p) => /\ PwmLined(P!ApplyLatched(p)) /\ PwmLined(P!UpdateDoubleBuffered(p))
                           /\ PwmLined(P!UpdateEnable(p)) /\ PwmLined(P!Wrapped(p))
  /\ \A p, en : PwmLined(p) => PwmLined(P!EnWritten(p, en)) /\ PwmLined(P!Happened(p, en))
  /\ \A p, en, ph, gated, move : PwmLined(p) => PwmLined(P!CsrWritten(p, en, ph, gated, move))
<1>1. ASSUME NEW p, PwmLined(p) PROVE PwmLined(P!ApplyLatched(p))
  BY <1>1, PwmCountsKeepLine, Zenon DEF P!ApplyLatched
<1>2. ASSUME NEW p, PwmLined(p) PROVE PwmLined(P!UpdateDoubleBuffered(p))
  <2> DEFINE u == [p EXCEPT !.lcc = IF p.cc_updated THEN p.cc ELSE p.lcc, !.ltop = IF p.top_updated THEN p.ctop ELSE p.ltop,
                            !.cc_updated = FALSE, !.top_updated = FALSE]
  <2>1. PwmLined(u)
    BY <1>2, PwmModesKeepLine, Zenon
  <2>2. P!UpdateDoubleBuffered(p) = IF p.cc_updated \/ p.top_updated THEN P!ApplyLatched([u EXCEPT !.steady = FALSE]) ELSE p
    BY DEF P!UpdateDoubleBuffered
  <2> HIDE DEF u
  <2> QED BY <1>1, <1>2, <2>1, <2>2, PwmFieldsKeepLine, Zenon
<1>3. ASSUME NEW p, PwmLined(p) PROVE PwmLined(P!UpdateEnable(p))
  BY <1>3, PwmCountsKeepLine, Zenon DEF P!UpdateEnable
<1>4. ASSUME NEW p, PwmLined(p) PROVE PwmLined(P!Wrapped(p))
  <2> DEFINE t == P!CheckInterrupts([p EXCEPT !.raw = TRUE])
             u == P!UpdateDoubleBuffered(t)
             out == u.lcc > 0
             yes == TRUE
  <2>1. PwmLined(t)
    <3>1. {"line", "raw", "inte", "intf"} \subseteq DOMAIN [p EXCEPT !.raw = TRUE]
      BY <1>4, Zenon DEF PwmLined
    <3> QED BY <3>1, PwmCheckLines
  <2>2. P!Wrapped(p) = [u EXCEPT !.out = out, !.steady = yes]
    BY Zenon DEF P!Wrapped
  <2> HIDE DEF t
  <2>3. PwmLined(u)
    BY <1>2, <2>1
  <2> HIDE DEF u, out, yes
  <2>4. PwmLined([u EXCEPT !.out = out, !.steady = yes])
    BY <2>3, PwmPairsKeepLine, Zenon
  <2> QED BY <2>2, <2>4, Zenon
<1>5. ASSUME NEW p, PwmLined(p), NEW en PROVE PwmLined(P!EnWritten(p, en))
  BY <1>2, <1>3, <1>5, PwmFieldsKeepLine, Zenon DEF P!EnWritten
<1>6. ASSUME NEW p, PwmLined(p), NEW en PROVE PwmLined(P!Happened(p, en))
  BY <1>4, <1>6, PwmFieldsKeepLine, Zenon DEF P!Happened
<1>7. ASSUME NEW p, PwmLined(p), NEW en, NEW ph, NEW gated, NEW move PROVE PwmLined(P!CsrWritten(p, en, ph, gated, move))
  <2> DEFINE u == IF en /\ ~ p.en THEN P!UpdateDoubleBuffered(p) ELSE p
             v == [u EXCEPT !.en = en, !.ph = ph, !.gated = gated]
             w == IF en /\ ((move = 1 /\ p.slow) \/ move = -1) THEN P!Advanced(v, move) ELSE v
             x == P!UpdateEnable(w)
  <2>1. PwmLined(u)
    BY <1>2, <1>7, Zenon
  <2>2. P!CsrWritten(p, en, ph, gated, move) = IF ph = p.ph THEN x ELSE P!ApplyLatched([x EXCEPT !.steady = FALSE])
    BY Zenon DEF P!CsrWritten
  <2> HIDE DEF u
  <2>3. PwmLined(v)
    BY <2>1, PwmModesKeepLine, Zenon
  <2> HIDE DEF v
  <2>4. PwmLined(w)
    BY <2>3, PwmCountsKeepLine, Zenon
  <2> HIDE DEF w
  <2>5. PwmLined(x)
    BY <1>3, <2>4, Zenon
  <2> HIDE DEF x
  <2> QED BY <1>1, <2>2, <2>5, PwmFieldsKeepLine, Zenon
<1> QED BY <1>1, <1>2, <1>3, <1>4, <1>5, <1>6, <1>7, Zenon

LEMMA PwmResetLines ==
  ASSUME NEW p, PwmLined(p)
  PROVE  PwmLined(P!WasReset(p))
<1> DEFINE u == P!Run(P!DivWritten(P!CsrWritten(p, FALSE, FALSE, FALSE, 0), FALSE), FALSE)
<1>1. PwmLined(u)
  BY PwmCountsKeepLine, PwmMethodsKeepLine, Zenon
<1>2. P!WasReset(p) = [[u EXCEPT !.count = 0, !.cc = 0, !.cc_updated = TRUE, !.ctop = ResetTop, !.top_updated = TRUE]
                       EXCEPT !.raw = FALSE, !.inte = FALSE, !.intf = FALSE, !.line = FALSE, !.steady = FALSE]
  BY Zenon DEF P!WasReset
<1> QED BY <1>1, <1>2, Zenon DEF PwmLined, PwmLine

LEMMA PwmOnLined == PwmLined(P!PowerOn)
<1>1. /\ P!PowerOn.line = FALSE /\ P!PowerOn.raw = FALSE /\ P!PowerOn.intf = FALSE
      /\ {"line", "raw", "inte", "intf"} \subseteq DOMAIN P!PowerOn
  BY DEF P!PowerOn
<1>2. PwmLine(P!PowerOn) = FALSE
  BY <1>1, Zenon DEF PwmLine
<1> QED BY <1>1, <1>2, Zenon DEF PwmLined

LEMMA PwmStepLined ==
  ASSUME PwmLined(state), P!Next
  PROVE  PwmLined(state')
<1>1. CASE P!Tick
  BY <1>1, PwmPairsKeepLine, Zenon DEF P!Tick
<1>2. CASE P!EventComes
  BY <1>2, PwmCountsKeepLine, PwmMethodsKeepLine, Zenon DEF P!EventComes
<1>3. CASE P!WriteCsr \/ P!WriteEn
  BY <1>3, PwmMethodsKeepLine, Zenon DEF P!WriteCsr, P!WriteEn
<1>4. CASE P!WriteDiv \/ P!WriteCtr
  BY <1>4, PwmCountsKeepLine, Zenon DEF P!WriteDiv, P!WriteCtr
<1>5. CASE P!WriteCc \/ P!WriteTop
  <2> DEFINE yes == TRUE
  <2>1. PICK n : state' = [state EXCEPT !.cc = n, !.cc_updated = yes] \/ state' = [state EXCEPT !.ctop = n, !.top_updated = yes]
    BY <1>5, Zenon DEF P!WriteCc, P!WriteTop
  <2> HIDE DEF yes
  <2>2. PwmLined([state EXCEPT !.cc = n, !.cc_updated = yes]) /\ PwmLined([state EXCEPT !.ctop = n, !.top_updated = yes])
    BY PwmPairsKeepLine, Zenon
  <2> QED BY <2>1, <2>2, Zenon
<1>6. CASE P!BChanges
  BY <1>6, PwmFieldsKeepLine, PwmMethodsKeepLine, Zenon DEF P!BChanges
<1>7. CASE P!WriteIntr \/ P!WriteInte \/ P!WriteIntf
  <2>1. ASSUME NEW v
        PROVE  /\ {"line", "raw", "inte", "intf"} \subseteq DOMAIN [state EXCEPT !.raw = v]
               /\ {"line", "raw", "inte", "intf"} \subseteq DOMAIN [state EXCEPT !.inte = v]
               /\ {"line", "raw", "inte", "intf"} \subseteq DOMAIN [state EXCEPT !.intf = v]
    BY Zenon DEF PwmLined
  <2> QED BY <1>7, <2>1, PwmCheckLines, Zenon DEF P!WriteIntr, P!WriteInte, P!WriteIntf
<1>8. CASE P!Reset
  BY <1>8, PwmResetLines, Zenon DEF P!Reset
<1> QED BY <1>1, <1>2, <1>3, <1>4, <1>5, <1>6, <1>7, <1>8 DEF P!Next
-----------------------------------------------------------------------------
(* The line of the I2C block. *)

I2cFields == {"line", "raw", "mask", "rx", "rx_threshold"}

\* The line is the masked status; the level in it may be about to be brought up to date.
I2cLine(b) == I2cFields \subseteq DOMAIN b /\ b.line = (b.raw \cap b.mask # {})
I2cFull(b) == b.rx > b.rx_threshold
I2cLined(b) == I2cLine(b) /\ (I!RX_FULL \in b.raw <=> I2cFull(b))

I2cSame(e, b) ==
  DOMAIN e = DOMAIN b /\ e.line = b.line /\ e.raw = b.raw /\ e.mask = b.mask /\ e.rx = b.rx /\ e.rx_threshold = b.rx_threshold

LEMMA I2cSameLine ==
  ASSUME NEW b, NEW e, I2cSame(e, b)
  PROVE  (I2cLine(b) => I2cLine(e)) /\ (I2cLined(b) => I2cLined(e))
  BY Zenon DEF I2cSame, I2cLine, I2cLined, I2cFull

LEMMA I2cCheckLines ==
  ASSUME NEW b, I2cFields \subseteq DOMAIN b
  PROVE  /\ I2cLine(I!CheckInterrupts(b))
         /\ I!CheckInterrupts(b).raw = b.raw /\ (I2cFull(I!CheckInterrupts(b)) <=> I2cFull(b))
<1> DEFINE line == b.raw \cap b.mask # {}
           e == [b EXCEPT !.line = line]
<1>1. I!CheckInterrupts(b) = e
  BY Zenon DEF I!CheckInterrupts
<1> HIDE DEF line
<1>2. /\ DOMAIN e = DOMAIN b /\ e.line = line /\ e.raw = b.raw /\ e.mask = b.mask /\ e.rx = b.rx
      /\ e.rx_threshold = b.rx_threshold
  BY Zenon DEF I2cFields
<1> HIDE DEF e
<1> QED BY <1>1, <1>2, Zenon DEF I2cLine, I2cFull, line

\* Setting and clearing interrupts.
LEMMA I2cRaises ==
  ASSUME NEW b, I2cLine(b), NEW s
  PROVE  LET e == I!SetInterrupts(b, s)
         IN  I2cLine(e) /\ (I2cFull(e) <=> I2cFull(b)) /\ (b.raw \cap s = {} => e.raw = b.raw \cup s)
             /\ (b.raw \cap s # {} => e.raw = b.raw)
<1> DEFINE u == [b EXCEPT !.raw = b.raw \cup s]
<1>1. I2cFields \subseteq DOMAIN u /\ u.raw = b.raw \cup s /\ (I2cFull(u) <=> I2cFull(b))
  BY Zenon DEF I2cLine, I2cFields, I2cFull
<1>2. I!SetInterrupts(b, s) = IF b.raw \cap s = {} THEN I!CheckInterrupts(u) ELSE b
  BY Zenon DEF I!SetInterrupts
<1> HIDE DEF u
<1> QED BY <1>1, <1>2, I2cCheckLines, Zenon

LEMMA I2cLowers ==
  ASSUME NEW b, I2cLine(b), NEW s
  PROVE  LET e == I!ClearInterrupts(b, s)
         IN  I2cLine(e) /\ (I2cFull(e) <=> I2cFull(b)) /\ (b.raw \cap s # {} => e.raw = b.raw \ s)
             /\ (b.raw \cap s = {} => e.raw = b.raw)
<1> DEFINE u == [b EXCEPT !.raw = b.raw \ s]
<1>1. I2cFields \subseteq DOMAIN u /\ u.raw = b.raw \ s /\ (I2cFull(u) <=> I2cFull(b))
  BY Zenon DEF I2cLine, I2cFields, I2cFull
<1>2. I!ClearInterrupts(b, s) = IF b.raw \cap s # {} THEN I!CheckInterrupts(u) ELSE b
  BY Zenon DEF I!ClearInterrupts
<1> HIDE DEF u
<1> QED BY <1>1, <1>2, I2cCheckLines, Zenon

\* _update_rx_full(): the level is up to date, whatever it was.
LEMMA I2cUpdates ==
  ASSUME NEW b, I2cLine(b)
  PROVE  I2cLined(I!UpdateRxFull(b))
<1>1. CASE I2cFull(b)
  <2> DEFINE e == I!SetInterrupts(b, {I!RX_FULL})
  <2>1. I!UpdateRxFull(b) = e
    BY <1>1, Zenon DEF I!UpdateRxFull, I2cFull
  <2>2. /\ I2cLine(e) /\ (I2cFull(e) <=> I2cFull(b)) /\ (b.raw \cap {I!RX_FULL} = {} => e.raw = b.raw \cup {I!RX_FULL})
        /\ (b.raw \cap {I!RX_FULL} # {} => e.raw = b.raw)
    BY I2cRaises
  <2> HIDE DEF e
  <2>3. I!RX_FULL \in e.raw
    BY <2>2
  <2> QED BY <1>1, <2>1, <2>2, <2>3, Zenon DEF I2cLined
<1>2. CASE ~ I2cFull(b)
  <2> DEFINE e == I!ClearInterrupts(b, {I!RX_FULL})
  <2>1. I!UpdateRxFull(b) = e
    BY <1>2, Zenon DEF I!UpdateRxFull, I2cFull
  <2>2. /\ I2cLine(e) /\ (I2cFull(e) <=> I2cFull(b)) /\ (b.raw \cap {I!RX_FULL} # {} => e.raw = b.raw \ {I!RX_FULL})
        /\ (b.raw \cap {I!RX_FULL} = {} => e.raw = b.raw)
    BY I2cLowers
  <2> HIDE DEF e
  <2>3. I!RX_FULL \notin e.raw
    BY <2>2
  <2> QED BY <1>2, <2>1, <2>2, <2>3, Zenon DEF I2cLined
<1> QED BY <1>1, <1>2

LEMMA I2cEventsKeepLine ==
  ASSUME NEW b, I2cLined(b), NEW i \in {I!TX_EMPTY, I!TX_ABRT}
  PROVE  I2cLined(I!SetInterrupts(b, {i})) /\ I2cLined(I!ClearInterrupts(b, {i}))
<1>1. i # I!RX_FULL
  BY DEF I!TX_EMPTY, I!TX_ABRT, I!RX_FULL
<1> DEFINE e == I!SetInterrupts(b, {i})
           f == I!ClearInterrupts(b, {i})
<1>2. I2cLine(e) /\ (I2cFull(e) <=> I2cFull(b)) /\ (e.raw = b.raw \cup {i} \/ e.raw = b.raw)
  BY I2cRaises, Zenon DEF I2cLined
<1>3. I2cLine(f) /\ (I2cFull(f) <=> I2cFull(b)) /\ (f.raw = b.raw \ {i} \/ f.raw = b.raw)
  BY I2cLowers, Zenon DEF I2cLined
<1> HIDE DEF e, f
<1>4. I2cLined(e)
  BY <1>1, <1>2, Zenon DEF I2cLined
<1>5. I2cLined(f)
  BY <1>1, <1>3, Zenon DEF I2cLined
<1> QED BY <1>4, <1>5 DEF e, f

\* A change of the fields that the line does not show, and one of the FIFOs.
LEMMA I2cFieldsKeepLine ==
  ASSUME NEW b, I2cLined(b), NEW v
  PROVE  /\ I2cLined([b EXCEPT !.asked = v]) /\ I2cLined([b EXCEPT !.busy = v]) /\ I2cLined([b EXCEPT !.state = v])
         /\ I2cLined([b EXCEPT !.tx = v]) /\ I2cLined([b EXCEPT !.tx_threshold = v])
  BY Zenon DEF I2cLine, I2cLined, I2cFull, I2cFields

LEMMA I2cPairsKeepLine ==
  ASSUME NEW b, I2cLined(b), NEW v, NEW w
  PROVE  /\ I2cLined([b EXCEPT !.state = v, !.busy = w]) /\ I2cLined([b EXCEPT !.abort_pending = v, !.stop = w])
         /\ I2cLined([b EXCEPT !.busy = v, !.state = w]) /\ I2cLined([b EXCEPT !.abort_pending = v, !.aborting = w])
  BY Zenon DEF I2cLine, I2cLined, I2cFull, I2cFields

LEMMA I2cTriplesKeepLine ==
  ASSUME NEW b, I2cLined(b), NEW v, NEW w, NEW x
  PROVE  /\ I2cLined([b EXCEPT !.pending_restart = v, !.tx = w, !.stop = x])
         /\ I2cLined([b EXCEPT !.pending_restart = v, !.stop = w, !.state = x])
         /\ I2cLined([b EXCEPT !.state = v, !.busy = w, !.pending_restart = x])
         /\ I2cLined([b EXCEPT !.enabled = v, !.blocked = w, !.aborting = x])
  BY Zenon DEF I2cLine, I2cLined, I2cFull, I2cFields

LEMMA I2cFifosKeepLine ==
  ASSUME NEW b, I2cLined(b), NEW v, NEW w
  PROVE  I2cLine([b EXCEPT !.tx = v, !.rx = w]) /\ I2cLine([b EXCEPT !.rx = w]) /\ I2cLine([b EXCEPT !.rx_threshold = w])
  BY Zenon DEF I2cLine, I2cLined, I2cFields

LEMMA I2cMethodsKeepLine ==
  ASSUME NEW b, I2cLined(b)
  PROVE  /\ \A r : I2cLined(I!Asks(b, r))
         /\ I2cLined(I!Abort(b)) /\ I2cLined(I!NextCommand(b)) /\ I2cLined(I!RequestAbort(b)) /\ I2cLined(I!PushRx(b))
<1>1. \A c, r : I2cLined(c) => I2cLined(I!Asks(c, r))
  BY I2cFieldsKeepLine, Zenon DEF I!Asks
<1>2. I2cLined(I!Abort(b))
  BY I2cFifosKeepLine, I2cUpdates, I2cEventsKeepLine, Zenon DEF I!Abort
<1>3. I2cLined(I!NextCommand(b))
  <2> DEFINE cmd == Head(b.tx)
             restart == cmd.restart /\ ~ b.pending_restart /\ ~ b.stop
             t == [b EXCEPT !.busy = TRUE]
             u == [t EXCEPT !.pending_restart = FALSE, !.tx = Tail(t.tx), !.stop = cmd.stop]
             v == I!Asks(u, IF cmd.read THEN "read" ELSE "write")
             s == I!Asks([t EXCEPT !.pending_restart = restart, !.stop = FALSE, !.state = "START"], "start")
  <2>1. I!NextCommand(b) \in {b, s, I!SetInterrupts(v, {I!TX_EMPTY}), v}
    BY DEF I!NextCommand
  <2>2. I2cLined(t)
    BY I2cFieldsKeepLine, Zenon
  <2> HIDE DEF t, restart, cmd
  <2>3. I2cLined(u) /\ I2cLined(s)
    BY <1>1, <2>2, I2cTriplesKeepLine, Zenon
  <2> HIDE DEF u, s
  <2>4. I2cLined(v)
    BY <1>1, <2>3, Zenon
  <2> HIDE DEF v
  <2> QED BY <2>1, <2>3, <2>4, I2cEventsKeepLine, Zenon
<1>4. I2cLined(I!RequestAbort(b))
  <2> DEFINE t == [b EXCEPT !.abort_pending = TRUE, !.stop = TRUE]
  <2>1. I2cLined(t)
    BY I2cPairsKeepLine, Zenon
  <2>2. I!RequestAbort(b) = IF t.busy THEN t ELSE I!Asks([t EXCEPT !.busy = TRUE, !.state = "STOP"], "stop")
    BY Zenon DEF I!RequestAbort
  <2> HIDE DEF t
  <2> DEFINE yes == TRUE
             s == [t EXCEPT !.busy = yes, !.state = "STOP"]
  <2> HIDE DEF yes
  <2>3. I2cLined(s)
    BY <2>1, I2cPairsKeepLine, Zenon
  <2>4. I!RequestAbort(b) = IF t.busy THEN t ELSE I!Asks(s, "stop")
    BY <2>2 DEF yes
  <2> HIDE DEF s
  <2> QED BY <1>1, <2>1, <2>3, <2>4, Zenon
<1>5. I2cLined(I!PushRx(b))
  <2>1. I!PushRx(b) = IF b.rx = I2cDepth THEN b ELSE I!UpdateRxFull([b EXCEPT !.rx = b.rx + 1])
    BY Zenon DEF I!PushRx
  <2> QED BY <2>1, I2cFifosKeepLine, I2cUpdates, Zenon
<1> QED BY <1>1, <1>2, <1>3, <1>4, <1>5, Zenon

\* What the bus brings.
LEMMA I2cCompletionsKeepLine ==
  ASSUME NEW b, I2cLined(b)
  PROVE  /\ I2cLined(I!CompleteStart(b)) /\ I2cLined(I!CompleteRead(b)) /\ I2cLined(I!CompleteStop(b))
         /\ \A ack : I2cLined(I!Leaves(b, ack)) /\ I2cLined(I!CompleteConnect(b, ack)) /\ I2cLined(I!CompleteWrite(b, ack))
<1>1. I2cLined(I!CompleteStart(b))
  BY I2cFieldsKeepLine, I2cMethodsKeepLine, Zenon DEF I!CompleteStart
<1>2. ASSUME NEW c, I2cLined(c), NEW ack PROVE I2cLined(I!Leaves(c, ack))
  <2> DEFINE d == IF ack THEN c ELSE I!Abort(c)
  <2>1. I2cLined(d)
    BY <1>2, I2cMethodsKeepLine, Zenon
  <2>2. I!Leaves(c, ack) = I!Asks([d EXCEPT !.state = "STOP"], "stop")
    BY Zenon DEF I!Leaves
  <2> HIDE DEF d
  <2>3. I2cLined([d EXCEPT !.state = "STOP"])
    BY <2>1, I2cFieldsKeepLine, Zenon
  <2> QED BY <2>2, <2>3, I2cMethodsKeepLine, Zenon
<1>3. ASSUME NEW ack PROVE I2cLined(I!CompleteConnect(b, ack)) /\ I2cLined(I!CompleteWrite(b, ack))
  BY <1>2, I2cFieldsKeepLine, I2cMethodsKeepLine, Zenon DEF I!CompleteConnect, I!CompleteWrite
<1>4. I2cLined(I!CompleteRead(b))
  <2> DEFINE t == I!PushRx(b)
  <2>1. I2cLined(t)
    BY I2cMethodsKeepLine
  <2>2. I!CompleteRead(b) = IF t.stop THEN I!Leaves(t, TRUE) ELSE I!NextCommand([t EXCEPT !.busy = FALSE])
    BY Zenon DEF I!CompleteRead
  <2> HIDE DEF t
  <2> QED BY <1>2, <2>1, <2>2, I2cFieldsKeepLine, I2cMethodsKeepLine, Zenon
<1>5. I2cLined(I!CompleteStop(b))
  <2> DEFINE t == [b EXCEPT !.state = "IDLE", !.busy = FALSE, !.pending_restart = FALSE]
  <2>1. I2cLined(t)
    BY I2cTriplesKeepLine, Zenon
  <2>2. I!CompleteStop(b) = IF t.abort_pending THEN I!Abort([t EXCEPT !.abort_pending = FALSE, !.aborting = FALSE])
                            ELSE I!NextCommand(t)
    BY Zenon DEF I!CompleteStop
  <2> HIDE DEF t
  <2> DEFINE no == FALSE
             s == [t EXCEPT !.abort_pending = no, !.aborting = no]
  <2> HIDE DEF no
  <2>3. I2cLined(s)
    BY <2>1, I2cPairsKeepLine, Zenon
  <2>4. I!CompleteStop(b) = IF t.abort_pending THEN I!Abort(s) ELSE I!NextCommand(t)
    BY <2>2 DEF no
  <2> HIDE DEF s
  <2> QED BY <2>1, <2>3, <2>4, I2cMethodsKeepLine, Zenon
<1> QED BY <1>1, <1>2, <1>3, <1>4, <1>5, Zenon

\* The accesses.
LEMMA I2cAccessesKeepLine ==
  ASSUME NEW b, I2cLined(b)
  PROVE  /\ \A enable, block, abort : I2cLined(I!EnableWritten(b, enable, block, abort))
         /\ \A cmd : I2cLined(I!DataWritten(b, cmd))
         /\ I2cLined(I!DataRead(b))
<1>1. ASSUME NEW enable, NEW block, NEW abort PROVE I2cLined(I!EnableWritten(b, enable, block, abort))
  <2> DEFINE accepted == abort /\ ~ b.aborting /\ b.enabled /\ b.state # "IDLE"
             flushed == IF enable THEN b ELSE I!UpdateRxFull([b EXCEPT !.tx = << >>, !.rx = 0])
             t == [flushed EXCEPT !.enabled = enable, !.blocked = block, !.aborting = flushed.aborting \/ accepted]
  <2>1. I2cLined(flushed)
    BY I2cFifosKeepLine, I2cUpdates, Zenon
  <2>2. I!EnableWritten(b, enable, block, abort) = I!NextCommand(IF accepted THEN I!RequestAbort(t) ELSE t)
    BY Zenon DEF I!EnableWritten
  <2> HIDE DEF flushed, accepted
  <2>3. I2cLined(t)
    BY <2>1, I2cTriplesKeepLine, Zenon
  <2> HIDE DEF t
  <2> QED BY <2>2, <2>3, I2cMethodsKeepLine, Zenon
<1>2. ASSUME NEW cmd PROVE I2cLined(I!DataWritten(b, cmd))
  <2> DEFINE t == [b EXCEPT !.tx = Append(b.tx, cmd)]
  <2>1. I2cLined(t)
    BY I2cFieldsKeepLine, Zenon
  <2>2. I!DataWritten(b, cmd) \in {b, I!NextCommand(I!ClearInterrupts(t, {I!TX_EMPTY})), I!NextCommand(t)}
    BY DEF I!DataWritten
  <2> HIDE DEF t
  <2> QED BY <2>1, <2>2, I2cEventsKeepLine, I2cMethodsKeepLine, Zenon
<1>3. I2cLined(I!DataRead(b))
  <2>1. I!DataRead(b) = IF b.rx = 0 THEN b ELSE I!UpdateRxFull([b EXCEPT !.rx = b.rx - 1])
    BY Zenon DEF I!DataRead
  <2> QED BY <2>1, I2cFifosKeepLine, I2cUpdates, Zenon
<1> QED BY <1>1, <1>2, <1>3, Zenon

LEMMA I2cOnLined == I2cLined(I!PowerOn)
<1>1. /\ I2cFields \subseteq DOMAIN I!PowerOn /\ I!PowerOn.raw = {} /\ I!PowerOn.line = FALSE
      /\ I!PowerOn.rx = 0 /\ I!PowerOn.rx_threshold = 0
  BY DEF I!PowerOn, I2cFields
<1>2. ~ I2cFull(I!PowerOn)
  BY <1>1, SMT DEF I2cFull
<1> QED BY <1>1, <1>2, Zenon DEF I2cLined, I2cLine

LEMMA I2cStepLined ==
  ASSUME I2cLined(state), I!Next
  PROVE  I2cLined(state')
<1>1. I2cLined(I!Answered)
  BY I2cFieldsKeepLine, Zenon DEF I!Answered
<1>2. CASE I!Started \/ I!Connected \/ I!Written \/ I!Received \/ I!Stopped
  BY <1>1, <1>2, I2cCompletionsKeepLine, Zenon DEF I!Started, I!Connected, I!Written, I!Received, I!Stopped
<1>3. CASE I!ArbitrationLost
  BY <1>1, <1>3, I2cPairsKeepLine, I2cMethodsKeepLine, Zenon DEF I!ArbitrationLost
<1>4. CASE I!WriteData \/ I!ReadData \/ I!WriteEnable
  BY <1>4, I2cAccessesKeepLine, Zenon DEF I!WriteData, I!ReadData, I!WriteEnable
<1>5. CASE I!WriteRxTl \/ I!WriteTxTl
  <2>1. PICK n : state' = I!UpdateRxFull([state EXCEPT !.rx_threshold = n]) \/ state' = [state EXCEPT !.tx_threshold = n]
    BY <1>5, Zenon DEF I!WriteRxTl, I!WriteTxTl
  <2>2. I2cLine([state EXCEPT !.rx_threshold = n]) /\ I2cLined([state EXCEPT !.tx_threshold = n])
    BY I2cFieldsKeepLine, I2cFifosKeepLine, Zenon
  <2> QED BY <2>1, <2>2, I2cUpdates, Zenon
<1>6. CASE I!WriteIntrMask
  <2>1. PICK m : state' = I!CheckInterrupts([state EXCEPT !.mask = m])
    BY <1>6, Zenon DEF I!WriteIntrMask
  <2> DEFINE t == [state EXCEPT !.mask = m]
  <2>2. I2cFields \subseteq DOMAIN t /\ t.raw = state.raw /\ t.rx = state.rx /\ t.rx_threshold = state.rx_threshold
    BY Zenon DEF I2cLined, I2cLine, I2cFields
  <2> HIDE DEF t
  <2>3. I!RX_FULL \in t.raw <=> I2cFull(t)
    BY <2>2, Zenon DEF I2cLined, I2cFull
  <2> QED BY <2>1, <2>2, <2>3, I2cCheckLines, Zenon DEF I2cLined, t
<1>7. CASE I!ReadClrTxAbrt
  BY <1>7, I2cEventsKeepLine, Zenon DEF I!ReadClrTxAbrt
<1>8. CASE I!Reset
  <2> DEFINE u == [state EXCEPT !.state = "IDLE", !.busy = FALSE, !.stop = FALSE, !.pending_restart = FALSE,
                                !.abort_pending = FALSE, !.tx = << >>, !.rx = 0, !.enabled = FALSE]
             v == [u EXCEPT !.blocked = FALSE, !.aborting = FALSE, !.rx_threshold = 0, !.tx_threshold = 0]
             e == [v EXCEPT !.raw = {}, !.mask = I!I2cInterrupts, !.line = FALSE]
  <2>1. state' = e
    BY <1>8, Zenon DEF I!Reset, I!WasReset
  <2>2. I2cFields \subseteq DOMAIN u /\ u.rx = 0
    BY Zenon DEF I2cLined, I2cLine, I2cFields
  <2> HIDE DEF u
  <2>3. I2cFields \subseteq DOMAIN v /\ v.rx = 0 /\ v.rx_threshold = 0
    BY <2>2, Zenon DEF I2cFields
  <2> HIDE DEF v
  <2>4. I2cFields \subseteq DOMAIN e /\ e.raw = {} /\ e.line = FALSE /\ e.rx = 0 /\ e.rx_threshold = 0
    BY <2>3, Zenon DEF I2cFields
  <2> HIDE DEF e
  <2>5. ~ I2cFull(e)
    BY <2>4, SMT DEF I2cFull
  <2> QED BY <2>1, <2>4, <2>5, Zenon DEF I2cLined, I2cLine
<1> QED BY <1>2, <1>3, <1>4, <1>5, <1>6, <1>7, <1>8 DEF I!Next
-----------------------------------------------------------------------------
(* The line of the RTC. *)

RtcLine(r) == (C!RawInterrupt(r) /\ r.inte) \/ r.intf
RtcLineFields == {"line", "inte", "intf", "match_ena", "irq_setup0", "irq_setup1", "date", "time"}
RtcLined(r) ==
  /\ RtcLineFields \subseteq DOMAIN r
  /\ r.line = RtcLine(r)

LEMMA RtcKeepsLine ==
  ASSUME NEW r, RtcLined(r), NEW e, DOMAIN e = DOMAIN r, e.line = r.line, e.inte = r.inte, e.intf = r.intf,
         e.match_ena = r.match_ena, e.irq_setup0 = r.irq_setup0, e.irq_setup1 = r.irq_setup1, e.date = r.date, e.time = r.time
  PROVE  RtcLined(e)
<1>1. C!RawInterrupt(e) = C!RawInterrupt(r)
  BY Zenon DEF C!RawInterrupt
<1>2. RtcLine(e) = RtcLine(r)
  BY <1>1, Zenon DEF RtcLine
<1> QED BY <1>2, Zenon DEF RtcLined

LEMMA RtcCheckLines ==
  ASSUME NEW r, RtcLineFields \subseteq DOMAIN r
  PROVE  RtcLined(C!CheckInterrupts(r))
<1> DEFINE line == (C!RawInterrupt(r) /\ r.inte) \/ r.intf
           e == [r EXCEPT !.line = line]
<1>1. C!CheckInterrupts(r) = e
  BY Zenon DEF C!CheckInterrupts
<1>2. line = RtcLine(r)
  BY Zenon DEF RtcLine
<1> HIDE DEF line
<1>3. /\ DOMAIN e = DOMAIN r /\ e.line = line /\ e.inte = r.inte /\ e.intf = r.intf
      /\ e.match_ena = r.match_ena /\ e.irq_setup0 = r.irq_setup0 /\ e.irq_setup1 = r.irq_setup1
      /\ e.date = r.date /\ e.time = r.time
  BY Zenon DEF RtcLineFields
<1> HIDE DEF e
<1>4. C!RawInterrupt(e) = C!RawInterrupt(r)
  BY <1>3, Zenon DEF C!RawInterrupt
<1>5. RtcLine(e) = RtcLine(r)
  BY <1>3, <1>4, Zenon DEF RtcLine
<1> QED BY <1>1, <1>2, <1>3, <1>5, Zenon DEF RtcLined

\* A change of a field that the line does not show.
LEMMA RtcFieldsKeepLine ==
  ASSUME NEW r, RtcLined(r)
  PROVE  /\ \A v : /\ RtcLined([r EXCEPT !.set = v]) /\ RtcLined([r EXCEPT !.period = v]) /\ RtcLined([r EXCEPT !.clkdiv_m1 = v])
                   /\ RtcLined([r EXCEPT !.setup0 = v]) /\ RtcLined([r EXCEPT !.setup1 = v])
<1>1. ASSUME NEW f, f \notin RtcLineFields, NEW v PROVE RtcLined([r EXCEPT ![f] = v])
  <2> DEFINE e == [r EXCEPT ![f] = v]
  <2>1. /\ DOMAIN e = DOMAIN r /\ e.line = r.line /\ e.inte = r.inte /\ e.intf = r.intf
        /\ e.match_ena = r.match_ena /\ e.irq_setup0 = r.irq_setup0 /\ e.irq_setup1 = r.irq_setup1
        /\ e.date = r.date /\ e.time = r.time
    BY <1>1, Zenon DEF RtcLined, RtcLineFields
  <2> QED BY <2>1, RtcKeepsLine, Zenon
<1>3. {"set", "period", "clkdiv_m1", "setup0", "setup1"} \cap RtcLineFields = {}
  BY DEF RtcLineFields
<1>4. \A v : /\ RtcLined([r EXCEPT !.set = v]) /\ RtcLined([r EXCEPT !.period = v]) /\ RtcLined([r EXCEPT !.clkdiv_m1 = v])
             /\ RtcLined([r EXCEPT !.setup0 = v]) /\ RtcLined([r EXCEPT !.setup1 = v])
  BY <1>1, <1>3, Zenon
<1> QED BY <1>4

LEMMA RtcPairsKeepLine ==
  ASSUME NEW r, RtcLined(r), NEW v, NEW w
  PROVE  /\ RtcLined([r EXCEPT !.left = v, !.age = w]) /\ RtcLined([r EXCEPT !.set = v, !.passed = w])
         /\ RtcLined([r EXCEPT !.enable = v, !.force_not_leap_year = w])
<1>1. ASSUME NEW f, NEW g, f \notin RtcLineFields, g \notin RtcLineFields, f # g
      PROVE  RtcLined([r EXCEPT ![f] = v, ![g] = w])
  <2> DEFINE e == [r EXCEPT ![f] = v, ![g] = w]
  <2>1. /\ DOMAIN e = DOMAIN r /\ e.line = r.line /\ e.inte = r.inte /\ e.intf = r.intf
        /\ e.match_ena = r.match_ena /\ e.irq_setup0 = r.irq_setup0 /\ e.irq_setup1 = r.irq_setup1
        /\ e.date = r.date /\ e.time = r.time
    BY <1>1, Zenon DEF RtcLined, RtcLineFields
  <2> QED BY <2>1, RtcKeepsLine, Zenon
<1>2. {"left", "age", "set", "passed", "enable", "force_not_leap_year"} \cap RtcLineFields = {}
  BY DEF RtcLineFields
<1> QED BY <1>1, <1>2, Zenon

LEMMA RetimeKeepsFields ==
  ASSUME NEW r, RtcLineFields \subseteq DOMAIN r, NEW restart
  PROVE  RtcLineFields \subseteq DOMAIN C!Retime(r, restart)
<1>1. C!Retime(r, restart) \in {[r EXCEPT !.left = -1, !.age = 0], [r EXCEPT !.left = C!SecondTicks(r), !.age = 0], r}
  BY Zenon DEF C!Retime
<1> QED BY <1>1, Zenon

LEMMA RetimeKeepsLine ==
  ASSUME NEW r, RtcLined(r), NEW restart
  PROVE  RtcLined(C!Retime(r, restart))
<1>1. C!Retime(r, restart) \in {[r EXCEPT !.left = -1, !.age = 0], [r EXCEPT !.left = C!SecondTicks(r), !.age = 0], r}
  BY Zenon DEF C!Retime
<1> DEFINE none == -1
           zero == 0
<1>2. C!Retime(r, restart) \in {[r EXCEPT !.left = none, !.age = zero], [r EXCEPT !.left = C!SecondTicks(r), !.age = zero], r}
  BY <1>1
<1> HIDE DEF none, zero
<1>3. RtcLined([r EXCEPT !.left = none, !.age = zero]) /\ RtcLined([r EXCEPT !.left = C!SecondTicks(r), !.age = zero])
  BY RtcPairsKeepLine, Zenon
<1> QED BY <1>2, <1>3, Zenon

LEMMA RtcStepLined ==
  ASSUME RtcLined(state), C!Next
  PROVE  RtcLined(state')
<1> DEFINE o == C!Other(state)
<1>1. RtcLined(o)
  BY RtcFieldsKeepLine, Zenon DEF C!Other
<1>2. RtcLineFields \subseteq DOMAIN state /\ RtcLineFields \subseteq DOMAIN o
  BY <1>1, Zenon DEF RtcLined
<1>3. CASE C!Tick
  <2>1. state' = [o EXCEPT !.left = o.left - 1, !.age = o.age + 1]
    BY <1>3, Zenon DEF C!Tick
  <2> HIDE DEF o
  <2> QED BY <1>1, <2>1, RtcPairsKeepLine, Zenon
<1>4. CASE C!OnSecond
  <2> DEFINE a == C!AdvanceSecond(o)
             t == [a EXCEPT !.left = -1, !.passed = a.passed + 1]
  <2>1. state' = C!CheckInterrupts(C!Retime(t, TRUE))
    BY <1>4, Zenon DEF C!OnSecond
  <2> HIDE DEF o
  <2>2. RtcLineFields \subseteq DOMAIN a
    BY <1>2, Zenon DEF C!AdvanceSecond
  <2> HIDE DEF a
  <2>3. RtcLineFields \subseteq DOMAIN t
    BY <2>2, Zenon
  <2> QED BY <2>1, <2>3, RetimeKeepsFields, RtcCheckLines
<1>5. CASE C!ClkRtcChanged \/ C!WriteDivider
  <2>1. PICK v : state' = C!Retime([o EXCEPT !.period = v], TRUE) \/ state' = C!Retime([o EXCEPT !.clkdiv_m1 = v], TRUE)
    BY <1>5, Zenon DEF C!ClkRtcChanged, C!WriteDivider
  <2> HIDE DEF o
  <2>2. RtcLined([o EXCEPT !.period = v]) /\ RtcLined([o EXCEPT !.clkdiv_m1 = v])
    BY <1>1, RtcFieldsKeepLine, Zenon
  <2> QED BY <2>1, <2>2, RetimeKeepsLine, Zenon
<1>6. CASE C!WriteSetup0 \/ C!WriteSetup1
  <2>1. PICK v : state' = [o EXCEPT !.setup0 = v] \/ state' = [o EXCEPT !.setup1 = v]
    BY <1>6, Zenon DEF C!WriteSetup0, C!WriteSetup1
  <2> HIDE DEF o
  <2>2. RtcLined([o EXCEPT !.setup0 = v]) /\ RtcLined([o EXCEPT !.setup1 = v])
    BY <1>1, RtcFieldsKeepLine, Zenon
  <2> QED BY <2>1, <2>2, Zenon
<1>7. CASE C!WriteCtrl
  <2>1. PICK enable, force, load \in BOOLEAN :
          state' = [C!CtrlWritten(state, enable, force, load) EXCEPT !.set = load, !.passed = IF load THEN 0 ELSE @]
    BY <1>7, Zenon DEF C!WriteCtrl
  <2> DEFINE e == [state EXCEPT !.enable = enable, !.force_not_leap_year = force]
             c == C!CtrlWritten(state, enable, force, load)
  <2>2. RtcLined(e)
    BY RtcPairsKeepLine, Zenon
  <2>3. c = IF load THEN C!CheckInterrupts(C!Retime(C!Load(e), TRUE)) ELSE C!Retime(e, FALSE)
    BY Zenon DEF C!CtrlWritten
  <2>4. PICK passed : state' = [c EXCEPT !.set = load, !.passed = passed]
    BY <2>1, Zenon
  <2> HIDE DEF e, c
  <2>5. RtcLineFields \subseteq DOMAIN C!Load(e)
    BY <2>2, Zenon DEF RtcLined, C!Load
  <2>6. RtcLined(c)
    BY <2>2, <2>3, <2>5, RetimeKeepsFields, RetimeKeepsLine, RtcCheckLines, Zenon
  <2> QED BY <2>4, <2>6, RtcPairsKeepLine, Zenon
<1>8. CASE C!WriteIrqSetup0 \/ C!WriteIrqSetup1 \/ C!WriteInte \/ C!WriteIntf
  <2>1. PICK v, w : \/ state' = C!CheckInterrupts([o EXCEPT !.match_ena = v, !.irq_setup0 = w])
                    \/ state' = C!CheckInterrupts([o EXCEPT !.irq_setup1 = w])
                    \/ state' = C!CheckInterrupts([o EXCEPT !.inte = w])
                    \/ state' = C!CheckInterrupts([o EXCEPT !.intf = w])
    BY <1>8, Zenon DEF C!WriteIrqSetup0, C!WriteIrqSetup1, C!WriteInte, C!WriteIntf
  <2> HIDE DEF o
  <2>2. /\ RtcLineFields \subseteq DOMAIN [o EXCEPT !.match_ena = v, !.irq_setup0 = w]
        /\ RtcLineFields \subseteq DOMAIN [o EXCEPT !.irq_setup1 = w]
        /\ RtcLineFields \subseteq DOMAIN [o EXCEPT !.inte = w]
        /\ RtcLineFields \subseteq DOMAIN [o EXCEPT !.intf = w]
    BY <1>2, Zenon
  <2> QED BY <2>1, <2>2, RtcCheckLines, Zenon
<1>9. CASE C!Reset
  <2> DEFINE f == C!ResetFields(state)
             c == C!CheckInterrupts(C!Retime(f, TRUE))
  <2>1. RtcLineFields \subseteq DOMAIN f
    BY <1>2, Zenon DEF C!ResetFields
  <2>2. state' = [c EXCEPT !.set = TRUE, !.passed = 0]
    BY <1>9, Zenon DEF C!Reset
  <2> HIDE DEF f
  <2>3. RtcLined(c)
    BY <2>1, RetimeKeepsFields, RtcCheckLines
  <2> HIDE DEF c
  <2> DEFINE yes == TRUE
             zero == 0
  <2>4. state' = [c EXCEPT !.set = yes, !.passed = zero]
    BY <2>2
  <2> HIDE DEF yes, zero
  <2> QED BY <2>3, <2>4, RtcPairsKeepLine, Zenon
<1> QED BY <1>3, <1>4, <1>5, <1>6, <1>7, <1>8, <1>9 DEF C!Next

LEMMA RtcBeginsLined == C!Init => RtcLined(state)
<1> SUFFICES ASSUME C!Init PROVE RtcLined(state)
  OBVIOUS
<1>1. RtcLineFields \subseteq DOMAIN state /\ state.line = FALSE /\ state.match_ena = FALSE /\ state.intf = FALSE
  BY DEF C!Init, RtcLineFields
<1>2. RtcLine(state) = FALSE
  BY <1>1, Zenon DEF RtcLine, C!RawInterrupt
<1> QED BY <1>1, <1>2, Zenon DEF RtcLined
-----------------------------------------------------------------------------
(* The line of a PIO block. *)

\* What the line shows, by the requests that have been told: they are the masked status but for the flag.
PioAsks(p) == p.up \cap p.inte # {} \/ (p.flag = TRUE /\ <<"IRQ", 0>> \in p.inte)
PioShows(p) == (PioAsks(p) => p.line = TRUE) /\ (p.line = TRUE => PioAsks(p) \/ <<"IRQ", 0>> \in p.inte)
PioLined == {p \in TellsNow : PioShows(p)}

\* The fields that the line depends on, and a flag that may have been taken away.
PioSame(e, p) == e.up = p.up /\ e.inte = p.inte /\ e.line = p.line /\ (e.flag = p.flag \/ e.flag = FALSE)

LEMMA PioSameLine ==
  ASSUME NEW p \in PioLined, NEW e \in TellsNow, PioSame(e, p)
  PROVE  e \in PioLined
<1>1. PioShows(p) /\ e.up = p.up /\ e.inte = p.inte /\ e.line = p.line /\ (e.flag = p.flag \/ e.flag = FALSE)
  BY Zenon DEF PioLined, PioSame
<1>2. PioShows(e)
  BY <1>1 DEF PioShows, PioAsks
<1> QED BY <1>2 DEF PioLined

LEMMA PioSameChain == ASSUME NEW a, NEW b, NEW c, PioSame(a, b), PioSame(b, c) PROVE PioSame(a, c)
  BY Zenon DEF PioSame

\* Everything is there, and the requests that have been told are what the FIFOs ask for.
LEMMA PioTyped ==
  ASSUME NEW p \in TellsNow
  PROVE  /\ p \in PioState /\ p.up = O!Requested(p) /\ p.flag \in BOOLEAN /\ p.line \in BOOLEAN
         /\ DOMAIN p = {"sm", "flag", "pin", "next", "inte", "line", "up"}
<1>1. p \in PioState
  BY DEF TellsNow, TellsBut
<1> QED BY <1>1, TellsMeans DEF PioState

LEMMA PioCheckLines ==
  ASSUME NEW p \in TellsNow
  PROVE  O!CheckInterrupts(p) \in PioLined
<1> DEFINE line == O!Raw(p) \cap p.inte # {}
           e == [p EXCEPT !.line = line]
<1>1. O!CheckInterrupts(p) = e
  BY Zenon DEF O!CheckInterrupts
<1>2. p.up = O!Requested(p) /\ p.flag \in BOOLEAN /\ line \in BOOLEAN
  BY PioTyped
<1>3. O!Raw(p) = p.up \cup IF p.flag THEN {<<"IRQ", 0>>} ELSE {}
  BY <1>2, Zenon DEF O!Raw
<1>4. line <=> p.up \cap p.inte # {} \/ (p.flag = TRUE /\ <<"IRQ", 0>> \in p.inte)
  BY <1>2, <1>3
<1> HIDE DEF line
<1>5. DOMAIN p = {"sm", "flag", "pin", "next", "inte", "line", "up"}
  BY PioTyped
<1>6. e.line = line /\ e.up = p.up /\ e.inte = p.inte /\ e.flag = p.flag
  BY <1>5, Zenon
<1>7. e \in TellsNow
  BY <1>1, PioCheckTells DEF TellsNow
<1> HIDE DEF e
<1>8. PioShows(e)
  BY <1>2, <1>4, <1>6 DEF PioShows, PioAsks
<1> QED BY <1>1, <1>7, <1>8 DEF PioLined

\* What touches only the machines, or the time that the block looks at them.
LEMMA PioMachineSame ==
  ASSUME NEW p \in TellsNow, NEW sm, NEW next
  PROVE  /\ PioSame([p EXCEPT !.sm = sm], p) /\ PioSame([p EXCEPT !.next = next], p)
         /\ PioSame([p EXCEPT !.sm = sm, !.next = next], p) /\ PioSame([p EXCEPT !.pin = next], p)
<1>1. DOMAIN p = {"sm", "flag", "pin", "next", "inte", "line", "up"}
  BY PioTyped
<1> QED BY <1>1, Zenon DEF PioSame

LEMMA PioWaitSame ==
  ASSUME NEW p \in TellsNow, NEW m \in Machines
  PROVE  /\ PioSame(O!Unstalled(p, m), p) /\ PioSame(O!RecomputeDue(p), p)
         /\ \A for, delay : PioSame(O!Wait(p, m, for, delay), p)
         /\ \A due : PioSame([p EXCEPT !.sm[m].due = due], p)
<1>1. PioSame(O!Unstalled(p, m), p)
  BY PioMachineSame, Zenon DEF O!Unstalled
<1>2. PioSame(O!RecomputeDue(p), p)
  BY PioMachineSame, Zenon DEF O!RecomputeDue
<1>3. ASSUME NEW for, NEW delay PROVE PioSame(O!Wait(p, m, for, delay), p)
  <2> DEFINE r == [p.sm[m] EXCEPT !.wait = for, !.delay = delay]
             sm == [p.sm EXCEPT ![m] = r]
  <2>1. p.sm \in [Machines -> MachineState] /\ p \in PioState
    BY PioTyped DEF PioState
  <2>2. O!Wait(p, m, for, delay) = [p EXCEPT !.sm[m] = r]
    BY <2>1 DEF O!Wait, PioState, MachineState
  <2> HIDE DEF r
  <2>3. O!Wait(p, m, for, delay) = [p EXCEPT !.sm = sm]
    BY <2>2, Zenon
  <2> HIDE DEF sm
  <2> QED BY <2>3, PioMachineSame
<1>4. ASSUME NEW due PROVE PioSame([p EXCEPT !.sm[m].due = due], p)
  BY PioMachineSame, Zenon
<1> QED BY <1>1, <1>2, <1>3, <1>4, Zenon

\* An access to a FIFO of the machine looks at the line, with the request told.
LEMMA PushPullLined ==
  ASSUME NEW p \in TellsNow, NEW m \in Machines
  PROVE  O!Push(p, m) \in PioLined /\ O!Pull(p, m) \in PioLined
<1>1. p.sm[m].rx + 1 \in Int /\ p.sm[m].tx - 1 \in Int
  BY DEF TellsNow, TellsBut, PioState, MachineState
<1> DEFINE more == O!UpdateDma([p EXCEPT !.sm[m].rx = p.sm[m].rx + 1], "RX", m)
           less == O!UpdateDma([p EXCEPT !.sm[m].tx = p.sm[m].tx - 1], "TX", m)
<1>2. more \in TellsNow /\ less \in TellsNow
  BY <1>1, AccessTells
<1>3. O!Push(p, m) = O!CheckInterrupts(more) /\ O!Pull(p, m) = O!CheckInterrupts(less)
  BY DEF O!Push, O!Pull
<1> HIDE DEF more, less
<1> QED BY <1>2, <1>3, PioCheckLines

\* A machine that looks whether its stall is over has its FIFO accessed, or leaves the line as right as it was.
LEMMA CheckWaitLines ==
  ASSUME NEW p \in TellsNow, NEW m \in Machines
  PROVE  /\ O!CheckWait(p, m) \in TellsNow
         /\ O!CheckWait(p, m) \in PioLined \/ (PioSame(O!CheckWait(p, m), p) /\ O!CheckWait(p, m).sm[m].rx = p.sm[m].rx)
         /\ p \in PioLined => O!CheckWait(p, m) \in PioLined
<1> DEFINE q == CASE p.sm[m].wait = "RX" -> O!Push(p, m)
                  [] p.sm[m].wait = "TX" -> O!Pull(p, m)
                  [] p.sm[m].wait = "IRQ set" -> [p EXCEPT !.flag = FALSE]
                  [] OTHER -> p
<1>1. O!CheckWait(p, m) = IF ~ O!Ready(p, m) THEN p ELSE O!Unstalled(q, m)
  BY DEF O!CheckWait
<1>2. q \in {O!Push(p, m), O!Pull(p, m), [p EXCEPT !.flag = FALSE], p}
  OBVIOUS
<1> HIDE DEF q
<1>3. PioSame(p, p) /\ DOMAIN p = {"sm", "flag", "pin", "next", "inte", "line", "up"}
  BY PioTyped, Zenon DEF PioSame
<1>4. PioSame([p EXCEPT !.flag = FALSE], p) /\ [p EXCEPT !.flag = FALSE].sm = p.sm
  BY <1>3, Zenon DEF PioSame
<1>5. q \in PioLined \/ (q \in TellsNow /\ PioSame(q, p) /\ q.sm = p.sm)
  <2>1. [p EXCEPT !.flag = FALSE] \in TellsNow
    BY FieldTells
  <2> QED BY <1>2, <1>3, <1>4, <2>1, PushPullLined, Zenon
<1>6. q \in TellsNow
  BY <1>5 DEF PioLined
<1>7. O!Unstalled(q, m) \in TellsNow /\ PioSame(O!Unstalled(q, m), q)
  BY <1>6, WaitTells, PioWaitSame
<1>8. O!Unstalled(q, m).sm[m].rx = q.sm[m].rx
  <2>1. q \in PioState
    BY <1>6, PioTyped
  <2> QED BY <2>1 DEF O!Unstalled, PioState, MachineState
<1>9. q \in PioLined => O!Unstalled(q, m) \in PioLined
  BY <1>7, PioSameLine
<1>10. O!CheckWait(p, m) \in TellsNow
  BY CheckWaitTells
<1>11. O!CheckWait(p, m) \in PioLined \/ (PioSame(O!CheckWait(p, m), p) /\ O!CheckWait(p, m).sm[m].rx = p.sm[m].rx)
  <2>1. q \in PioLined \/ (PioSame(O!Unstalled(q, m), p) /\ O!Unstalled(q, m).sm[m].rx = p.sm[m].rx)
    BY <1>5, <1>7, <1>8, PioSameChain, Zenon
  <2> QED BY <1>1, <1>3, <1>9, <2>1, Zenon
<1> QED BY <1>10, <1>11, PioSameLine

LEMMA IrqUpdatedLines ==
  ASSUME NEW p \in TellsNow
  PROVE  O!IrqUpdated(p) \in PioLined
<1>1. \A t \in TellsNow, m \in Machines : O!CheckWait(t, m) \in TellsNow
  BY CheckWaitTells
<1>2. O!FoldLeft(O!CheckWait, p, O!Order) \in TellsNow
  BY <1>1, EveryoneLooks
<1> QED BY <1>2, PioCheckLines DEF O!IrqUpdated

LEMMA PioWaitLines ==
  ASSUME NEW p \in PioLined, NEW m \in Machines
  PROVE  /\ \A for \in O!Waits, delay \in Int : O!Wait(p, m, for, delay) \in PioLined
         /\ \A due \in Int : [p EXCEPT !.sm[m].due = due] \in PioLined
         /\ O!RecomputeDue(p) \in PioLined
<1>1. p \in TellsNow
  BY DEF PioLined
<1>2. ASSUME NEW for \in O!Waits, NEW delay \in Int PROVE O!Wait(p, m, for, delay) \in PioLined
  BY <1>1, WaitTells, PioWaitSame, PioSameLine
<1>3. ASSUME NEW due \in Int PROVE [p EXCEPT !.sm[m].due = due] \in PioLined
  <2>1. [p EXCEPT !.sm[m].due = due] \in TellsNow /\ PioSame([p EXCEPT !.sm[m].due = due], p)
    BY <1>1, WaitTells, PioWaitSame, Zenon
  <2> HIDE DEF PioLined
  <2> QED BY <2>1, PioSameLine, Zenon
<1>4. O!RecomputeDue(p) \in PioLined
  BY <1>1, RecomputeDueTells, PioWaitSame, PioSameLine
<1> QED BY <1>2, <1>3, <1>4, Zenon

LEMMA EffectLines ==
  ASSUME NEW p \in PioLined, NEW m \in Machines, NEW instruction \in O!Instructions, NEW delay \in Int
  PROVE  /\ O!ExecuteInstruction(p, m, instruction, delay) \in PioLined
         /\ O!Stepped(p, m, instruction, delay) \in PioLined
<1> DEFINE t == O!Effect(p, m, instruction, delay)
<1>0. p \in TellsNow
  BY DEF PioLined
<1>1. O!Push(p, m) \in PioLined /\ O!Pull(p, m) \in PioLined
  BY <1>0, PushPullLined
<1>2. \A for \in O!Waits : O!Wait(p, m, for, delay) \in PioLined
  BY PioWaitLines
<1>3. \A x \in BOOLEAN : O!IrqUpdated([p EXCEPT !.flag = x]) \in PioLined
  BY <1>0, FieldTells, IrqUpdatedLines
<1>4. O!Wait(O!IrqUpdated([p EXCEPT !.flag = TRUE]), m, "IRQ clear", delay) \in PioLined
  BY <1>3, PioWaitLines DEF O!Waits
<1>5. t \in PioLined
  BY <1>1, <1>2, <1>3, <1>4 DEF O!Effect, O!Waits
<1> DEFINE u == O!CheckWait(t, m)
           from == IF p.sm[m].due < - MaxArrears THEN 0 ELSE p.sm[m].due
<1>6. u \in PioLined
  <2> HIDE DEF t
  <2>1. t \in TellsNow
    BY <1>5 DEF PioLined
  <2> QED BY <1>5, <2>1, CheckWaitLines
<1>7. from + 1 + delay \in Int
  BY <1>0 DEF TellsNow, TellsBut, PioState, MachineState
<1>8. O!Stepped(p, m, instruction, delay) \in
        {[t EXCEPT !.sm[m].due = from + 1 + delay], u, [u EXCEPT !.sm[m].due = 0]}
  BY DEF O!Stepped
<1>9. O!ExecuteInstruction(p, m, instruction, delay) = u
  BY DEF O!ExecuteInstruction
<1> HIDE DEF t, u, from
<1>10. O!Stepped(p, m, instruction, delay) \in PioLined
  <2>1. [t EXCEPT !.sm[m].due = from + 1 + delay] \in PioLined
    BY <1>5, <1>7, PioWaitLines
  <2>2. [u EXCEPT !.sm[m].due = 0] \in PioLined
    <3>1. 0 \in Int
      OBVIOUS
    <3> QED BY <1>6, <3>1, PioWaitLines
  <2> QED BY <1>6, <1>8, <2>1, <2>2
<1> QED BY <1>6, <1>9, <1>10

LEMMA RunDueLines ==
  ASSUME NEW p \in PioLined, NEW program,
         \A m \in Machines : m \in DOMAIN program => program[m][1] \in O!Instructions /\ program[m][2] \in Int
  PROVE  O!RunDue(p, program) \in PioLined
<1> DEFINE stage == [k \in 0 .. Cardinality(Machines) |-> PioLined]
           ran == AllStep(p, program)
<1>1. Cardinality(Machines) \in Nat /\ p \in TellsNow
  BY OrderIs DEF PioLined
<1>2. \A k \in 0 .. Cardinality(Machines) : stage[k] = PioLined
  OBVIOUS
<1> HIDE DEF stage
<1>3. p \in stage[0]
  BY <1>1, <1>2
<1>4. ASSUME NEW k \in 0 .. Cardinality(Machines) - 1, NEW t \in stage[k] \cap TellsNow
      PROVE  DueStep(program, t, O!Order[k + 1]) \in stage[k + 1]
  <2>1. O!Order[k + 1] \in Machines /\ stage[k + 1] = PioLined /\ t \in PioLined
    BY <1>1, <1>2, OrderIs
  <2> QED BY <2>1, EffectLines DEF DueStep
<1>5. ran \in stage[Cardinality(Machines)]
  BY <1>1, <1>3, <1>4, DueOnesStep
<1>6. O!RunDue(p, program) = O!RecomputeDue(ran)
  BY DEF O!RunDue, AllStep, DueStep
<1> HIDE DEF ran
<1>7. ran \in PioLined
  BY <1>1, <1>2, <1>5
<1>8. O!RecomputeDue(ran) \in TellsNow /\ PioSame(O!RecomputeDue(ran), ran)
  <2>1. ran \in TellsNow
    BY <1>7 DEF PioLined
  <2>2. O!RecomputeDue(ran) \in TellsNow
    BY <2>1, RecomputeDueTells
  <2>3. PioSame(O!RecomputeDue(ran), ran)
    BY <2>1, PioMachineSame, Zenon DEF O!RecomputeDue
  <2> QED BY <2>2, <2>3
<1> QED BY <1>6, <1>7, <1>8, PioSameLine

\* Only an access that changes the request has to look at the line, which shows the request.
LEMMA PioAccessLines ==
  ASSUME NEW p \in PioLined, NEW m \in Machines
  PROVE  O!TxfWritten(p, m) \in PioLined /\ O!RxfRead(p, m) \in PioLined
<1>1. p \in TellsNow /\ p \in PioState /\ p.sm[m] \in MachineState /\ p.sm[m].tx + 1 \in Int /\ p.sm[m].rx - 1 \in Int
  BY DEF PioLined, TellsNow, TellsBut, PioState, MachineState
<1> DEFINE filled == [p EXCEPT !.sm[m].tx = p.sm[m].tx + 1]
           told == O!UpdateDma(filled, "TX", m)
           looked == O!CheckWait(told, m)
           drained == [p EXCEPT !.sm[m].rx = p.sm[m].rx - 1]
           tolds == O!UpdateDma(drained, "RX", m)
           lookeds == O!CheckWait(tolds, m)
<1>2. told \in TellsNow /\ tolds \in TellsNow
  BY <1>1, AccessTells
<1>3. O!TxfWritten(p, m) = IF O!TxFull(p, m) THEN p ELSE IF O!TxFull(looked, m) THEN O!CheckInterrupts(looked) ELSE looked
  BY DEF O!TxfWritten
<1>4. O!RxfRead(p, m) = IF p.sm[m].rx = 0 THEN p ELSE IF lookeds.sm[m].rx = 0 THEN O!CheckInterrupts(lookeds) ELSE lookeds
  BY DEF O!RxfRead
<1>5. \A kind \in {"TX", "RX"}, q \in TellsNow : <<kind, m>> \in q.up <=> Calls(q, kind, m)
  BY DEF TellsNow, TellsBut
<1>6. ASSUME NEW e, NEW kind \in {"TX", "RX"}, e = [p EXCEPT !.sm = e.sm]
      PROVE  LET t == O!UpdateDma(e, kind, m)
             IN  /\ t.sm = e.sm /\ t.inte = p.inte /\ t.line = p.line /\ t.flag = p.flag
                 /\ t.up \in {p.up \cup {<<kind, m>>}, p.up \ {<<kind, m>>}}
  <2> DEFINE up == IF <<kind, m>> \in O!Requested(e) THEN e.up \cup {<<kind, m>>} ELSE e.up \ {<<kind, m>>}
  <2>1. O!UpdateDma(e, kind, m) = [e EXCEPT !.up = up]
    BY DEF O!UpdateDma
  <2>2. DOMAIN p = {"sm", "flag", "pin", "next", "inte", "line", "up"}
    BY <1>1, PioTyped
  <2>3. DOMAIN e = DOMAIN p /\ e.inte = p.inte /\ e.line = p.line /\ e.flag = p.flag /\ e.up = p.up
    BY <1>6, <2>2, Zenon
  <2>4. up \in {p.up \cup {<<kind, m>>}, p.up \ {<<kind, m>>}}
    BY <2>3
  <2> HIDE DEF up
  <2>5. [e EXCEPT !.up = up].sm = e.sm /\ [e EXCEPT !.up = up].inte = p.inte /\ [e EXCEPT !.up = up].line = p.line
        /\ [e EXCEPT !.up = up].flag = p.flag /\ [e EXCEPT !.up = up].up = up
    BY <2>2, <2>3, Zenon
  <2> QED BY <2>1, <2>4, <2>5, Zenon
<1>7. filled = [p EXCEPT !.sm = filled.sm] /\ drained = [p EXCEPT !.sm = drained.sm] /\ drained.sm[m].rx = p.sm[m].rx - 1
  BY <1>1 DEF PioState, MachineState
<1> HIDE DEF filled, drained
<1>8. /\ told.inte = p.inte /\ told.line = p.line /\ told.flag = p.flag
      /\ told.up \in {p.up \cup {<<"TX", m>>}, p.up \ {<<"TX", m>>}}
  BY <1>6, <1>7
<1>9. /\ tolds.inte = p.inte /\ tolds.line = p.line /\ tolds.flag = p.flag /\ tolds.sm = drained.sm
      /\ tolds.up \in {p.up \cup {<<"RX", m>>}, p.up \ {<<"RX", m>>}}
  BY <1>6, <1>7
<1> HIDE DEF told, tolds
<1>10. /\ looked \in TellsNow /\ (looked \in PioLined \/ PioSame(looked, told))
       /\ lookeds \in TellsNow /\ (lookeds \in PioLined \/ (PioSame(lookeds, tolds) /\ lookeds.sm[m].rx = tolds.sm[m].rx))
  BY <1>2, CheckWaitLines
<1> HIDE DEF looked, lookeds
<1>11. O!CheckInterrupts(looked) \in PioLined /\ O!CheckInterrupts(lookeds) \in PioLined
  BY <1>10, PioCheckLines
<1>12. ASSUME ~ O!TxFull(p, m), ~ O!TxFull(looked, m) PROVE looked \in PioLined
  <2> SUFFICES ASSUME PioSame(looked, told) PROVE looked \in PioLined
    BY <1>10
  <2>1. <<"TX", m>> \in p.up /\ <<"TX", m>> \in looked.up
    BY <1>1, <1>5, <1>10, <1>12 DEF Calls
  <2>2. looked.up = told.up
    BY Zenon DEF PioSame
  <2>3. told.up = p.up
    BY <1>8, <2>1, <2>2
  <2>4. PioSame(told, p)
    BY <1>8, <2>3, Zenon DEF PioSame
  <2> QED BY <1>10, <2>4, PioSameChain, PioSameLine
<1>13. ASSUME p.sm[m].rx # 0, lookeds.sm[m].rx # 0 PROVE lookeds \in PioLined
  <2> SUFFICES ASSUME PioSame(lookeds, tolds), lookeds.sm[m].rx = tolds.sm[m].rx PROVE lookeds \in PioLined
    BY <1>10
  <2>1. lookeds.sm[m].rx = p.sm[m].rx - 1 /\ p.sm[m].rx \in Int
    BY <1>1, <1>7, <1>9 DEF MachineState
  <2>2. (p.sm[m].rx > 0) <=> (lookeds.sm[m].rx > 0)
    BY <1>13, <2>1
  <2>3. <<"RX", m>> \in p.up <=> <<"RX", m>> \in lookeds.up
    BY <1>1, <1>5, <1>10, <2>2 DEF Calls
  <2>4. lookeds.up = tolds.up
    BY Zenon DEF PioSame
  <2>5. tolds.up = p.up
    BY <1>9, <2>3, <2>4
  <2>6. PioSame(tolds, p)
    BY <1>9, <2>5, Zenon DEF PioSame
  <2> QED BY <1>10, <2>6, PioSameChain, PioSameLine
<1> QED BY <1>3, <1>4, <1>11, <1>12, <1>13

\* Replaced FIFOs end in a look at the line.
LEMMA JoinedLines ==
  ASSUME NEW p \in PioLined, NEW m \in Machines, NEW join \in {"none", "tx", "rx"}
  PROVE  O!Joined(p, m, join) \in PioLined
<1> DEFINE r == [p.sm[m] EXCEPT !.join = join, !.tx = 0, !.rx = 0]
           t == [p EXCEPT !.sm[m] = r]
           one == O!UpdateDma(t, "RX", m)
           both == O!UpdateDma(one, "TX", m)
<1>1. p \in PioState /\ p.sm[m] \in MachineState /\ p \in TellsNow
  BY DEF PioLined, TellsNow, TellsBut, PioState
<1>2. r \in MachineState
  <2>1. ASSUME NEW s \in MachineState, NEW j \in {"none", "tx", "rx"}, NEW n \in Int
        PROVE  [s EXCEPT !.join = j, !.tx = n, !.rx = n] \in MachineState
    BY DEF MachineState
  <2> DEFINE n == 0
  <2>2. n \in Int
    OBVIOUS
  <2>3. r = [p.sm[m] EXCEPT !.join = join, !.tx = n, !.rx = n]
    OBVIOUS
  <2> HIDE DEF r, n
  <2> QED BY <1>1, <2>1, <2>2, <2>3
<1>3. t = [p EXCEPT !.sm[m].join = join, !.sm[m].tx = 0, !.sm[m].rx = 0]
  BY <1>1 DEF PioState, MachineState
<1> HIDE DEF r
<1>4. t \in PioState /\ t.up = p.up /\ \A k \in Machines \ {m} : t.sm[k] = p.sm[k]
  BY <1>1, <1>2, MachineChanges
<1>5. O!Joined(p, m, join) \in {p, O!CheckInterrupts(O!CheckWait(both, m))}
  BY <1>3 DEF O!Joined
<1> HIDE DEF t
<1>6. t \in TellsBut({} \cup {"TX", "RX"} \X {m})
  BY <1>1, <1>4, SameTells DEF TellsNow, SameFifos
<1>7. one \in TellsBut(({} \cup {"TX", "RX"} \X {m}) \ {<<"RX", m>>})
  BY <1>6, UpdateDmaTells
<1> HIDE DEF one
<1>8. both \in TellsBut((({} \cup {"TX", "RX"} \X {m}) \ {<<"RX", m>>}) \ {<<"TX", m>>})
  BY <1>7, UpdateDmaTells
<1>9. (({} \cup {"TX", "RX"} \X {m}) \ {<<"RX", m>>}) \ {<<"TX", m>>} = {}
  OBVIOUS
<1> HIDE DEF both
<1>10. both \in TellsNow
  BY <1>8, <1>9 DEF TellsNow
<1>11. O!CheckInterrupts(O!CheckWait(both, m)) \in PioLined
  BY <1>10, CheckWaitTells, PioCheckLines
<1> QED BY <1>5, <1>11

\* CTRL and time touch the machines, and when they are due.
LEMMA PioMovesLine ==
  ASSUME NEW p \in PioLined
  PROVE  /\ \A cycles \in Int : O!Moved(p, cycles) \in PioLined
         /\ \A on, restarted, phased : O!CtrlWritten(p, on, restarted, phased) \in PioLined
<1>1. p \in TellsNow
  BY DEF PioLined
<1>2. ASSUME NEW cycles \in Int PROVE O!Moved(p, cycles) \in PioLined
  <2>1. PioSame(O!Moved(p, cycles), p)
    BY <1>1, PioMachineSame, Zenon DEF O!Moved
  <2> QED BY <1>1, <2>1, MovedTells, PioSameLine
<1>3. ASSUME NEW on, NEW restarted, NEW phased PROVE O!CtrlWritten(p, on, restarted, phased) \in PioLined
  <2>1. PioSame(O!CtrlWritten(p, on, restarted, phased), p)
    <3>1. \A a, b : PioSame([[p EXCEPT !.sm = a] EXCEPT !.next = b], p)
      <4>1. DOMAIN p = {"sm", "flag", "pin", "next", "inte", "line", "up"}
        BY <1>1, PioTyped
      <4> QED BY <4>1, Zenon DEF PioSame
    <3> QED BY <3>1, Zenon DEF O!CtrlWritten, O!RecomputeDue
  <2> QED BY <1>1, <2>1, CtrlTells, PioSameLine
<1> QED BY <1>2, <1>3

LEMMA PioOnLined ==
  ASSUME NEW pin \in BOOLEAN
  PROVE  O!PowerOn(pin) \in PioLined
<1>1. O!PowerOn(pin) \in TellsNow
  BY PioOn
<1>2. O!PowerOn(pin).inte = {} /\ O!PowerOn(pin).line = FALSE
  BY DEF O!PowerOn
<1>3. PioShows(O!PowerOn(pin))
  BY <1>2 DEF PioShows, PioAsks
<1> QED BY <1>1, <1>3 DEF PioLined

LEMMA PioStepLined ==
  ASSUME state \in PioLined, O!Next
  PROVE  state' \in PioLined
<1>0. state \in TellsNow
  BY DEF PioLined
<1>1. /\ \A m \in Machines : Programs[m] \subseteq O!Instructions
      /\ PioDelays \subseteq Int /\ PioCycles \subseteq Int /\ Joins \subseteq {"none", "tx", "rx"}
      /\ PioEnables \subseteq SUBSET O!Interrupts
  BY PeripheralsAssumption DEF O!PioAssumption
<1>2. CASE O!Advance
  <2>1. PICK cycles \in PioCycles :
          LET p == O!Moved(state, cycles)
          IN  \/ state' = p
              \/ \E program \in [O!Due(p) -> (UNION {Programs[m] : m \in Machines}) \X PioDelays] : state' = O!RunDue(p, program)
    BY <1>2 DEF O!Advance
  <2> DEFINE p == O!Moved(state, cycles)
  <2>2. p \in PioLined
    BY <1>1, PioMovesLine
  <2> HIDE DEF p
  <2>3. ASSUME NEW program \in [O!Due(p) -> (UNION {Programs[m] : m \in Machines}) \X PioDelays], state' = O!RunDue(p, program)
        PROVE  state' \in PioLined
    <3> DEFINE all == UNION {Programs[m] : m \in Machines}
    <3>2. all \subseteq O!Instructions
      BY <1>1
    <3> HIDE DEF all
    <3>3. DOMAIN program = O!Due(p) /\ \A m \in O!Due(p) : program[m] \in all \X PioDelays
      BY <2>3 DEF all
    <3>1. \A m \in DOMAIN program : program[m][1] \in O!Instructions /\ program[m][2] \in Int
      BY <1>1, <3>2, <3>3
    <3> QED BY <2>2, <2>3, <3>1, RunDueLines
  <2> QED BY <2>1, <2>2, <2>3 DEF p
<1>3. CASE O!WriteTxf \/ O!ReadRxf
  BY <1>3, PioAccessLines DEF O!WriteTxf, O!ReadRxf
<1>4. CASE O!WriteShiftctrl
  BY <1>1, <1>4, JoinedLines DEF O!WriteShiftctrl
<1>5. CASE O!WriteInstr
  <2>1. PICK m \in Machines :
          \E instruction \in Programs[m], delay \in PioDelays :
            state' = O!RecomputeDue(O!ExecuteInstruction(state, m, instruction, delay))
    BY <1>5 DEF O!WriteInstr
  <2>3. PICK instruction \in Programs[m], delay \in PioDelays :
          state' = O!RecomputeDue(O!ExecuteInstruction(state, m, instruction, delay))
    BY <2>1
  <2>2. O!ExecuteInstruction(state, m, instruction, delay) \in PioLined
    BY <1>1, EffectLines
  <2> QED BY <2>2, <2>3, PioWaitLines
<1>6. CASE O!WriteCtrl
  BY <1>6, PioMovesLine DEF O!WriteCtrl
<1>7. CASE O!WriteIrq \/ O!WriteIrqForce
  BY <1>0, <1>7, FieldTells, IrqUpdatedLines DEF O!WriteIrq, O!WriteIrqForce
<1>8. CASE O!PinChanges
  <2> DEFINE p == [state EXCEPT !.pin = ~ state.pin]
  <2>1. (~ state.pin) \in BOOLEAN
    OBVIOUS
  <2>2. p \in TellsNow /\ PioSame(p, state)
    BY <1>0, <2>1, FieldTells, PioMachineSame
  <2> HIDE DEF p
  <2>4. p \in PioLined
    BY <2>2, PioSameLine
  <2>3. \A t \in PioLined, m \in Machines : O!CheckWait(t, m) \in PioLined
    <3>1. \A t \in PioLined : t \in TellsNow
      BY DEF PioLined
    <3> QED BY <3>1, CheckWaitLines
  <2>5. O!FoldLeft(LAMBDA q, m : IF q.sm[m].on /\ q.sm[m].wait \in {"PIN high", "PIN low"} THEN O!CheckWait(q, m) ELSE q, p, O!Order) \in PioLined
    BY <2>3, <2>4, EnabledOnesLook
  <2> QED BY <1>8, <2>5 DEF O!PinChanges, p
<1>9. CASE O!WriteInte
  <2>1. PICK inte \in PioEnables : state' = O!CheckInterrupts([state EXCEPT !.inte = inte])
    BY <1>9 DEF O!WriteInte
  <2>2. [state EXCEPT !.inte = inte] \in TellsNow
    BY <1>0, <1>1, FieldTells
  <2> QED BY <2>1, <2>2, PioCheckLines
<1>10. CASE O!Reset
  <2>1. state.pin \in BOOLEAN
    BY <1>0 DEF TellsNow, TellsBut, PioState
  <2> QED BY <1>10, <2>1, PioOnLined DEF O!Reset
<1> QED BY <1>2, <1>3, <1>4, <1>5, <1>6, <1>7, <1>8, <1>9, <1>10 DEF O!Next

LEMMA PioIsLined == state \in PioLined => O!LineTellsStatus
<1> SUFFICES ASSUME state \in PioLined PROVE O!LineTellsStatus
  OBVIOUS
<1>1. state \in TellsNow /\ PioShows(state)
  BY DEF PioLined
<1>2. state.up = O!Requested(state) /\ state.flag \in BOOLEAN /\ state.line \in BOOLEAN
  BY <1>1, PioTyped
<1>3. O!Raw(state) = state.up \cup IF state.flag THEN {<<"IRQ", 0>>} ELSE {}
  BY <1>2, Zenon DEF O!Raw
<1>4. (O!Raw(state) \cap state.inte # {}) <=> PioAsks(state)
  BY <1>2, <1>3 DEF PioAsks
<1> QED BY <1>1, <1>2, <1>4 DEF PioShows, O!LineTellsStatus
-----------------------------------------------------------------------------
(* The lines of the register blocks. *)

LinesShown ==
  /\ part = "spi" => SpiShows(state)
  /\ part = "uart" => UartShows(state)
  /\ part = "adc" => AdcLined(state)
  /\ part = "timer" => TimerLined(state)
  /\ part = "pwm" => PwmLined(state)
  /\ part = "i2c" => I2cLined(state)
  /\ part = "pio" => state \in PioLined
  /\ part = "rtc" => RtcLined(state)

LEMMA LinesBegin == PeripheralsInit => LinesShown
<1> SUFFICES ASSUME PeripheralsInit PROVE LinesShown
  OBVIOUS
<1>1. ASSUME part = "spi" PROVE SpiShows(state)
  <2>1. PICK prompt \in Prompts : state = S!Clear(<<>>, prompt, FALSE)
    BY <1>1 DEF PeripheralsInit, S!Init
  <2>2. prompt \in BOOLEAN /\ <<>> \in Seq(Words)
    BY PeripheralsAssumption DEF S!SpiAssumption
  <2> DEFINE no == FALSE
  <2>3. no \in BOOLEAN /\ state = S!Clear(<<>>, prompt, no)
    BY <2>1
  <2> HIDE DEF no
  <2> QED BY <2>2, <2>3, SpiClearShows
<1>2. ASSUME part = "uart" PROVE UartShows(state)
  BY <1>2, UartOnShows DEF PeripheralsInit, U!Init
<1>3. ASSUME part = "adc" PROVE AdcLined(state)
  BY <1>3, AdcOnLined DEF PeripheralsInit, A!Init
<1>4. ASSUME part = "timer" PROVE TimerLined(state)
  BY <1>4, TimerOnLined DEF PeripheralsInit, T!Init
<1>5. ASSUME part = "pwm" PROVE PwmLined(state)
  BY <1>5, PwmOnLined DEF PeripheralsInit, P!Init
<1>6. ASSUME part = "i2c" PROVE I2cLined(state)
  BY <1>6, I2cOnLined DEF PeripheralsInit, I!Init
<1>7. ASSUME part = "pio" PROVE state \in PioLined
  <2> DEFINE no == FALSE
  <2>1. no \in BOOLEAN /\ state = O!PowerOn(no)
    BY <1>7 DEF PeripheralsInit, O!Init
  <2> HIDE DEF no
  <2> QED BY <2>1, PioOnLined
<1>8. ASSUME part = "rtc" PROVE RtcLined(state)
  BY <1>8, RtcBeginsLined DEF PeripheralsInit
<1> QED BY <1>1, <1>2, <1>3, <1>4, <1>5, <1>6, <1>7, <1>8 DEF LinesShown

LEMMA LinesStay == RequestsTold /\ LinesShown /\ PeripheralsNext /\ part' = part => LinesShown'
<1> SUFFICES ASSUME RequestsTold, LinesShown, PeripheralsNext, part' = part PROVE LinesShown'
  OBVIOUS
<1>1. ASSUME part = "spi" PROVE SpiShows(state')
  BY <1>1, SpiStepShows DEF PeripheralsNext, RequestsTold, LinesShown
<1>2. ASSUME part = "uart" PROVE UartShows(state')
  BY <1>2, UartStepShows DEF PeripheralsNext, RequestsTold, LinesShown
<1>3. ASSUME part = "adc" PROVE AdcLined(state')
  BY <1>3, AdcStepLined DEF PeripheralsNext, LinesShown
<1>4. ASSUME part = "timer" PROVE TimerLined(state')
  BY <1>4, TimerStepLined DEF PeripheralsNext, LinesShown
<1>5. ASSUME part = "pwm" PROVE PwmLined(state')
  BY <1>5, PwmStepLined DEF PeripheralsNext, LinesShown
<1>6. ASSUME part = "i2c" PROVE I2cLined(state')
  BY <1>6, I2cStepLined DEF PeripheralsNext, LinesShown
<1>7. ASSUME part = "pio" PROVE state' \in PioLined
  BY <1>7, PioStepLined DEF PeripheralsNext, LinesShown
<1>8. ASSUME part = "rtc" PROVE RtcLined(state')
  BY <1>8, RtcStepLined DEF PeripheralsNext, LinesShown
<1> QED BY <1>1, <1>2, <1>3, <1>4, <1>5, <1>6, <1>7, <1>8 DEF LinesShown

LEMMA ShownAreTheLines ==
  ASSUME LinesShown
  PROVE  /\ part = "spi" => S!LineTellsStatus
         /\ part = "uart" => U!LineTellsStatus
         /\ part = "adc" => A!LineTellsStatus
         /\ part = "timer" => T!LinesTellStatus
         /\ part = "pwm" => P!LinesTellStatus
         /\ part = "i2c" => I!LineTellsStatus
         /\ part = "pio" => O!LineTellsStatus
         /\ part = "rtc" => C!LineTellsStatus
<1>1. part = "spi" => S!LineTellsStatus
  BY SpiIsShown DEF LinesShown
<1>2. part = "uart" => U!LineTellsStatus
  BY DEF LinesShown, UartShows, U!LineTellsStatus
<1>3. part = "adc" => A!LineTellsStatus
  BY DEF LinesShown, AdcLined, A!LineTellsStatus
<1>4. part = "timer" => T!LinesTellStatus
  BY DEF LinesShown, TimerLined, T!LinesTellStatus
<1>5. part = "pwm" => P!LinesTellStatus
  BY DEF LinesShown, PwmLined, PwmLine, P!LinesTellStatus
<1>6. part = "i2c" => I!LineTellsStatus
  BY DEF LinesShown, I2cLined, I2cLine, I2cFull, I!LineTellsStatus
<1>7. part = "pio" => O!LineTellsStatus
  BY PioIsLined DEF LinesShown
<1>8. part = "rtc" => C!LineTellsStatus
  BY DEF LinesShown, RtcLined, RtcLine, C!LineTellsStatus
<1> QED BY <1>1, <1>2, <1>3, <1>4, <1>5, <1>6, <1>7, <1>8


==============================================================================
