--------------------------- MODULE Devices_proofs ---------------------------
(***************************************************************************)
(* Proofs about the devices, for any pins, packets and transfers: the      *)
(* lines of the GPIO bank and of the USB controller, and the pin of the    *)
(* wireless chip, tell what waits.                                         *)
(***************************************************************************)
EXTENDS Devices, Peripherals_proofs

-----------------------------------------------------------------------------
(* Folds over a bank's pins and a controller's buffers, turn by turn. *)

-----------------------------------------------------------------------------
(* The folds of the pins, of the bus of the wireless chip and of the USB, each turn of which is one of these. *)

Turn(how, t, i) ==
  CASE how[1] = "check" -> IF L!InOrder[i] \in how[2] THEN L!CheckForUpdates(t, L!InOrder[i]) ELSE t
    [] how[1] = "clear" -> L!EdgesCleared(t, L!InOrder[i], how[2])
    [] how[1] = "enable" -> L!EnableWritten(t, L!InOrder[i], how[2][L!InOrder[i]])
    [] how[1] = "force" -> L!ForceWritten(t, L!InOrder[i], how[2][L!InOrder[i]])
    [] how[1] = "reset" -> L!PinReset(t, L!InOrder[i])
    [] how[1] = "queue" -> B!QueueRxPacket(t)
    [] how[1] = "write" -> D!FinishWrite(t, how[2], how[3][i])
    [] how[1] = "react" -> D!HostGets(t, how[2], how[3][i])
    [] how[1] = "read" -> D!FinishRead(t, how[2][i])
    [] how[1] = "flush" -> IF t.tx = << >> THEN t ELSE D!CompleteOutRead([t EXCEPT !.parked = t.parked - 1])

\* The fold over 1 .. n, by subsets of the numbers, as the library has it.
TurnsOf(n, how, base, f) == f = [s \in SUBSET (1 .. n) |-> IF s = {} THEN base ELSE Turn(how, f[s \ {Max(s)}], Max(s))]
Folded(n, how, base) == (CHOOSE f : TurnsOf(n, how, base, f))[1 .. n]

LEMMA TurnsExist ==
  ASSUME NEW last \in Nat, NEW how, NEW base
  PROVE  \E f : TurnsOf(last, how, base, f)
<1> DEFINE Holds == {n \in 0 .. last : \E f : TurnsOf(n, how, base, f)}
<1>1. 0 \in Holds
  <2> DEFINE none == [s \in SUBSET (1 .. 0) |-> base]
  <2>1. SUBSET (1 .. 0) = {{}}
    OBVIOUS
  <2>2. TurnsOf(0, how, base, none)
    <3>1. none = [s \in SUBSET (1 .. 0) |-> IF s = {} THEN base ELSE Turn(how, none[s \ {Max(s)}], Max(s))]
      BY <2>1
    <3> QED BY <3>1 DEF TurnsOf
  <2> HIDE DEF none
  <2>3. 0 \in 0 .. last
    OBVIOUS
  <2>4. \E f : TurnsOf(0, how, base, f)
    BY <2>2, Zenon
  <2> QED BY <2>3, <2>4, Zenon
<1>2. ASSUME NEW n \in 0 .. last - 1, n \in Holds
      PROVE  n + 1 \in Holds
  <2> DEFINE m == n + 1
  <2>1. m \in 1 .. last /\ n \in Nat /\ m \in Nat
    OBVIOUS
  <2>2. PICK f : TurnsOf(n, how, base, f)
    BY <1>2
  <2> DEFINE g == [s \in SUBSET (1 .. m) |-> IF m \in s THEN Turn(how, f[s \ {m}], m) ELSE f[s]]
  <2>3. \A s \in SUBSET (1 .. m) : m \notin s => s \in SUBSET (1 .. n)
    BY <2>1
  <2>4. \A s \in SUBSET (1 .. m) : s \ {m} \in SUBSET (1 .. n)
    BY <2>1
  <2>5. \A s \in SUBSET (1 .. n) : s \in SUBSET (1 .. m) /\ m \notin s
    BY <2>1
  <2> HIDE DEF m
  <2>6. \A s \in SUBSET (1 .. n) : f[s] = IF s = {} THEN base ELSE Turn(how, f[s \ {Max(s)}], Max(s))
    BY <2>2, Zenon DEF TurnsOf
  <2>7. ASSUME NEW s \in SUBSET (1 .. m)
        PROVE  g[s] = IF s = {} THEN base ELSE Turn(how, g[s \ {Max(s)}], Max(s))
    <3>1. CASE m \in s
      <4>1. Max(s) = m /\ s # {}
        BY <2>1, <3>1, MaxIsLast
      <4>2. s \ {m} \in SUBSET (1 .. m) /\ m \notin s \ {m}
        OBVIOUS
      <4>3. g[s \ {m}] = f[s \ {m}]
        BY <4>2
      <4>4. g[s] = Turn(how, f[s \ {m}], m)
        BY <3>1
      <4> QED BY <4>1, <4>3, <4>4
    <3>2. CASE m \notin s /\ s # {}
      <4>1. s \in SUBSET (1 .. n)
        BY <2>3, <3>2
      <4>2. f[s] = Turn(how, f[s \ {Max(s)}], Max(s))
        BY <2>6, <3>2, <4>1
      <4>3. s \ {Max(s)} \in SUBSET (1 .. m) /\ m \notin s \ {Max(s)}
        BY <3>2
      <4>4. g[s \ {Max(s)}] = f[s \ {Max(s)}] /\ g[s] = f[s]
        BY <3>2, <4>3
      <4> QED BY <3>2, <4>2, <4>4
    <3>3. CASE s = {}
      <4>1. s \in SUBSET (1 .. n) /\ m \notin s
        BY <3>3
      <4> QED BY <2>6, <3>3, <4>1
    <3> QED BY <3>1, <3>2, <3>3
  <2>8. DOMAIN g = SUBSET (1 .. m) /\ g = [s \in SUBSET (1 .. m) |-> g[s]]
    OBVIOUS
  <2> HIDE DEF g
  <2>10. [s \in SUBSET (1 .. m) |-> g[s]] = [s \in SUBSET (1 .. m) |-> IF s = {} THEN base ELSE Turn(how, g[s \ {Max(s)}], Max(s))]
    BY <2>7
  <2>11. TurnsOf(m, how, base, g)
    BY <2>8, <2>10 DEF TurnsOf
  <2>9. m \in 0 .. last
    BY <2>1
  <2> QED BY <2>9, <2>11 DEF m
<1>3. last \in Holds
  <2> HIDE DEF Holds
  <2> QED BY <1>1, <1>2, UpTo
<1> QED BY <1>3

\* Its turns follow one another, from the base to the result.
LEMMA TurnsAreAChain ==
  ASSUME NEW n \in Nat, NEW how, NEW base
  PROVE  \E chain : /\ chain[0] = base /\ chain[n] = Folded(n, how, base)
                    /\ \A k \in 0 .. n - 1 : chain[k + 1] = Turn(how, chain[k], k + 1)
<1> DEFINE iter == CHOOSE f : TurnsOf(n, how, base, f)
           chain == [k \in 0 .. n |-> iter[1 .. k]]
<1>1. TurnsOf(n, how, base, iter)
  BY TurnsExist, Zenon
<1>2. Folded(n, how, base) = iter[1 .. n]
  BY Zenon DEF Folded
<1> HIDE DEF iter
<1>3. \A s \in SUBSET (1 .. n) : iter[s] = IF s = {} THEN base ELSE Turn(how, iter[s \ {Max(s)}], Max(s))
  BY <1>1, Zenon DEF TurnsOf
<1>4. chain[0] = base
  <2>1. 1 .. 0 = {} /\ {} \in SUBSET (1 .. n) /\ 0 \in 0 .. n
    OBVIOUS
  <2> QED BY <1>3, <2>1
<1>5. chain[n] = Folded(n, how, base)
  BY <1>2
<1>6. ASSUME NEW k \in 0 .. n - 1 PROVE chain[k + 1] = Turn(how, chain[k], k + 1)
  <2> DEFINE s == 1 .. k + 1
  <2>1. s \in SUBSET (1 .. n) /\ s # {} /\ Max(s) = k + 1 /\ s \ {Max(s)} = 1 .. k
    BY UpToNext
  <2>2. chain[k + 1] = iter[s] /\ chain[k] = iter[1 .. k]
    OBVIOUS
  <2> HIDE DEF s, chain
  <2>3. iter[s] = Turn(how, iter[s \ {Max(s)}], Max(s))
    BY <1>3, <2>1, Zenon
  <2> QED BY <2>1, <2>2, <2>3
<1> HIDE DEF chain
<1> QED BY <1>4, <1>5, <1>6, Zenon

\* The folds of the pins.
LEMMA CheckTurns ==
  ASSUME NEW base, NEW changed
  PROVE  L!FoldLeft(LAMBDA h, p : IF p \in changed THEN L!CheckForUpdates(h, p) ELSE h, base, L!InOrder) = Folded(PinCount, <<"check", changed>>, base)
<1> DEFINE how == <<"check", changed>>
           Turns(f) == f = [s \in SUBSET (DOMAIN L!InOrder) |-> IF s = {} THEN base ELSE LET x == L!Max(s) IN (IF L!InOrder[x] \in changed THEN L!CheckForUpdates(f[s \ {x}], L!InOrder[x]) ELSE f[s \ {x}])]
<1>1. L!FoldLeft(LAMBDA h, p : IF p \in changed THEN L!CheckForUpdates(h, p) ELSE h, base, L!InOrder) = (CHOOSE f : Turns(f))[DOMAIN L!InOrder]
  BY DEF L!FoldLeft, L!MapThenFoldSet
<1>2. DOMAIN L!InOrder = 1 .. PinCount /\ \A s : L!Max(s) = Max(s)
  BY DEF L!InOrder, L!Max, Max
<1>3. \A t, i : Turn(how, t, i) = (IF L!InOrder[i] \in changed THEN L!CheckForUpdates(t, L!InOrder[i]) ELSE t)
  BY Zenon DEF Turn
<1> HIDE DEF how
<1>4. ASSUME NEW f PROVE Turns(f) <=> TurnsOf(PinCount, how, base, f)
  BY <1>2, <1>3 DEF TurnsOf
<1> HIDE DEF Turns
<1>5. (CHOOSE f : Turns(f)) = CHOOSE f : TurnsOf(PinCount, how, base, f)
  BY <1>4, Zenon
<1> QED BY <1>1, <1>2, <1>5 DEF Folded, how

LEMMA ClearTurns ==
  ASSUME NEW base, NEW bits
  PROVE  L!FoldLeft(LAMBDA g, p : L!EdgesCleared(g, p, bits), base, L!InOrder) = Folded(PinCount, <<"clear", bits>>, base)
<1> DEFINE how == <<"clear", bits>>
           Turns(f) == f = [s \in SUBSET (DOMAIN L!InOrder) |-> IF s = {} THEN base ELSE LET x == L!Max(s) IN L!EdgesCleared(f[s \ {x}], L!InOrder[x], bits)]
<1>1. L!FoldLeft(LAMBDA g, p : L!EdgesCleared(g, p, bits), base, L!InOrder) = (CHOOSE f : Turns(f))[DOMAIN L!InOrder]
  BY DEF L!FoldLeft, L!MapThenFoldSet
<1>2. DOMAIN L!InOrder = 1 .. PinCount /\ \A s : L!Max(s) = Max(s)
  BY DEF L!InOrder, L!Max, Max
<1>3. \A t, i : Turn(how, t, i) = L!EdgesCleared(t, L!InOrder[i], bits)
  BY Zenon DEF Turn
<1> HIDE DEF how
<1>4. ASSUME NEW f PROVE Turns(f) <=> TurnsOf(PinCount, how, base, f)
  BY <1>2, <1>3 DEF TurnsOf
<1> HIDE DEF Turns
<1>5. (CHOOSE f : Turns(f)) = CHOOSE f : TurnsOf(PinCount, how, base, f)
  BY <1>4, Zenon
<1> QED BY <1>1, <1>2, <1>5 DEF Folded, how

LEMMA EnableTurns ==
  ASSUME NEW base, NEW w
  PROVE  L!FoldLeft(LAMBDA g, p : L!EnableWritten(g, p, w[p]), base, L!InOrder) = Folded(PinCount, <<"enable", w>>, base)
<1> DEFINE how == <<"enable", w>>
           Turns(f) == f = [s \in SUBSET (DOMAIN L!InOrder) |-> IF s = {} THEN base ELSE LET x == L!Max(s) IN L!EnableWritten(f[s \ {x}], L!InOrder[x], w[L!InOrder[x]])]
<1>1. L!FoldLeft(LAMBDA g, p : L!EnableWritten(g, p, w[p]), base, L!InOrder) = (CHOOSE f : Turns(f))[DOMAIN L!InOrder]
  BY DEF L!FoldLeft, L!MapThenFoldSet
<1>2. DOMAIN L!InOrder = 1 .. PinCount /\ \A s : L!Max(s) = Max(s)
  BY DEF L!InOrder, L!Max, Max
<1>3. \A t, i : Turn(how, t, i) = L!EnableWritten(t, L!InOrder[i], w[L!InOrder[i]])
  BY Zenon DEF Turn
<1> HIDE DEF how
<1>4. ASSUME NEW f PROVE Turns(f) <=> TurnsOf(PinCount, how, base, f)
  <2>1. \A s : L!EnableWritten(f[s \ {Max(s)}], L!InOrder[Max(s)], w[L!InOrder[Max(s)]]) = Turn(how, f[s \ {Max(s)}], Max(s))
    BY <1>3, Zenon
  <2>2. [s \in SUBSET (1 .. PinCount) |-> IF s = {} THEN base ELSE L!EnableWritten(f[s \ {Max(s)}], L!InOrder[Max(s)], w[L!InOrder[Max(s)]])]
        = [s \in SUBSET (1 .. PinCount) |-> IF s = {} THEN base ELSE Turn(how, f[s \ {Max(s)}], Max(s))]
    BY <2>1, Zenon
  <2>3. Turns(f) <=> f = [s \in SUBSET (1 .. PinCount) |-> IF s = {} THEN base ELSE L!EnableWritten(f[s \ {Max(s)}], L!InOrder[Max(s)], w[L!InOrder[Max(s)]])]
    BY <1>2, Zenon
  <2> QED BY <2>2, <2>3, Zenon DEF TurnsOf
<1> HIDE DEF Turns
<1>5. (CHOOSE f : Turns(f)) = CHOOSE f : TurnsOf(PinCount, how, base, f)
  BY <1>4, Zenon
<1> QED BY <1>1, <1>2, <1>5 DEF Folded, how

LEMMA ForceTurns ==
  ASSUME NEW base, NEW w
  PROVE  L!FoldLeft(LAMBDA g, p : L!ForceWritten(g, p, w[p]), base, L!InOrder) = Folded(PinCount, <<"force", w>>, base)
<1> DEFINE how == <<"force", w>>
           Turns(f) == f = [s \in SUBSET (DOMAIN L!InOrder) |-> IF s = {} THEN base ELSE LET x == L!Max(s) IN L!ForceWritten(f[s \ {x}], L!InOrder[x], w[L!InOrder[x]])]
<1>1. L!FoldLeft(LAMBDA g, p : L!ForceWritten(g, p, w[p]), base, L!InOrder) = (CHOOSE f : Turns(f))[DOMAIN L!InOrder]
  BY DEF L!FoldLeft, L!MapThenFoldSet
<1>2. DOMAIN L!InOrder = 1 .. PinCount /\ \A s : L!Max(s) = Max(s)
  BY DEF L!InOrder, L!Max, Max
<1>3. \A t, i : Turn(how, t, i) = L!ForceWritten(t, L!InOrder[i], w[L!InOrder[i]])
  BY Zenon DEF Turn
<1> HIDE DEF how
<1>4. ASSUME NEW f PROVE Turns(f) <=> TurnsOf(PinCount, how, base, f)
  <2>1. \A s : L!ForceWritten(f[s \ {Max(s)}], L!InOrder[Max(s)], w[L!InOrder[Max(s)]]) = Turn(how, f[s \ {Max(s)}], Max(s))
    BY <1>3, Zenon
  <2>2. [s \in SUBSET (1 .. PinCount) |-> IF s = {} THEN base ELSE L!ForceWritten(f[s \ {Max(s)}], L!InOrder[Max(s)], w[L!InOrder[Max(s)]])]
        = [s \in SUBSET (1 .. PinCount) |-> IF s = {} THEN base ELSE Turn(how, f[s \ {Max(s)}], Max(s))]
    BY <2>1, Zenon
  <2>3. Turns(f) <=> f = [s \in SUBSET (1 .. PinCount) |-> IF s = {} THEN base ELSE L!ForceWritten(f[s \ {Max(s)}], L!InOrder[Max(s)], w[L!InOrder[Max(s)]])]
    BY <1>2, Zenon
  <2> QED BY <2>2, <2>3, Zenon DEF TurnsOf
<1> HIDE DEF Turns
<1>5. (CHOOSE f : Turns(f)) = CHOOSE f : TurnsOf(PinCount, how, base, f)
  BY <1>4, Zenon
<1> QED BY <1>1, <1>2, <1>5 DEF Folded, how

LEMMA ResetTurns ==
  ASSUME NEW base
  PROVE  L!FoldLeft(L!PinReset, base, L!InOrder) = Folded(PinCount, <<"reset">>, base)
<1> DEFINE how == <<"reset">>
           Turns(f) == f = [s \in SUBSET (DOMAIN L!InOrder) |-> IF s = {} THEN base ELSE LET x == L!Max(s) IN L!PinReset(f[s \ {x}], L!InOrder[x])]
<1>1. L!FoldLeft(L!PinReset, base, L!InOrder) = (CHOOSE f : Turns(f))[DOMAIN L!InOrder]
  BY DEF L!FoldLeft, L!MapThenFoldSet
<1>2. DOMAIN L!InOrder = 1 .. PinCount /\ \A s : L!Max(s) = Max(s)
  BY DEF L!InOrder, L!Max, Max
<1>3. \A t, i : Turn(how, t, i) = L!PinReset(t, L!InOrder[i])
  BY Zenon DEF Turn
<1> HIDE DEF how
<1>4. ASSUME NEW f PROVE Turns(f) <=> TurnsOf(PinCount, how, base, f)
  BY <1>2, <1>3 DEF TurnsOf
<1> HIDE DEF Turns
<1>5. (CHOOSE f : Turns(f)) = CHOOSE f : TurnsOf(PinCount, how, base, f)
  BY <1>4, Zenon
<1> QED BY <1>1, <1>2, <1>5 DEF Folded, how

\* The folds of the USB.
LEMMA WriteTurns ==
  ASSUME NEW base, NEW slot, NEW seq, NEW n \in Nat, DOMAIN seq = 1 .. n
  PROVE  D!FoldLeft(LAMBDA u, write : D!FinishWrite(u, slot, write), base, seq) = Folded(n, <<"write", slot, seq>>, base)
<1> DEFINE how == <<"write", slot, seq>>
           Turns(f) == f = [s \in SUBSET (DOMAIN seq) |-> IF s = {} THEN base ELSE LET x == D!Max(s) IN D!FinishWrite(f[s \ {x}], slot, seq[x])]
<1>1. D!FoldLeft(LAMBDA u, write : D!FinishWrite(u, slot, write), base, seq) = (CHOOSE f : Turns(f))[DOMAIN seq]
  BY DEF D!FoldLeft, D!MapThenFoldSet
<1>2. DOMAIN seq = 1 .. n /\ \A s : D!Max(s) = Max(s)
  BY DEF D!Max, Max
<1>3. \A t, i : Turn(how, t, i) = D!FinishWrite(t, slot, seq[i])
  BY Zenon DEF Turn
<1> HIDE DEF how
<1>4. ASSUME NEW f PROVE Turns(f) <=> TurnsOf(n, how, base, f)
  <2>1. \A s : D!FinishWrite(f[s \ {Max(s)}], slot, seq[Max(s)]) = Turn(how, f[s \ {Max(s)}], Max(s))
    BY <1>3, Zenon
  <2>2. [s \in SUBSET (1 .. n) |-> IF s = {} THEN base ELSE D!FinishWrite(f[s \ {Max(s)}], slot, seq[Max(s)])]
        = [s \in SUBSET (1 .. n) |-> IF s = {} THEN base ELSE Turn(how, f[s \ {Max(s)}], Max(s))]
    BY <2>1, Zenon
  <2>3. Turns(f) <=> f = [s \in SUBSET (1 .. n) |-> IF s = {} THEN base ELSE D!FinishWrite(f[s \ {Max(s)}], slot, seq[Max(s)])]
    BY <1>2, Zenon
  <2> QED BY <2>2, <2>3, Zenon DEF TurnsOf
<1> HIDE DEF Turns
<1>5. (CHOOSE f : Turns(f)) = CHOOSE f : TurnsOf(n, how, base, f)
  BY <1>4, Zenon
<1> QED BY <1>1, <1>2, <1>5 DEF Folded, how

LEMMA ReactTurns ==
  ASSUME NEW base, NEW slot, NEW seq, NEW n \in Nat, DOMAIN seq = 1 .. n
  PROVE  D!FoldLeft(LAMBDA u, data : D!HostGets(u, slot, data), base, seq) = Folded(n, <<"react", slot, seq>>, base)
<1> DEFINE how == <<"react", slot, seq>>
           Turns(f) == f = [s \in SUBSET (DOMAIN seq) |-> IF s = {} THEN base ELSE LET x == D!Max(s) IN D!HostGets(f[s \ {x}], slot, seq[x])]
<1>1. D!FoldLeft(LAMBDA u, data : D!HostGets(u, slot, data), base, seq) = (CHOOSE f : Turns(f))[DOMAIN seq]
  BY DEF D!FoldLeft, D!MapThenFoldSet
<1>2. DOMAIN seq = 1 .. n /\ \A s : D!Max(s) = Max(s)
  BY DEF D!Max, Max
<1>3. \A t, i : Turn(how, t, i) = D!HostGets(t, slot, seq[i])
  BY Zenon DEF Turn
<1> HIDE DEF how
<1>4. ASSUME NEW f PROVE Turns(f) <=> TurnsOf(n, how, base, f)
  <2>1. \A s : D!HostGets(f[s \ {Max(s)}], slot, seq[Max(s)]) = Turn(how, f[s \ {Max(s)}], Max(s))
    BY <1>3, Zenon
  <2>2. [s \in SUBSET (1 .. n) |-> IF s = {} THEN base ELSE D!HostGets(f[s \ {Max(s)}], slot, seq[Max(s)])]
        = [s \in SUBSET (1 .. n) |-> IF s = {} THEN base ELSE Turn(how, f[s \ {Max(s)}], Max(s))]
    BY <2>1, Zenon
  <2>3. Turns(f) <=> f = [s \in SUBSET (1 .. n) |-> IF s = {} THEN base ELSE D!HostGets(f[s \ {Max(s)}], slot, seq[Max(s)])]
    BY <1>2, Zenon
  <2> QED BY <2>2, <2>3, Zenon DEF TurnsOf
<1> HIDE DEF Turns
<1>5. (CHOOSE f : Turns(f)) = CHOOSE f : TurnsOf(n, how, base, f)
  BY <1>4, Zenon
<1> QED BY <1>1, <1>2, <1>5 DEF Folded, how

LEMMA ReadTurns ==
  ASSUME NEW base, NEW seq, NEW n \in Nat, DOMAIN seq = 1 .. n
  PROVE  D!FoldLeft(D!FinishRead, base, seq) = Folded(n, <<"read", seq>>, base)
<1> DEFINE how == <<"read", seq>>
           Turns(f) == f = [s \in SUBSET (DOMAIN seq) |-> IF s = {} THEN base ELSE LET x == D!Max(s) IN D!FinishRead(f[s \ {x}], seq[x])]
<1>1. D!FoldLeft(D!FinishRead, base, seq) = (CHOOSE f : Turns(f))[DOMAIN seq]
  BY DEF D!FoldLeft, D!MapThenFoldSet
<1>2. DOMAIN seq = 1 .. n /\ \A s : D!Max(s) = Max(s)
  BY DEF D!Max, Max
<1>3. \A t, i : Turn(how, t, i) = D!FinishRead(t, seq[i])
  BY Zenon DEF Turn
<1> HIDE DEF how
<1>4. ASSUME NEW f PROVE Turns(f) <=> TurnsOf(n, how, base, f)
  <2>1. \A s : D!FinishRead(f[s \ {Max(s)}], seq[Max(s)]) = Turn(how, f[s \ {Max(s)}], Max(s))
    BY <1>3, Zenon
  <2>2. [s \in SUBSET (1 .. n) |-> IF s = {} THEN base ELSE D!FinishRead(f[s \ {Max(s)}], seq[Max(s)])]
        = [s \in SUBSET (1 .. n) |-> IF s = {} THEN base ELSE Turn(how, f[s \ {Max(s)}], Max(s))]
    BY <2>1, Zenon
  <2>3. Turns(f) <=> f = [s \in SUBSET (1 .. n) |-> IF s = {} THEN base ELSE D!FinishRead(f[s \ {Max(s)}], seq[Max(s)])]
    BY <1>2, Zenon
  <2> QED BY <2>2, <2>3, Zenon DEF TurnsOf
<1> HIDE DEF Turns
<1>5. (CHOOSE f : Turns(f)) = CHOOSE f : TurnsOf(n, how, base, f)
  BY <1>4, Zenon
<1> QED BY <1>1, <1>2, <1>5 DEF Folded, how

LEMMA FlushTurns ==
  ASSUME NEW base, NEW seq, NEW n \in Nat, DOMAIN seq = 1 .. n
  PROVE  D!FoldLeft(LAMBDA u, arm : IF u.tx = << >> THEN u ELSE D!CompleteOutRead([u EXCEPT !.parked = u.parked - 1]), base, seq) = Folded(n, <<"flush">>, base)
<1> DEFINE how == <<"flush">>
           Turns(f) == f = [s \in SUBSET (DOMAIN seq) |-> IF s = {} THEN base ELSE LET x == D!Max(s) IN (IF f[s \ {x}].tx = << >> THEN f[s \ {x}] ELSE D!CompleteOutRead([f[s \ {x}] EXCEPT !.parked = f[s \ {x}].parked - 1]))]
<1>1. D!FoldLeft(LAMBDA u, arm : IF u.tx = << >> THEN u ELSE D!CompleteOutRead([u EXCEPT !.parked = u.parked - 1]), base, seq) = (CHOOSE f : Turns(f))[DOMAIN seq]
  BY DEF D!FoldLeft, D!MapThenFoldSet
<1>2. DOMAIN seq = 1 .. n /\ \A s : D!Max(s) = Max(s)
  BY DEF D!Max, Max
<1>3. \A t, i : Turn(how, t, i) = (IF t.tx = << >> THEN t ELSE D!CompleteOutRead([t EXCEPT !.parked = t.parked - 1]))
  BY Zenon DEF Turn
<1> HIDE DEF how
<1>4. ASSUME NEW f PROVE Turns(f) <=> TurnsOf(n, how, base, f)
  <2>1. \A s : (IF f[s \ {Max(s)}].tx = << >> THEN f[s \ {Max(s)}] ELSE D!CompleteOutRead([f[s \ {Max(s)}] EXCEPT !.parked = f[s \ {Max(s)}].parked - 1])) = Turn(how, f[s \ {Max(s)}], Max(s))
    BY <1>3, Zenon
  <2>2. [s \in SUBSET (1 .. n) |-> IF s = {} THEN base ELSE (IF f[s \ {Max(s)}].tx = << >> THEN f[s \ {Max(s)}] ELSE D!CompleteOutRead([f[s \ {Max(s)}] EXCEPT !.parked = f[s \ {Max(s)}].parked - 1]))]
        = [s \in SUBSET (1 .. n) |-> IF s = {} THEN base ELSE Turn(how, f[s \ {Max(s)}], Max(s))]
    BY <2>1, Zenon
  <2>3. Turns(f) <=> f = [s \in SUBSET (1 .. n) |-> IF s = {} THEN base ELSE (IF f[s \ {Max(s)}].tx = << >> THEN f[s \ {Max(s)}] ELSE D!CompleteOutRead([f[s \ {Max(s)}] EXCEPT !.parked = f[s \ {Max(s)}].parked - 1]))]
    BY <1>2, Zenon
  <2> QED BY <2>2, <2>3, Zenon DEF TurnsOf
<1> HIDE DEF Turns
<1>5. (CHOOSE f : Turns(f)) = CHOOSE f : TurnsOf(n, how, base, f)
  BY <1>4, Zenon
<1> QED BY <1>1, <1>2, <1>5 DEF Folded, how

-----------------------------------------------------------------------------
(* The line of the pins. *)

\* The fields that the line depends on are there, and no pin overrides its interrupt.
GpioFields == {"line", "ctrl", "irq", "enable", "force"}
GpioNormal(g) ==
  /\ GpioFields \subseteq DOMAIN g
  /\ DOMAIN g.ctrl = L!Pins /\ DOMAIN g.irq = L!Pins /\ DOMAIN g.enable = L!Pins /\ DOMAIN g.force = L!Pins
  /\ \A p \in L!Pins : g.ctrl[p].irqover = "normal"
GpioAsks(g, p) == g.irq[p] \cap g.enable[p] # {} \/ g.force[p] # {}
GpioLined(g) == GpioNormal(g) /\ g.line = (\E p \in L!Pins : GpioAsks(g, p))

LEMMA GpioIrqIs ==
  ASSUME NEW g, GpioNormal(g)
  PROVE  /\ \A p \in L!Pins : L!IrqValue(g, p) = GpioAsks(g, p)
         /\ L!AnyIrqValue(g) = (\E p \in L!Pins : GpioAsks(g, p))
<1>1. ASSUME NEW p \in L!Pins PROVE L!IrqValue(g, p) = GpioAsks(g, p)
  <2>1. g.ctrl[p].irqover = "normal"
    BY DEF GpioNormal
  <2>2. L!IrqValue(g, p) = L!Overridden(GpioAsks(g, p), "normal")
    BY <2>1, Zenon DEF L!IrqValue, GpioAsks
  <2>3. \A v : L!Overridden(v, "normal") = v
    BY Zenon DEF L!Overridden
  <2> QED BY <2>2, <2>3, Zenon
<1>2. (\E p \in L!Pins : L!IrqValue(g, p)) = (\E p \in L!Pins : GpioAsks(g, p))
  BY <1>1, Zenon
<1> QED BY <1>1, <1>2, Zenon DEF L!AnyIrqValue

\* What the line does not depend on.
LEMMA GpioKeepsLine ==
  ASSUME NEW g, NEW v
  PROVE  /\ GpioLined(g) => /\ GpioLined([g EXCEPT !.last = v]) /\ GpioLined([g EXCEPT !.raw = v]) /\ GpioLined([g EXCEPT !.driven = v])
                            /\ GpioLined([g EXCEPT !.pad = v]) /\ GpioLined([g EXCEPT !.wait = v]) /\ GpioLined([g EXCEPT !.unheard = v])
                            /\ \A w : GpioLined([g EXCEPT !.out = v, !.oe = w])
  BY Zenon DEF GpioLined, GpioNormal, GpioFields, GpioAsks

LEMMA GpioUpdates ==
  ASSUME NEW g, GpioNormal(g)
  PROVE  GpioLined(L!UpdateIoInterrupt(g))
<1> DEFINE line == \E p \in L!Pins : GpioAsks(g, p)
           e == [g EXCEPT !.line = line]
<1>1. L!UpdateIoInterrupt(g) = e
  BY GpioIrqIs, Zenon DEF L!UpdateIoInterrupt
<1> HIDE DEF line
<1>2. GpioNormal(e) /\ e.line = line /\ e.irq = g.irq /\ e.enable = g.enable /\ e.force = g.force
  BY Zenon DEF GpioNormal, GpioFields
<1> HIDE DEF e
<1>3. \A p : GpioAsks(e, p) <=> GpioAsks(g, p)
  BY <1>2, Zenon DEF GpioAsks
<1> QED BY <1>1, <1>2, <1>3, Zenon DEF GpioLined, line

\* A pin's bits change.
LEMMA GpioStaysNormal ==
  ASSUME NEW g, GpioNormal(g), NEW f, DOMAIN f = L!Pins
  PROVE  GpioNormal([g EXCEPT !.irq = f]) /\ GpioNormal([g EXCEPT !.enable = f]) /\ GpioNormal([g EXCEPT !.force = f])
  BY Zenon DEF GpioNormal, GpioFields

LEMMA GpioSyncs ==
  ASSUME NEW g, GpioNormal(g), NEW p, NEW edges, NEW synced, synced = L!Synced(g, p, edges)
  PROVE  /\ GpioNormal(synced) /\ synced.line = g.line /\ synced.enable = g.enable /\ synced.force = g.force
         /\ \A q : q # p => synced.irq[q] = g.irq[q]
<1> DEFINE latched == IF edges /\ L!SeenLevel(g, p) # g.seen[p] THEN {L!EdgeBit(L!SeenLevel(g, p))} ELSE {}
           seen == [g.seen EXCEPT ![p] = L!SeenLevel(g, p)]
           bits == (g.irq[p] \cap L!Edges) \cup latched \cup {L!LevelBit(L!SeenLevel(g, p))}
           irq == [g.irq EXCEPT ![p] = bits]
           s == [g EXCEPT !.seen = seen, !.irq = irq]
<1>1. L!Synced(g, p, edges) = s
  BY Zenon DEF L!Synced
<1> HIDE DEF bits
<1>2. DOMAIN irq = DOMAIN g.irq /\ \A q : q # p => irq[q] = g.irq[q]
  OBVIOUS
<1> HIDE DEF irq, seen
<1>3. s.irq = irq /\ s.line = g.line /\ s.enable = g.enable /\ s.force = g.force /\ s.ctrl = g.ctrl /\ DOMAIN s = DOMAIN g
  BY Zenon DEF GpioNormal, GpioFields
<1> HIDE DEF s
<1>4. GpioNormal(s)
  BY <1>2, <1>3, Zenon DEF GpioNormal
<1> QED BY <1>1, <1>2, <1>3, <1>4

\* A pin whose request changes with its level tells the line.
LEMMA ApplyLines ==
  ASSUME NEW g, GpioLined(g), NEW p \in L!Pins, NEW v
  PROVE  GpioLined(L!ApplyInputValue(g, p, v))
<1> DEFINE r == [g EXCEPT !.raw = [g.raw EXCEPT ![p] = v]]
           s == L!Synced(r, p, TRUE)
           t == IF L!IrqValue(s, p) # L!IrqValue(r, p) THEN L!UpdateIoInterrupt(s) ELSE s
<1>1. L!ApplyInputValue(g, p, v) = L!PinWaitsChecked(t, p)
  BY Zenon DEF L!ApplyInputValue
<1>2. GpioLined(r)
  BY GpioKeepsLine, Zenon
<1> HIDE DEF r
<1>3. /\ GpioNormal(r) /\ GpioNormal(s) /\ s.line = r.line /\ s.enable = r.enable /\ s.force = r.force
      /\ \A q : q # p => s.irq[q] = r.irq[q]
  <2>1. GpioNormal(r)
    BY <1>2, Zenon DEF GpioLined
  <2> DEFINE yes == TRUE
  <2>2. s = L!Synced(r, p, yes)
    OBVIOUS
  <2> HIDE DEF s, yes
  <2> QED BY <2>1, <2>2, GpioSyncs
<1> HIDE DEF s
<1>4. GpioLined(t)
  <2>1. CASE L!IrqValue(s, p) # L!IrqValue(r, p)
    BY <1>3, <2>1, GpioUpdates, Zenon
  <2>2. CASE L!IrqValue(s, p) = L!IrqValue(r, p)
    <3>1. GpioAsks(s, p) = GpioAsks(r, p)
      BY <1>3, <2>2, GpioIrqIs, Zenon
    <3>2. \A q : q # p => (GpioAsks(s, q) <=> GpioAsks(r, q))
      BY <1>3, Zenon DEF GpioAsks
    <3>3. (\E q \in L!Pins : GpioAsks(s, q)) <=> (\E q \in L!Pins : GpioAsks(r, q))
      BY <3>1, <3>2, Zenon
    <3>4. GpioLined(s)
      BY <1>2, <1>3, <3>3, Zenon DEF GpioLined
    <3> QED BY <2>2, <3>4, Zenon
  <2> QED BY <2>1, <2>2, Zenon
<1> HIDE DEF t
<1>5. GpioLined(L!PinWaitsChecked(t, p))
  BY <1>4, GpioKeepsLine, Zenon DEF L!PinWaitsChecked
<1> QED BY <1>1, <1>5

LEMMA PinsLine ==
  ASSUME NEW g, GpioLined(g), NEW p \in L!Pins
  PROVE  /\ GpioLined(L!RefreshInput(g, p)) /\ GpioLined(L!ReleaseInput(g, p)) /\ GpioLined(L!PadChanged(g, p))
         /\ \A v : GpioLined(L!SetInputValue(g, p, v))
<1>1. GpioLined(L!RefreshInput(g, p))
  BY ApplyLines, Zenon DEF L!RefreshInput
<1>2. GpioLined(L!PadChanged(g, p))
  BY <1>1, Zenon DEF L!PadChanged
<1>3. \A w : GpioLined([g EXCEPT !.driven[p] = w])
  BY GpioKeepsLine, Zenon
<1>4. GpioLined(L!ReleaseInput(g, p))
  BY <1>3, ApplyLines, Zenon DEF L!ReleaseInput
<1>5. ASSUME NEW v PROVE GpioLined(L!SetInputValue(g, p, v))
  BY <1>3, ApplyLines, Zenon DEF L!SetInputValue
<1> QED BY <1>1, <1>2, <1>4, <1>5, Zenon

LEMMA PinsAre == PinCount \in Nat /\ L!EndA \in L!Pins /\ L!EndB \in L!Pins /\ DOMAIN L!InOrder = 1 .. PinCount
                 /\ \A i \in 1 .. PinCount : L!InOrder[i] = i - 1 /\ L!InOrder[i] \in L!Pins
<1>1. PinCount \in Nat \ {0, 1}
  BY DevicesAssumption DEF L!GpioAssumption
<1> QED BY <1>1 DEF L!EndA, L!EndB, L!Pins, L!InOrder

\* The wire carries a level by the same methods.
LEMMA CarriedLines ==
  ASSUME NEW g, GpioLined(g)
  PROVE  GpioLined(L!Carried(g))
<1> DEFINE From(source, sink) ==
             LET s == L!SetInputValue(g, sink, L!Value(g, source) = "HIGH")
             IN  IF s.driven[source] THEN L!ReleaseInput(s, source) ELSE s
<1>1. ASSUME NEW source \in L!Pins, NEW sink \in L!Pins PROVE GpioLined(From(source, sink))
  <2> DEFINE s == L!SetInputValue(g, sink, L!Value(g, source) = "HIGH")
  <2>1. GpioLined(s)
    BY <1>1, PinsLine
  <2> HIDE DEF s
  <2>2. GpioLined(L!ReleaseInput(s, source))
    BY <1>1, <2>1, PinsLine
  <2>3. From(source, sink) = IF s.driven[source] THEN L!ReleaseInput(s, source) ELSE s
    BY DEF s
  <2> QED BY <2>1, <2>2, <2>3, Zenon
<1>2. GpioLined(L!ReleaseInput(L!ReleaseInput(g, L!EndA), L!EndB))
  BY PinsAre, PinsLine, Zenon
<1>3. L!Carried(g) \in {From(L!EndA, L!EndB), From(L!EndB, L!EndA), L!ReleaseInput(L!ReleaseInput(g, L!EndA), L!EndB)}
  BY Zenon DEF L!Carried
<1> HIDE DEF From
<1> QED BY <1>1, <1>2, <1>3, PinsAre, Zenon

LEMMA CheckForUpdatesLines ==
  ASSUME NEW g, GpioLined(g), NEW p \in L!Pins
  PROVE  GpioLined(L!CheckForUpdates(g, p))
<1> DEFINE e == [g EXCEPT !.last[p] = L!Value(g, p)]
           t == L!Told(e, p)
<1>1. GpioLined(e)
  BY GpioKeepsLine, Zenon
<1>2. L!CheckForUpdates(g, p) \in {g, t, L!RefreshInput(t, p)}
  BY Zenon DEF L!CheckForUpdates
<1> HIDE DEF e
<1>3. GpioLined(t)
  BY <1>1, CarriedLines, GpioKeepsLine, Zenon DEF L!Told
<1> HIDE DEF t
<1> QED BY <1>2, <1>3, PinsLine, Zenon

\* A fold of methods that keep the line right does.
LEMMA PinTurnsLine ==
  ASSUME NEW g, GpioLined(g), NEW how,
         \A t : \A i \in 1 .. PinCount : GpioLined(t) => GpioLined(Turn(how, t, i))
  PROVE  GpioLined(Folded(PinCount, how, g))
<1>1. PinCount \in Nat
  BY PinsAre
<1>2. PICK chain : /\ chain[0] = g /\ chain[PinCount] = Folded(PinCount, how, g)
                   /\ \A k \in 0 .. PinCount - 1 : chain[k + 1] = Turn(how, chain[k], k + 1)
  BY <1>1, TurnsAreAChain
<1> DEFINE Holds == {k \in 0 .. PinCount : GpioLined(chain[k])}
<1>3. 0 \in Holds
  BY <1>1, <1>2
<1>4. ASSUME NEW k \in 0 .. PinCount - 1, k \in Holds PROVE k + 1 \in Holds
  <2>1. k + 1 \in 1 .. PinCount /\ k + 1 \in 0 .. PinCount
    BY <1>1
  <2>2. GpioLined(chain[k])
    BY <1>4
  <2>3. GpioLined(Turn(how, chain[k], k + 1))
    BY <2>1, <2>2
  <2>4. chain[k + 1] = Turn(how, chain[k], k + 1)
    BY <1>2
  <2> QED BY <2>1, <2>3, <2>4
<1>5. PinCount \in Holds
  <2> HIDE DEF Holds
  <2> QED BY <1>1, <1>3, <1>4, UpTo
<1> QED BY <1>2, <1>5

LEMMA CheckPinsLines ==
  ASSUME NEW g, GpioLined(g), NEW changed
  PROVE  GpioLined(L!CheckPins(g, changed))
<1> DEFINE how == <<"check", changed>>
<1>1. \A t, i : Turn(how, t, i) = IF L!InOrder[i] \in changed THEN L!CheckForUpdates(t, L!InOrder[i]) ELSE t
  BY Zenon DEF Turn
<1>2. L!CheckPins(g, changed) = Folded(PinCount, how, g)
  BY CheckTurns DEF L!CheckPins
<1> HIDE DEF how
<1>3. \A t : \A i \in 1 .. PinCount : GpioLined(t) => GpioLined(Turn(how, t, i))
  BY <1>1, PinsAre, CheckForUpdatesLines, Zenon
<1> QED BY <1>2, <1>3, PinTurnsLine

\* The folds of the words of INTR, INTE and INTF.
ClearedAll(g, bits) == L!FoldLeft(LAMBDA h, p : L!EdgesCleared(h, p, bits), g, L!InOrder)
EnabledAll(g, w) == L!FoldLeft(LAMBDA h, p : L!EnableWritten(h, p, w[p]), g, L!InOrder)
ForcedAll(g, w) == L!FoldLeft(LAMBDA h, p : L!ForceWritten(h, p, w[p]), g, L!InOrder)

LEMMA WordsLine ==
  ASSUME NEW g, GpioLined(g)
  PROVE  /\ \A bits : GpioLined(ClearedAll(g, bits))
         /\ \A w : GpioLined(EnabledAll(g, w))
         /\ \A w : GpioLined(ForcedAll(g, w))
<1>1. ASSUME NEW t, GpioLined(t), NEW p, NEW bits
      PROVE  GpioLined(L!EdgesCleared(t, p, bits)) /\ GpioLined(L!EnableWritten(t, p, bits)) /\ GpioLined(L!ForceWritten(t, p, bits))
  <2>0. GpioNormal(t) /\ DOMAIN t.irq = L!Pins /\ DOMAIN t.enable = L!Pins /\ DOMAIN t.force = L!Pins
    BY <1>1, Zenon DEF GpioLined, GpioNormal
  <2>1. \A v : /\ DOMAIN [t.irq EXCEPT ![p] = v] = L!Pins /\ DOMAIN [t.enable EXCEPT ![p] = v] = L!Pins
               /\ DOMAIN [t.force EXCEPT ![p] = v] = L!Pins
    BY <2>0, Zenon
  <2>2. \A v : GpioNormal([t EXCEPT !.irq[p] = v]) /\ GpioNormal([t EXCEPT !.enable[p] = v]) /\ GpioNormal([t EXCEPT !.force[p] = v])
    BY <2>0, <2>1, GpioStaysNormal, Zenon
  <2>3. GpioLined(L!EdgesCleared(t, p, bits))
    BY <1>1, <2>2, GpioUpdates, Zenon DEF L!EdgesCleared
  <2>4. GpioLined(L!EnableWritten(t, p, bits)) /\ GpioLined(L!ForceWritten(t, p, bits))
    BY <1>1, <2>2, GpioUpdates, Zenon DEF L!EnableWritten, L!ForceWritten
  <2> QED BY <2>3, <2>4
<1>2. ASSUME NEW bits PROVE GpioLined(ClearedAll(g, bits))
  <2> DEFINE how == <<"clear", bits>>
  <2>1. \A t, i : Turn(how, t, i) = L!EdgesCleared(t, L!InOrder[i], bits)
    BY Zenon DEF Turn
  <2>2. ClearedAll(g, bits) = Folded(PinCount, how, g)
    BY ClearTurns DEF ClearedAll
  <2> HIDE DEF how
  <2> QED BY <1>1, <2>1, <2>2, PinTurnsLine
<1>3. ASSUME NEW w PROVE GpioLined(EnabledAll(g, w))
  <2> DEFINE how == <<"enable", w>>
  <2>1. \A t, i : Turn(how, t, i) = L!EnableWritten(t, L!InOrder[i], w[L!InOrder[i]])
    BY Zenon DEF Turn
  <2>2. EnabledAll(g, w) = Folded(PinCount, how, g)
    BY EnableTurns DEF EnabledAll
  <2> HIDE DEF how
  <2>3. \A t : \A i \in 1 .. PinCount : GpioLined(t) => GpioLined(Turn(how, t, i))
    BY <1>1, <2>1, Zenon
  <2> QED BY <2>2, <2>3, PinTurnsLine
<1>4. ASSUME NEW w PROVE GpioLined(ForcedAll(g, w))
  <2> DEFINE how == <<"force", w>>
  <2>1. \A t, i : Turn(how, t, i) = L!ForceWritten(t, L!InOrder[i], w[L!InOrder[i]])
    BY Zenon DEF Turn
  <2>2. ForcedAll(g, w) = Folded(PinCount, how, g)
    BY ForceTurns DEF ForcedAll
  <2> HIDE DEF how
  <2>3. \A t : \A i \in 1 .. PinCount : GpioLined(t) => GpioLined(Turn(how, t, i))
    BY <1>1, <2>1, Zenon
  <2> QED BY <2>2, <2>3, PinTurnsLine
<1> QED BY <1>2, <1>3, <1>4

\* A reset takes every pin its bits away, one after the other, and the line with them.
LEMMA PinResetQuiets ==
  ASSUME NEW g, GpioNormal(g), NEW p \in L!Pins, NEW e, e = L!PinReset(g, p)
  PROVE  /\ GpioNormal(e)
         /\ \A q \in L!Pins : q = p \/ (g.enable[q] = {} /\ g.force[q] = {}) => e.enable[q] = {} /\ e.force[q] = {}
<1> DEFINE ctrl == [g.ctrl EXCEPT ![p] = L!Ctrl0(p)]
           pad == [g.pad EXCEPT ![p] = L!Pad0(p)]
           enable == [g.enable EXCEPT ![p] = {}]
           force == [g.force EXCEPT ![p] = {}]
           irq == [g.irq EXCEPT ![p] = {}]
           r == [g EXCEPT !.ctrl = ctrl, !.pad = pad, !.enable = enable, !.force = force, !.irq = irq]
           no == FALSE
           last == [r.last EXCEPT ![p] = L!Value(r, p)]
           seen == [r.seen EXCEPT ![p] = no]
           t == [r EXCEPT !.last = last, !.seen = seen]
<1>1. L!PinReset(g, p) = L!Synced(t, p, no)
  <2> DEFINE reset == [g EXCEPT !.ctrl[p] = L!Ctrl0(p), !.pad[p] = L!Pad0(p), !.enable[p] = {}, !.force[p] = {}, !.irq[p] = {}]
  <2>1. L!PinReset(g, p) = L!Synced([reset EXCEPT !.last[p] = L!Value(reset, p), !.seen[p] = FALSE], p, FALSE)
    BY DEF L!PinReset
  <2>2. reset = r
    BY Zenon
  <2> HIDE DEF reset, r
  <2> QED BY <2>1, <2>2, Zenon
<1>2. /\ GpioFields \subseteq DOMAIN g /\ DOMAIN g.ctrl = L!Pins /\ DOMAIN g.irq = L!Pins
      /\ DOMAIN g.enable = L!Pins /\ DOMAIN g.force = L!Pins /\ \A q \in L!Pins : g.ctrl[q].irqover = "normal"
  BY Zenon DEF GpioNormal
<1>3. DOMAIN ctrl = L!Pins /\ \A q \in L!Pins : ctrl[q].irqover = "normal"
  <2>1. L!Ctrl0(p).irqover = "normal"
    BY DEF L!Ctrl0
  <2> QED BY <1>2, <2>1, Zenon
<1>4. DOMAIN irq = L!Pins /\ DOMAIN enable = L!Pins /\ DOMAIN force = L!Pins
  BY <1>2, Zenon
<1>5. \A q \in L!Pins : /\ q = p => enable[q] = {} /\ force[q] = {}
                        /\ q # p => enable[q] = g.enable[q] /\ force[q] = g.force[q]
  BY <1>2, Zenon
<1> HIDE DEF ctrl, pad, enable, force, irq, no
<1>6. DOMAIN r = DOMAIN g /\ r.ctrl = ctrl /\ r.irq = irq /\ r.enable = enable /\ r.force = force
  BY <1>2, Zenon DEF GpioFields
<1> HIDE DEF r, last, seen
<1>7. GpioFields \subseteq DOMAIN t /\ t.ctrl = ctrl /\ t.irq = irq /\ t.enable = enable /\ t.force = force
  BY <1>2, <1>6, Zenon DEF GpioFields
<1> HIDE DEF t
<1>8. GpioNormal(t)
  BY <1>3, <1>4, <1>7, Zenon DEF GpioNormal
<1>9. GpioNormal(e) /\ e.enable = t.enable /\ e.force = t.force
  BY <1>1, <1>8, GpioSyncs
<1> QED BY <1>5, <1>7, <1>9

LEMMA GpioResetLines ==
  ASSUME NEW g, GpioLined(g), NEW out, NEW oe, NEW wait, NEW unheard
  PROVE  LET h == L!FoldLeft(L!PinReset, [g EXCEPT !.out = out, !.oe = oe], L!InOrder)
         IN  GpioLined([h EXCEPT !.line = FALSE, !.wait = wait, !.unheard = unheard])
<1> DEFINE base == [g EXCEPT !.out = out, !.oe = oe]
           how == <<"reset">>
           h == L!FoldLeft(L!PinReset, base, L!InOrder)
           Quiet(t, q) == t.enable[q] = {} /\ t.force[q] = {}
<1>1. GpioNormal(base)
  BY GpioKeepsLine, Zenon DEF GpioLined
<1>2. PinCount \in Nat /\ \A i \in 1 .. PinCount : L!InOrder[i] = i - 1 /\ L!InOrder[i] \in L!Pins
  BY PinsAre
<1>3. \A t, i : Turn(how, t, i) = L!PinReset(t, L!InOrder[i])
  BY Zenon DEF Turn
<1>4. h = Folded(PinCount, how, base)
  BY ResetTurns
<1> HIDE DEF how, base
<1>5. PICK chain : /\ chain[0] = base /\ chain[PinCount] = Folded(PinCount, how, base)
                   /\ \A k \in 0 .. PinCount - 1 : chain[k + 1] = Turn(how, chain[k], k + 1)
  BY <1>2, TurnsAreAChain
<1> DEFINE Holds == {k \in 0 .. PinCount : GpioNormal(chain[k]) /\ \A q \in L!Pins : q < k => Quiet(chain[k], q)}
<1>6. 0 \in Holds
  <2>1. \A q \in L!Pins : ~ (q < 0)
    BY DEF L!Pins
  <2> QED BY <1>1, <1>2, <1>5, <2>1
<1>7. ASSUME NEW k \in 0 .. PinCount - 1, k \in Holds PROVE k + 1 \in Holds
  <2>1. k + 1 \in 1 .. PinCount /\ k + 1 \in 0 .. PinCount /\ (k + 1) - 1 = k
    BY <1>2
  <2>2. chain[k + 1] = L!PinReset(chain[k], k) /\ k \in L!Pins
    BY <1>2, <1>3, <1>5, <2>1
  <2>3. GpioNormal(chain[k]) /\ \A q \in L!Pins : q < k => Quiet(chain[k], q)
    BY <1>7
  <2>4. GpioNormal(chain[k + 1])
        /\ \A q \in L!Pins : q = k \/ Quiet(chain[k], q) => Quiet(chain[k + 1], q)
    BY <2>2, <2>3, PinResetQuiets
  <2>5. \A q \in L!Pins : q < k + 1 => q = k \/ q < k
    BY DEF L!Pins
  <2> QED BY <2>1, <2>3, <2>4, <2>5
<1>8. PinCount \in Holds
  <2> HIDE DEF Holds
  <2> QED BY <1>2, <1>6, <1>7, UpTo
<1>9. GpioNormal(h) /\ \A q \in L!Pins : Quiet(h, q)
  <2>1. \A q \in L!Pins : q < PinCount
    BY <1>2 DEF L!Pins
  <2> QED BY <1>4, <1>5, <1>8, <2>1
<1> HIDE DEF h
<1> DEFINE no == FALSE
           e == [h EXCEPT !.line = no, !.wait = wait, !.unheard = unheard]
<1>10. no <=> FALSE
  OBVIOUS
<1> HIDE DEF no
<1>11. GpioNormal(e) /\ e.line = no /\ e.irq = h.irq /\ e.enable = h.enable /\ e.force = h.force
  BY <1>9, Zenon DEF GpioNormal, GpioFields
<1> HIDE DEF e
<1>12. ~ \E q \in L!Pins : GpioAsks(e, q)
  BY <1>9, <1>11 DEF GpioAsks
<1>13. GpioLined(e)
  <2>1. no = FALSE
    BY DEF no
  <2>2. (\E q \in L!Pins : GpioAsks(e, q)) = FALSE
    BY <1>12
  <2> QED BY <1>11, <2>1, <2>2, Zenon DEF GpioLined
<1> QED BY <1>13 DEF e, h, base, no

LEMMA GpioBegins == L!Init => GpioLined(state)
<1> SUFFICES ASSUME L!Init PROVE GpioLined(state)
  OBVIOUS
<1>1. PICK outside : state = L!Built(outside)
  BY DEF L!Init
<1>2. GpioFields \subseteq DOMAIN state /\ state.line = FALSE
  BY <1>1 DEF L!Built, GpioFields
<1>3. /\ state.ctrl = [p \in L!Pins |-> L!Ctrl0(p)] /\ state.irq = [p \in L!Pins |-> {"LEVEL_LOW"}]
      /\ state.enable = [p \in L!Pins |-> {}] /\ state.force = [p \in L!Pins |-> {}]
  BY <1>1 DEF L!Built
<1>4. \A p : L!Ctrl0(p).irqover = "normal"
  BY DEF L!Ctrl0
<1>5. GpioNormal(state)
  BY <1>2, <1>3, <1>4 DEF GpioNormal
<1>6. ~ \E p \in L!Pins : GpioAsks(state, p)
  BY <1>3 DEF GpioAsks
<1> QED BY <1>2, <1>5, <1>6 DEF GpioLined

LEMMA GpioAccessesLine ==
  ASSUME NEW g, GpioLined(g)
  PROVE  /\ \A w : GpioLined(L!OutputsWritten(g, w))
         /\ \A c \in GpioCtrls : GpioLined(L!CtrlWritten(g, c))
         /\ \A d \in GpioPads : GpioLined(L!PadWritten(g, d))
<1>1. ASSUME NEW w PROVE GpioLined(L!OutputsWritten(g, w))
  <2> DEFINE e == [g EXCEPT !.out[w.func] = w.out, !.oe[w.func] = w.oe]
             changed == L!ChangedBits(g.out[w.func], w.out) \cup L!ChangedBits(g.oe[w.func], w.oe)
  <2>1. L!OutputsWritten(g, w) = L!CheckPins(e, changed)
    BY Zenon DEF L!OutputsWritten
  <2>2. GpioLined(e)
    BY GpioKeepsLine, Zenon
  <2> HIDE DEF e, changed
  <2> QED BY <2>1, <2>2, CheckPinsLines
<1>2. ASSUME NEW c \in GpioCtrls PROVE GpioLined(L!CtrlWritten(g, c))
  <2> DEFINE f == [g.ctrl EXCEPT ![c.pin] = c]
             e == [g EXCEPT !.ctrl = f]
  <2>1. c.irqover = "normal" /\ c.pin \in L!Pins
    BY DevicesAssumption DEF L!GpioAssumption, L!CtrlType
  <2>2. GpioNormal(g) /\ g.line = (\E p \in L!Pins : GpioAsks(g, p))
    BY Zenon DEF GpioLined
  <2>3. DOMAIN f = L!Pins /\ \A p \in L!Pins : f[p].irqover = "normal"
    BY <2>1, <2>2, Zenon DEF GpioNormal
  <2>4. L!CtrlWritten(g, c) = L!CheckForUpdates(e, c.pin)
    BY Zenon DEF L!CtrlWritten
  <2> HIDE DEF f
  <2>5. GpioNormal(e) /\ e.line = g.line /\ e.irq = g.irq /\ e.enable = g.enable /\ e.force = g.force
    BY <2>2, <2>3, Zenon DEF GpioNormal, GpioFields
  <2> HIDE DEF e
  <2>6. GpioLined(e)
    BY <2>2, <2>5, Zenon DEF GpioLined, GpioAsks
  <2> QED BY <2>1, <2>4, <2>6, CheckForUpdatesLines
<1>3. ASSUME NEW d \in GpioPads PROVE GpioLined(L!PadWritten(g, d))
  <2>1. d.pin \in L!Pins
    BY DevicesAssumption DEF L!GpioAssumption, L!PadType
  <2>2. GpioLined([g EXCEPT !.pad[d.pin] = d])
    BY GpioKeepsLine, Zenon
  <2> QED BY <2>1, <2>2, CheckForUpdatesLines, PinsLine, Zenon DEF L!PadWritten
<1> QED BY <1>1, <1>2, <1>3

LEMMA GpioStepLined ==
  ASSUME GpioLined(state), L!Next
  PROVE  GpioLined(state')
<1>1. CASE L!WriteOutputs \/ L!WriteCtrl \/ L!WritePad
  BY <1>1, GpioAccessesLine DEF L!WriteOutputs, L!WriteCtrl, L!WritePad
<1>2. CASE L!WriteIntr
  <2>2. \E bits \in SUBSET L!Edges \ {{}} : state' = ClearedAll(state, bits)
    BY <1>2 DEF L!WriteIntr, ClearedAll
  <2>1. PICK bits \in SUBSET L!Edges \ {{}} : state' = ClearedAll(state, bits)
    BY <2>2
  <2> QED BY <2>1, WordsLine
<1>3. CASE L!WriteInte
  <2>2. \E w \in GpioWords : state' = EnabledAll(state, w)
    BY <1>3 DEF L!WriteInte, EnabledAll
  <2>1. PICK w \in GpioWords : state' = EnabledAll(state, w)
    BY <2>2
  <2> QED BY <2>1, WordsLine
<1>4. CASE L!WriteIntf
  <2>2. \E w \in GpioWords : state' = ForcedAll(state, w)
    BY <1>4 DEF L!WriteIntf, ForcedAll
  <2>1. PICK w \in GpioWords : state' = ForcedAll(state, w)
    BY <2>2
  <2> QED BY <2>1, WordsLine
<1>5. CASE L!Press \/ L!Release
  <2>1. 0 \in L!Pins
    BY PinsAre DEF L!EndA
  <2> QED BY <1>5, <2>1, PinsLine DEF L!Press, L!Release
<1>6. CASE L!WaitForPin
  <2>1. PICK w : state' = [state EXCEPT !.wait = w]
    BY <1>6 DEF L!WaitForPin
  <2> QED BY <2>1, GpioKeepsLine
<1>7. CASE L!Reset
  BY <1>7, GpioResetLines DEF L!Reset
<1> QED BY <1>1, <1>2, <1>3, <1>4, <1>5, <1>6, <1>7 DEF L!Next

LEMMA GpioIsLined == GpioLined(state) => L!LineTellsStatus
  BY GpioIrqIs, Zenon DEF GpioLined, L!LineTellsStatus

-----------------------------------------------------------------------------
(* The pin of the wireless chip and what its registers show. *)

GspiFields ==
  {"selected", "command", "response", "rx", "left", "rx_queue", "available", "length", "f2", "pin", "settled", "credit", "queued", "knows"}
GspiPackets == [number : Nat, credit : Int]
\* What is being answered and what is being written have the parts that the end of them uses.
GspiAnswer(r) == {"kind", "words"} \subseteq DOMAIN r /\ (r.kind = "status" => "length" \in DOMAIN r /\ r.length \in Nat)
                 /\ (r # B!Nothing => r.kind \in {"status", "interrupt", "packet"})
GspiCommand(c) == {"kind", "words", "size"} \subseteq DOMAIN c /\ c.size \in Nat
                  /\ (c # B!Nothing => c.kind \in {"clear", "send"})

GspiData(b) ==
  /\ GspiFields \subseteq DOMAIN b
  /\ b.left \in Nat /\ b.queued \in Nat /\ b.knows \in Nat /\ b.credit \in Int /\ b.rx_queue \in Seq(GspiPackets)
  /\ b.selected \in BOOLEAN /\ GspiAnswer(b.response) /\ GspiCommand(b.command)
GspiShows(b) ==
  /\ b.left > 0 => b.rx.number \in Nat
  /\ b.available = (b.left > 0) /\ b.length = (IF b.left > 0 THEN B!SizeOf(b.rx.number) ELSE 0)
  /\ b.f2 => b.left > 0
GspiDrives(b) == b.response # B!Nothing => b.pin = "bits" /\ b.selected
GspiRests(b) == ~ b.selected /\ b.settled => b.pin = (IF b.left > 0 THEN "high" ELSE "low")
GspiLined(b) == GspiData(b) /\ GspiShows(b) /\ GspiDrives(b) /\ GspiRests(b)

LEMMA SizeIs == \A n \in Nat : B!SizeOf(n) \in Nat \ {0}
<1> SUFFICES ASSUME NEW n \in Nat PROVE B!SizeOf(n) \in Nat \ {0}
  OBVIOUS
<1>1. PacketWords \in Seq(Nat \ {0}) /\ PacketWords # << >>
  BY DevicesAssumption DEF B!GspiAssumption
<1>2. Len(PacketWords) \in Nat \ {0}
  BY <1>1
<1> DEFINE l == Len(PacketWords)
<1> HIDE DEF l
<1>3. l \in Nat \ {0} /\ (n % l) \in 0 .. l - 1
  BY <1>2 DEF l
<1>4. 1 + (n % l) \in 1 .. l
  BY <1>3
<1> DEFINE k == 1 + (n % l)
<1> HIDE DEF k
<1>5. PacketWords[k] \in Nat \ {0}
  BY <1>1, <1>4 DEF k, l
<1> QED BY <1>5 DEF B!SizeOf, k, l

LEMMA GspiActivates ==
  ASSUME NEW b, GspiData(b), GspiDrives(b), NEW packet \in GspiPackets
  PROVE  GspiLined(B!Activate(b, packet))
<1> DEFINE n == B!SizeOf(packet.number)
           yes == TRUE
           pin == IF b.selected THEN b.pin ELSE "high"
           e == [b EXCEPT !.rx = packet, !.left = n, !.available = yes, !.length = n, !.f2 = yes, !.pin = pin]
<1>1. B!Activate(b, packet) = e
  BY Zenon DEF B!Activate
<1>2. n \in Nat \ {0} /\ packet.number \in Nat
  BY SizeIs DEF GspiPackets
<1>3. GspiFields \subseteq DOMAIN b
  BY DEF GspiData
<1> HIDE DEF pin, yes
<1>9. n = B!SizeOf(packet.number)
  OBVIOUS
<1> HIDE DEF n
<1>4. DOMAIN e = DOMAIN b /\ e.rx = packet /\ e.left = n /\ e.available = yes /\ e.length = n /\ e.f2 = yes /\ e.pin = pin
  BY <1>3, Zenon DEF GspiFields
<1>5. e.queued = b.queued /\ e.knows = b.knows /\ e.credit = b.credit /\ e.rx_queue = b.rx_queue
  BY <1>3, Zenon DEF GspiFields
<1>6. e.selected = b.selected /\ e.response = b.response /\ e.command = b.command /\ e.settled = b.settled
  BY <1>3, Zenon DEF GspiFields
<1> HIDE DEF e
<1>7. GspiData(e)
  <2>1. e.left \in Nat
    BY <1>2, <1>4
  <2> QED BY <1>4, <1>5, <1>6, <2>1, Zenon DEF GspiData
<1>8. GspiShows(e)
  <2>1. n > 0 /\ e.left > 0
    BY <1>2, <1>4
  <2>2. (e.left > 0) = TRUE
    BY <2>1, Zenon
  <2>3. e.available = (e.left > 0)
    BY <1>4, <2>2, Zenon DEF yes
  <2>4. e.rx.number \in Nat /\ e.length = B!SizeOf(e.rx.number)
    BY <1>2, <1>4, <1>9, Zenon
  <2> QED BY <2>1, <2>3, <2>4, Zenon DEF GspiShows
<1>10. GspiDrives(e) /\ GspiRests(e)
  <2>1. b.selected \in BOOLEAN
    BY DEF GspiData
  <2> QED BY <1>2, <1>4, <1>6, <2>1 DEF GspiDrives, GspiRests, pin
<1> QED BY <1>1, <1>7, <1>8, <1>10 DEF GspiLined

\* Fields that the line does not depend on.
LEMMA GspiSame ==
  ASSUME NEW b, NEW e, DOMAIN e = DOMAIN b,
         e.selected = b.selected, e.command = b.command, e.response = b.response, e.rx = b.rx, e.left = b.left,
         e.available = b.available, e.length = b.length, e.f2 = b.f2, e.pin = b.pin, e.settled = b.settled,
         e.rx_queue \in Seq(GspiPackets), e.credit \in Int, e.queued \in Nat, e.knows \in Nat
  PROVE  /\ GspiData(b) => GspiData(e)
         /\ GspiDrives(b) => GspiDrives(e)
         /\ GspiLined(b) => GspiLined(e)
<1>1. GspiData(b) => GspiData(e)
  BY Zenon DEF GspiData
<1>2. GspiDrives(b) => GspiDrives(e)
  BY Zenon DEF GspiDrives
<1>3. GspiShows(b) => GspiShows(e)
  BY Zenon DEF GspiShows
<1>4. GspiRests(b) => GspiRests(e)
  BY Zenon DEF GspiRests
<1> QED BY <1>1, <1>2, <1>3, <1>4, Zenon DEF GspiLined

LEMMA GspiQueues ==
  ASSUME NEW b, GspiLined(b)
  PROVE  GspiLined(B!QueueRxPacket(b))
<1> DEFINE queued == b.queued + 1
           credit == (b.credit + 1) % Credits
           packet == [number |-> queued, credit |-> credit]
           c == [b EXCEPT !.queued = queued, !.credit = credit]
           more == Append(b.rx_queue, packet)
           d == [c EXCEPT !.rx_queue = more]
<1>1. B!QueueRxPacket(b) = IF b.left > 0 THEN d ELSE B!Activate(c, packet)
  <2>1. c.rx_queue = b.rx_queue /\ c.left = b.left
    <3>1. GspiFields \subseteq DOMAIN b
      BY DEF GspiLined, GspiData
    <3> QED BY <3>1, Zenon DEF GspiFields
  <2>2. B!QueueRxPacket(b) = IF b.left > 0 THEN [c EXCEPT !.rx_queue = Append(c.rx_queue, packet)] ELSE B!Activate(c, packet)
    BY Zenon DEF B!QueueRxPacket
  <2> QED BY <2>1, <2>2, Zenon
<1>2. /\ GspiData(b) /\ GspiDrives(b) /\ GspiFields \subseteq DOMAIN b
      /\ b.queued \in Nat /\ b.credit \in Int /\ b.rx_queue \in Seq(GspiPackets) /\ b.knows \in Nat
  BY Zenon DEF GspiLined, GspiData
<1>3. queued \in Nat /\ credit \in Int
  <2>1. Credits \in Nat \ {0, 1}
    BY DevicesAssumption DEF B!GspiAssumption
  <2> QED BY <1>2, <2>1
<1> HIDE DEF queued, credit
<1>4. packet \in GspiPackets
  BY <1>3 DEF GspiPackets
<1> HIDE DEF packet
<1>5. more \in Seq(GspiPackets)
  BY <1>2, <1>4
<1> HIDE DEF more
<1>6. /\ DOMAIN c = DOMAIN b /\ c.queued = queued /\ c.credit = credit /\ c.rx_queue = b.rx_queue /\ c.knows = b.knows
      /\ c.selected = b.selected /\ c.command = b.command /\ c.response = b.response /\ c.rx = b.rx /\ c.left = b.left
  BY <1>2, Zenon DEF GspiFields
<1>7. c.available = b.available /\ c.length = b.length /\ c.f2 = b.f2 /\ c.pin = b.pin /\ c.settled = b.settled
  BY <1>2, Zenon DEF GspiFields
<1> HIDE DEF c
<1>8. GspiData(c) /\ GspiDrives(c) /\ GspiLined(c)
  BY <1>2, <1>3, <1>6, <1>7, GspiSame
<1>9. /\ DOMAIN d = DOMAIN c /\ d.queued = c.queued /\ d.credit = c.credit /\ d.rx_queue = more /\ d.knows = c.knows
      /\ d.selected = c.selected /\ d.command = c.command /\ d.response = c.response /\ d.rx = c.rx /\ d.left = c.left
  BY <1>2, <1>6, Zenon DEF GspiFields
<1>10. d.available = c.available /\ d.length = c.length /\ d.f2 = c.f2 /\ d.pin = c.pin /\ d.settled = c.settled
  BY <1>2, <1>6, Zenon DEF GspiFields
<1> HIDE DEF d
<1>11. GspiLined(d)
  BY <1>2, <1>3, <1>5, <1>6, <1>8, <1>9, <1>10, GspiSame
<1>12. GspiLined(B!Activate(c, packet))
  BY <1>4, <1>8, GspiActivates
<1> QED BY <1>1, <1>11, <1>12, Zenon

LEMMA QueueTurns ==
  ASSUME NEW base, NEW n \in Nat
  PROVE  B!WriteWlan(base, n) = Folded(n, <<"queue">>, base)
<1> DEFINE how == <<"queue">>
           numbers == [i \in 1 .. n |-> i]
           Turns(f) == f = [s \in SUBSET (DOMAIN numbers) |-> IF s = {} THEN base ELSE LET x == B!Max(s) IN B!QueueRxPacket(f[s \ {x}])]
<1>1. B!FoldLeft(LAMBDA c, i : B!QueueRxPacket(c), base, numbers) = (CHOOSE f : Turns(f))[DOMAIN numbers]
  BY DEF B!FoldLeft, B!MapThenFoldSet
<1>2. DOMAIN numbers = 1 .. n /\ \A s : B!Max(s) = Max(s)
  BY DEF B!Max, Max
<1> HIDE DEF numbers
<1>3. \A t, i : Turn(how, t, i) = B!QueueRxPacket(t)
  BY Zenon DEF Turn
<1> HIDE DEF how
<1>4. ASSUME NEW f PROVE Turns(f) <=> TurnsOf(n, how, base, f)
  BY <1>2, <1>3 DEF TurnsOf
<1> HIDE DEF Turns
<1>5. (CHOOSE f : Turns(f)) = CHOOSE f : TurnsOf(n, how, base, f)
  BY <1>4, Zenon
<1>6. B!WriteWlan(base, n) = B!FoldLeft(LAMBDA c, i : B!QueueRxPacket(c), base, numbers)
  BY Zenon DEF B!WriteWlan, numbers
<1> QED BY <1>1, <1>2, <1>5, <1>6, Zenon DEF Folded, how

LEMMA GspiWrites ==
  ASSUME NEW b, GspiLined(b), NEW n \in Nat
  PROVE  GspiLined(B!WriteWlan(b, n))
<1> DEFINE how == <<"queue">>
<1>1. PICK chain : /\ chain[0] = b /\ chain[n] = Folded(n, how, b)
                   /\ \A k \in 0 .. n - 1 : chain[k + 1] = Turn(how, chain[k], k + 1)
  BY TurnsAreAChain
<1>2. \A t, i : Turn(how, t, i) = B!QueueRxPacket(t)
  BY Zenon DEF Turn
<1>3. B!WriteWlan(b, n) = chain[n]
  BY <1>1, QueueTurns
<1> HIDE DEF how
<1> DEFINE Holds == {k \in 0 .. n : GspiLined(chain[k])}
<1>4. 0 \in Holds
  BY <1>1
<1>5. ASSUME NEW k \in 0 .. n - 1, k \in Holds PROVE k + 1 \in Holds
  <2>1. k + 1 \in 0 .. n
    OBVIOUS
  <2>2. GspiLined(chain[k])
    BY <1>5
  <2>3. GspiLined(B!QueueRxPacket(chain[k]))
    BY <2>2, GspiQueues
  <2>4. chain[k + 1] = B!QueueRxPacket(chain[k])
    BY <1>1, <1>2, Zenon
  <2> QED BY <2>1, <2>3, <2>4, Zenon
<1> HIDE DEF Holds
<1>6. n \in Holds
  BY <1>4, <1>5, UpTo
<1> QED BY <1>3, <1>6 DEF Holds

LEMMA GspiReads ==
  ASSUME NEW b, GspiLined(b), b.selected = TRUE, b.pin = "bits", NEW size \in Nat
  PROVE  GspiLined(B!ReadWlan(b, size)) /\ B!ReadWlan(b, size).selected = TRUE /\ B!ReadWlan(b, size).pin = "bits"
<1> DEFINE left == IF b.left > size THEN b.left - size ELSE 0
           c == [b EXCEPT !.left = left]
           t == Tail(b.rx_queue)
           h == Head(b.rx_queue)
           d == [c EXCEPT !.rx_queue = t]
           no == FALSE
           e == [c EXCEPT !.available = no, !.length = 0, !.f2 = no]
<1>1. /\ GspiData(b) /\ GspiShows(b) /\ GspiDrives(b) /\ GspiFields \subseteq DOMAIN b
      /\ b.left \in Nat /\ b.rx_queue \in Seq(GspiPackets) /\ b.knows \in Nat /\ b.queued \in Nat /\ b.credit \in Int
  BY Zenon DEF GspiLined, GspiData
<1>2. B!ReadWlan(b, size) = IF c.left > 0 THEN c ELSE IF b.rx_queue # << >> THEN B!Activate(d, h) ELSE e
  <2>1. c.rx_queue = b.rx_queue
    BY <1>1, Zenon DEF GspiFields
  <2>2. B!ReadWlan(b, size) = IF c.left > 0 THEN c ELSE IF c.rx_queue # << >> THEN B!Activate([c EXCEPT !.rx_queue = Tail(c.rx_queue)], Head(c.rx_queue)) ELSE e
    BY Zenon DEF B!ReadWlan
  <2> QED BY <2>1, <2>2, Zenon
<1>3. left \in Nat /\ (left > 0 => b.left > 0)
  BY <1>1
<1> HIDE DEF left
<1>4. /\ DOMAIN c = DOMAIN b /\ c.left = left /\ c.rx_queue = b.rx_queue /\ c.knows = b.knows /\ c.queued = b.queued
      /\ c.credit = b.credit /\ c.selected = b.selected /\ c.command = b.command /\ c.response = b.response /\ c.rx = b.rx
  BY <1>1, Zenon DEF GspiFields
<1>5. c.available = b.available /\ c.length = b.length /\ c.f2 = b.f2 /\ c.pin = b.pin /\ c.settled = b.settled
  BY <1>1, Zenon DEF GspiFields
<1> HIDE DEF c
<1>6. GspiData(c) /\ GspiDrives(c) /\ GspiRests(c)
  <2>1. GspiData(c)
    BY <1>1, <1>3, <1>4, <1>5, Zenon DEF GspiData
  <2>2. GspiDrives(c)
    BY <1>1, <1>4, <1>5, Zenon DEF GspiDrives
  <2> QED BY <1>4, <2>1, <2>2, Zenon DEF GspiRests
<1>7. CASE c.left > 0
  <2>1. b.left > 0
    BY <1>3, <1>4, <1>7
  <2>2. GspiShows(c)
    BY <1>1, <1>4, <1>5, <1>7, <2>1, Zenon DEF GspiShows
  <2>3. B!ReadWlan(b, size) = c
    BY <1>2, <1>7, Zenon
  <2> QED BY <1>4, <1>5, <1>6, <2>2, <2>3, Zenon DEF GspiLined
<1>8. CASE ~ (c.left > 0) /\ b.rx_queue # << >>
  <2>1. t \in Seq(GspiPackets) /\ h \in GspiPackets
    BY <1>1, <1>8
  <2> HIDE DEF t, h
  <2>2. /\ DOMAIN d = DOMAIN c /\ d.left = c.left /\ d.rx_queue = t /\ d.knows = c.knows /\ d.queued = c.queued
        /\ d.credit = c.credit /\ d.selected = c.selected /\ d.command = c.command /\ d.response = c.response /\ d.rx = c.rx
    BY <1>1, <1>4, Zenon DEF GspiFields
  <2>3. d.available = c.available /\ d.length = c.length /\ d.f2 = c.f2 /\ d.pin = c.pin /\ d.settled = c.settled
    BY <1>1, <1>4, Zenon DEF GspiFields
  <2> HIDE DEF d
  <2>4. GspiData(d)
    BY <1>6, <2>1, <2>2, Zenon DEF GspiData
  <2>5. GspiDrives(d)
    BY <1>6, <2>2, <2>3, Zenon DEF GspiDrives
  <2>6. GspiLined(B!Activate(d, h))
    BY <2>1, <2>4, <2>5, GspiActivates
  <2>7. d.selected = TRUE /\ d.pin = "bits" /\ GspiFields \subseteq DOMAIN d
    BY <1>1, <1>4, <1>5, <2>2, <2>3, Zenon
  <2>8. B!Activate(d, h).selected = TRUE /\ B!Activate(d, h).pin = "bits"
    BY <2>7, Zenon DEF B!Activate, GspiFields
  <2>9. B!ReadWlan(b, size) = B!Activate(d, h)
    BY <1>2, <1>8, Zenon
  <2> QED BY <2>6, <2>8, <2>9, Zenon
<1>9. CASE ~ (c.left > 0) /\ b.rx_queue = << >>
  <2> HIDE DEF no
  <2>1. /\ DOMAIN e = DOMAIN c /\ e.left = c.left /\ e.rx_queue = c.rx_queue /\ e.knows = c.knows /\ e.queued = c.queued
        /\ e.credit = c.credit /\ e.selected = c.selected /\ e.command = c.command /\ e.response = c.response /\ e.rx = c.rx
    BY <1>1, <1>4, Zenon DEF GspiFields
  <2>2. e.available = no /\ e.length = 0 /\ e.f2 = no /\ e.pin = c.pin /\ e.settled = c.settled
    BY <1>1, <1>4, Zenon DEF GspiFields
  <2> HIDE DEF e
  <2>3. GspiData(e)
    BY <1>6, <2>1, Zenon DEF GspiData
  <2>4. GspiDrives(e) /\ GspiRests(e)
    BY <1>6, <2>1, <2>2, Zenon DEF GspiDrives, GspiRests
  <2>5. GspiShows(e)
    <3>1. ~ (e.left > 0)
      BY <1>9, <2>1, Zenon
    <3>2. (e.left > 0) = FALSE
      BY <3>1
    <3>3. e.available = (e.left > 0) /\ ~ e.f2
      BY <2>2, <3>2, Zenon DEF no
    <3> QED BY <2>2, <3>1, <3>3, Zenon DEF GspiShows
  <2>6. B!ReadWlan(b, size) = e
    BY <1>2, <1>9, Zenon
  <2> QED BY <1>4, <1>5, <2>1, <2>2, <2>3, <2>4, <2>5, <2>6, Zenon DEF GspiLined
<1> QED BY <1>7, <1>8, <1>9

\* Nothing is being written or answered: such a bus can be changed further.
LEMMA GspiStatus ==
  ASSUME NEW b, GspiLined(b)
  PROVE  /\ GspiData(b) /\ GspiShows(b) /\ GspiDrives(b) /\ GspiRests(b) /\ GspiFields \subseteq DOMAIN b
         /\ b.left \in Nat /\ b.queued \in Nat /\ b.knows \in Nat /\ b.credit \in Int /\ b.rx_queue \in Seq(GspiPackets)
         /\ b.selected \in BOOLEAN /\ GspiAnswer(b.response) /\ GspiCommand(b.command)
         /\ b.length \in Nat /\ (b.response # B!Nothing => b.selected = TRUE /\ b.pin = "bits")
<1>1. GspiData(b) /\ GspiShows(b) /\ GspiDrives(b) /\ GspiRests(b)
  BY DEF GspiLined
<1>2. b.length \in Nat
  BY <1>1, SizeIs DEF GspiShows
<1>3. b.selected \in BOOLEAN
  BY <1>1 DEF GspiData
<1>4. b.response # B!Nothing => b.selected = TRUE /\ b.pin = "bits"
  BY <1>1, <1>3 DEF GspiDrives
<1> QED BY <1>1, <1>2, <1>4, Zenon DEF GspiData

LEMMA NothingIs == GspiAnswer(B!Nothing) /\ GspiCommand(B!Nothing)
  BY DEF B!Nothing, GspiAnswer, GspiCommand

\* A response and a command that the methods may leave: what shows stays as it is.
LEMMA GspiTurns ==
  ASSUME NEW b, GspiLined(b), NEW e, DOMAIN e = DOMAIN b,
         e.rx = b.rx, e.left = b.left, e.available = b.available, e.length = b.length, e.f2 = b.f2,
         e.rx_queue = b.rx_queue, e.credit = b.credit, e.queued = b.queued, e.knows \in Nat, e.selected \in BOOLEAN,
         GspiAnswer(e.response), GspiCommand(e.command),
         e.response # B!Nothing => e.pin = "bits" /\ e.selected = TRUE,
         ~ e.selected /\ e.settled => e.pin = (IF b.left > 0 THEN "high" ELSE "low")
  PROVE  GspiLined(e)
<1>1. GspiData(b) /\ GspiShows(b)
  BY Zenon DEF GspiLined
<1>2. GspiData(e)
  BY <1>1, Zenon DEF GspiData
<1>3. GspiShows(e)
  BY <1>1, Zenon DEF GspiShows
<1>4. GspiDrives(e)
  BY Zenon DEF GspiDrives
<1>5. GspiRests(e)
  BY Zenon DEF GspiRests
<1> QED BY <1>2, <1>3, <1>4, <1>5, Zenon DEF GspiLined

LEMMA GspiSelects ==
  ASSUME NEW b, GspiLined(b)
  PROVE  /\ ~ b.selected => GspiLined([b EXCEPT !.selected = TRUE])
         /\ GspiLined(B!Deselected(b))
<1> DEFINE yes == TRUE
           no == FALSE
           c == [b EXCEPT !.selected = yes]
           pin == IF b.left > 0 THEN "high" ELSE "low"
           d == [b EXCEPT !.selected = no, !.command = B!Nothing, !.response = B!Nothing, !.pin = pin, !.settled = yes]
<1>1. B!Deselected(b) = d
  BY Zenon DEF B!Deselected
<1>2. GspiFields \subseteq DOMAIN b /\ b.knows \in Nat /\ GspiAnswer(b.response) /\ GspiCommand(b.command) /\ (b.response # B!Nothing => b.selected = TRUE)
  BY GspiStatus, Zenon
<1>3. yes \in BOOLEAN /\ no \in BOOLEAN /\ yes /\ ~ no /\ yes = TRUE
  OBVIOUS
<1> HIDE DEF yes, no
<1>4. ASSUME ~ b.selected PROVE GspiLined(c)
  <2>1. /\ DOMAIN c = DOMAIN b /\ c.left = b.left /\ c.rx_queue = b.rx_queue /\ c.knows = b.knows /\ c.queued = b.queued
        /\ c.credit = b.credit /\ c.selected = yes /\ c.command = b.command /\ c.response = b.response /\ c.rx = b.rx
    BY <1>2, Zenon DEF GspiFields
  <2>2. c.available = b.available /\ c.length = b.length /\ c.f2 = b.f2 /\ c.pin = b.pin /\ c.settled = b.settled
    BY <1>2, Zenon DEF GspiFields
  <2>3. c.response = B!Nothing
    BY <1>2, <1>4, <2>1, Zenon
  <2> HIDE DEF c
  <2>4. c.selected \in BOOLEAN /\ c.selected /\ c.knows \in Nat /\ GspiAnswer(c.response) /\ GspiCommand(c.command)
    BY <1>2, <1>3, <2>1, Zenon
  <2> QED BY <2>1, <2>2, <2>3, <2>4, GspiTurns, Zenon
<1>5. GspiLined(d)
  <2> HIDE DEF pin
  <2>1. /\ DOMAIN d = DOMAIN b /\ d.left = b.left /\ d.rx_queue = b.rx_queue /\ d.knows = b.knows /\ d.queued = b.queued
        /\ d.credit = b.credit /\ d.selected = no /\ d.command = B!Nothing /\ d.response = B!Nothing /\ d.rx = b.rx
    BY <1>2, Zenon DEF GspiFields
  <2>2. d.available = b.available /\ d.length = b.length /\ d.f2 = b.f2 /\ d.pin = pin /\ d.settled = yes
    BY <1>2, Zenon DEF GspiFields
  <2> HIDE DEF d
  <2>3. d.selected \in BOOLEAN /\ d.knows \in Nat /\ GspiAnswer(d.response) /\ GspiCommand(d.command)
    BY <1>2, <1>3, <2>1, NothingIs, Zenon
  <2>4. d.pin = (IF b.left > 0 THEN "high" ELSE "low")
    BY <2>2, Zenon DEF pin
  <2> QED BY <2>1, <2>2, <2>3, <2>4, GspiTurns, Zenon
<1> QED BY <1>1, <1>4, <1>5, Zenon DEF yes

LEMMA GspiPowersOff ==
  ASSUME NEW b, GspiLined(b)
  PROVE  /\ GspiLined(B!PowerOff(b))
         /\ GspiLined([B!PowerOff(b) EXCEPT !.got = b.queued, !.knows = 0, !.saw = FALSE, !.sequence = 0, !.heard = 1])
<1> DEFINE no == FALSE
           c == [b EXCEPT !.selected = no, !.command = B!Nothing, !.response = B!Nothing, !.left = 0, !.rx_queue = << >>]
           d == [c EXCEPT !.available = no, !.length = 0, !.f2 = no, !.credit = 1, !.settled = no]
           e == [d EXCEPT !.got = b.queued, !.knows = 0, !.saw = no, !.sequence = 0, !.heard = 1]
<1>1. B!PowerOff(b) = d
  BY Zenon DEF B!PowerOff
<1>2. GspiFields \subseteq DOMAIN b /\ b.knows \in Nat /\ b.queued \in Nat
  BY GspiStatus, Zenon
<1>3. no \in BOOLEAN /\ ~ no /\ no = FALSE
  OBVIOUS
<1> HIDE DEF no
<1>4. /\ DOMAIN c = DOMAIN b /\ c.left = 0 /\ c.rx_queue = << >> /\ c.knows = b.knows /\ c.queued = b.queued
      /\ c.selected = no /\ c.command = B!Nothing /\ c.response = B!Nothing /\ c.rx = b.rx
  BY <1>2, Zenon DEF GspiFields
<1> HIDE DEF c
<1>5. /\ DOMAIN d = DOMAIN b /\ d.left = 0 /\ d.rx_queue = << >> /\ d.knows = b.knows /\ d.queued = b.queued
      /\ d.selected = no /\ d.command = B!Nothing /\ d.response = B!Nothing
  BY <1>2, <1>4, Zenon DEF GspiFields
<1>6. d.available = no /\ d.length = 0 /\ d.f2 = no /\ d.settled = no /\ d.credit = 1
  BY <1>2, <1>4, Zenon DEF GspiFields
<1> HIDE DEF d
<1>7. ASSUME NEW x, DOMAIN x = DOMAIN b, x.left = 0, x.rx_queue = << >>, x.knows \in Nat, x.queued \in Nat, x.selected = no,
             x.command = B!Nothing, x.response = B!Nothing, x.available = no, x.length = 0, x.f2 = no, x.settled = no, x.credit = 1
      PROVE  GspiLined(x)
  <2>1. x.left \in Nat /\ x.credit \in Int /\ x.rx_queue \in Seq(GspiPackets) /\ ~ (x.left > 0)
    BY <1>7
  <2>2. (x.left > 0) = FALSE
    BY <2>1
  <2>3. GspiData(x)
    BY <1>2, <1>3, <1>7, <2>1, NothingIs, Zenon DEF GspiData
  <2>4. x.available = (x.left > 0) /\ ~ x.f2
    BY <1>3, <1>7, <2>2, Zenon
  <2>5. GspiShows(x)
    BY <1>7, <2>1, <2>4, Zenon DEF GspiShows
  <2>6. GspiDrives(x)
    BY <1>7, Zenon DEF GspiDrives
  <2>7. GspiRests(x)
    BY <1>3, <1>7, Zenon DEF GspiRests
  <2> QED BY <2>3, <2>5, <2>6, <2>7, Zenon DEF GspiLined
<1>8. GspiLined(d)
  BY <1>2, <1>5, <1>6, <1>7, Zenon
<1>9. GspiLined(e)
  <2>1. /\ DOMAIN e = DOMAIN b /\ e.left = 0 /\ e.rx_queue = << >> /\ e.knows = 0 /\ e.queued = b.queued
        /\ e.selected = no /\ e.command = B!Nothing /\ e.response = B!Nothing
    BY <1>2, <1>5, Zenon DEF GspiFields
  <2>2. e.available = no /\ e.length = 0 /\ e.f2 = no /\ e.settled = no /\ e.credit = 1
    BY <1>2, <1>5, <1>6, Zenon DEF GspiFields
  <2> HIDE DEF e
  <2>3. e.knows \in Nat /\ e.queued \in Nat
    BY <1>2, <2>1
  <2> QED BY <1>7, <2>1, <2>2, <2>3, Zenon
<1> QED BY <1>1, <1>8, <1>9, Zenon DEF no

\* Whatever is being answered, on a bus that is selected and carries bits.
LEMMA GspiAnswers ==
  ASSUME NEW b, GspiLined(b), b.selected = TRUE, b.pin = "bits", NEW r, GspiAnswer(r), NEW e, e = [b EXCEPT !.response = r]
  PROVE  GspiLined(e)
<1>1. GspiFields \subseteq DOMAIN b /\ b.knows \in Nat /\ GspiCommand(b.command)
  BY GspiStatus, Zenon
<1>2. /\ DOMAIN e = DOMAIN b /\ e.left = b.left /\ e.rx_queue = b.rx_queue /\ e.knows = b.knows /\ e.queued = b.queued
      /\ e.credit = b.credit /\ e.selected = b.selected /\ e.command = b.command /\ e.response = r /\ e.rx = b.rx
  BY <1>1, Zenon DEF GspiFields
<1>3. e.available = b.available /\ e.length = b.length /\ e.f2 = b.f2 /\ e.pin = b.pin /\ e.settled = b.settled
  BY <1>1, Zenon DEF GspiFields
<1>4. e.selected \in BOOLEAN /\ e.selected /\ e.selected = TRUE
  BY <1>2, Zenon
<1>5. e.knows \in Nat /\ GspiAnswer(e.response) /\ GspiCommand(e.command) /\ e.pin = "bits"
  BY <1>1, <1>2, <1>3, Zenon
<1> QED BY <1>2, <1>3, <1>4, <1>5, GspiTurns, Zenon

LEMMA GspiStarts ==
  ASSUME NEW b, GspiLined(b), b.selected = TRUE, b.pin = "bits", NEW kind \in {"status", "interrupt", "packet"}, NEW size \in Nat
  PROVE  GspiLined(B!StartResponse(b, kind, size))
<1> DEFINE length == IF b.available THEN b.length ELSE 0
           status == [kind |-> kind, words |-> 1, length |-> length]
           interrupt == [kind |-> kind, words |-> 1, f2 |-> b.f2]
           packet == [kind |-> kind, words |-> size, size |-> size, packet |-> b.rx]
<1>1. length \in Nat
  BY GspiStatus
<1>2. CASE kind = "status"
  <2>1. B!StartResponse(b, kind, size) = [b EXCEPT !.response = status]
    BY <1>2, Zenon DEF B!StartResponse
  <2> HIDE DEF length
  <2>2. GspiAnswer(status)
    BY <1>1 DEF GspiAnswer
  <2> HIDE DEF status, interrupt
  <2> QED BY <2>1, <2>2, GspiAnswers, Zenon
<1>3. CASE kind = "interrupt"
  <2>1. B!StartResponse(b, kind, size) = [b EXCEPT !.response = interrupt]
    BY <1>3 DEF B!StartResponse
  <2>2. GspiAnswer(interrupt)
    BY <1>3 DEF GspiAnswer
  <2> HIDE DEF status, interrupt
  <2> QED BY <2>1, <2>2, GspiAnswers, Zenon
<1>4. CASE kind = "packet"
  <2> DEFINE c == B!ReadWlan(b, size)
  <2>1. B!StartResponse(b, kind, size) = [c EXCEPT !.response = packet]
    BY <1>4 DEF B!StartResponse
  <2>2. GspiAnswer(packet)
    BY <1>4 DEF GspiAnswer
  <2>3. GspiLined(c) /\ c.selected = TRUE /\ c.pin = "bits"
    BY GspiReads
  <2> HIDE DEF c, packet
  <2> QED BY <2>1, <2>2, <2>3, GspiAnswers, Zenon
<1> QED BY <1>2, <1>3, <1>4

\* Fields that are the driver's own or being written.
LEMMA GspiAside ==
  ASSUME NEW b, GspiLined(b)
  PROVE  /\ \A n : GspiLined([b EXCEPT !.frames = n])
         /\ \A n : GspiLined([b EXCEPT !.saw = n])
         /\ \A n : GspiLined([b EXCEPT !.got = n])
         /\ \A n : GspiLined([b EXCEPT !.heard = n])
         /\ \A n : GspiLined([b EXCEPT !.sends = n])
         /\ \A n : GspiLined([b EXCEPT !.sequence = n])
         /\ \A n \in Nat : GspiLined([b EXCEPT !.knows = n])
         /\ \A r : GspiCommand(r) => GspiLined([b EXCEPT !.command = r])
         /\ \A n : (n => b.f2) => GspiLined([b EXCEPT !.f2 = n])
         /\ b.selected => GspiLined([b EXCEPT !.pin = "bits"])
         /\ GspiLined([b EXCEPT !.response = B!Nothing])
<1>1. GspiFields \subseteq DOMAIN b /\ b.knows \in Nat /\ b.selected \in BOOLEAN /\ GspiAnswer(b.response) /\ GspiCommand(b.command)
  BY GspiStatus, Zenon
<1>2. /\ GspiData(b) /\ GspiShows(b) /\ GspiDrives(b) /\ GspiRests(b)
      /\ (b.response # B!Nothing => b.selected = TRUE /\ b.pin = "bits")
      /\ (~ b.selected /\ b.settled => b.pin = (IF b.left > 0 THEN "high" ELSE "low"))
  BY GspiStatus, Zenon DEF GspiRests
<1>3. ASSUME NEW n PROVE GspiLined([b EXCEPT !.frames = n])
  <2> DEFINE e == [b EXCEPT !.frames = n]
  <2>1. DOMAIN e = DOMAIN b /\ e.left = b.left /\ e.rx_queue = b.rx_queue /\ e.knows = b.knows /\ e.queued = b.queued /\ e.credit = b.credit /\ e.selected = b.selected
    BY <1>1, Zenon DEF GspiFields
  <2>2. e.command = b.command /\ e.response = b.response /\ e.rx = b.rx /\ e.available = b.available
    BY <1>1, Zenon DEF GspiFields
  <2>3. e.length = b.length /\ e.f2 = b.f2 /\ e.pin = b.pin /\ e.settled = b.settled
    BY <1>1, Zenon DEF GspiFields
  <2> HIDE DEF e
  <2>4. e.knows \in Nat /\ e.selected \in BOOLEAN /\ GspiAnswer(e.response) /\ GspiCommand(e.command)
    BY <1>1, <1>3, <2>1, <2>2, Zenon
  <2>5. /\ (e.response # B!Nothing => e.pin = "bits" /\ e.selected = TRUE)
        /\ (~ e.selected /\ e.settled => e.pin = (IF b.left > 0 THEN "high" ELSE "low"))
    BY <1>2, <2>1, <2>2, <2>3, Zenon
  <2>6. GspiLined(e)
    BY <2>1, <2>2, <2>3, <2>4, <2>5, GspiTurns, Zenon
  <2> QED BY <2>6 DEF e
<1>4. ASSUME NEW n PROVE GspiLined([b EXCEPT !.saw = n])
  <2> DEFINE e == [b EXCEPT !.saw = n]
  <2>1. DOMAIN e = DOMAIN b /\ e.left = b.left /\ e.rx_queue = b.rx_queue /\ e.knows = b.knows /\ e.queued = b.queued /\ e.credit = b.credit /\ e.selected = b.selected
    BY <1>1, Zenon DEF GspiFields
  <2>2. e.command = b.command /\ e.response = b.response /\ e.rx = b.rx /\ e.available = b.available
    BY <1>1, Zenon DEF GspiFields
  <2>3. e.length = b.length /\ e.f2 = b.f2 /\ e.pin = b.pin /\ e.settled = b.settled
    BY <1>1, Zenon DEF GspiFields
  <2> HIDE DEF e
  <2>4. e.knows \in Nat /\ e.selected \in BOOLEAN /\ GspiAnswer(e.response) /\ GspiCommand(e.command)
    BY <1>1, <1>4, <2>1, <2>2, Zenon
  <2>5. /\ (e.response # B!Nothing => e.pin = "bits" /\ e.selected = TRUE)
        /\ (~ e.selected /\ e.settled => e.pin = (IF b.left > 0 THEN "high" ELSE "low"))
    BY <1>2, <2>1, <2>2, <2>3, Zenon
  <2>6. GspiLined(e)
    BY <2>1, <2>2, <2>3, <2>4, <2>5, GspiTurns, Zenon
  <2> QED BY <2>6 DEF e
<1>5. ASSUME NEW n PROVE GspiLined([b EXCEPT !.got = n])
  <2> DEFINE e == [b EXCEPT !.got = n]
  <2>1. DOMAIN e = DOMAIN b /\ e.left = b.left /\ e.rx_queue = b.rx_queue /\ e.knows = b.knows /\ e.queued = b.queued /\ e.credit = b.credit /\ e.selected = b.selected
    BY <1>1, Zenon DEF GspiFields
  <2>2. e.command = b.command /\ e.response = b.response /\ e.rx = b.rx /\ e.available = b.available
    BY <1>1, Zenon DEF GspiFields
  <2>3. e.length = b.length /\ e.f2 = b.f2 /\ e.pin = b.pin /\ e.settled = b.settled
    BY <1>1, Zenon DEF GspiFields
  <2> HIDE DEF e
  <2>4. e.knows \in Nat /\ e.selected \in BOOLEAN /\ GspiAnswer(e.response) /\ GspiCommand(e.command)
    BY <1>1, <1>5, <2>1, <2>2, Zenon
  <2>5. /\ (e.response # B!Nothing => e.pin = "bits" /\ e.selected = TRUE)
        /\ (~ e.selected /\ e.settled => e.pin = (IF b.left > 0 THEN "high" ELSE "low"))
    BY <1>2, <2>1, <2>2, <2>3, Zenon
  <2>6. GspiLined(e)
    BY <2>1, <2>2, <2>3, <2>4, <2>5, GspiTurns, Zenon
  <2> QED BY <2>6 DEF e
<1>6. ASSUME NEW n PROVE GspiLined([b EXCEPT !.heard = n])
  <2> DEFINE e == [b EXCEPT !.heard = n]
  <2>1. DOMAIN e = DOMAIN b /\ e.left = b.left /\ e.rx_queue = b.rx_queue /\ e.knows = b.knows /\ e.queued = b.queued /\ e.credit = b.credit /\ e.selected = b.selected
    BY <1>1, Zenon DEF GspiFields
  <2>2. e.command = b.command /\ e.response = b.response /\ e.rx = b.rx /\ e.available = b.available
    BY <1>1, Zenon DEF GspiFields
  <2>3. e.length = b.length /\ e.f2 = b.f2 /\ e.pin = b.pin /\ e.settled = b.settled
    BY <1>1, Zenon DEF GspiFields
  <2> HIDE DEF e
  <2>4. e.knows \in Nat /\ e.selected \in BOOLEAN /\ GspiAnswer(e.response) /\ GspiCommand(e.command)
    BY <1>1, <1>6, <2>1, <2>2, Zenon
  <2>5. /\ (e.response # B!Nothing => e.pin = "bits" /\ e.selected = TRUE)
        /\ (~ e.selected /\ e.settled => e.pin = (IF b.left > 0 THEN "high" ELSE "low"))
    BY <1>2, <2>1, <2>2, <2>3, Zenon
  <2>6. GspiLined(e)
    BY <2>1, <2>2, <2>3, <2>4, <2>5, GspiTurns, Zenon
  <2> QED BY <2>6 DEF e
<1>7. ASSUME NEW n PROVE GspiLined([b EXCEPT !.sends = n])
  <2> DEFINE e == [b EXCEPT !.sends = n]
  <2>1. DOMAIN e = DOMAIN b /\ e.left = b.left /\ e.rx_queue = b.rx_queue /\ e.knows = b.knows /\ e.queued = b.queued /\ e.credit = b.credit /\ e.selected = b.selected
    BY <1>1, Zenon DEF GspiFields
  <2>2. e.command = b.command /\ e.response = b.response /\ e.rx = b.rx /\ e.available = b.available
    BY <1>1, Zenon DEF GspiFields
  <2>3. e.length = b.length /\ e.f2 = b.f2 /\ e.pin = b.pin /\ e.settled = b.settled
    BY <1>1, Zenon DEF GspiFields
  <2> HIDE DEF e
  <2>4. e.knows \in Nat /\ e.selected \in BOOLEAN /\ GspiAnswer(e.response) /\ GspiCommand(e.command)
    BY <1>1, <1>7, <2>1, <2>2, Zenon
  <2>5. /\ (e.response # B!Nothing => e.pin = "bits" /\ e.selected = TRUE)
        /\ (~ e.selected /\ e.settled => e.pin = (IF b.left > 0 THEN "high" ELSE "low"))
    BY <1>2, <2>1, <2>2, <2>3, Zenon
  <2>6. GspiLined(e)
    BY <2>1, <2>2, <2>3, <2>4, <2>5, GspiTurns, Zenon
  <2> QED BY <2>6 DEF e
<1>8. ASSUME NEW n PROVE GspiLined([b EXCEPT !.sequence = n])
  <2> DEFINE e == [b EXCEPT !.sequence = n]
  <2>1. DOMAIN e = DOMAIN b /\ e.left = b.left /\ e.rx_queue = b.rx_queue /\ e.knows = b.knows /\ e.queued = b.queued /\ e.credit = b.credit /\ e.selected = b.selected
    BY <1>1, Zenon DEF GspiFields
  <2>2. e.command = b.command /\ e.response = b.response /\ e.rx = b.rx /\ e.available = b.available
    BY <1>1, Zenon DEF GspiFields
  <2>3. e.length = b.length /\ e.f2 = b.f2 /\ e.pin = b.pin /\ e.settled = b.settled
    BY <1>1, Zenon DEF GspiFields
  <2> HIDE DEF e
  <2>4. e.knows \in Nat /\ e.selected \in BOOLEAN /\ GspiAnswer(e.response) /\ GspiCommand(e.command)
    BY <1>1, <1>8, <2>1, <2>2, Zenon
  <2>5. /\ (e.response # B!Nothing => e.pin = "bits" /\ e.selected = TRUE)
        /\ (~ e.selected /\ e.settled => e.pin = (IF b.left > 0 THEN "high" ELSE "low"))
    BY <1>2, <2>1, <2>2, <2>3, Zenon
  <2>6. GspiLined(e)
    BY <2>1, <2>2, <2>3, <2>4, <2>5, GspiTurns, Zenon
  <2> QED BY <2>6 DEF e
<1>9. ASSUME NEW n \in Nat PROVE GspiLined([b EXCEPT !.knows = n])
  <2> DEFINE e == [b EXCEPT !.knows = n]
  <2>1. DOMAIN e = DOMAIN b /\ e.left = b.left /\ e.rx_queue = b.rx_queue /\ e.knows = n /\ e.queued = b.queued /\ e.credit = b.credit /\ e.selected = b.selected
    BY <1>1, Zenon DEF GspiFields
  <2>2. e.command = b.command /\ e.response = b.response /\ e.rx = b.rx /\ e.available = b.available
    BY <1>1, Zenon DEF GspiFields
  <2>3. e.length = b.length /\ e.f2 = b.f2 /\ e.pin = b.pin /\ e.settled = b.settled
    BY <1>1, Zenon DEF GspiFields
  <2> HIDE DEF e
  <2>4. e.knows \in Nat /\ e.selected \in BOOLEAN /\ GspiAnswer(e.response) /\ GspiCommand(e.command)
    BY <1>1, <1>9, <2>1, <2>2, Zenon
  <2>5. /\ (e.response # B!Nothing => e.pin = "bits" /\ e.selected = TRUE)
        /\ (~ e.selected /\ e.settled => e.pin = (IF b.left > 0 THEN "high" ELSE "low"))
    BY <1>2, <2>1, <2>2, <2>3, Zenon
  <2>6. GspiLined(e)
    BY <2>1, <2>2, <2>3, <2>4, <2>5, GspiTurns, Zenon
  <2> QED BY <2>6 DEF e
<1>10. ASSUME NEW r, GspiCommand(r) PROVE GspiLined([b EXCEPT !.command = r])
  <2> DEFINE e == [b EXCEPT !.command = r]
  <2>1. DOMAIN e = DOMAIN b /\ e.left = b.left /\ e.rx_queue = b.rx_queue /\ e.knows = b.knows /\ e.queued = b.queued /\ e.credit = b.credit /\ e.selected = b.selected
    BY <1>1, Zenon DEF GspiFields
  <2>2. e.command = r /\ e.response = b.response /\ e.rx = b.rx /\ e.available = b.available
    BY <1>1, Zenon DEF GspiFields
  <2>3. e.length = b.length /\ e.f2 = b.f2 /\ e.pin = b.pin /\ e.settled = b.settled
    BY <1>1, Zenon DEF GspiFields
  <2> HIDE DEF e
  <2>4. e.knows \in Nat /\ e.selected \in BOOLEAN /\ GspiAnswer(e.response) /\ GspiCommand(e.command)
    BY <1>1, <1>10, <2>1, <2>2, Zenon
  <2>5. /\ (e.response # B!Nothing => e.pin = "bits" /\ e.selected = TRUE)
        /\ (~ e.selected /\ e.settled => e.pin = (IF b.left > 0 THEN "high" ELSE "low"))
    BY <1>2, <2>1, <2>2, <2>3, Zenon
  <2>6. GspiLined(e)
    BY <2>1, <2>2, <2>3, <2>4, <2>5, GspiTurns, Zenon
  <2> QED BY <2>6 DEF e
<1>11. ASSUME NEW n, n => b.f2 PROVE GspiLined([b EXCEPT !.f2 = n])
  <2> DEFINE e == [b EXCEPT !.f2 = n]
  <2>1. DOMAIN e = DOMAIN b /\ e.left = b.left /\ e.rx_queue = b.rx_queue /\ e.knows = b.knows /\ e.queued = b.queued /\ e.credit = b.credit /\ e.selected = b.selected
    BY <1>1, Zenon DEF GspiFields
  <2>2. e.command = b.command /\ e.response = b.response /\ e.rx = b.rx /\ e.available = b.available
    BY <1>1, Zenon DEF GspiFields
  <2>3. e.length = b.length /\ e.f2 = n /\ e.pin = b.pin /\ e.settled = b.settled
    BY <1>1, Zenon DEF GspiFields
  <2> HIDE DEF e
  <2>4. GspiData(e)
    BY <1>2, <2>1, <2>2, <2>3, Zenon DEF GspiData
  <2>5. GspiShows(e)
    BY <1>11, <1>2, <2>1, <2>2, <2>3, Zenon DEF GspiShows
  <2>6. GspiDrives(e) /\ GspiRests(e)
    BY <1>2, <2>1, <2>2, <2>3, Zenon DEF GspiDrives, GspiRests
  <2> QED BY <2>4, <2>5, <2>6, Zenon DEF GspiLined, e
<1>12. ASSUME b.selected PROVE GspiLined([b EXCEPT !.pin = "bits"])
  <2> DEFINE e == [b EXCEPT !.pin = "bits"]
  <2>1. DOMAIN e = DOMAIN b /\ e.left = b.left /\ e.rx_queue = b.rx_queue /\ e.knows = b.knows /\ e.queued = b.queued /\ e.credit = b.credit /\ e.selected = b.selected
    BY <1>1, Zenon DEF GspiFields
  <2>2. e.command = b.command /\ e.response = b.response /\ e.rx = b.rx /\ e.available = b.available
    BY <1>1, Zenon DEF GspiFields
  <2>3. e.length = b.length /\ e.f2 = b.f2 /\ e.pin = "bits" /\ e.settled = b.settled
    BY <1>1, Zenon DEF GspiFields
  <2> HIDE DEF e
  <2>4. e.knows \in Nat /\ e.selected \in BOOLEAN /\ GspiAnswer(e.response) /\ GspiCommand(e.command)
    BY <1>1, <2>1, <2>2, Zenon
  <2>5. /\ (e.response # B!Nothing => e.pin = "bits" /\ e.selected = TRUE)
        /\ (~ e.selected /\ e.settled => e.pin = (IF b.left > 0 THEN "high" ELSE "low"))
    BY <1>2, <1>12, <2>1, <2>2, <2>3, Zenon
  <2>6. GspiLined(e)
    BY <2>1, <2>2, <2>3, <2>4, <2>5, GspiTurns, Zenon
  <2> QED BY <2>6 DEF e
<1>13. GspiLined([b EXCEPT !.response = B!Nothing])
  <2> DEFINE e == [b EXCEPT !.response = B!Nothing]
  <2>1. DOMAIN e = DOMAIN b /\ e.left = b.left /\ e.rx_queue = b.rx_queue /\ e.knows = b.knows /\ e.queued = b.queued /\ e.credit = b.credit /\ e.selected = b.selected
    BY <1>1, Zenon DEF GspiFields
  <2>2. e.command = b.command /\ e.response = B!Nothing /\ e.rx = b.rx /\ e.available = b.available
    BY <1>1, Zenon DEF GspiFields
  <2>3. e.length = b.length /\ e.f2 = b.f2 /\ e.pin = b.pin /\ e.settled = b.settled
    BY <1>1, Zenon DEF GspiFields
  <2> HIDE DEF e
  <2>4. e.knows \in Nat /\ e.selected \in BOOLEAN /\ GspiAnswer(e.response) /\ GspiCommand(e.command)
    BY <1>1, <2>1, <2>2, NothingIs, Zenon
  <2>5. /\ (e.response # B!Nothing => e.pin = "bits" /\ e.selected = TRUE)
        /\ (~ e.selected /\ e.settled => e.pin = (IF b.left > 0 THEN "high" ELSE "low"))
    BY <1>2, <2>1, <2>2, <2>3, Zenon
  <2>6. GspiLined(e)
    BY <2>1, <2>2, <2>3, <2>4, <2>5, GspiTurns, Zenon
  <2> QED BY <2>6 DEF e
<1> QED BY <1>3, <1>4, <1>5, <1>6, <1>7, <1>8, <1>9, <1>10, <1>11, <1>12, <1>13, Zenon

\* A word of a write; the last of them applies it.
LEMMA GspiWordLined ==
  ASSUME GspiLined(state), B!Word
  PROVE  GspiLined(state')
<1> DEFINE command == state.command
           less == [state.command EXCEPT !.words = command.words - 1]
           b == [state EXCEPT !.command = less]
           c == [state EXCEPT !.command = B!Nothing]
<1>1. /\ GspiFields \subseteq DOMAIN state /\ GspiCommand(command) /\ command # B!Nothing
  BY GspiStatus, Zenon DEF B!Word
<1>2. state' = IF command.words > 1 THEN b ELSE B!WriteRegister(c, command)
  <2>1. state' = IF command.words > 1 THEN [state EXCEPT !.command.words = state.command.words - 1] ELSE B!WriteRegister(c, command)
    BY Zenon DEF B!Word
  <2>2. [state EXCEPT !.command.words = state.command.words - 1] = b
    BY Zenon
  <2> QED BY <2>1, <2>2, Zenon
<1>3. GspiLined(b)
  <2>1. {"kind", "words", "size"} \subseteq DOMAIN command /\ command.size \in Nat /\ command.kind \in {"clear", "send"}
    BY <1>1 DEF GspiCommand
  <2>2. DOMAIN less = DOMAIN command /\ less.size = command.size /\ less.kind = command.kind
    BY <2>1, Zenon
  <2>3. GspiCommand(less)
    BY <2>1, <2>2, Zenon DEF GspiCommand
  <2> HIDE DEF less
  <2> QED BY <2>3, GspiAside, Zenon
<1>4. GspiLined(c)
  BY NothingIs, GspiAside, Zenon
<1>5. GspiLined(B!WriteRegister(c, command))
  <2> HIDE DEF c, command
  <2>1. command.size \in Nat /\ command.kind \in {"clear", "send"}
    BY <1>1, Zenon DEF GspiCommand
  <2>2. CASE command.kind = "clear"
    <3> DEFINE f2 == c.f2 /\ command.size = 0
    <3>1. B!WriteRegister(c, command) = [c EXCEPT !.f2 = f2]
      BY <2>2, Zenon DEF B!WriteRegister
    <3>2. f2 => c.f2
      OBVIOUS
    <3> HIDE DEF f2
    <3>3. GspiLined([c EXCEPT !.f2 = f2])
      BY <1>4, <3>2, GspiAside, Zenon
    <3> QED BY <3>1, <3>3, Zenon
  <2>3. CASE command.kind = "send"
    <3>1. B!WriteRegister(c, command) = B!WriteWlan(c, command.size)
      BY <2>3 DEF B!WriteRegister
    <3> QED BY <1>4, <2>1, <3>1, GspiWrites, Zenon
  <2> QED BY <2>1, <2>2, <2>3
<1> HIDE DEF b, c, command
<1> QED BY <1>2, <1>3, <1>5, Zenon

\* A word of a response; with the last the driver has what it asked for.
LEMMA GspiDrivenLined ==
  ASSUME GspiLined(state), B!Driven
  PROVE  GspiLined(state')
<1> DEFINE r == state.response
           less == [state.response EXCEPT !.words = r.words - 1]
           b == [state EXCEPT !.response = less]
           c == [state EXCEPT !.response = B!Nothing]
           After == CASE r.kind = "status" -> [c EXCEPT !.knows = r.length]
                      [] r.kind = "interrupt" -> [c EXCEPT !.saw = r.f2]
                      [] r.kind = "packet" -> [c EXCEPT !.got = c.got + 1, !.heard = r.packet.credit]
<1>1. GspiFields \subseteq DOMAIN state /\ GspiAnswer(r) /\ r # B!Nothing /\ state.selected = TRUE /\ state.pin = "bits"
  BY GspiStatus, Zenon DEF B!Driven
<1>2. state' = IF r.words > 1 THEN b ELSE After
  <2>1. state' = IF r.words > 1 THEN [state EXCEPT !.response.words = state.response.words - 1] ELSE After
    BY Zenon DEF B!Driven
  <2>2. [state EXCEPT !.response.words = state.response.words - 1] = b
    BY Zenon
  <2> HIDE DEF After
  <2> QED BY <2>1, <2>2, Zenon
<1>3. {"kind", "words"} \subseteq DOMAIN r /\ r.kind \in {"status", "interrupt", "packet"} /\ (r.kind = "status" => "length" \in DOMAIN r /\ r.length \in Nat)
  BY <1>1, Zenon DEF GspiAnswer
<1>4. GspiLined(b)
  <2>1. DOMAIN less = DOMAIN r /\ less.kind = r.kind /\ ("length" \in DOMAIN r => less.length = r.length)
    BY <1>3, Zenon
  <2>2. GspiAnswer(less)
    BY <1>3, <2>1, Zenon DEF GspiAnswer
  <2> HIDE DEF less
  <2>3. b = [state EXCEPT !.response = less]
    OBVIOUS
  <2> HIDE DEF b
  <2> QED BY <1>1, <2>2, <2>3, GspiAnswers, Zenon
<1>5. GspiLined(c)
  BY GspiAside, Zenon
<1>6. GspiLined(After)
  <2> HIDE DEF c, r
  <2>1. CASE r.kind = "status"
    BY <1>3, <1>5, <2>1, GspiAside, Zenon
  <2>2. CASE r.kind = "interrupt"
    <3>1. After = [c EXCEPT !.saw = r.f2]
      BY <2>2, Zenon
    <3> HIDE DEF After
    <3> QED BY <1>5, <3>1, GspiAside, Zenon
  <2>3. CASE r.kind = "packet"
    <3> DEFINE d == [c EXCEPT !.got = c.got + 1]
    <3>1. After = [c EXCEPT !.got = c.got + 1, !.heard = r.packet.credit]
      BY <2>3
    <3>2. After = [d EXCEPT !.heard = r.packet.credit]
      BY <3>1, Zenon
    <3>3. GspiLined(d)
      BY <1>5, GspiAside, Zenon
    <3> HIDE DEF d, After
    <3> QED BY <3>2, <3>3, GspiAside, Zenon
  <2> QED BY <1>3, <2>1, <2>2, <2>3
<1> HIDE DEF b, After
<1> QED BY <1>2, <1>4, <1>6, Zenon

\* The headers.
LEMMA GspiReadHeaderLined ==
  ASSUME GspiLined(state), NEW kind \in {"status", "interrupt", "packet"}, B!ReadHeader(kind)
  PROVE  GspiLined(state')
<1> DEFINE b == [state EXCEPT !.pin = "bits"]
           c == [b EXCEPT !.knows = 0]
<1>1. state.knows \in Nat /\ state.selected \in BOOLEAN /\ GspiFields \subseteq DOMAIN state
  BY GspiStatus, Zenon
<1>2. state.selected /\ state' = B!StartResponse(c, kind, state.knows)
  <2>1. state.selected /\ state' = B!StartResponse([state EXCEPT !.knows = 0, !.pin = "bits"], kind, state.knows)
    BY Zenon DEF B!ReadHeader
  <2>2. [state EXCEPT !.knows = 0, !.pin = "bits"] = c
    <3>1. [[state EXCEPT !.knows = 0] EXCEPT !.pin = "bits"] = [[state EXCEPT !.pin = "bits"] EXCEPT !.knows = 0]
      BY <1>1, Zenon DEF GspiFields
    <3> QED BY <3>1, Zenon
  <2> QED BY <2>1, <2>2, Zenon
<1>3. GspiLined(b)
  BY <1>2, GspiAside, Zenon
<1>4. b.selected = TRUE /\ b.pin = "bits" /\ DOMAIN b = DOMAIN state
  <2>1. b.selected = state.selected /\ b.pin = "bits" /\ DOMAIN b = DOMAIN state
    BY <1>1, Zenon DEF GspiFields
  <2> HIDE DEF b
  <2> QED BY <1>1, <1>2, <2>1
<1> HIDE DEF b
<1>5. 0 \in Nat
  OBVIOUS
<1>6. GspiLined(c)
  BY <1>3, <1>5, GspiAside, Zenon
<1>7. c.selected = TRUE /\ c.pin = "bits"
  BY <1>1, <1>4, Zenon DEF GspiFields
<1> HIDE DEF c
<1> QED BY <1>1, <1>2, <1>6, <1>7, GspiStarts, Zenon

LEMMA GspiWriteHeaderLined ==
  ASSUME GspiLined(state), NEW kind \in {"clear", "send"}, B!WriteHeader(kind)
  PROVE  GspiLined(state')
<1>1. CASE kind = "clear" /\ state' = [state EXCEPT !.command = [kind |-> kind, words |-> 1, size |-> 1], !.saw = FALSE]
  <2> DEFINE r == [kind |-> kind, words |-> 1, size |-> 1]
             no == FALSE
             b == [state EXCEPT !.command = r]
  <2>1. GspiCommand(r)
    BY DEF GspiCommand
  <2> HIDE DEF r
  <2>2. GspiLined(b)
    BY <2>1, GspiAside, Zenon
  <2>3. state' = [b EXCEPT !.saw = no]
    BY <1>1, Zenon DEF r
  <2> HIDE DEF b, no
  <2> QED BY <2>2, <2>3, GspiAside, Zenon
<1>2. ASSUME NEW n \in ReplyCounts,
             state' = [state EXCEPT !.command = [kind |-> kind, words |-> 2, size |-> n], !.sends = state.sends + 1,
                                    !.sequence = (state.sequence + 1) % Credits]
      PROVE  GspiLined(state')
  <2> DEFINE r == [kind |-> kind, words |-> 2, size |-> n]
             sends == state.sends + 1
             sequence == (state.sequence + 1) % Credits
             b == [state EXCEPT !.command = r]
             c == [b EXCEPT !.sends = sends]
  <2>1. n \in Nat
    BY DevicesAssumption DEF B!GspiAssumption
  <2>2. GspiCommand(r)
    BY <2>1 DEF GspiCommand
  <2>3. state' = [state EXCEPT !.command = r, !.sends = sends, !.sequence = sequence]
    BY <1>2, Zenon
  <2> HIDE DEF r, sends, sequence
  <2>4. state' = [c EXCEPT !.sequence = sequence]
    BY <2>3, Zenon
  <2>5. GspiLined(b)
    BY <2>2, GspiAside, Zenon
  <2> HIDE DEF b
  <2>6. GspiLined(c)
    BY <2>5, GspiAside, Zenon
  <2> HIDE DEF c
  <2> QED BY <2>4, <2>6, GspiAside, Zenon
<1>3. \/ kind = "clear" /\ state' = [state EXCEPT !.command = [kind |-> kind, words |-> 1, size |-> 1], !.saw = FALSE]
      \/ \E n \in ReplyCounts :
            state' = [state EXCEPT !.command = [kind |-> kind, words |-> 2, size |-> n], !.sends = state.sends + 1,
                                   !.sequence = (state.sequence + 1) % Credits]
  BY Zenon DEF B!WriteHeader
<1> QED BY <1>1, <1>2, <1>3, Zenon

LEMMA GspiStepLined ==
  ASSUME GspiLined(state), B!Next
  PROVE  GspiLined(state')
<1>1. CASE B!Select
  BY <1>1, GspiSelects, Zenon DEF B!Select
<1>2. CASE B!Deselect
  BY <1>2, GspiSelects, Zenon DEF B!Deselect
<1>3. CASE B!Word
  BY <1>3, GspiWordLined
<1>4. CASE B!Driven
  BY <1>4, GspiDrivenLined
<1>5. CASE B!FrameComes
  <2> DEFINE n == state.frames + 1
             b == [state EXCEPT !.frames = n]
  <2>1. state' = B!QueueRxPacket(b)
    BY <1>5, Zenon DEF B!FrameComes
  <2> HIDE DEF n
  <2>2. GspiLined(b)
    BY GspiAside, Zenon
  <2> HIDE DEF b
  <2> QED BY <2>1, <2>2, GspiQueues, Zenon
<1>6. CASE B!LosesPower
  BY <1>6, GspiPowersOff, Zenon DEF B!LosesPower
<1>7. ASSUME NEW kind \in {"status", "interrupt", "packet"}, B!ReadHeader(kind) PROVE GspiLined(state')
  BY <1>7, GspiReadHeaderLined
<1>8. ASSUME NEW kind \in {"clear", "send"}, B!WriteHeader(kind) PROVE GspiLined(state')
  BY <1>8, GspiWriteHeaderLined
<1> QED BY <1>1, <1>2, <1>3, <1>4, <1>5, <1>6, <1>7, <1>8, Zenon DEF B!Next

LEMMA GspiBegins == B!Init => GspiLined(state)
<1> SUFFICES ASSUME B!Init PROVE GspiLined(state)
  OBVIOUS
<1>1. state = B!Off
  BY DEF B!Init
<1>2. /\ DOMAIN state = DOMAIN B!Off /\ GspiFields \subseteq DOMAIN B!Off /\ state.left = 0 /\ state.rx_queue = << >> /\ state.knows = 0
      /\ state.queued = 0 /\ state.selected = FALSE /\ state.command = B!Nothing /\ state.response = B!Nothing
      /\ state.available = FALSE /\ state.length = 0 /\ state.f2 = FALSE /\ state.credit = 1 /\ state.pin = "low"
  BY <1>1 DEF B!Off, GspiFields
<1>3. GspiData(state)
  <2>1. state.left \in Nat /\ state.queued \in Nat /\ state.knows \in Nat /\ state.credit \in Int
    BY <1>2
  <2>2. state.rx_queue \in Seq(GspiPackets)
    BY <1>2
  <2> QED BY <1>2, <2>1, <2>2, NothingIs, Zenon DEF GspiData
<1>4. ~ (state.left > 0)
  BY <1>2
<1>5. (state.left > 0) = FALSE
  BY <1>2
<1>6. GspiShows(state)
  BY <1>2, <1>4, <1>5, Zenon DEF GspiShows
<1>7. GspiDrives(state) /\ GspiRests(state)
  BY <1>2, <1>4, Zenon DEF GspiDrives, GspiRests
<1> QED BY <1>3, <1>6, <1>7, Zenon DEF GspiLined

LEMMA GspiIsLined == GspiLined(state) => B!LineTellsStatus
<1>1. GspiShows(state) /\ GspiDrives(state) /\ GspiRests(state) => B!LineTellsStatus
  BY Zenon DEF GspiShows, GspiDrives, GspiRests, B!LineTellsStatus, B!Pending
<1> QED BY <1>1, Zenon DEF GspiLined

-----------------------------------------------------------------------------
(* The USB controller and its host. *)

UsbFields == {"sie", "raw", "inte", "line", "done", "event", "writes", "acked", "reads", "parked", "buf", "fw", "traffic"}
IsSeq(w) == \E values : w \in Seq(values)
\* What endpoint 0 is given to send is one of the answers that the host knows.
UsbReplies == {<<"zlp">>, <<"head">>, <<"part">>}
UsbWrites(writes) == DOMAIN writes = D!Ins /\ writes["in0"] \in Seq({0} \X UsbReplies) /\ IsSeq(writes["in1"])
UsbAcks(acked) == DOMAIN acked = D!Ins /\ acked["in0"] \in Seq(UsbReplies) /\ IsSeq(acked["in1"])
UsbGiven(buf) ==
  /\ "in0" \in DOMAIN buf /\ 0 \in DOMAIN buf["in0"] /\ {"avail", "data"} \subseteq DOMAIN buf["in0"][0]
  /\ buf["in0"][0].avail => buf["in0"][0].data \in UsbReplies
UsbTodo(fw) == {"up", "todo", "configured", "own", "next"} \subseteq DOMAIN fw /\ fw.todo \in Seq(UsbReplies)
\* What waits for an alarm waits in order.
UsbQueues(u) ==
  /\ UsbFields \subseteq DOMAIN u
  /\ UsbWrites(u.writes) /\ UsbAcks(u.acked) /\ IsSeq(u.reads) /\ u.parked \in Int
  /\ UsbGiven(u.buf) /\ UsbTodo(u.fw) /\ "in0" \notin u.traffic
UsbTold(u) == \E s \in D!Slots : u.done[s] # << >>
UsbBits(u) == u.sie \subseteq {"SETUP_REQ", "BUS_RESET"}
\* INTR is right: as far as BUFF_STATUS goes, but for BUFF_STATUS, in all.
UsbBuff(u) == UsbBits(u) /\ u.raw \subseteq D!UsbInterrupts /\ ("BUFF_STATUS" \in u.raw <=> UsbTold(u))
UsbBut(u) == UsbBits(u) /\ u.raw \ {"BUFF_STATUS"} = (u.sie \cup {i \in {"DEV_CONN_DIS"} : u.event})
UsbRaw(u) ==
  /\ UsbBits(u)
  /\ u.raw = (u.sie \cup {i \in {"BUFF_STATUS"} : UsbTold(u)} \cup {i \in {"DEV_CONN_DIS"} : u.event})
UsbLined(u) == UsbQueues(u) /\ UsbRaw(u) /\ u.line = (u.raw \cap u.inte # {})

LEMMA SequencesAre ==
  /\ IsSeq(<< >>)
  /\ \A w, x : IsSeq(w) => IsSeq(Append(w, x))
  /\ \A w : IsSeq(w) => Len(w) \in Nat /\ DOMAIN w = 1 .. Len(w)
<1>1. IsSeq(<< >>)
  <2>1. << >> \in Seq({})
    OBVIOUS
  <2> QED BY <2>1, Zenon DEF IsSeq
<1>2. ASSUME NEW w, NEW x, IsSeq(w) PROVE IsSeq(Append(w, x))
  <2>1. PICK values : w \in Seq(values)
    BY <1>2, Zenon DEF IsSeq
  <2> DEFINE more == values \cup {x}
  <2>2. Len(w) \in Nat /\ DOMAIN w = 1 .. Len(w) /\ w = [i \in 1 .. Len(w) |-> w[i]] /\ \A i \in 1 .. Len(w) : w[i] \in values
    BY <2>1
  <2>3. x \in more /\ \A i \in 1 .. Len(w) : w[i] \in more
    BY <2>2
  <2> HIDE DEF more
  <2>4. w \in [1 .. Len(w) -> more]
    BY <2>2, <2>3, Zenon
  <2>5. w \in Seq(more)
    BY <2>2, <2>4, SeqDef
  <2>6. Append(w, x) \in Seq(more)
    BY <2>3, <2>5
  <2> QED BY <2>6, Zenon DEF IsSeq
<1>3. ASSUME NEW w, IsSeq(w) PROVE Len(w) \in Nat /\ DOMAIN w = 1 .. Len(w)
  <2>1. PICK values : w \in Seq(values)
    BY <1>3, Zenon DEF IsSeq
  <2> QED BY <2>1
<1> QED BY <1>1, <1>2, <1>3, Zenon

\* The line and INTR depend on these fields only.
LEMMA UsbSame ==
  ASSUME NEW u, NEW e, e.sie = u.sie, e.raw = u.raw, e.inte = u.inte, e.line = u.line, e.done = u.done, e.event = u.event, UsbQueues(e)
  PROVE  /\ UsbLined(u) => UsbLined(e)
         /\ UsbBuff(u) => UsbBuff(e)
         /\ UsbBut(u) => UsbBut(e)
         /\ UsbRaw(u) => UsbRaw(e)
<1>1. (UsbTold(e) <=> UsbTold(u)) /\ UsbTold(e) = UsbTold(u) /\ (UsbBits(e) <=> UsbBits(u))
  BY Zenon DEF UsbTold, UsbBits
<1>2. UsbRaw(u) => UsbRaw(e)
  BY <1>1, Zenon DEF UsbRaw
<1>3. UsbLined(u) => UsbLined(e)
  BY <1>2, Zenon DEF UsbLined
<1>4. UsbBuff(u) => UsbBuff(e)
  BY <1>1, Zenon DEF UsbBuff
<1>5. UsbBut(u) => UsbBut(e)
  BY <1>1, Zenon DEF UsbBut
<1> QED BY <1>2, <1>3, <1>4, <1>5

LEMMA UsbIsRight ==
  ASSUME NEW u, UsbRaw(u)
  PROVE  UsbBuff(u) /\ UsbBut(u)
<1>1. UsbBits(u) /\ u.raw = (u.sie \cup {i \in {"BUFF_STATUS"} : UsbTold(u)} \cup {i \in {"DEV_CONN_DIS"} : u.event})
  BY Zenon DEF UsbRaw
<1>2. u.sie \subseteq {"SETUP_REQ", "BUS_RESET"}
  BY <1>1, Zenon DEF UsbBits
<1>3. u.raw \subseteq D!UsbInterrupts
  BY <1>1, <1>2 DEF D!UsbInterrupts
<1>4. "BUFF_STATUS" \in u.raw <=> UsbTold(u)
  BY <1>1, <1>2
<1>5. u.raw \ {"BUFF_STATUS"} = (u.sie \cup {i \in {"DEV_CONN_DIS"} : u.event})
  BY <1>1, <1>2
<1> QED BY <1>1, <1>3, <1>4, <1>5, Zenon DEF UsbBuff, UsbBut

LEMMA UsbChecks ==
  ASSUME NEW u, UsbQueues(u), UsbRaw(u)
  PROVE  UsbLined(D!CheckInterrupts(u))
<1> DEFINE line == u.raw \cap u.inte # {}
           e == [u EXCEPT !.line = line]
<1>1. D!CheckInterrupts(u) = e
  BY Zenon DEF D!CheckInterrupts
<1>2. UsbFields \subseteq DOMAIN u
  BY Zenon DEF UsbQueues
<1> HIDE DEF line
<1>3. e.sie = u.sie /\ e.raw = u.raw /\ e.inte = u.inte /\ e.line = line /\ e.done = u.done /\ e.event = u.event
  BY <1>2, Zenon DEF UsbFields
<1>4. DOMAIN e = DOMAIN u /\ e.writes = u.writes /\ e.acked = u.acked /\ e.reads = u.reads /\ e.parked = u.parked /\ e.buf = u.buf /\ e.fw = u.fw /\ e.traffic = u.traffic
  BY <1>2, Zenon DEF UsbFields
<1> HIDE DEF e
<1>5. UsbQueues(e)
  BY <1>4, Zenon DEF UsbQueues
<1>6. UsbRaw(e)
  <2>1. UsbTold(e) = UsbTold(u) /\ (UsbBits(e) <=> UsbBits(u))
    BY <1>3, Zenon DEF UsbTold, UsbBits
  <2> QED BY <1>3, <2>1, Zenon DEF UsbRaw
<1>7. e.line = (e.raw \cap e.inte # {})
  BY <1>3, Zenon DEF line
<1> QED BY <1>1, <1>5, <1>6, <1>7, Zenon DEF UsbLined

\* Only INTR changes.
RawTo(u, raw, e) ==
  /\ e.raw = raw /\ e.sie = u.sie /\ e.inte = u.inte /\ e.line = u.line /\ e.done = u.done /\ e.event = u.event
  /\ UsbQueues(e)

LEMMA RawChanges ==
  ASSUME NEW u, UsbQueues(u), NEW raw, NEW e, e = [u EXCEPT !.raw = raw]
  PROVE  RawTo(u, raw, e)
<1>2. UsbFields \subseteq DOMAIN u
  BY Zenon DEF UsbQueues
<1>3. e.sie = u.sie /\ e.raw = raw /\ e.inte = u.inte /\ e.line = u.line /\ e.done = u.done /\ e.event = u.event
  BY <1>2, Zenon DEF UsbFields
<1>4. DOMAIN e = DOMAIN u /\ e.writes = u.writes /\ e.acked = u.acked /\ e.reads = u.reads /\ e.parked = u.parked /\ e.buf = u.buf /\ e.fw = u.fw /\ e.traffic = u.traffic
  BY <1>2, Zenon DEF UsbFields
<1>5. UsbQueues(e)
  BY <1>4, Zenon DEF UsbQueues
<1> QED BY <1>3, <1>5, Zenon DEF RawTo

LEMMA BuffUpdates ==
  ASSUME NEW u, UsbQueues(u), UsbBut(u)
  PROVE  UsbLined(D!BuffStatusUpdated(u))
<1> DEFINE told == \E s \in D!Slots : u.done[s] # << >>
           e == D!Raw(u, "BUFF_STATUS", told)
<1>1. D!BuffStatusUpdated(u) = D!CheckInterrupts(e)
  BY Zenon DEF D!BuffStatusUpdated
<1>2. told = UsbTold(u)
  BY Zenon DEF UsbTold
<1> HIDE DEF told
<1>3. /\ e.raw = (IF told THEN u.raw \cup {"BUFF_STATUS"} ELSE u.raw \ {"BUFF_STATUS"})
      /\ e.sie = u.sie /\ e.done = u.done /\ e.event = u.event /\ UsbQueues(e)
  <2> DEFINE raw == IF told THEN u.raw \cup {"BUFF_STATUS"} ELSE u.raw \ {"BUFF_STATUS"}
  <2>1. e = [u EXCEPT !.raw = raw]
    BY Zenon DEF D!Raw
  <2> HIDE DEF e, raw
  <2>2. RawTo(u, raw, e)
    BY <2>1, RawChanges, Zenon
  <2> QED BY <2>2, Zenon DEF raw, RawTo
<1> HIDE DEF e
<1>4. u.sie \subseteq {"SETUP_REQ", "BUS_RESET"} /\ u.raw \ {"BUFF_STATUS"} = (u.sie \cup {i \in {"DEV_CONN_DIS"} : u.event})
  BY Zenon DEF UsbBut, UsbBits
<1> DEFINE rest == u.sie \cup {i \in {"DEV_CONN_DIS"} : u.event}
<1>5. "BUFF_STATUS" \notin rest /\ u.raw \ {"BUFF_STATUS"} = rest
  BY <1>4
<1>6. e.raw = (e.sie \cup {i \in {"BUFF_STATUS"} : told} \cup {i \in {"DEV_CONN_DIS"} : e.event})
  <2>1. e.raw = (rest \cup {i \in {"BUFF_STATUS"} : told})
    <3> HIDE DEF rest
    <3>1. CASE told
      <4>1. {i \in {"BUFF_STATUS"} : told} = {"BUFF_STATUS"}
        BY <3>1
      <4>2. e.raw = (u.raw \cup {"BUFF_STATUS"})
        BY <1>3, <3>1, Zenon
      <4> QED BY <1>5, <4>1, <4>2
    <3>2. CASE ~ told
      <4>1. {i \in {"BUFF_STATUS"} : told} = {}
        BY <3>2
      <4>2. e.raw = u.raw \ {"BUFF_STATUS"}
        BY <1>3, <3>2, Zenon
      <4> QED BY <1>5, <4>1, <4>2
    <3> QED BY <3>1, <3>2
  <2>2. e.sie = u.sie /\ e.event = u.event
    BY <1>3
  <2>3. rest = (e.sie \cup {i \in {"DEV_CONN_DIS"} : e.event})
    BY <2>2, Zenon
  <2> HIDE DEF rest
  <2> QED BY <2>1, <2>3
<1>7. UsbTold(e) = told /\ UsbBits(e)
  BY <1>2, <1>3, <1>4, Zenon DEF UsbTold, UsbBits
<1>8. UsbRaw(e)
  BY <1>6, <1>7, Zenon DEF UsbRaw
<1> QED BY <1>1, <1>3, <1>8, UsbChecks, Zenon

LEMMA SieUpdates ==
  ASSUME NEW u, UsbQueues(u), UsbBuff(u)
  PROVE  UsbLined(D!SieStatusUpdated(u))
<1> DEFINE setup == "SETUP_REQ" \in u.sie
           reset == "BUS_RESET" \in u.sie
           event == u.event
           c == D!Raw(u, "SETUP_REQ", setup)
           d == D!Raw(c, "BUS_RESET", reset)
           e == D!Raw(d, "DEV_CONN_DIS", event)
<1>1. D!SieStatusUpdated(u) = D!CheckInterrupts(e)
  BY Zenon DEF D!SieStatusUpdated
<1> HIDE DEF setup, reset, event
<1>2. /\ c.raw = (IF setup THEN u.raw \cup {"SETUP_REQ"} ELSE u.raw \ {"SETUP_REQ"})
      /\ c.sie = u.sie /\ c.done = u.done /\ c.event = u.event /\ UsbQueues(c)
  <2> DEFINE raw == IF setup THEN u.raw \cup {"SETUP_REQ"} ELSE u.raw \ {"SETUP_REQ"}
  <2>1. c = [u EXCEPT !.raw = raw]
    BY Zenon DEF D!Raw
  <2> HIDE DEF c, raw
  <2>2. RawTo(u, raw, c)
    BY <2>1, RawChanges, Zenon
  <2> QED BY <2>2, Zenon DEF raw, RawTo
<1> HIDE DEF c
<1>3. /\ d.raw = (IF reset THEN c.raw \cup {"BUS_RESET"} ELSE c.raw \ {"BUS_RESET"})
      /\ d.sie = u.sie /\ d.done = u.done /\ d.event = u.event /\ UsbQueues(d)
  <2> DEFINE raw == IF reset THEN c.raw \cup {"BUS_RESET"} ELSE c.raw \ {"BUS_RESET"}
  <2>1. d = [c EXCEPT !.raw = raw]
    BY Zenon DEF D!Raw
  <2> HIDE DEF d, raw
  <2>2. RawTo(c, raw, d)
    BY <1>2, <2>1, RawChanges, Zenon
  <2> QED BY <1>2, <2>2, Zenon DEF raw, RawTo
<1> HIDE DEF d
<1>4. /\ e.raw = (IF event THEN d.raw \cup {"DEV_CONN_DIS"} ELSE d.raw \ {"DEV_CONN_DIS"})
      /\ e.sie = u.sie /\ e.done = u.done /\ e.event = u.event /\ UsbQueues(e)
  <2> DEFINE raw == IF event THEN d.raw \cup {"DEV_CONN_DIS"} ELSE d.raw \ {"DEV_CONN_DIS"}
  <2>1. e = [d EXCEPT !.raw = raw]
    BY Zenon DEF D!Raw
  <2> HIDE DEF e, raw
  <2>2. RawTo(d, raw, e)
    BY <1>3, <2>1, RawChanges, Zenon
  <2> QED BY <1>3, <2>2, Zenon DEF raw, RawTo
<1> HIDE DEF e
<1>5. /\ u.sie \subseteq {"SETUP_REQ", "BUS_RESET"} /\ u.raw \subseteq {"SETUP_REQ", "BUS_RESET", "BUFF_STATUS", "DEV_CONN_DIS"}
      /\ "BUFF_STATUS" \in u.raw <=> UsbTold(u)
  BY Zenon DEF UsbBuff, UsbBits, D!UsbInterrupts
<1> DEFINE right == u.sie \cup {i \in {"BUFF_STATUS"} : UsbTold(u)} \cup {i \in {"DEV_CONN_DIS"} : event}
<1>6. ASSUME NEW i PROVE i \in e.raw <=> i \in right
  <2>1. i \in right <=> (i \in u.sie \/ (i = "BUFF_STATUS" /\ UsbTold(u)) \/ (i = "DEV_CONN_DIS" /\ event))
    OBVIOUS
  <2> HIDE DEF right
  <2>2. i \in e.raw <=> IF i = "DEV_CONN_DIS" THEN event ELSE i \in d.raw
    BY <1>4
  <2>3. i \in d.raw <=> IF i = "BUS_RESET" THEN reset ELSE i \in c.raw
    BY <1>3
  <2>4. i \in c.raw <=> IF i = "SETUP_REQ" THEN setup ELSE i \in u.raw
    BY <1>2
  <2>5. (setup <=> "SETUP_REQ" \in u.sie) /\ (reset <=> "BUS_RESET" \in u.sie)
    BY Zenon DEF setup, reset
  <2>6. CASE i = "DEV_CONN_DIS"
    BY <1>5, <2>1, <2>2, <2>6
  <2>7. CASE i = "BUS_RESET"
    BY <1>5, <2>1, <2>2, <2>3, <2>5, <2>7
  <2>8. CASE i = "SETUP_REQ"
    BY <1>5, <2>1, <2>2, <2>3, <2>4, <2>5, <2>8
  <2>9. CASE i \notin {"DEV_CONN_DIS", "BUS_RESET", "SETUP_REQ"}
    BY <1>5, <2>1, <2>2, <2>3, <2>4, <2>9
  <2> QED BY <2>6, <2>7, <2>8, <2>9
<1>7. e.raw = right
  <2> HIDE DEF right
  <2> QED BY <1>6
<1>8. (UsbTold(e) <=> UsbTold(u)) /\ UsbTold(e) = UsbTold(u) /\ UsbBits(e)
  BY <1>4, <1>5, Zenon DEF UsbTold, UsbBits
<1>9. e.raw = (e.sie \cup {i \in {"BUFF_STATUS"} : UsbTold(e)} \cup {i \in {"DEV_CONN_DIS"} : e.event})
  BY <1>4, <1>7, <1>8, Zenon DEF event
<1>10. UsbRaw(e)
  BY <1>8, <1>9, Zenon DEF UsbRaw
<1> QED BY <1>1, <1>4, <1>10, UsbChecks, Zenon

\* Fields that the line does not depend on.
LEMMA UsbSets ==
  ASSUME NEW u, UsbLined(u)
  PROVE  /\ \A v : UsbLined([u EXCEPT !.sel = v])
         /\ \A v : UsbLined([u EXCEPT !.two = v])
         /\ \A v : UsbLined([u EXCEPT !.pending = v])
         /\ \A v : UsbLined([u EXCEPT !.tx = v])
         /\ \A v : UsbLined([u EXCEPT !.flush = v])
         /\ \A v : UsbLined([u EXCEPT !.ready = v])
         /\ \A v : UsbLined([u EXCEPT !.known = v])
         /\ \A v : UsbLined([u EXCEPT !.read = v])
         /\ \A v : UsbLined([u EXCEPT !.endpoints = v])
         /\ \A v : UsbLined([u EXCEPT !.bus_reset = v])
         /\ \A v : UsbLined([u EXCEPT !.setup = v])
         /\ \A v : UsbLined([u EXCEPT !.sent = v])
         /\ \A v : UsbLined([u EXCEPT !.got = v])
         /\ \A v : UsbLined([u EXCEPT !.given = v])
         /\ \A v : UsbLined([u EXCEPT !.heard = v])
         /\ \A v : UsbLined([u EXCEPT !.connected = v])
         /\ \A v : IsSeq(v) => UsbLined([u EXCEPT !.reads = v])
         /\ \A v \in Int : UsbLined([u EXCEPT !.parked = v])
         /\ \A v : UsbGiven(v) => UsbLined([u EXCEPT !.buf = v])
         /\ \A v : UsbTodo(v) => UsbLined([u EXCEPT !.fw = v])
         /\ \A v : UsbWrites(v) => UsbLined([u EXCEPT !.writes = v])
         /\ \A v : UsbAcks(v) => UsbLined([u EXCEPT !.acked = v])
<1>1. UsbQueues(u) /\ UsbFields \subseteq DOMAIN u
  BY Zenon DEF UsbLined, UsbQueues
<1>2. ASSUME NEW v PROVE UsbLined([u EXCEPT !.sel = v])
  <2> DEFINE e == [u EXCEPT !.sel = v]
  <2>1. e.sie = u.sie /\ e.raw = u.raw /\ e.inte = u.inte /\ e.line = u.line /\ e.done = u.done /\ e.event = u.event
    BY <1>1, Zenon DEF UsbFields
  <2>2. DOMAIN e = DOMAIN u /\ e.writes = u.writes /\ e.acked = u.acked /\ e.reads = u.reads /\ e.parked = u.parked /\ e.buf = u.buf /\ e.fw = u.fw /\ e.traffic = u.traffic
    BY <1>1, Zenon DEF UsbFields
  <2> HIDE DEF e
  <2>3. UsbQueues(e)
    BY <1>1, <2>2, Zenon DEF UsbQueues
  <2>5. UsbLined(e)
    BY <2>1, <2>3, UsbSame, Zenon
  <2> QED BY <2>3, <2>5, Zenon DEF e
<1>3. ASSUME NEW v PROVE UsbLined([u EXCEPT !.two = v])
  <2> DEFINE e == [u EXCEPT !.two = v]
  <2>1. e.sie = u.sie /\ e.raw = u.raw /\ e.inte = u.inte /\ e.line = u.line /\ e.done = u.done /\ e.event = u.event
    BY <1>1, Zenon DEF UsbFields
  <2>2. DOMAIN e = DOMAIN u /\ e.writes = u.writes /\ e.acked = u.acked /\ e.reads = u.reads /\ e.parked = u.parked /\ e.buf = u.buf /\ e.fw = u.fw /\ e.traffic = u.traffic
    BY <1>1, Zenon DEF UsbFields
  <2> HIDE DEF e
  <2>3. UsbQueues(e)
    BY <1>1, <2>2, Zenon DEF UsbQueues
  <2>5. UsbLined(e)
    BY <2>1, <2>3, UsbSame, Zenon
  <2> QED BY <2>3, <2>5, Zenon DEF e
<1>4. ASSUME NEW v PROVE UsbLined([u EXCEPT !.pending = v])
  <2> DEFINE e == [u EXCEPT !.pending = v]
  <2>1. e.sie = u.sie /\ e.raw = u.raw /\ e.inte = u.inte /\ e.line = u.line /\ e.done = u.done /\ e.event = u.event
    BY <1>1, Zenon DEF UsbFields
  <2>2. DOMAIN e = DOMAIN u /\ e.writes = u.writes /\ e.acked = u.acked /\ e.reads = u.reads /\ e.parked = u.parked /\ e.buf = u.buf /\ e.fw = u.fw /\ e.traffic = u.traffic
    BY <1>1, Zenon DEF UsbFields
  <2> HIDE DEF e
  <2>3. UsbQueues(e)
    BY <1>1, <2>2, Zenon DEF UsbQueues
  <2>5. UsbLined(e)
    BY <2>1, <2>3, UsbSame, Zenon
  <2> QED BY <2>3, <2>5, Zenon DEF e
<1>5. ASSUME NEW v PROVE UsbLined([u EXCEPT !.tx = v])
  <2> DEFINE e == [u EXCEPT !.tx = v]
  <2>1. e.sie = u.sie /\ e.raw = u.raw /\ e.inte = u.inte /\ e.line = u.line /\ e.done = u.done /\ e.event = u.event
    BY <1>1, Zenon DEF UsbFields
  <2>2. DOMAIN e = DOMAIN u /\ e.writes = u.writes /\ e.acked = u.acked /\ e.reads = u.reads /\ e.parked = u.parked /\ e.buf = u.buf /\ e.fw = u.fw /\ e.traffic = u.traffic
    BY <1>1, Zenon DEF UsbFields
  <2> HIDE DEF e
  <2>3. UsbQueues(e)
    BY <1>1, <2>2, Zenon DEF UsbQueues
  <2>5. UsbLined(e)
    BY <2>1, <2>3, UsbSame, Zenon
  <2> QED BY <2>3, <2>5, Zenon DEF e
<1>6. ASSUME NEW v PROVE UsbLined([u EXCEPT !.flush = v])
  <2> DEFINE e == [u EXCEPT !.flush = v]
  <2>1. e.sie = u.sie /\ e.raw = u.raw /\ e.inte = u.inte /\ e.line = u.line /\ e.done = u.done /\ e.event = u.event
    BY <1>1, Zenon DEF UsbFields
  <2>2. DOMAIN e = DOMAIN u /\ e.writes = u.writes /\ e.acked = u.acked /\ e.reads = u.reads /\ e.parked = u.parked /\ e.buf = u.buf /\ e.fw = u.fw /\ e.traffic = u.traffic
    BY <1>1, Zenon DEF UsbFields
  <2> HIDE DEF e
  <2>3. UsbQueues(e)
    BY <1>1, <2>2, Zenon DEF UsbQueues
  <2>5. UsbLined(e)
    BY <2>1, <2>3, UsbSame, Zenon
  <2> QED BY <2>3, <2>5, Zenon DEF e
<1>7. ASSUME NEW v PROVE UsbLined([u EXCEPT !.ready = v])
  <2> DEFINE e == [u EXCEPT !.ready = v]
  <2>1. e.sie = u.sie /\ e.raw = u.raw /\ e.inte = u.inte /\ e.line = u.line /\ e.done = u.done /\ e.event = u.event
    BY <1>1, Zenon DEF UsbFields
  <2>2. DOMAIN e = DOMAIN u /\ e.writes = u.writes /\ e.acked = u.acked /\ e.reads = u.reads /\ e.parked = u.parked /\ e.buf = u.buf /\ e.fw = u.fw /\ e.traffic = u.traffic
    BY <1>1, Zenon DEF UsbFields
  <2> HIDE DEF e
  <2>3. UsbQueues(e)
    BY <1>1, <2>2, Zenon DEF UsbQueues
  <2>5. UsbLined(e)
    BY <2>1, <2>3, UsbSame, Zenon
  <2> QED BY <2>3, <2>5, Zenon DEF e
<1>8. ASSUME NEW v PROVE UsbLined([u EXCEPT !.known = v])
  <2> DEFINE e == [u EXCEPT !.known = v]
  <2>1. e.sie = u.sie /\ e.raw = u.raw /\ e.inte = u.inte /\ e.line = u.line /\ e.done = u.done /\ e.event = u.event
    BY <1>1, Zenon DEF UsbFields
  <2>2. DOMAIN e = DOMAIN u /\ e.writes = u.writes /\ e.acked = u.acked /\ e.reads = u.reads /\ e.parked = u.parked /\ e.buf = u.buf /\ e.fw = u.fw /\ e.traffic = u.traffic
    BY <1>1, Zenon DEF UsbFields
  <2> HIDE DEF e
  <2>3. UsbQueues(e)
    BY <1>1, <2>2, Zenon DEF UsbQueues
  <2>5. UsbLined(e)
    BY <2>1, <2>3, UsbSame, Zenon
  <2> QED BY <2>3, <2>5, Zenon DEF e
<1>9. ASSUME NEW v PROVE UsbLined([u EXCEPT !.read = v])
  <2> DEFINE e == [u EXCEPT !.read = v]
  <2>1. e.sie = u.sie /\ e.raw = u.raw /\ e.inte = u.inte /\ e.line = u.line /\ e.done = u.done /\ e.event = u.event
    BY <1>1, Zenon DEF UsbFields
  <2>2. DOMAIN e = DOMAIN u /\ e.writes = u.writes /\ e.acked = u.acked /\ e.reads = u.reads /\ e.parked = u.parked /\ e.buf = u.buf /\ e.fw = u.fw /\ e.traffic = u.traffic
    BY <1>1, Zenon DEF UsbFields
  <2> HIDE DEF e
  <2>3. UsbQueues(e)
    BY <1>1, <2>2, Zenon DEF UsbQueues
  <2>5. UsbLined(e)
    BY <2>1, <2>3, UsbSame, Zenon
  <2> QED BY <2>3, <2>5, Zenon DEF e
<1>10. ASSUME NEW v PROVE UsbLined([u EXCEPT !.endpoints = v])
  <2> DEFINE e == [u EXCEPT !.endpoints = v]
  <2>1. e.sie = u.sie /\ e.raw = u.raw /\ e.inte = u.inte /\ e.line = u.line /\ e.done = u.done /\ e.event = u.event
    BY <1>1, Zenon DEF UsbFields
  <2>2. DOMAIN e = DOMAIN u /\ e.writes = u.writes /\ e.acked = u.acked /\ e.reads = u.reads /\ e.parked = u.parked /\ e.buf = u.buf /\ e.fw = u.fw /\ e.traffic = u.traffic
    BY <1>1, Zenon DEF UsbFields
  <2> HIDE DEF e
  <2>3. UsbQueues(e)
    BY <1>1, <2>2, Zenon DEF UsbQueues
  <2>5. UsbLined(e)
    BY <2>1, <2>3, UsbSame, Zenon
  <2> QED BY <2>3, <2>5, Zenon DEF e
<1>11. ASSUME NEW v PROVE UsbLined([u EXCEPT !.bus_reset = v])
  <2> DEFINE e == [u EXCEPT !.bus_reset = v]
  <2>1. e.sie = u.sie /\ e.raw = u.raw /\ e.inte = u.inte /\ e.line = u.line /\ e.done = u.done /\ e.event = u.event
    BY <1>1, Zenon DEF UsbFields
  <2>2. DOMAIN e = DOMAIN u /\ e.writes = u.writes /\ e.acked = u.acked /\ e.reads = u.reads /\ e.parked = u.parked /\ e.buf = u.buf /\ e.fw = u.fw /\ e.traffic = u.traffic
    BY <1>1, Zenon DEF UsbFields
  <2> HIDE DEF e
  <2>3. UsbQueues(e)
    BY <1>1, <2>2, Zenon DEF UsbQueues
  <2>5. UsbLined(e)
    BY <2>1, <2>3, UsbSame, Zenon
  <2> QED BY <2>3, <2>5, Zenon DEF e
<1>12. ASSUME NEW v PROVE UsbLined([u EXCEPT !.setup = v])
  <2> DEFINE e == [u EXCEPT !.setup = v]
  <2>1. e.sie = u.sie /\ e.raw = u.raw /\ e.inte = u.inte /\ e.line = u.line /\ e.done = u.done /\ e.event = u.event
    BY <1>1, Zenon DEF UsbFields
  <2>2. DOMAIN e = DOMAIN u /\ e.writes = u.writes /\ e.acked = u.acked /\ e.reads = u.reads /\ e.parked = u.parked /\ e.buf = u.buf /\ e.fw = u.fw /\ e.traffic = u.traffic
    BY <1>1, Zenon DEF UsbFields
  <2> HIDE DEF e
  <2>3. UsbQueues(e)
    BY <1>1, <2>2, Zenon DEF UsbQueues
  <2>5. UsbLined(e)
    BY <2>1, <2>3, UsbSame, Zenon
  <2> QED BY <2>3, <2>5, Zenon DEF e
<1>13. ASSUME NEW v PROVE UsbLined([u EXCEPT !.sent = v])
  <2> DEFINE e == [u EXCEPT !.sent = v]
  <2>1. e.sie = u.sie /\ e.raw = u.raw /\ e.inte = u.inte /\ e.line = u.line /\ e.done = u.done /\ e.event = u.event
    BY <1>1, Zenon DEF UsbFields
  <2>2. DOMAIN e = DOMAIN u /\ e.writes = u.writes /\ e.acked = u.acked /\ e.reads = u.reads /\ e.parked = u.parked /\ e.buf = u.buf /\ e.fw = u.fw /\ e.traffic = u.traffic
    BY <1>1, Zenon DEF UsbFields
  <2> HIDE DEF e
  <2>3. UsbQueues(e)
    BY <1>1, <2>2, Zenon DEF UsbQueues
  <2>5. UsbLined(e)
    BY <2>1, <2>3, UsbSame, Zenon
  <2> QED BY <2>3, <2>5, Zenon DEF e
<1>14. ASSUME NEW v PROVE UsbLined([u EXCEPT !.got = v])
  <2> DEFINE e == [u EXCEPT !.got = v]
  <2>1. e.sie = u.sie /\ e.raw = u.raw /\ e.inte = u.inte /\ e.line = u.line /\ e.done = u.done /\ e.event = u.event
    BY <1>1, Zenon DEF UsbFields
  <2>2. DOMAIN e = DOMAIN u /\ e.writes = u.writes /\ e.acked = u.acked /\ e.reads = u.reads /\ e.parked = u.parked /\ e.buf = u.buf /\ e.fw = u.fw /\ e.traffic = u.traffic
    BY <1>1, Zenon DEF UsbFields
  <2> HIDE DEF e
  <2>3. UsbQueues(e)
    BY <1>1, <2>2, Zenon DEF UsbQueues
  <2>5. UsbLined(e)
    BY <2>1, <2>3, UsbSame, Zenon
  <2> QED BY <2>3, <2>5, Zenon DEF e
<1>15. ASSUME NEW v PROVE UsbLined([u EXCEPT !.given = v])
  <2> DEFINE e == [u EXCEPT !.given = v]
  <2>1. e.sie = u.sie /\ e.raw = u.raw /\ e.inte = u.inte /\ e.line = u.line /\ e.done = u.done /\ e.event = u.event
    BY <1>1, Zenon DEF UsbFields
  <2>2. DOMAIN e = DOMAIN u /\ e.writes = u.writes /\ e.acked = u.acked /\ e.reads = u.reads /\ e.parked = u.parked /\ e.buf = u.buf /\ e.fw = u.fw /\ e.traffic = u.traffic
    BY <1>1, Zenon DEF UsbFields
  <2> HIDE DEF e
  <2>3. UsbQueues(e)
    BY <1>1, <2>2, Zenon DEF UsbQueues
  <2>5. UsbLined(e)
    BY <2>1, <2>3, UsbSame, Zenon
  <2> QED BY <2>3, <2>5, Zenon DEF e
<1>16. ASSUME NEW v PROVE UsbLined([u EXCEPT !.heard = v])
  <2> DEFINE e == [u EXCEPT !.heard = v]
  <2>1. e.sie = u.sie /\ e.raw = u.raw /\ e.inte = u.inte /\ e.line = u.line /\ e.done = u.done /\ e.event = u.event
    BY <1>1, Zenon DEF UsbFields
  <2>2. DOMAIN e = DOMAIN u /\ e.writes = u.writes /\ e.acked = u.acked /\ e.reads = u.reads /\ e.parked = u.parked /\ e.buf = u.buf /\ e.fw = u.fw /\ e.traffic = u.traffic
    BY <1>1, Zenon DEF UsbFields
  <2> HIDE DEF e
  <2>3. UsbQueues(e)
    BY <1>1, <2>2, Zenon DEF UsbQueues
  <2>5. UsbLined(e)
    BY <2>1, <2>3, UsbSame, Zenon
  <2> QED BY <2>3, <2>5, Zenon DEF e
<1>17. ASSUME NEW v PROVE UsbLined([u EXCEPT !.connected = v])
  <2> DEFINE e == [u EXCEPT !.connected = v]
  <2>1. e.sie = u.sie /\ e.raw = u.raw /\ e.inte = u.inte /\ e.line = u.line /\ e.done = u.done /\ e.event = u.event
    BY <1>1, Zenon DEF UsbFields
  <2>2. DOMAIN e = DOMAIN u /\ e.writes = u.writes /\ e.acked = u.acked /\ e.reads = u.reads /\ e.parked = u.parked /\ e.buf = u.buf /\ e.fw = u.fw /\ e.traffic = u.traffic
    BY <1>1, Zenon DEF UsbFields
  <2> HIDE DEF e
  <2>3. UsbQueues(e)
    BY <1>1, <2>2, Zenon DEF UsbQueues
  <2>5. UsbLined(e)
    BY <2>1, <2>3, UsbSame, Zenon
  <2> QED BY <2>3, <2>5, Zenon DEF e
<1>18. ASSUME NEW v, IsSeq(v) PROVE UsbLined([u EXCEPT !.reads = v])
  <2> DEFINE e == [u EXCEPT !.reads = v]
  <2>1. e.sie = u.sie /\ e.raw = u.raw /\ e.inte = u.inte /\ e.line = u.line /\ e.done = u.done /\ e.event = u.event
    BY <1>1, Zenon DEF UsbFields
  <2>2. DOMAIN e = DOMAIN u /\ e.writes = u.writes /\ e.acked = u.acked /\ e.reads = v /\ e.parked = u.parked /\ e.buf = u.buf /\ e.fw = u.fw /\ e.traffic = u.traffic
    BY <1>1, Zenon DEF UsbFields
  <2> HIDE DEF e
  <2>3. UsbQueues(e)
    BY <1>1, <1>18, <2>2, Zenon DEF UsbQueues
  <2>5. UsbLined(e)
    BY <2>1, <2>3, UsbSame, Zenon
  <2> QED BY <2>3, <2>5, Zenon DEF e
<1>19. ASSUME NEW v \in Int PROVE UsbLined([u EXCEPT !.parked = v])
  <2> DEFINE e == [u EXCEPT !.parked = v]
  <2>1. e.sie = u.sie /\ e.raw = u.raw /\ e.inte = u.inte /\ e.line = u.line /\ e.done = u.done /\ e.event = u.event
    BY <1>1, Zenon DEF UsbFields
  <2>2. DOMAIN e = DOMAIN u /\ e.writes = u.writes /\ e.acked = u.acked /\ e.reads = u.reads /\ e.parked = v /\ e.buf = u.buf /\ e.fw = u.fw /\ e.traffic = u.traffic
    BY <1>1, Zenon DEF UsbFields
  <2> HIDE DEF e
  <2>3. UsbQueues(e)
    BY <1>1, <1>19, <2>2, Zenon DEF UsbQueues
  <2>5. UsbLined(e)
    BY <2>1, <2>3, UsbSame, Zenon
  <2> QED BY <2>3, <2>5, Zenon DEF e
<1>20. ASSUME NEW v, UsbGiven(v) PROVE UsbLined([u EXCEPT !.buf = v])
  <2> DEFINE e == [u EXCEPT !.buf = v]
  <2>1. e.sie = u.sie /\ e.raw = u.raw /\ e.inte = u.inte /\ e.line = u.line /\ e.done = u.done /\ e.event = u.event
    BY <1>1, Zenon DEF UsbFields
  <2>2. DOMAIN e = DOMAIN u /\ e.writes = u.writes /\ e.acked = u.acked /\ e.reads = u.reads /\ e.parked = u.parked /\ e.buf = v /\ e.fw = u.fw /\ e.traffic = u.traffic
    BY <1>1, Zenon DEF UsbFields
  <2> HIDE DEF e
  <2>3. UsbQueues(e)
    BY <1>1, <1>20, <2>2, Zenon DEF UsbQueues
  <2>5. UsbLined(e)
    BY <2>1, <2>3, UsbSame, Zenon
  <2> QED BY <2>3, <2>5, Zenon DEF e
<1>21. ASSUME NEW v, UsbTodo(v) PROVE UsbLined([u EXCEPT !.fw = v])
  <2> DEFINE e == [u EXCEPT !.fw = v]
  <2>1. e.sie = u.sie /\ e.raw = u.raw /\ e.inte = u.inte /\ e.line = u.line /\ e.done = u.done /\ e.event = u.event
    BY <1>1, Zenon DEF UsbFields
  <2>2. DOMAIN e = DOMAIN u /\ e.writes = u.writes /\ e.acked = u.acked /\ e.reads = u.reads /\ e.parked = u.parked /\ e.buf = u.buf /\ e.fw = v /\ e.traffic = u.traffic
    BY <1>1, Zenon DEF UsbFields
  <2> HIDE DEF e
  <2>3. UsbQueues(e)
    BY <1>1, <1>21, <2>2, Zenon DEF UsbQueues
  <2>5. UsbLined(e)
    BY <2>1, <2>3, UsbSame, Zenon
  <2> QED BY <2>3, <2>5, Zenon DEF e
<1>22. ASSUME NEW v, UsbWrites(v) PROVE UsbLined([u EXCEPT !.writes = v])
  <2> DEFINE e == [u EXCEPT !.writes = v]
  <2>1. e.sie = u.sie /\ e.raw = u.raw /\ e.inte = u.inte /\ e.line = u.line /\ e.done = u.done /\ e.event = u.event
    BY <1>1, Zenon DEF UsbFields
  <2>2. DOMAIN e = DOMAIN u /\ e.writes = v /\ e.acked = u.acked /\ e.reads = u.reads /\ e.parked = u.parked /\ e.buf = u.buf /\ e.fw = u.fw /\ e.traffic = u.traffic
    BY <1>1, Zenon DEF UsbFields
  <2> HIDE DEF e
  <2>3. UsbQueues(e)
    BY <1>1, <1>22, <2>2, Zenon DEF UsbQueues
  <2>5. UsbLined(e)
    BY <2>1, <2>3, UsbSame, Zenon
  <2> QED BY <2>3, <2>5, Zenon DEF e
<1>23. ASSUME NEW v, UsbAcks(v) PROVE UsbLined([u EXCEPT !.acked = v])
  <2> DEFINE e == [u EXCEPT !.acked = v]
  <2>1. e.sie = u.sie /\ e.raw = u.raw /\ e.inte = u.inte /\ e.line = u.line /\ e.done = u.done /\ e.event = u.event
    BY <1>1, Zenon DEF UsbFields
  <2>2. DOMAIN e = DOMAIN u /\ e.writes = u.writes /\ e.acked = v /\ e.reads = u.reads /\ e.parked = u.parked /\ e.buf = u.buf /\ e.fw = u.fw /\ e.traffic = u.traffic
    BY <1>1, Zenon DEF UsbFields
  <2> HIDE DEF e
  <2>3. UsbQueues(e)
    BY <1>1, <1>23, <2>2, Zenon DEF UsbQueues
  <2>5. UsbLined(e)
    BY <2>1, <2>3, UsbSame, Zenon
  <2> QED BY <2>3, <2>5, Zenon DEF e
<1> QED BY <1>2, <1>3, <1>4, <1>5, <1>6, <1>7, <1>8, <1>9, <1>10, <1>11, <1>12, <1>13, <1>14, <1>15, <1>16, <1>17, <1>18, <1>19, <1>20, <1>21, <1>22, <1>23, Zenon

\* As long as BUFF_STATUS is right.
LEMMA UsbBuffSets ==
  ASSUME NEW u, UsbQueues(u), UsbBuff(u)
  PROVE  /\ \A v : UsbQueues([u EXCEPT !.setup = v]) /\ UsbBuff([u EXCEPT !.setup = v])
         /\ \A v : UsbQueues([u EXCEPT !.connected = v]) /\ UsbBuff([u EXCEPT !.connected = v])
         /\ \A v : UsbQueues([u EXCEPT !.event = v]) /\ UsbBuff([u EXCEPT !.event = v])
         /\ \A v : UsbTodo(v) => UsbQueues([u EXCEPT !.fw = v]) /\ UsbBuff([u EXCEPT !.fw = v])
         /\ \A v : v \subseteq {"SETUP_REQ", "BUS_RESET"} => UsbQueues([u EXCEPT !.sie = v]) /\ UsbBuff([u EXCEPT !.sie = v])
<1>1. UsbQueues(u) /\ UsbFields \subseteq DOMAIN u
  BY Zenon DEF UsbLined, UsbQueues
<1>2. ASSUME NEW v PROVE UsbQueues([u EXCEPT !.setup = v]) /\ UsbBuff([u EXCEPT !.setup = v])
  <2> DEFINE e == [u EXCEPT !.setup = v]
  <2>1. e.sie = u.sie /\ e.raw = u.raw /\ e.inte = u.inte /\ e.line = u.line /\ e.done = u.done /\ e.event = u.event
    BY <1>1, Zenon DEF UsbFields
  <2>2. DOMAIN e = DOMAIN u /\ e.writes = u.writes /\ e.acked = u.acked /\ e.reads = u.reads /\ e.parked = u.parked /\ e.buf = u.buf /\ e.fw = u.fw /\ e.traffic = u.traffic
    BY <1>1, Zenon DEF UsbFields
  <2> HIDE DEF e
  <2>3. UsbQueues(e)
    BY <1>1, <2>2, Zenon DEF UsbQueues
  <2>5. UsbBuff(e)
    BY <2>1, <2>3, UsbSame, Zenon
  <2> QED BY <2>3, <2>5, Zenon DEF e
<1>3. ASSUME NEW v PROVE UsbQueues([u EXCEPT !.connected = v]) /\ UsbBuff([u EXCEPT !.connected = v])
  <2> DEFINE e == [u EXCEPT !.connected = v]
  <2>1. e.sie = u.sie /\ e.raw = u.raw /\ e.inte = u.inte /\ e.line = u.line /\ e.done = u.done /\ e.event = u.event
    BY <1>1, Zenon DEF UsbFields
  <2>2. DOMAIN e = DOMAIN u /\ e.writes = u.writes /\ e.acked = u.acked /\ e.reads = u.reads /\ e.parked = u.parked /\ e.buf = u.buf /\ e.fw = u.fw /\ e.traffic = u.traffic
    BY <1>1, Zenon DEF UsbFields
  <2> HIDE DEF e
  <2>3. UsbQueues(e)
    BY <1>1, <2>2, Zenon DEF UsbQueues
  <2>5. UsbBuff(e)
    BY <2>1, <2>3, UsbSame, Zenon
  <2> QED BY <2>3, <2>5, Zenon DEF e
<1>4. ASSUME NEW v PROVE UsbQueues([u EXCEPT !.event = v]) /\ UsbBuff([u EXCEPT !.event = v])
  <2> DEFINE e == [u EXCEPT !.event = v]
  <2>1. e.sie = u.sie /\ e.raw = u.raw /\ e.inte = u.inte /\ e.line = u.line /\ e.done = u.done /\ e.event = v
    BY <1>1, Zenon DEF UsbFields
  <2>2. DOMAIN e = DOMAIN u /\ e.writes = u.writes /\ e.acked = u.acked /\ e.reads = u.reads /\ e.parked = u.parked /\ e.buf = u.buf /\ e.fw = u.fw /\ e.traffic = u.traffic
    BY <1>1, Zenon DEF UsbFields
  <2> HIDE DEF e
  <2>3. UsbQueues(e)
    BY <1>1, <2>2, Zenon DEF UsbQueues
  <2>4. UsbBits(e) /\ UsbTold(e) = UsbTold(u) /\ e.raw = u.raw
    BY <2>1, Zenon DEF UsbBuff, UsbBits, UsbTold
  <2>5. UsbBuff(e)
    BY <2>4, Zenon DEF UsbBuff
  <2> QED BY <2>3, <2>5, Zenon DEF e
<1>5. ASSUME NEW v, UsbTodo(v) PROVE UsbQueues([u EXCEPT !.fw = v]) /\ UsbBuff([u EXCEPT !.fw = v])
  <2> DEFINE e == [u EXCEPT !.fw = v]
  <2>1. e.sie = u.sie /\ e.raw = u.raw /\ e.inte = u.inte /\ e.line = u.line /\ e.done = u.done /\ e.event = u.event
    BY <1>1, Zenon DEF UsbFields
  <2>2. DOMAIN e = DOMAIN u /\ e.writes = u.writes /\ e.acked = u.acked /\ e.reads = u.reads /\ e.parked = u.parked /\ e.buf = u.buf /\ e.fw = v /\ e.traffic = u.traffic
    BY <1>1, Zenon DEF UsbFields
  <2> HIDE DEF e
  <2>3. UsbQueues(e)
    BY <1>1, <1>5, <2>2, Zenon DEF UsbQueues
  <2>5. UsbBuff(e)
    BY <2>1, <2>3, UsbSame, Zenon
  <2> QED BY <2>3, <2>5, Zenon DEF e
<1>6. ASSUME NEW v, v \subseteq {"SETUP_REQ", "BUS_RESET"} PROVE UsbQueues([u EXCEPT !.sie = v]) /\ UsbBuff([u EXCEPT !.sie = v])
  <2> DEFINE e == [u EXCEPT !.sie = v]
  <2>1. e.sie = v /\ e.raw = u.raw /\ e.inte = u.inte /\ e.line = u.line /\ e.done = u.done /\ e.event = u.event
    BY <1>1, Zenon DEF UsbFields
  <2>2. DOMAIN e = DOMAIN u /\ e.writes = u.writes /\ e.acked = u.acked /\ e.reads = u.reads /\ e.parked = u.parked /\ e.buf = u.buf /\ e.fw = u.fw /\ e.traffic = u.traffic
    BY <1>1, Zenon DEF UsbFields
  <2> HIDE DEF e
  <2>3. UsbQueues(e)
    BY <1>1, <1>6, <2>2, Zenon DEF UsbQueues
  <2>4. UsbBits(e) /\ UsbTold(e) = UsbTold(u) /\ e.raw = u.raw
    BY <1>6, <2>1, Zenon DEF UsbBits, UsbTold
  <2>5. UsbBuff(e)
    BY <2>4, Zenon DEF UsbBuff
  <2> QED BY <2>3, <2>5, Zenon DEF e
<1> QED BY <1>2, <1>3, <1>4, <1>5, <1>6, Zenon

\* As long as the other bits are right.
LEMMA UsbButSets ==
  ASSUME NEW u, UsbQueues(u), UsbBut(u)
  PROVE  /\ \A v : UsbQueues([u EXCEPT !.two = v]) /\ UsbBut([u EXCEPT !.two = v])
         /\ \A v : UsbQueues([u EXCEPT !.got = v]) /\ UsbBut([u EXCEPT !.got = v])
         /\ \A v : UsbTodo(v) => UsbQueues([u EXCEPT !.fw = v]) /\ UsbBut([u EXCEPT !.fw = v])
         /\ \A v : UsbQueues([u EXCEPT !.done = v]) /\ UsbBut([u EXCEPT !.done = v])
<1>1. UsbQueues(u) /\ UsbFields \subseteq DOMAIN u
  BY Zenon DEF UsbLined, UsbQueues
<1>2. ASSUME NEW v PROVE UsbQueues([u EXCEPT !.two = v]) /\ UsbBut([u EXCEPT !.two = v])
  <2> DEFINE e == [u EXCEPT !.two = v]
  <2>1. e.sie = u.sie /\ e.raw = u.raw /\ e.inte = u.inte /\ e.line = u.line /\ e.done = u.done /\ e.event = u.event
    BY <1>1, Zenon DEF UsbFields
  <2>2. DOMAIN e = DOMAIN u /\ e.writes = u.writes /\ e.acked = u.acked /\ e.reads = u.reads /\ e.parked = u.parked /\ e.buf = u.buf /\ e.fw = u.fw /\ e.traffic = u.traffic
    BY <1>1, Zenon DEF UsbFields
  <2> HIDE DEF e
  <2>3. UsbQueues(e)
    BY <1>1, <2>2, Zenon DEF UsbQueues
  <2>5. UsbBut(e)
    BY <2>1, <2>3, UsbSame, Zenon
  <2> QED BY <2>3, <2>5, Zenon DEF e
<1>3. ASSUME NEW v PROVE UsbQueues([u EXCEPT !.got = v]) /\ UsbBut([u EXCEPT !.got = v])
  <2> DEFINE e == [u EXCEPT !.got = v]
  <2>1. e.sie = u.sie /\ e.raw = u.raw /\ e.inte = u.inte /\ e.line = u.line /\ e.done = u.done /\ e.event = u.event
    BY <1>1, Zenon DEF UsbFields
  <2>2. DOMAIN e = DOMAIN u /\ e.writes = u.writes /\ e.acked = u.acked /\ e.reads = u.reads /\ e.parked = u.parked /\ e.buf = u.buf /\ e.fw = u.fw /\ e.traffic = u.traffic
    BY <1>1, Zenon DEF UsbFields
  <2> HIDE DEF e
  <2>3. UsbQueues(e)
    BY <1>1, <2>2, Zenon DEF UsbQueues
  <2>5. UsbBut(e)
    BY <2>1, <2>3, UsbSame, Zenon
  <2> QED BY <2>3, <2>5, Zenon DEF e
<1>4. ASSUME NEW v, UsbTodo(v) PROVE UsbQueues([u EXCEPT !.fw = v]) /\ UsbBut([u EXCEPT !.fw = v])
  <2> DEFINE e == [u EXCEPT !.fw = v]
  <2>1. e.sie = u.sie /\ e.raw = u.raw /\ e.inte = u.inte /\ e.line = u.line /\ e.done = u.done /\ e.event = u.event
    BY <1>1, Zenon DEF UsbFields
  <2>2. DOMAIN e = DOMAIN u /\ e.writes = u.writes /\ e.acked = u.acked /\ e.reads = u.reads /\ e.parked = u.parked /\ e.buf = u.buf /\ e.fw = v /\ e.traffic = u.traffic
    BY <1>1, Zenon DEF UsbFields
  <2> HIDE DEF e
  <2>3. UsbQueues(e)
    BY <1>1, <1>4, <2>2, Zenon DEF UsbQueues
  <2>5. UsbBut(e)
    BY <2>1, <2>3, UsbSame, Zenon
  <2> QED BY <2>3, <2>5, Zenon DEF e
<1>5. ASSUME NEW v PROVE UsbQueues([u EXCEPT !.done = v]) /\ UsbBut([u EXCEPT !.done = v])
  <2> DEFINE e == [u EXCEPT !.done = v]
  <2>1. e.sie = u.sie /\ e.raw = u.raw /\ e.inte = u.inte /\ e.line = u.line /\ e.done = v /\ e.event = u.event
    BY <1>1, Zenon DEF UsbFields
  <2>2. DOMAIN e = DOMAIN u /\ e.writes = u.writes /\ e.acked = u.acked /\ e.reads = u.reads /\ e.parked = u.parked /\ e.buf = u.buf /\ e.fw = u.fw /\ e.traffic = u.traffic
    BY <1>1, Zenon DEF UsbFields
  <2> HIDE DEF e
  <2>3. UsbQueues(e)
    BY <1>1, <2>2, Zenon DEF UsbQueues
  <2>5. UsbBut(e)
    BY <2>1, Zenon DEF UsbBut, UsbBits
  <2> QED BY <2>3, <2>5, Zenon DEF e
<1> QED BY <1>2, <1>3, <1>4, <1>5, Zenon

\* As long as INTR is right.
LEMMA UsbRawSets ==
  ASSUME NEW u, UsbQueues(u), UsbRaw(u)
  PROVE  /\ \A v : UsbQueues([u EXCEPT !.bus_reset = v]) /\ UsbRaw([u EXCEPT !.bus_reset = v])
         /\ \A v : UsbQueues([u EXCEPT !.inte = v]) /\ UsbRaw([u EXCEPT !.inte = v])
<1>1. UsbQueues(u) /\ UsbFields \subseteq DOMAIN u
  BY Zenon DEF UsbLined, UsbQueues
<1>2. ASSUME NEW v PROVE UsbQueues([u EXCEPT !.bus_reset = v]) /\ UsbRaw([u EXCEPT !.bus_reset = v])
  <2> DEFINE e == [u EXCEPT !.bus_reset = v]
  <2>1. e.sie = u.sie /\ e.raw = u.raw /\ e.inte = u.inte /\ e.line = u.line /\ e.done = u.done /\ e.event = u.event
    BY <1>1, Zenon DEF UsbFields
  <2>2. DOMAIN e = DOMAIN u /\ e.writes = u.writes /\ e.acked = u.acked /\ e.reads = u.reads /\ e.parked = u.parked /\ e.buf = u.buf /\ e.fw = u.fw /\ e.traffic = u.traffic
    BY <1>1, Zenon DEF UsbFields
  <2> HIDE DEF e
  <2>3. UsbQueues(e)
    BY <1>1, <2>2, Zenon DEF UsbQueues
  <2>5. UsbRaw(e)
    BY <2>1, <2>3, UsbSame, Zenon
  <2> QED BY <2>3, <2>5, Zenon DEF e
<1>3. ASSUME NEW v PROVE UsbQueues([u EXCEPT !.inte = v]) /\ UsbRaw([u EXCEPT !.inte = v])
  <2> DEFINE e == [u EXCEPT !.inte = v]
  <2>1. e.sie = u.sie /\ e.raw = u.raw /\ e.inte = v /\ e.line = u.line /\ e.done = u.done /\ e.event = u.event
    BY <1>1, Zenon DEF UsbFields
  <2>2. DOMAIN e = DOMAIN u /\ e.writes = u.writes /\ e.acked = u.acked /\ e.reads = u.reads /\ e.parked = u.parked /\ e.buf = u.buf /\ e.fw = u.fw /\ e.traffic = u.traffic
    BY <1>1, Zenon DEF UsbFields
  <2> HIDE DEF e
  <2>3. UsbQueues(e)
    BY <1>1, <2>2, Zenon DEF UsbQueues
  <2>4. UsbTold(e) = UsbTold(u)
    BY <2>1, Zenon DEF UsbTold
  <2>5. UsbRaw(e)
    BY <2>1, <2>4, Zenon DEF UsbRaw, UsbBits
  <2> QED BY <2>3, <2>5, Zenon DEF e
<1> QED BY <1>2, <1>3, Zenon

LEMMA SlotsAre == D!Slots = {"in0", "in1", "out1"} /\ D!Ins = {"in0", "in1"} /\ \A s \in D!Slots : s # "out1" => s \in D!Ins
  BY DEF D!Slots, D!Ins

\* A buffer changes hands.
LEMMA GivenStays ==
  ASSUME NEW buf, UsbGiven(buf), NEW s, NEW half
  PROVE  /\ UsbGiven([buf EXCEPT ![s][half].avail = FALSE])
         /\ \A a, f, d : (s = "in0" => d \in UsbReplies) => UsbGiven([buf EXCEPT ![s][half] = [avail |-> a, full |-> f, data |-> d]])
         /\ \A f, d : UsbGiven([buf EXCEPT ![s][half] = [avail |-> FALSE, full |-> f, data |-> d]])
<1>1. ASSUME NEW b, DOMAIN b = DOMAIN buf["in0"], NEW e, e = [buf EXCEPT !["in0"] = b],
             {"avail", "data"} \subseteq DOMAIN b[0], b[0].avail => b[0].data \in UsbReplies
      PROVE  UsbGiven(e)
  <2>1. DOMAIN e = DOMAIN buf /\ e["in0"] = b
    BY <1>1, Zenon DEF UsbGiven
  <2> QED BY <1>1, <2>1, Zenon DEF UsbGiven
<1>2. ASSUME NEW b, s # "in0" PROVE UsbGiven([buf EXCEPT ![s] = b])
  <2> DEFINE e == [buf EXCEPT ![s] = b]
  <2>1. DOMAIN e = DOMAIN buf /\ e["in0"] = buf["in0"]
    BY <1>2, Zenon DEF UsbGiven
  <2> HIDE DEF e
  <2>2. UsbGiven(e)
    BY <2>1, Zenon DEF UsbGiven
  <2> QED BY <2>2 DEF e
<1>3. ASSUME NEW r, {"avail", "data"} \subseteq DOMAIN r, s = "in0" /\ half = 0 => (r.avail => r.data \in UsbReplies)
      PROVE  UsbGiven([buf EXCEPT ![s][half] = r])
  <2> DEFINE b == [buf[s] EXCEPT ![half] = r]
             e == [buf EXCEPT ![s] = b]
  <2>1. [buf EXCEPT ![s][half] = r] = e
    BY Zenon
  <2>2. CASE s # "in0"
    BY <1>2, <2>1, <2>2, Zenon
  <2>3. CASE s = "in0"
    <3>1. DOMAIN b = DOMAIN buf["in0"]
      BY <2>3, Zenon
    <3>2. {"avail", "data"} \subseteq DOMAIN b[0] /\ (b[0].avail => b[0].data \in UsbReplies)
      <4>1. 0 \in DOMAIN buf["in0"] /\ {"avail", "data"} \subseteq DOMAIN buf["in0"][0] /\ (buf["in0"][0].avail => buf["in0"][0].data \in UsbReplies)
        BY Zenon DEF UsbGiven
      <4>2. CASE half = 0
        <5>1. b[0] = r
          BY <2>3, <4>1, <4>2, Zenon
        <5> HIDE DEF b
        <5> QED BY <1>3, <2>3, <4>2, <5>1, Zenon
      <4>3. CASE half # 0
        <5>1. b[0] = buf["in0"][0]
          BY <2>3, <4>1, <4>3, Zenon
        <5> HIDE DEF b
        <5> QED BY <4>1, <5>1, Zenon
      <4> QED BY <4>2, <4>3
    <3>3. e = [buf EXCEPT !["in0"] = b]
      BY <2>3, Zenon
    <3> HIDE DEF e, b
    <3> QED BY <1>1, <2>1, <3>1, <3>2, <3>3, Zenon
  <2> QED BY <2>2, <2>3
<1>4. UsbGiven([buf EXCEPT ![s][half].avail = FALSE])
  <2> DEFINE no == FALSE
             r == [buf[s][half] EXCEPT !.avail = no]
  <2>1. [buf EXCEPT ![s][half].avail = no] = [buf EXCEPT ![s][half] = r]
    BY Zenon
  <2>2. CASE s = "in0" /\ half = 0
    <3>1. {"avail", "data"} \subseteq DOMAIN buf["in0"][0]
      BY Zenon DEF UsbGiven
    <3>2. DOMAIN r = DOMAIN buf["in0"][0] /\ r.avail = no
      BY <2>2, <3>1, Zenon
    <3>3. ~ r.avail
      BY <3>2
    <3> HIDE DEF r
    <3>4. {"avail", "data"} \subseteq DOMAIN r
      BY <3>1, <3>2, Zenon
    <3> HIDE DEF no
    <3>5. UsbGiven([buf EXCEPT ![s][half] = r])
      BY <1>3, <3>3, <3>4, Zenon
    <3> QED BY <2>1, <3>5, Zenon DEF no
  <2>3. CASE s # "in0"
    <3> DEFINE b == [buf[s] EXCEPT ![half] = r]
    <3>1. [buf EXCEPT ![s][half] = r] = [buf EXCEPT ![s] = b]
      BY Zenon
    <3> HIDE DEF b, r, no
    <3> QED BY <1>2, <2>1, <2>3, <3>1, Zenon DEF no
  <2>4. CASE s = "in0" /\ half # 0
    <3> DEFINE b == [buf[s] EXCEPT ![half] = r]
               e == [buf EXCEPT !["in0"] = b]
    <3>1. [buf EXCEPT ![s][half] = r] = e
      BY <2>4, Zenon
    <3>2. DOMAIN b = DOMAIN buf["in0"] /\ b[0] = buf["in0"][0]
      BY <2>4, Zenon DEF UsbGiven
    <3>3. e = [buf EXCEPT !["in0"] = b]
      OBVIOUS
    <3> HIDE DEF e, b, r, no
    <3>4. {"avail", "data"} \subseteq DOMAIN b[0] /\ (b[0].avail => b[0].data \in UsbReplies)
      BY <3>2, Zenon DEF UsbGiven
    <3>5. UsbGiven(e)
      BY <1>1, <3>2, <3>3, <3>4, Zenon
    <3> QED BY <2>1, <3>1, <3>5, Zenon DEF no
  <2> QED BY <2>2, <2>3, <2>4
<1>5. ASSUME NEW a, NEW f, NEW d, s = "in0" => d \in UsbReplies
      PROVE  UsbGiven([buf EXCEPT ![s][half] = [avail |-> a, full |-> f, data |-> d]])
  <2> DEFINE r == [avail |-> a, full |-> f, data |-> d]
  <2>1. {"avail", "data"} \subseteq DOMAIN r /\ r.data = d
    OBVIOUS
  <2> HIDE DEF r
  <2>2. UsbGiven([buf EXCEPT ![s][half] = r])
    BY <1>3, <1>5, <2>1, Zenon
  <2> QED BY <2>2 DEF r
<1>6. ASSUME NEW f, NEW d
      PROVE  UsbGiven([buf EXCEPT ![s][half] = [avail |-> FALSE, full |-> f, data |-> d]])
  <2> DEFINE r == [avail |-> FALSE, full |-> f, data |-> d]
  <2>1. {"avail", "data"} \subseteq DOMAIN r /\ ~ r.avail
    OBVIOUS
  <2> HIDE DEF r
  <2>2. UsbGiven([buf EXCEPT ![s][half] = r])
    BY <1>3, <2>1, Zenon
  <2> QED BY <2>2 DEF r
<1> QED BY <1>4, <1>5, <1>6

\* More in a queue.
LEMMA QueuesGrow ==
  /\ \A w : \A s \in D!Ins : \A x : UsbWrites(w) /\ (s = "in0" => x \in {0} \X UsbReplies) => UsbWrites([w EXCEPT ![s] = Append(w[s], x)])
  /\ \A w : \A s \in D!Ins : \A x : UsbAcks(w) /\ (s = "in0" => x \in UsbReplies) => UsbAcks([w EXCEPT ![s] = Append(w[s], x)])
  /\ \A w : \A s \in D!Ins : UsbWrites(w) => UsbWrites([w EXCEPT ![s] = << >>])
  /\ \A w : \A s \in D!Ins : UsbAcks(w) => UsbAcks([w EXCEPT ![s] = << >>])
<1>1. ASSUME NEW w, NEW s \in D!Ins, NEW x, UsbWrites(w), s = "in0" => x \in {0} \X UsbReplies
      PROVE  UsbWrites([w EXCEPT ![s] = Append(w[s], x)])
  <2> DEFINE more == Append(w[s], x)
             e == [w EXCEPT ![s] = more]
  <2>1. DOMAIN w = D!Ins /\ w["in0"] \in Seq({0} \X UsbReplies) /\ IsSeq(w["in1"])
    BY <1>1 DEF UsbWrites
  <2>2. s = "in0" => more \in Seq({0} \X UsbReplies)
    <3> DEFINE values == {0} \X UsbReplies
    <3>1. s = "in0" => w[s] \in Seq(values) /\ x \in values
      BY <1>1, <2>1
    <3> HIDE DEF values
    <3>2. s = "in0" => more \in Seq(values)
      BY <3>1
    <3> QED BY <3>2 DEF values
  <2>3. s = "in1" => IsSeq(more)
    BY <2>1, SequencesAre, Zenon
  <2> HIDE DEF more
  <2>4. DOMAIN e = D!Ins /\ e[s] = more /\ \A k \in D!Ins \ {s} : e[k] = w[k]
    BY <2>1, Zenon
  <2> HIDE DEF e
  <2>5. UsbWrites(e)
    BY <1>1, <2>1, <2>2, <2>3, <2>4, SlotsAre, Zenon DEF UsbWrites
  <2> QED BY <2>5 DEF e, more
<1>2. ASSUME NEW w, NEW s \in D!Ins, NEW x, UsbAcks(w), s = "in0" => x \in UsbReplies
      PROVE  UsbAcks([w EXCEPT ![s] = Append(w[s], x)])
  <2> DEFINE more == Append(w[s], x)
             e == [w EXCEPT ![s] = more]
  <2>1. DOMAIN w = D!Ins /\ w["in0"] \in Seq(UsbReplies) /\ IsSeq(w["in1"])
    BY <1>2 DEF UsbAcks
  <2>2. s = "in0" => more \in Seq(UsbReplies)
    BY <1>2, <2>1
  <2>3. s = "in1" => IsSeq(more)
    BY <2>1, SequencesAre, Zenon
  <2> HIDE DEF more
  <2>4. DOMAIN e = D!Ins /\ e[s] = more /\ \A k \in D!Ins \ {s} : e[k] = w[k]
    BY <2>1, Zenon
  <2> HIDE DEF e
  <2>5. UsbAcks(e)
    BY <1>2, <2>1, <2>2, <2>3, <2>4, SlotsAre, Zenon DEF UsbAcks
  <2> QED BY <2>5 DEF e, more
<1>3. << >> \in Seq({0} \X UsbReplies) /\ << >> \in Seq(UsbReplies) /\ IsSeq(<< >>)
  <2>1. \A values : << >> \in Seq(values)
    OBVIOUS
  <2> QED BY <2>1, SequencesAre, Zenon
<1>4. ASSUME NEW w, NEW s \in D!Ins, DOMAIN w = D!Ins
      PROVE  LET e == [w EXCEPT ![s] = << >>]
             IN  DOMAIN e = D!Ins /\ e[s] = << >> /\ \A k \in D!Ins \ {s} : e[k] = w[k]
  BY <1>4, Zenon
<1>5. ASSUME NEW w, NEW s \in D!Ins, UsbWrites(w) PROVE UsbWrites([w EXCEPT ![s] = << >>])
  <2> DEFINE e == [w EXCEPT ![s] = << >>]
  <2>1. DOMAIN w = D!Ins /\ w["in0"] \in Seq({0} \X UsbReplies) /\ IsSeq(w["in1"])
    BY <1>5 DEF UsbWrites
  <2>2. DOMAIN e = D!Ins /\ e[s] = << >> /\ \A k \in D!Ins \ {s} : e[k] = w[k]
    BY <2>1, <1>4, Zenon
  <2> HIDE DEF e
  <2>3. UsbWrites(e)
    BY <1>3, <2>1, <2>2, SlotsAre, Zenon DEF UsbWrites
  <2> QED BY <2>3 DEF e
<1>6. ASSUME NEW w, NEW s \in D!Ins, UsbAcks(w) PROVE UsbAcks([w EXCEPT ![s] = << >>])
  <2> DEFINE e == [w EXCEPT ![s] = << >>]
  <2>1. DOMAIN w = D!Ins /\ w["in0"] \in Seq(UsbReplies) /\ IsSeq(w["in1"])
    BY <1>6 DEF UsbAcks
  <2>2. DOMAIN e = D!Ins /\ e[s] = << >> /\ \A k \in D!Ins \ {s} : e[k] = w[k]
    BY <2>1, <1>4, Zenon
  <2> HIDE DEF e
  <2>3. UsbAcks(e)
    BY <1>3, <2>1, <2>2, SlotsAre, Zenon DEF UsbAcks
  <2> QED BY <2>3 DEF e
<1> QED BY <1>1, <1>2, <1>5, <1>6, Zenon

\* The methods of the controller and of the host keep the line right.
LEMMA ReadsLined ==
  ASSUME NEW u, UsbLined(u)
  PROVE  UsbLined(D!CompleteOutRead(u)) /\ UsbLined(D!OnEndpointRead(u))
<1> DEFINE n == IF Len(u.tx) < BufferSize THEN Len(u.tx) ELSE BufferSize
           reads == Append(u.reads, SubSeq(u.tx, 1, n))
           tx == SubSeq(u.tx, n + 1, Len(u.tx))
           parked == u.parked + 1
           c == [u EXCEPT !.reads = reads]
<1>1. D!CompleteOutRead(u) = [u EXCEPT !.reads = reads, !.tx = tx]
  BY Zenon DEF D!CompleteOutRead
<1>2. D!OnEndpointRead(u) = IF u.tx = << >> THEN [u EXCEPT !.parked = parked] ELSE D!CompleteOutRead(u)
  BY Zenon DEF D!OnEndpointRead
<1>3. IsSeq(u.reads) /\ u.parked \in Int
  BY Zenon DEF UsbLined, UsbQueues
<1>4. IsSeq(reads)
  BY <1>3, SequencesAre, Zenon
<1>5. parked \in Int
  BY <1>3
<1> HIDE DEF n, reads, tx, parked
<1>6. D!CompleteOutRead(u) = [c EXCEPT !.tx = tx]
  BY <1>1, Zenon
<1>7. UsbLined(c)
  BY <1>4, UsbSets, Zenon
<1> HIDE DEF c
<1>8. UsbLined(D!CompleteOutRead(u))
  <2>1. UsbLined([c EXCEPT !.tx = tx])
    BY <1>7, UsbSets, Zenon
  <2> QED BY <1>6, <2>1, Zenon
<1>9. UsbLined([u EXCEPT !.parked = parked])
  BY <1>5, UsbSets, Zenon
<1> QED BY <1>2, <1>8, <1>9, Zenon

LEMMA TakenLined ==
  ASSUME NEW u, UsbLined(u), NEW s \in D!Slots
  PROVE  UsbLined(D!Taken(u, s))
<1> DEFINE double == D!IsDouble(u, s)
           half == IF double THEN u.sel[s] ELSE 0
           buffer == u.buf[s][half]
           buf == [u.buf EXCEPT ![s][half].avail = FALSE]
           sel == [u.sel EXCEPT ![s] = IF double THEN 1 - u.sel[s] ELSE u.sel[s]]
           c == [u EXCEPT !.buf = buf]
           t == [c EXCEPT !.sel = sel]
           d == [t EXCEPT !.pending = Append(t.pending, half)]
           x == <<half, buffer.data>>
           e == [t EXCEPT !.writes[s] = Append(t.writes[s], x)]
<1>1. D!Taken(u, s) = IF ~ buffer.avail \/ buffer.full = (s = "out1") THEN u ELSE IF s = "out1" THEN D!OnEndpointRead(d) ELSE e
  <2> DEFINE t0 == [u EXCEPT !.buf[s][half].avail = FALSE, !.sel[s] = IF double THEN 1 - u.sel[s] ELSE u.sel[s]]
  <2>1. D!Taken(u, s) = IF ~ buffer.avail \/ buffer.full = (s = "out1") THEN u
                        ELSE IF s = "out1" THEN D!OnEndpointRead([t0 EXCEPT !.pending = Append(t0.pending, half)])
                        ELSE [t0 EXCEPT !.writes[s] = Append(t0.writes[s], x)]
    BY Zenon DEF D!Taken
  <2> HIDE DEF double, half
  <2>2. t0 = t
    BY Zenon
  <2> HIDE DEF t0, t, x, buffer
  <2> QED BY <2>1, <2>2, Zenon
<1>2. s = "in0" => half = 0
  <2>1. s = "in0" => ~ double
    BY Zenon DEF D!IsDouble
  <2> HIDE DEF double
  <2> QED BY <2>1, Zenon
<1>3. UsbGiven(u.buf) /\ UsbWrites(u.writes)
  BY Zenon DEF UsbLined, UsbQueues
<1>4. s = "in0" /\ buffer.avail => x \in {0} \X UsbReplies
  <2> HIDE DEF half
  <2>1. s = "in0" /\ buffer.avail => buffer.data \in UsbReplies
    BY <1>2, <1>3, Zenon DEF UsbGiven
  <2> HIDE DEF buffer
  <2> QED BY <1>2, <2>1
<1> HIDE DEF double, half, buffer, x
<1>5. UsbGiven(buf)
  BY <1>3, GivenStays, Zenon
<1> HIDE DEF buf, sel
<1>6. UsbLined(c)
  BY <1>5, UsbSets, Zenon
<1> HIDE DEF c
<1>7. UsbLined(t)
  BY <1>6, UsbSets, Zenon
<1> HIDE DEF t
<1>8. UsbLined(d)
  BY <1>7, UsbSets, Zenon
<1> HIDE DEF d
<1>9. UsbLined(D!OnEndpointRead(d))
  BY <1>8, ReadsLined, Zenon
<1>10. ASSUME s # "out1", buffer.avail PROVE UsbLined(e)
  <2> DEFINE writes == [t.writes EXCEPT ![s] = Append(t.writes[s], x)]
  <2>1. e = [t EXCEPT !.writes = writes]
    BY Zenon
  <2>2. s \in D!Ins /\ UsbWrites(t.writes)
    BY <1>7, <1>10, SlotsAre, Zenon DEF UsbLined, UsbQueues
  <2>3. UsbWrites(writes)
    BY <1>4, <1>10, <2>2, QueuesGrow, Zenon
  <2> HIDE DEF writes, e
  <2> QED BY <1>7, <2>1, <2>3, UsbSets, Zenon
<1> HIDE DEF e
<1> QED BY <1>1, <1>9, <1>10, Zenon

LEMMA ServedLined ==
  ASSUME NEW u, UsbLined(u), NEW s \in D!Slots
  PROVE  UsbLined(D!ServiceEndpoint(u, s))
  BY TakenLined, Zenon DEF D!ServiceEndpoint

LEMMA SieStays ==
  ASSUME NEW u, UsbLined(u)
  PROVE  UsbQueues(u) /\ UsbBuff(u) /\ UsbBut(u) /\ UsbRaw(u) /\ UsbLined(D!SieStatusUpdated(u))
<1>1. UsbQueues(u) /\ UsbRaw(u)
  BY Zenon DEF UsbLined
<1>2. UsbBuff(u) /\ UsbBut(u)
  BY <1>1, UsbIsRight
<1> QED BY <1>1, <1>2, SieUpdates, Zenon

LEMMA DoneLined ==
  ASSUME NEW u, UsbLined(u), NEW s, NEW half
  PROVE  UsbLined(D!BuffStatusUpdated(D!PushDone(u, s, half)))
<1> DEFINE p == D!PushDone(u, s, half)
           done == [u.done EXCEPT ![s] = Append(u.done[s], half)]
           one == [u.two EXCEPT ![s] = 1]
           none == [u.two EXCEPT ![s] = 0]
           c == [u EXCEPT !.two = none]
<1>1. p \in {[u EXCEPT !.done = done], [u EXCEPT !.two = one], [c EXCEPT !.done = done]}
  <2>1. p = IF s = "in0" \/ u.notice = 1 THEN [u EXCEPT !.done[s] = Append(u.done[s], half)]
            ELSE IF u.two[s] = 0 THEN [u EXCEPT !.two[s] = 1]
            ELSE [u EXCEPT !.two[s] = 0, !.done[s] = Append(u.done[s], half)]
    BY Zenon DEF D!PushDone
  <2>2. [u EXCEPT !.done[s] = Append(u.done[s], half)] = [u EXCEPT !.done = done]
    BY Zenon
  <2>3. [u EXCEPT !.two[s] = 1] = [u EXCEPT !.two = one]
    BY Zenon
  <2>4. [u EXCEPT !.two[s] = 0, !.done[s] = Append(u.done[s], half)] = [c EXCEPT !.done = done]
    BY Zenon
  <2> HIDE DEF p, done, one, c
  <2> QED BY <2>1, <2>2, <2>3, <2>4, Zenon
<1>2. UsbQueues(u) /\ UsbBut(u)
  BY SieStays
<1> HIDE DEF p, done, one, none
<1>3. UsbQueues(c) /\ UsbBut(c)
  BY <1>2, UsbButSets, Zenon
<1> HIDE DEF c
<1>4. UsbQueues(p) /\ UsbBut(p)
  <2>1. UsbQueues([u EXCEPT !.done = done]) /\ UsbBut([u EXCEPT !.done = done])
    BY <1>2, UsbButSets, Zenon
  <2>2. UsbQueues([u EXCEPT !.two = one]) /\ UsbBut([u EXCEPT !.two = one])
    BY <1>2, UsbButSets, Zenon
  <2>3. UsbQueues([c EXCEPT !.done = done]) /\ UsbBut([c EXCEPT !.done = done])
    BY <1>3, UsbButSets, Zenon
  <2> QED BY <1>1, <2>1, <2>2, <2>3, Zenon
<1>5. UsbLined(D!BuffStatusUpdated(p))
  BY <1>4, BuffUpdates, Zenon
<1> QED BY <1>5 DEF p

LEMMA BufferDoneLined ==
  ASSUME NEW u, UsbLined(u), NEW s \in D!Slots, NEW half, NEW data
  PROVE  UsbLined(D!BufferDone(u, s, half, data))
<1> DEFINE full == (s = "out1")
           buf == [u.buf EXCEPT ![s][half] = [avail |-> FALSE, full |-> full, data |-> data]]
           t == [u EXCEPT !.buf = buf]
           c == D!SieStatusUpdated(t)
           d == D!BuffStatusUpdated(D!PushDone(c, s, half))
<1>1. D!BufferDone(u, s, half, data) = D!ServiceEndpoint(d, s)
  <2> DEFINE t0 == [u EXCEPT !.buf[s][half] = [avail |-> FALSE, full |-> s = "out1", data |-> data]]
  <2>1. D!BufferDone(u, s, half, data) = D!ServiceEndpoint(D!BuffStatusUpdated(D!PushDone(D!SieStatusUpdated(t0), s, half)), s)
    BY Zenon DEF D!BufferDone
  <2>2. t0 = t
    BY Zenon
  <2> HIDE DEF t0, t
  <2> QED BY <2>1, <2>2, Zenon
<1>2. UsbGiven(u.buf)
  BY Zenon DEF UsbLined, UsbQueues
<1> HIDE DEF full
<1>3. UsbGiven(buf)
  BY <1>2, GivenStays, Zenon
<1> HIDE DEF buf
<1>4. UsbLined(t)
  BY <1>3, UsbSets, Zenon
<1> HIDE DEF t
<1>5. UsbLined(c)
  BY <1>4, SieStays, Zenon
<1> HIDE DEF c
<1>6. UsbLined(d)
  BY <1>5, DoneLined, Zenon
<1> HIDE DEF d
<1> QED BY <1>1, <1>6, ServedLined, Zenon

LEMMA FinishedLined ==
  ASSUME NEW u, UsbLined(u)
  PROVE  /\ \A data : UsbLined(D!FinishRead(u, data))
         /\ \A s \in D!Ins : \A write : (s = "in0" => write[2] \in UsbReplies) => UsbLined(D!FinishWrite(u, s, write))
<1>1. ASSUME NEW data PROVE UsbLined(D!FinishRead(u, data))
  <2> DEFINE pending == Tail(u.pending)
             half == IF u.pending = << >> THEN 0 ELSE Head(u.pending)
             c == [u EXCEPT !.pending = pending]
  <2>1. D!FinishRead(u, data) = D!BufferDone(c, "out1", half, data)
    BY Zenon DEF D!FinishRead
  <2> HIDE DEF pending, half
  <2>2. UsbLined(c)
    BY UsbSets, Zenon
  <2> HIDE DEF c
  <2>3. "out1" \in D!Slots
    BY SlotsAre
  <2> QED BY <2>1, <2>2, <2>3, BufferDoneLined, Zenon
<1>2. ASSUME NEW s \in D!Ins, NEW write, s = "in0" => write[2] \in UsbReplies PROVE UsbLined(D!FinishWrite(u, s, write))
  <2> DEFINE c == D!BufferDone(u, s, write[1], << >>)
             acked == [c.acked EXCEPT ![s] = Append(c.acked[s], write[2])]
  <2>1. D!FinishWrite(u, s, write) = [c EXCEPT !.acked = acked]
    <3>1. D!FinishWrite(u, s, write) = [c EXCEPT !.acked[s] = Append(c.acked[s], write[2])]
      BY Zenon DEF D!FinishWrite
    <3> HIDE DEF c
    <3> QED BY <3>1, Zenon
  <2>2. s \in D!Slots
    BY SlotsAre
  <2>3. UsbLined(c)
    BY <2>2, BufferDoneLined, Zenon
  <2> HIDE DEF c
  <2>4. UsbAcks(c.acked)
    BY <2>3, Zenon DEF UsbLined, UsbQueues
  <2>5. UsbAcks(acked)
    BY <1>2, <2>4, QueuesGrow, Zenon
  <2> HIDE DEF acked
  <2>6. UsbLined([c EXCEPT !.acked = acked])
    BY <2>3, <2>5, UsbSets, Zenon
  <2> QED BY <2>1, <2>6, Zenon
<1> QED BY <1>1, <1>2, Zenon

\* The host's answers.
LEMMA SetupLined ==
  ASSUME NEW u, UsbQueues(u), UsbBuff(u), NEW request
  PROVE  UsbLined(D!SendSetup(u, request))
<1> DEFINE sie == u.sie \cup {"SETUP_REQ"}
           c == [u EXCEPT !.setup = request]
           d == [c EXCEPT !.sie = sie]
<1>1. D!SendSetup(u, request) = D!SieStatusUpdated(d)
  <2> DEFINE d0 == [u EXCEPT !.setup = request, !.sie = u.sie \cup {"SETUP_REQ"}]
  <2>1. D!SendSetup(u, request) = D!SieStatusUpdated(d0)
    BY Zenon DEF D!SendSetup
  <2>2. d0 = d
    BY Zenon
  <2> HIDE DEF d0, d
  <2> QED BY <2>1, <2>2, Zenon
<1>2. sie \subseteq {"SETUP_REQ", "BUS_RESET"}
  <2>1. u.sie \subseteq {"SETUP_REQ", "BUS_RESET"}
    BY Zenon DEF UsbBuff, UsbBits
  <2> QED BY <2>1
<1> HIDE DEF sie
<1>3. UsbQueues(c) /\ UsbBuff(c)
  BY UsbBuffSets, Zenon
<1> HIDE DEF c
<1>4. UsbQueues(d) /\ UsbBuff(d)
  BY <1>2, <1>3, UsbBuffSets, Zenon
<1> HIDE DEF d
<1> QED BY <1>1, <1>4, SieUpdates, Zenon

LEMMA HostGetsLined ==
  ASSUME NEW u, UsbLined(u), NEW s, NEW data, s = "in0" => data \in UsbReplies
  PROVE  UsbLined(D!HostGets(u, s, data))
<1>1. \A request : UsbLined(D!SendSetup(u, request))
  BY SieStays, SetupLined, Zenon
<1>2. UsbLined(D!OnSerialData(u, data))
  <2>1. D!OnSerialData(u, data) = [u EXCEPT !.heard = (data[1] + 1) % Numbers]
    BY Zenon DEF D!OnSerialData
  <2> DEFINE n == (data[1] + 1) % Numbers
  <2> HIDE DEF n
  <2>2. UsbLined([u EXCEPT !.heard = n])
    BY UsbSets, Zenon
  <2> QED BY <2>1, <2>2 DEF n
<1>3. ASSUME data \in UsbReplies PROVE UsbLined(D!OnEndpointWrite(u, data))
  <2> DEFINE yes == TRUE
             lines == D!SendSetup(u, "line state")
             whole == D!SendSetup(u, "descriptor")
             configured == D!SendSetup(u, "configuration")
             c == [configured EXCEPT !.read = Packets]
  <2>1. UsbLined(lines) /\ UsbLined(whole) /\ UsbLined(configured) /\ UsbLined(D!SendSetup(u, "descriptor head"))
    BY <1>1, Zenon
  <2>2. CASE data = <<"zlp">>
    <3>1. D!OnEndpointWrite(u, data) \in {D!SendSetup(u, "descriptor head"), u, [lines EXCEPT !.ready = yes]}
      BY <2>2, Zenon DEF D!OnEndpointWrite
    <3> HIDE DEF lines, yes
    <3>2. UsbLined([lines EXCEPT !.ready = yes])
      BY <2>1, UsbSets, Zenon
    <3> QED BY <2>1, <3>1, <3>2, Zenon
  <2>3. CASE data = <<"head">>
    <3>1. <<"head">> # <<"zlp">>
      OBVIOUS
    <3>2. D!OnEndpointWrite(u, data) = [whole EXCEPT !.known = yes]
      BY <2>3, <3>1, Zenon DEF D!OnEndpointWrite
    <3> HIDE DEF whole, yes
    <3>3. UsbLined([whole EXCEPT !.known = yes])
      BY <2>1, UsbSets, Zenon
    <3> QED BY <3>2, <3>3, Zenon
  <2>4. CASE data = <<"part">>
    <3>1. <<"part">> # <<"zlp">> /\ <<"part">> # <<"head">>
      OBVIOUS
    <3> DEFINE read == u.read + 1
    <3>2. D!OnEndpointWrite(u, data) \in {[u EXCEPT !.read = read], [c EXCEPT !.endpoints = yes]}
      <4>1. D!OnEndpointWrite(u, data) = IF u.read + 1 < Packets THEN [u EXCEPT !.read = u.read + 1]
                                         ELSE [configured EXCEPT !.read = Packets, !.endpoints = TRUE]
        BY <2>4, <3>1, Zenon DEF D!OnEndpointWrite
      <4>2. [configured EXCEPT !.read = Packets, !.endpoints = TRUE] = [c EXCEPT !.endpoints = yes]
        BY Zenon
      <4> HIDE DEF c, configured, yes
      <4> QED BY <4>1, <4>2, Zenon
    <3> HIDE DEF configured, yes, read
    <3>3. UsbLined(c)
      BY <2>1, UsbSets, Zenon
    <3> HIDE DEF c
    <3>4. UsbLined([c EXCEPT !.endpoints = yes])
      BY <3>3, UsbSets, Zenon
    <3>5. UsbLined([u EXCEPT !.read = read])
      BY UsbSets, Zenon
    <3> QED BY <3>2, <3>4, <3>5, Zenon
  <2> QED BY <1>3, <2>2, <2>3, <2>4, Zenon DEF UsbReplies
<1> QED BY <1>2, <1>3, Zenon DEF D!HostGets

\* What a fold of methods that keep the line right ends with.
LEMMA UsbTurnsLine ==
  ASSUME NEW u, UsbLined(u), NEW n \in Nat, NEW how,
         \A t : \A i \in 1 .. n : UsbLined(t) => UsbLined(Turn(how, t, i))
  PROVE  UsbLined(Folded(n, how, u))
<1>1. PICK chain : /\ chain[0] = u /\ chain[n] = Folded(n, how, u)
                   /\ \A k \in 0 .. n - 1 : chain[k + 1] = Turn(how, chain[k], k + 1)
  BY TurnsAreAChain
<1> DEFINE Holds == {k \in 0 .. n : UsbLined(chain[k])}
<1>2. 0 \in Holds
  BY <1>1
<1>3. ASSUME NEW k \in 0 .. n - 1, k \in Holds PROVE k + 1 \in Holds
  <2>1. k + 1 \in 1 .. n /\ k + 1 \in 0 .. n
    OBVIOUS
  <2>2. UsbLined(chain[k])
    BY <1>3
  <2>3. UsbLined(Turn(how, chain[k], k + 1))
    BY <2>1, <2>2
  <2>4. chain[k + 1] = Turn(how, chain[k], k + 1)
    BY <1>1
  <2> QED BY <2>1, <2>3, <2>4
<1>4. n \in Holds
  <2> HIDE DEF Holds
  <2> QED BY <1>2, <1>3, UpTo
<1> QED BY <1>1, <1>4

\* The alarms' folds.
WrittenAll(u, slot, seq) == D!FoldLeft(LAMBDA t, write : D!FinishWrite(t, slot, write), u, seq)
HeardAll(u, slot, seq) == D!FoldLeft(LAMBDA t, data : D!HostGets(t, slot, data), u, seq)
ReadAll(u, seq) == D!FoldLeft(D!FinishRead, u, seq)
FlushedAll(u, seq) == D!FoldLeft(LAMBDA t, arm : IF t.tx = << >> THEN t ELSE D!CompleteOutRead([t EXCEPT !.parked = t.parked - 1]), u, seq)

LEMMA AlarmsLined ==
  ASSUME NEW u, UsbLined(u), NEW seq, NEW n \in Nat, DOMAIN seq = 1 .. n
  PROVE  /\ \A s \in D!Ins : (s = "in0" => \A i \in 1 .. n : seq[i][2] \in UsbReplies) => UsbLined(WrittenAll(u, s, seq))
         /\ \A s \in D!Ins : (s = "in0" => \A i \in 1 .. n : seq[i] \in UsbReplies) => UsbLined(HeardAll(u, s, seq))
         /\ UsbLined(ReadAll(u, seq)) /\ UsbLined(FlushedAll(u, seq))
<1>1. ASSUME NEW s \in D!Ins, s = "in0" => \A i \in 1 .. n : seq[i][2] \in UsbReplies PROVE UsbLined(WrittenAll(u, s, seq))
  <2> DEFINE how == <<"write", s, seq>>
  <2>1. \A t, i : Turn(how, t, i) = D!FinishWrite(t, s, seq[i])
    BY Zenon DEF Turn
  <2>2. WrittenAll(u, s, seq) = Folded(n, how, u)
    BY WriteTurns DEF WrittenAll
  <2> HIDE DEF how
  <2>3. \A t : \A i \in 1 .. n : UsbLined(t) => UsbLined(Turn(how, t, i))
    BY <1>1, <2>1, FinishedLined, Zenon
  <2> QED BY <2>2, <2>3, UsbTurnsLine
<1>2. ASSUME NEW s \in D!Ins, s = "in0" => \A i \in 1 .. n : seq[i] \in UsbReplies PROVE UsbLined(HeardAll(u, s, seq))
  <2> DEFINE how == <<"react", s, seq>>
  <2>1. \A t, i : Turn(how, t, i) = D!HostGets(t, s, seq[i])
    BY Zenon DEF Turn
  <2>2. HeardAll(u, s, seq) = Folded(n, how, u)
    BY ReactTurns DEF HeardAll
  <2> HIDE DEF how
  <2>3. \A t : \A i \in 1 .. n : UsbLined(t) => UsbLined(Turn(how, t, i))
    BY <1>2, <2>1, HostGetsLined, Zenon
  <2> QED BY <2>2, <2>3, UsbTurnsLine
<1>3. UsbLined(ReadAll(u, seq))
  <2> DEFINE how == <<"read", seq>>
  <2>1. \A t, i : Turn(how, t, i) = D!FinishRead(t, seq[i])
    BY Zenon DEF Turn
  <2>2. ReadAll(u, seq) = Folded(n, how, u)
    BY ReadTurns DEF ReadAll
  <2> HIDE DEF how
  <2>3. \A t : \A i \in 1 .. n : UsbLined(t) => UsbLined(Turn(how, t, i))
    BY <2>1, FinishedLined, Zenon
  <2> QED BY <2>2, <2>3, UsbTurnsLine
<1>4. UsbLined(FlushedAll(u, seq))
  <2> DEFINE how == <<"flush">>
  <2>1. \A t, i : Turn(how, t, i) = IF t.tx = << >> THEN t ELSE D!CompleteOutRead([t EXCEPT !.parked = t.parked - 1])
    BY Zenon DEF Turn
  <2>2. FlushedAll(u, seq) = Folded(n, how, u)
    BY FlushTurns DEF FlushedAll
  <2> HIDE DEF how
  <2>3. ASSUME NEW t, UsbLined(t) PROVE UsbLined(D!CompleteOutRead([t EXCEPT !.parked = t.parked - 1]))
    <3> DEFINE parked == t.parked - 1
               c == [t EXCEPT !.parked = parked]
    <3>1. t.parked \in Int
      BY <2>3, Zenon DEF UsbLined, UsbQueues
    <3>2. parked \in Int
      BY <3>1
    <3> HIDE DEF parked
    <3>3. UsbLined(c)
      BY <2>3, <3>2, UsbSets, Zenon
    <3> HIDE DEF c
    <3>4. UsbLined(D!CompleteOutRead(c))
      BY <3>3, ReadsLined, Zenon
    <3> QED BY <3>4 DEF c, parked
  <2>4. \A t : \A i \in 1 .. n : UsbLined(t) => UsbLined(Turn(how, t, i))
    BY <2>1, <2>3, Zenon
  <2> QED BY <2>2, <2>4, UsbTurnsLine
<1> QED BY <1>1, <1>2, <1>3, <1>4, Zenon

\* What the firmware does.
LEMMA TodoStays ==
  ASSUME NEW fw, UsbTodo(fw)
  PROVE  /\ \A v : UsbTodo([fw EXCEPT !.own = v])
         /\ \A v : UsbTodo([fw EXCEPT !.next = v])
         /\ \A v : UsbTodo([fw EXCEPT !.up = v])
         /\ \A v : UsbTodo([fw EXCEPT !.configured = v])
         /\ \A v \in Seq(UsbReplies) : UsbTodo([fw EXCEPT !.todo = v])
  BY Zenon DEF UsbTodo

LEMMA OfferedLined ==
  ASSUME NEW u, UsbLined(u), NEW s, NEW data, s = "in0" => data \in UsbReplies
  PROVE  UsbLined(D!Offered(u, s, data))
<1> DEFINE half == u.fw.next[s]
           full == (s # "out1")
           yes == TRUE
           buf == [u.buf EXCEPT ![s][half] = [avail |-> yes, full |-> full, data |-> data]]
           own == [u.fw.own EXCEPT ![s] = Append(u.fw.own[s], half)]
           next == [u.fw.next EXCEPT ![s] = IF D!IsDouble(u, s) THEN 1 - u.fw.next[s] ELSE u.fw.next[s]]
           c == [u EXCEPT !.buf = buf]
           fw == [u.fw EXCEPT !.own = own]
           d == [c EXCEPT !.fw = fw]
           after == [fw EXCEPT !.next = next]
           e == [d EXCEPT !.fw = after]
<1>1. UsbFields \subseteq DOMAIN u /\ UsbGiven(u.buf) /\ UsbTodo(u.fw)
  BY Zenon DEF UsbLined, UsbQueues
<1>2. D!Offered(u, s, data) = e
  <2> DEFINE d0 == [u EXCEPT !.buf[s][half] = [avail |-> TRUE, full |-> s # "out1", data |-> data], !.fw.own[s] = Append(u.fw.own[s], half)]
             e0 == [d0 EXCEPT !.fw.next[s] = IF D!IsDouble(u, s) THEN 1 - u.fw.next[s] ELSE u.fw.next[s]]
  <2>1. D!Offered(u, s, data) = e0
    BY Zenon DEF D!Offered
  <2>2. d0 = d
    <3>1. [u EXCEPT !.buf[s][half] = [avail |-> TRUE, full |-> s # "out1", data |-> data]] = c
      BY Zenon
    <3>2. c.fw = u.fw
      BY <1>1, Zenon DEF UsbFields
    <3>3. d0 = [c EXCEPT !.fw.own[s] = Append(u.fw.own[s], half)]
      BY <3>1, Zenon
    <3>4. [c EXCEPT !.fw.own[s] = Append(u.fw.own[s], half)] = [c EXCEPT !.fw = [c.fw EXCEPT !.own = [c.fw.own EXCEPT ![s] = Append(u.fw.own[s], half)]]]
      BY Zenon
    <3> HIDE DEF c
    <3> QED BY <3>2, <3>3, <3>4, Zenon
  <2>3. DOMAIN d = DOMAIN u /\ d.fw = fw
    BY <1>1, Zenon DEF UsbFields
  <2>4. fw.next = u.fw.next
    BY <1>1, Zenon DEF UsbTodo
  <2>5. e0 = [d EXCEPT !.fw = [d.fw EXCEPT !.next = [d.fw.next EXCEPT ![s] = IF D!IsDouble(u, s) THEN 1 - u.fw.next[s] ELSE u.fw.next[s]]]]
    <3> HIDE DEF d0, d
    <3> QED BY <2>2, Zenon
  <2> HIDE DEF d, fw
  <2>6. [d EXCEPT !.fw = [d.fw EXCEPT !.next = [d.fw.next EXCEPT ![s] = IF D!IsDouble(u, s) THEN 1 - u.fw.next[s] ELSE u.fw.next[s]]]] = e
    BY <2>3, <2>4, Zenon
  <2> HIDE DEF e0, e
  <2> QED BY <2>1, <2>5, <2>6, Zenon
<1> HIDE DEF half, full, yes
<1>3. UsbGiven(buf)
  BY <1>1, GivenStays, Zenon
<1> HIDE DEF buf, own, next
<1>4. UsbLined(c)
  BY <1>3, UsbSets, Zenon
<1>5. UsbTodo(fw)
  BY <1>1, TodoStays, Zenon
<1> HIDE DEF c, fw
<1>6. UsbTodo(after)
  BY <1>5, TodoStays, Zenon
<1>7. UsbLined(d)
  BY <1>4, <1>5, UsbSets, Zenon
<1> HIDE DEF d, after
<1>8. UsbLined(e)
  BY <1>6, <1>7, UsbSets, Zenon
<1> QED BY <1>2, <1>8, Zenon

LEMMA NumberedLined ==
  ASSUME NEW u, UsbLined(u), NEW s, s # "in0"
  PROVE  UsbLined(D!Numbered(u, s))
<1> DEFINE given == (u.given + 1) % Numbers
           c == [u EXCEPT !.given = given]
<1>1. D!Numbered(u, s) \in {D!Offered(u, s, << >>), D!Offered(c, s, <<u.given>>)}
  BY Zenon DEF D!Numbered
<1> HIDE DEF given
<1>2. UsbLined(c)
  BY UsbSets, Zenon
<1> HIDE DEF c
<1>3. UsbLined(D!Offered(u, s, << >>)) /\ UsbLined(D!Offered(c, s, <<u.given>>))
  BY <1>2, OfferedLined, Zenon
<1> QED BY <1>1, <1>3, Zenon

LEMMA FirmwareLined ==
  ASSUME UsbLined(state), D!Reply \/ D!AckSetup \/ D!Boot \/ \E s \in D!Slots : D!GiveBuffers(s) \/ D!AckBuffer(s)
  PROVE  UsbLined(state')
<1>1. /\ UsbQueues(state) /\ UsbBuff(state) /\ UsbBut(state) /\ UsbRaw(state)
      /\ UsbFields \subseteq DOMAIN state /\ UsbTodo(state.fw) /\ state.fw.todo \in Seq(UsbReplies) /\ "in0" \notin state.traffic
  <2>1. UsbQueues(state) /\ UsbBuff(state) /\ UsbBut(state) /\ UsbRaw(state)
    BY SieStays
  <2> QED BY <2>1, Zenon DEF UsbQueues, UsbTodo
<1>2. CASE D!Reply
  <2> DEFINE todo == Tail(state.fw.todo)
             first == Head(state.fw.todo)
             fw == [state.fw EXCEPT !.todo = todo]
             c == [state EXCEPT !.fw = fw]
             d == D!Offered(c, "in0", first)
  <2>1. state.fw.todo # << >> /\ state' = D!ServiceEndpoint(d, "in0")
    <3>1. state.fw.todo # << >> /\ state' = D!ServiceEndpoint(D!Offered([state EXCEPT !.fw.todo = Tail(state.fw.todo)], "in0", Head(state.fw.todo)), "in0")
      BY <1>2, Zenon DEF D!Reply
    <3>2. [state EXCEPT !.fw.todo = Tail(state.fw.todo)] = c
      BY Zenon
    <3> HIDE DEF c
    <3> QED BY <3>1, <3>2, Zenon
  <2>2. todo \in Seq(UsbReplies) /\ first \in UsbReplies
    BY <1>1, <2>1
  <2> HIDE DEF todo, first
  <2>3. UsbTodo(fw)
    BY <1>1, <2>2, TodoStays, Zenon
  <2> HIDE DEF fw
  <2>4. UsbLined(c)
    BY <2>3, UsbSets, Zenon
  <2> HIDE DEF c
  <2>5. UsbLined(d)
    BY <2>2, <2>4, OfferedLined, Zenon
  <2> HIDE DEF d
  <2>6. "in0" \in D!Slots
    BY SlotsAre
  <2> QED BY <2>1, <2>5, <2>6, ServedLined, Zenon
<1>3. CASE D!AckSetup
  <2> DEFINE sie == state.sie \ {"SETUP_REQ"}
             todo == D!Answers(state.setup)
             configured == state.fw.configured \/ state.setup = "configuration"
             c == [state EXCEPT !.sie = sie]
             fw == [state.fw EXCEPT !.todo = todo]
             d == [c EXCEPT !.fw = fw]
             after == [fw EXCEPT !.configured = configured]
             e == [d EXCEPT !.fw = after]
  <2>1. state' = D!SieStatusUpdated(e)
    <3> DEFINE d0 == [state EXCEPT !.sie = sie, !.fw.todo = todo]
               e0 == [d0 EXCEPT !.fw.configured = configured]
    <3>1. state' = D!SieStatusUpdated(e0)
      BY <1>3, Zenon DEF D!AckSetup
    <3> HIDE DEF todo, sie
    <3>2. d0 = [c EXCEPT !.fw = [c.fw EXCEPT !.todo = todo]]
      BY Zenon
    <3>3. c.fw = state.fw
      BY <1>1, Zenon DEF UsbFields
    <3> HIDE DEF c, d0
    <3>4. d0 = d
      BY <3>2, <3>3, Zenon
    <3> HIDE DEF configured
    <3>5. e0 = [d EXCEPT !.fw = [d.fw EXCEPT !.configured = configured]]
      <4> HIDE DEF d
      <4> QED BY <3>4, Zenon
    <3>6. d.fw = fw
      <4>1. DOMAIN c = DOMAIN state
        BY Zenon DEF c
      <4> QED BY <1>1, <4>1, Zenon DEF UsbFields
    <3> HIDE DEF d, e0
    <3> QED BY <3>1, <3>5, <3>6, Zenon
  <2>2. sie \subseteq {"SETUP_REQ", "BUS_RESET"}
    <3>1. state.sie \subseteq {"SETUP_REQ", "BUS_RESET"}
      BY <1>1, Zenon DEF UsbRaw, UsbBits
    <3> QED BY <3>1
  <2>3. todo \in Seq(UsbReplies)
    <3>1. Packets \in Nat
      BY DevicesAssumption DEF D!UsbAssumption
    <3>2. << <<"head">> >> \in Seq(UsbReplies) /\ << <<"zlp">> >> \in Seq(UsbReplies)
      <4>1. \A x \in UsbReplies : << x >> \in Seq(UsbReplies)
        OBVIOUS
      <4> QED BY <4>1, Zenon DEF UsbReplies
    <3>3. [i \in 1 .. Packets |-> <<"part">>] \in Seq(UsbReplies)
      <4> DEFINE piece == <<"part">>
      <4>1. piece \in UsbReplies
        BY DEF UsbReplies
      <4> HIDE DEF piece
      <4>2. [i \in 1 .. Packets |-> piece] \in Seq(UsbReplies)
        BY <3>1, <4>1
      <4> QED BY <4>2 DEF piece
    <3> QED BY <3>2, <3>3, Zenon DEF D!Answers
  <2> HIDE DEF sie, todo, configured
  <2>4. UsbQueues(c) /\ UsbBuff(c)
    BY <1>1, <2>2, UsbBuffSets, Zenon
  <2>5. UsbTodo(fw)
    BY <1>1, <2>3, TodoStays, Zenon
  <2> HIDE DEF c, fw
  <2>6. UsbTodo(after)
    BY <2>5, TodoStays, Zenon
  <2>7. UsbQueues(d) /\ UsbBuff(d)
    BY <2>4, <2>5, UsbBuffSets, Zenon
  <2> HIDE DEF d, after
  <2>8. UsbQueues(e) /\ UsbBuff(e)
    BY <2>6, <2>7, UsbBuffSets, Zenon
  <2> HIDE DEF e
  <2> QED BY <2>1, <2>8, SieUpdates, Zenon
<1>4. CASE D!Boot
  <2> DEFINE none == [s \in D!Slots |-> [half \in {0, 1} |-> D!Idle]]
             yes == TRUE
             fw == [state.fw EXCEPT !.up = yes]
             c == [state EXCEPT !.fw = fw]
             d == [c EXCEPT !.buf = none]
             After(inte) == [[d EXCEPT !.inte = inte] EXCEPT !.bus_reset = yes]
  <2>1. \E inte \in UsbEnables : state' = D!CheckInterrupts([state EXCEPT !.fw.up = TRUE, !.buf = none, !.inte = inte, !.bus_reset = TRUE])
    BY <1>4, Zenon DEF D!Boot
  <2>2. \A inte : [state EXCEPT !.fw.up = TRUE, !.buf = none, !.inte = inte, !.bus_reset = TRUE] = After(inte)
    BY Zenon
  <2> HIDE DEF After
  <2>3. PICK inte : state' = D!CheckInterrupts(After(inte))
    BY <2>1, <2>2, Zenon
  <2>4. UsbGiven(none)
    <3>1. "in0" \in DOMAIN none /\ 0 \in DOMAIN none["in0"] /\ none["in0"][0] = D!Idle
      BY SlotsAre
    <3>2. {"avail", "data"} \subseteq DOMAIN D!Idle /\ ~ D!Idle.avail
      BY DEF D!Idle
    <3> HIDE DEF none
    <3> QED BY <3>1, <3>2, Zenon DEF UsbGiven
  <2> HIDE DEF none, yes
  <2>5. UsbTodo(fw)
    BY <1>1, TodoStays, Zenon
  <2> HIDE DEF fw
  <2>6. UsbLined(c)
    BY <2>5, UsbSets, Zenon
  <2> HIDE DEF c
  <2>7. UsbLined(d)
    BY <2>4, <2>6, UsbSets, Zenon
  <2> HIDE DEF d
  <2>8. UsbQueues(d) /\ UsbRaw(d)
    BY <2>7, Zenon DEF UsbLined
  <2> DEFINE e == [d EXCEPT !.inte = inte]
  <2>9. UsbQueues(e) /\ UsbRaw(e)
    BY <2>8, UsbRawSets, Zenon
  <2>10. After(inte) = [e EXCEPT !.bus_reset = yes]
    BY DEF After
  <2> HIDE DEF e
  <2>11. UsbQueues(After(inte)) /\ UsbRaw(After(inte))
    <3>1. UsbQueues([e EXCEPT !.bus_reset = yes]) /\ UsbRaw([e EXCEPT !.bus_reset = yes])
      BY <2>9, UsbRawSets, Zenon
    <3> QED BY <2>10, <3>1, Zenon
  <2> QED BY <2>3, <2>11, UsbChecks, Zenon
<1>5. ASSUME NEW s \in D!Slots, D!GiveBuffers(s) PROVE UsbLined(state')
  <2>1. s \in state.traffic /\ \E n : state' = D!ServiceEndpoint(IF n = 2 THEN D!Numbered(D!Numbered(state, s), s) ELSE D!Numbered(state, s), s)
    BY <1>5, Zenon DEF D!GiveBuffers
  <2>2. s # "in0"
    BY <1>1, <2>1, Zenon
  <2> DEFINE c == D!Numbered(state, s)
  <2>3. UsbLined(c)
    BY <2>2, NumberedLined, Zenon
  <2> HIDE DEF c
  <2>4. UsbLined(D!Numbered(c, s))
    BY <2>2, <2>3, NumberedLined, Zenon
  <2>5. \E d : UsbLined(d) /\ state' = D!ServiceEndpoint(d, s)
    BY <2>1, <2>3, <2>4, Zenon DEF c
  <2> QED BY <2>5, ServedLined, Zenon
<1>6. ASSUME NEW s \in D!Slots, D!AckBuffer(s) PROVE UsbLined(state')
  <2> DEFINE bytes == D!FlattenSeq([i \in 1 .. D!Told(s) |-> state.buf[s][state.fw.own[s][i]].data])
             got == IF bytes = << >> THEN state.got ELSE (D!Last(bytes) + 1) % Numbers
             done == [state.done EXCEPT ![s] = Tail(state.done[s])]
             own == [state.fw.own EXCEPT ![s] = SubSeq(state.fw.own[s], D!Told(s) + 1, Len(state.fw.own[s]))]
             fw == [state.fw EXCEPT !.own = own]
             c == [state EXCEPT !.done = done]
             d == [c EXCEPT !.fw = fw]
             e == [d EXCEPT !.got = got]
  <2>1. state' = D!BuffStatusUpdated([state EXCEPT !.done[s] = Tail(state.done[s]),
                                       !.fw.own[s] = SubSeq(state.fw.own[s], D!Told(s) + 1, Len(state.fw.own[s])), !.got = got])
    BY <1>6, Zenon DEF D!AckBuffer
  <2> HIDE DEF bytes, got
  <2>2. [state EXCEPT !.done[s] = Tail(state.done[s]),
                      !.fw.own[s] = SubSeq(state.fw.own[s], D!Told(s) + 1, Len(state.fw.own[s])), !.got = got] = e
    <3> DEFINE d0 == [c EXCEPT !.fw = [c.fw EXCEPT !.own = [c.fw.own EXCEPT ![s] = SubSeq(state.fw.own[s], D!Told(s) + 1, Len(state.fw.own[s]))]]]
    <3>1. [state EXCEPT !.done[s] = Tail(state.done[s]),
                        !.fw.own[s] = SubSeq(state.fw.own[s], D!Told(s) + 1, Len(state.fw.own[s])), !.got = got] = [d0 EXCEPT !.got = got]
      BY Zenon
    <3>2. c.fw = state.fw
      BY <1>1, Zenon DEF UsbFields
    <3> HIDE DEF c
    <3>3. d0 = d
      BY <3>2, Zenon
    <3> HIDE DEF d0, d
    <3> QED BY <3>1, <3>3, Zenon
  <2> HIDE DEF done, own
  <2>3. UsbQueues(c) /\ UsbBut(c)
    BY <1>1, UsbButSets, Zenon
  <2> HIDE DEF c
  <2>4. UsbTodo(fw)
    BY <1>1, TodoStays, Zenon
  <2> HIDE DEF fw
  <2>5. UsbQueues(d) /\ UsbBut(d)
    BY <2>3, <2>4, UsbButSets, Zenon
  <2> HIDE DEF d
  <2>6. UsbQueues(e) /\ UsbBut(e)
    BY <2>5, UsbButSets, Zenon
  <2> HIDE DEF e
  <2> QED BY <2>1, <2>2, <2>6, BuffUpdates, Zenon
<1> QED BY <1>2, <1>3, <1>4, <1>5, <1>6, Zenon

\* What the clock's alarms do.
LEMMA UsbAlarmLined ==
  ASSUME UsbLined(state), D!ReadAlarm \/ D!FlushAlarm \/ \E s \in D!Ins : D!WriteAlarm(s) \/ D!ReactionAlarm(s)
  PROVE  UsbLined(state')
<1>1. /\ UsbFields \subseteq DOMAIN state /\ UsbWrites(state.writes) /\ UsbAcks(state.acked) /\ IsSeq(state.reads) /\ state.parked \in Int
      /\ state.writes["in0"] \in Seq({0} \X UsbReplies) /\ state.acked["in0"] \in Seq(UsbReplies)
  <2>1. UsbQueues(state)
    BY Zenon DEF UsbLined
  <2> QED BY <2>1, Zenon DEF UsbQueues, UsbWrites, UsbAcks
<1>2. CASE D!ReadAlarm
  <2> DEFINE seq == state.reads
             c == [state EXCEPT !.reads = << >>]
  <2>1. state' = ReadAll(c, seq)
    BY <1>2 DEF D!ReadAlarm, ReadAll
  <2>2. Len(seq) \in Nat /\ DOMAIN seq = 1 .. Len(seq)
    BY <1>1, SequencesAre, Zenon
  <2>3. UsbLined(c)
    BY SequencesAre, UsbSets, Zenon
  <2> HIDE DEF seq, c
  <2>4. UsbLined(ReadAll(c, seq))
    BY <2>2, <2>3, AlarmsLined
  <2> QED BY <2>1, <2>4, Zenon
<1>3. CASE D!FlushAlarm
  <2> DEFINE seq == [arm \in 1 .. state.parked |-> arm]
             no == FALSE
             c == [state EXCEPT !.flush = no]
             n == IF state.parked < 0 THEN 0 ELSE state.parked
  <2>1. state' = FlushedAll(c, seq)
    BY <1>3 DEF D!FlushAlarm, FlushedAll
  <2>2. n \in Nat /\ DOMAIN seq = 1 .. n
    BY <1>1
  <2> HIDE DEF no
  <2>3. UsbLined(c)
    BY UsbSets, Zenon
  <2> HIDE DEF seq, c, n
  <2>4. UsbLined(FlushedAll(c, seq))
    BY <2>2, <2>3, AlarmsLined
  <2> QED BY <2>1, <2>4, Zenon
<1>4. ASSUME NEW s \in D!Ins, D!WriteAlarm(s) PROVE UsbLined(state')
  <2> DEFINE seq == state.writes[s]
             writes == [state.writes EXCEPT ![s] = << >>]
             c == [state EXCEPT !.writes = writes]
  <2>1. state' = WrittenAll(c, s, seq)
    <3>1. state' = WrittenAll([state EXCEPT !.writes[s] = << >>], s, seq)
      BY <1>4 DEF D!WriteAlarm, WrittenAll
    <3>2. [state EXCEPT !.writes[s] = << >>] = c
      BY Zenon
    <3> QED BY <3>1, <3>2, Zenon
  <2>2. Len(seq) \in Nat /\ DOMAIN seq = 1 .. Len(seq) /\ (s = "in0" => \A i \in 1 .. Len(seq) : seq[i][2] \in UsbReplies)
    <3>1. CASE s = "in0"
      <4> DEFINE values == {0} \X UsbReplies
      <4>1. seq \in Seq(values)
        BY <1>1, <3>1, Zenon
      <4>2. \A x \in values : x[2] \in UsbReplies
        OBVIOUS
      <4> HIDE DEF values, seq
      <4>3. Len(seq) \in Nat /\ DOMAIN seq = 1 .. Len(seq) /\ \A i \in 1 .. Len(seq) : seq[i] \in values
        BY <4>1
      <4> QED BY <4>2, <4>3, Zenon
    <3>2. CASE s = "in1"
      <4>1. IsSeq(seq)
        BY <1>1, <3>2, Zenon DEF UsbWrites
      <4>2. s # "in0"
        BY <3>2
      <4> QED BY <4>1, <4>2, SequencesAre, Zenon
    <3> QED BY <3>1, <3>2, SlotsAre, Zenon
  <2>3. UsbWrites(writes)
    BY <1>1, QueuesGrow, Zenon
  <2> HIDE DEF writes
  <2>4. UsbLined(c)
    BY <2>3, UsbSets, Zenon
  <2> HIDE DEF seq, c
  <2>5. UsbLined(WrittenAll(c, s, seq))
    BY <2>2, <2>4, AlarmsLined, Zenon
  <2> QED BY <2>1, <2>5, Zenon
<1>5. ASSUME NEW s \in D!Ins, D!ReactionAlarm(s) PROVE UsbLined(state')
  <2> DEFINE seq == state.acked[s]
             acked == [state.acked EXCEPT ![s] = << >>]
             c == [state EXCEPT !.acked = acked]
  <2>1. state' = HeardAll(c, s, seq)
    <3>1. state' = HeardAll([state EXCEPT !.acked[s] = << >>], s, seq)
      BY <1>5 DEF D!ReactionAlarm, HeardAll
    <3>2. [state EXCEPT !.acked[s] = << >>] = c
      BY Zenon
    <3> QED BY <3>1, <3>2, Zenon
  <2>2. Len(seq) \in Nat /\ DOMAIN seq = 1 .. Len(seq) /\ (s = "in0" => \A i \in 1 .. Len(seq) : seq[i] \in UsbReplies)
    <3>1. CASE s = "in0"
      <4>1. seq \in Seq(UsbReplies)
        BY <1>1, <3>1, Zenon
      <4> HIDE DEF seq
      <4> QED BY <4>1
    <3>2. CASE s = "in1"
      <4>1. IsSeq(seq)
        BY <1>1, <3>2, Zenon DEF UsbAcks
      <4>2. s # "in0"
        BY <3>2
      <4> QED BY <4>1, <4>2, SequencesAre, Zenon
    <3> QED BY <3>1, <3>2, SlotsAre, Zenon
  <2>3. UsbAcks(acked)
    BY <1>1, QueuesGrow, Zenon
  <2> HIDE DEF acked
  <2>4. UsbLined(c)
    BY <2>3, UsbSets, Zenon
  <2> HIDE DEF seq, c
  <2>5. UsbLined(HeardAll(c, s, seq))
    BY <2>2, <2>4, AlarmsLined, Zenon
  <2> QED BY <2>1, <2>5, Zenon
<1> QED BY <1>2, <1>3, <1>4, <1>5, Zenon

\* SIE_STATUS, by the host's hand and by the firmware's.
LEMMA UsbSieLined ==
  ASSUME UsbLined(state), D!BusResetAlarm \/ D!AckBusReset \/ D!AckConnect
  PROVE  UsbLined(state')
<1>1. UsbQueues(state) /\ UsbBuff(state) /\ state.sie \subseteq {"SETUP_REQ", "BUS_RESET"}
  <2>1. UsbQueues(state) /\ UsbBuff(state)
    BY SieStays
  <2> QED BY <2>1, Zenon DEF UsbBuff, UsbBits
<1>2. CASE D!BusResetAlarm
  <2> DEFINE no == FALSE
             sie == state.sie \cup {"BUS_RESET"}
             c == [state EXCEPT !.bus_reset = no]
             d == [c EXCEPT !.sie = sie]
  <2>1. state' = D!SieStatusUpdated(d)
    <3>1. state' = D!SieStatusUpdated([state EXCEPT !.bus_reset = no, !.sie = sie])
      BY <1>2, Zenon DEF D!BusResetAlarm
    <3>2. [state EXCEPT !.bus_reset = no, !.sie = sie] = d
      BY Zenon
    <3> HIDE DEF d
    <3> QED BY <3>1, <3>2, Zenon
  <2>2. sie \subseteq {"SETUP_REQ", "BUS_RESET"}
    BY <1>1
  <2> HIDE DEF no, sie
  <2>3. UsbLined(c)
    BY UsbSets, Zenon
  <2> HIDE DEF c
  <2>4. UsbQueues(c) /\ UsbBuff(c)
    BY <2>3, SieStays
  <2>5. UsbQueues(d) /\ UsbBuff(d)
    BY <2>2, <2>4, UsbBuffSets, Zenon
  <2> HIDE DEF d
  <2> QED BY <2>1, <2>5, SieUpdates, Zenon
<1>3. CASE D!AckBusReset
  <2> DEFINE sie == state.sie \ {"BUS_RESET"}
             yes == TRUE
             c == [state EXCEPT !.sie = sie]
             d == D!SendSetup(c, "address")
             e == [d EXCEPT !.connected = yes]
             f == [e EXCEPT !.event = yes]
  <2>1. state' = D!SieStatusUpdated(D!SetConnected(d))
    BY <1>3, Zenon DEF D!AckBusReset
  <2>2. sie \subseteq {"SETUP_REQ", "BUS_RESET"}
    BY <1>1
  <2> HIDE DEF sie
  <2>3. UsbQueues(c) /\ UsbBuff(c)
    BY <1>1, <2>2, UsbBuffSets, Zenon
  <2> HIDE DEF c
  <2>4. UsbLined(d)
    BY <2>3, SetupLined, Zenon
  <2> HIDE DEF d
  <2>5. D!SetConnected(d) \in {d, D!SieStatusUpdated(f)}
    <3>1. D!SetConnected(d) \in {d, D!SieStatusUpdated([d EXCEPT !.connected = yes, !.event = yes])}
      BY Zenon DEF D!SetConnected
    <3>2. [d EXCEPT !.connected = yes, !.event = yes] = f
      BY Zenon
    <3> HIDE DEF f
    <3> QED BY <3>1, <3>2, Zenon
  <2> HIDE DEF yes
  <2>6. UsbLined(e)
    BY <2>4, UsbSets, Zenon
  <2> HIDE DEF e
  <2>7. UsbQueues(e) /\ UsbBuff(e)
    BY <2>6, SieStays
  <2>8. UsbQueues(f) /\ UsbBuff(f)
    BY <2>7, UsbBuffSets, Zenon
  <2> HIDE DEF f
  <2>9. UsbLined(D!SieStatusUpdated(f))
    BY <2>8, SieUpdates, Zenon
  <2> DEFINE h == D!SetConnected(d)
  <2>10. UsbLined(h)
    BY <2>4, <2>5, <2>9, Zenon
  <2> HIDE DEF h
  <2>11. UsbLined(D!SieStatusUpdated(h))
    BY <2>10, SieStays
  <2> QED BY <2>1, <2>11, Zenon DEF h
<1>4. CASE D!AckConnect
  <2> DEFINE no == FALSE
             c == [state EXCEPT !.event = no]
  <2>1. state' = D!SieStatusUpdated(c)
    BY <1>4, Zenon DEF D!AckConnect
  <2> HIDE DEF no
  <2>2. UsbQueues(c) /\ UsbBuff(c)
    BY <1>1, UsbBuffSets, Zenon
  <2> HIDE DEF c
  <2> QED BY <2>1, <2>2, SieUpdates, Zenon
<1> QED BY <1>2, <1>3, <1>4

LEMMA UsbResetLined ==
  ASSUME UsbLined(state), D!ChipReset
  PROVE  UsbLined(state')
<1> DEFINE no == FALSE
           empty == [s \in D!Slots |-> << >>]
           zero == [s \in D!Slots |-> 0]
           queues == [s \in D!Ins |-> << >>]
           b1 == [state EXCEPT !.raw = {}, !.inte = {}, !.sie = {}, !.connected = no, !.event = no, !.done = empty]
           b2 == [b1 EXCEPT !.sel = zero, !.two = zero, !.pending = << >>, !.bus_reset = no]
           b3 == [b2 EXCEPT !.writes = queues, !.acked = queues, !.reads = << >>]
           c == D!CheckInterrupts(b3)
           c1 == [c EXCEPT !.tx = << >>]
           c2 == [c1 EXCEPT !.parked = 0]
           c3 == [c2 EXCEPT !.flush = no]
           c4 == [c3 EXCEPT !.ready = no]
           c5 == [c4 EXCEPT !.known = no]
           c6 == [c5 EXCEPT !.read = 0]
           c7 == [c6 EXCEPT !.endpoints = no]
           d1 == [c7 EXCEPT !.fw = D!Off]
           d2 == [d1 EXCEPT !.setup = "none"]
           d3 == [d2 EXCEPT !.sent = 0]
           d4 == [d3 EXCEPT !.got = 0]
           d5 == [d4 EXCEPT !.given = 0]
           d6 == [d5 EXCEPT !.heard = 0]
<1>1. D!ControllerReset(state) = c
  <2>1. D!ControllerReset(state) = D!CheckInterrupts([state EXCEPT !.raw = {}, !.inte = {}, !.sie = {}, !.connected = no, !.event = no,
          !.done = empty, !.sel = zero, !.two = zero, !.pending = << >>,
          !.bus_reset = no, !.writes = queues, !.acked = queues, !.reads = << >>])
    BY Zenon DEF D!ControllerReset
  <2> HIDE DEF no, empty, zero, queues
  <2>2. b3 = [state EXCEPT !.raw = {}, !.inte = {}, !.sie = {}, !.connected = no, !.event = no,
          !.done = empty, !.sel = zero, !.two = zero, !.pending = << >>,
          !.bus_reset = no, !.writes = queues, !.acked = queues, !.reads = << >>]
    BY Zenon
  <2> HIDE DEF b3
  <2> QED BY <2>1, <2>2, Zenon
<1>2. state' = d6
  <2> DEFINE e == D!OnReset(c)
  <2>1. state' = [e EXCEPT !.fw = D!Off, !.setup = "none", !.sent = 0, !.got = 0, !.given = 0, !.heard = 0]
    BY <1>1, Zenon DEF D!ChipReset
  <2> HIDE DEF c
  <2>2. e = [c EXCEPT !.tx = << >>, !.parked = 0, !.flush = no, !.ready = no, !.known = no, !.read = 0, !.endpoints = no]
    BY Zenon DEF D!OnReset
  <2> HIDE DEF e
  <2>3. e = c7
    BY <2>2, Zenon
  <2> HIDE DEF c7
  <2> QED BY <2>1, <2>3, Zenon
<1>3. UsbFields \subseteq DOMAIN state /\ UsbGiven(state.buf) /\ UsbTodo(state.fw) /\ "in0" \notin state.traffic /\ state.parked \in Int
  BY Zenon DEF UsbLined, UsbQueues
<1>4. ~ \E s \in D!Slots : empty[s] # << >>
  BY Zenon
<1>5. UsbWrites(queues) /\ UsbAcks(queues)
  <2>1. \A values : << >> \in Seq(values)
    OBVIOUS
  <2>2. DOMAIN queues = D!Ins /\ queues["in0"] = << >> /\ queues["in1"] = << >>
    BY SlotsAre
  <2> HIDE DEF queues
  <2> QED BY <2>1, <2>2, SequencesAre, Zenon DEF UsbWrites, UsbAcks
<1>6. UsbTodo(D!Off)
  <2>1. {"up", "todo", "configured", "own", "next"} \subseteq DOMAIN D!Off /\ D!Off.todo = << >>
    BY DEF D!Off
  <2>2. << >> \in Seq(UsbReplies)
    OBVIOUS
  <2> QED BY <2>1, <2>2, Zenon DEF UsbTodo
<1>7. ~ no
  OBVIOUS
<1> HIDE DEF no, empty, zero, queues
<1>8. /\ DOMAIN b1 = DOMAIN state /\ b1.sie = {} /\ b1.raw = {} /\ b1.done = empty /\ b1.event = no
      /\ b1.buf = state.buf /\ b1.fw = state.fw /\ b1.traffic = state.traffic /\ b1.parked = state.parked
  BY <1>3, Zenon DEF UsbFields
<1> HIDE DEF b1
<1>9. /\ DOMAIN b2 = DOMAIN state /\ b2.sie = {} /\ b2.raw = {} /\ b2.done = empty /\ b2.event = no
      /\ b2.buf = state.buf /\ b2.fw = state.fw /\ b2.traffic = state.traffic /\ b2.parked = state.parked
  BY <1>3, <1>8, Zenon DEF UsbFields
<1> HIDE DEF b2
<1>10. /\ DOMAIN b3 = DOMAIN state /\ b3.sie = {} /\ b3.raw = {} /\ b3.done = empty /\ b3.event = no
       /\ b3.buf = state.buf /\ b3.fw = state.fw /\ b3.traffic = state.traffic /\ b3.parked = state.parked
       /\ b3.writes = queues /\ b3.acked = queues /\ b3.reads = << >>
  BY <1>3, <1>9, Zenon DEF UsbFields
<1> HIDE DEF b3
<1>11. UsbQueues(b3)
  BY <1>3, <1>5, <1>10, SequencesAre, Zenon DEF UsbQueues
<1>12. UsbRaw(b3)
  <2>1. ~ UsbTold(b3) /\ UsbBits(b3) /\ ~ b3.event
    <3>1. ~ UsbTold(b3) /\ ~ b3.event
      BY <1>4, <1>7, <1>10, Zenon DEF UsbTold
    <3>2. UsbBits(b3)
      BY <1>10 DEF UsbBits
    <3> QED BY <3>1, <3>2
  <2>2. {i \in {"BUFF_STATUS"} : UsbTold(b3)} = {} /\ {i \in {"DEV_CONN_DIS"} : b3.event} = {}
    BY <2>1, Zenon
  <2>3. b3.raw = (b3.sie \cup {i \in {"BUFF_STATUS"} : UsbTold(b3)} \cup {i \in {"DEV_CONN_DIS"} : b3.event})
    BY <1>10, <2>2
  <2> QED BY <2>1, <2>3, Zenon DEF UsbRaw
<1>13. UsbLined(c)
  BY <1>11, <1>12, UsbChecks, Zenon
<1> HIDE DEF c
<1>14. UsbLined(c1)
  BY <1>13, UsbSets, Zenon
<1> HIDE DEF c1
<1>15. UsbLined(c2)
  <2>1. 0 \in Int
    OBVIOUS
  <2> QED BY <1>14, <2>1, UsbSets, Zenon
<1> HIDE DEF c2
<1>16. UsbLined(c3)
  BY <1>15, UsbSets, Zenon
<1> HIDE DEF c3
<1>17. UsbLined(c4)
  BY <1>16, UsbSets, Zenon
<1> HIDE DEF c4
<1>18. UsbLined(c5)
  BY <1>17, UsbSets, Zenon
<1> HIDE DEF c5
<1>19. UsbLined(c6)
  BY <1>18, UsbSets, Zenon
<1> HIDE DEF c6
<1>20. UsbLined(c7)
  BY <1>19, UsbSets, Zenon
<1> HIDE DEF c7
<1>21. UsbLined(d1)
  BY <1>6, <1>20, UsbSets, Zenon
<1> HIDE DEF d1
<1>22. UsbLined(d2)
  BY <1>21, UsbSets, Zenon
<1> HIDE DEF d2
<1>23. UsbLined(d3)
  BY <1>22, UsbSets, Zenon
<1> HIDE DEF d3
<1>24. UsbLined(d4)
  BY <1>23, UsbSets, Zenon
<1> HIDE DEF d4
<1>25. UsbLined(d5)
  BY <1>24, UsbSets, Zenon
<1> HIDE DEF d5
<1>26. UsbLined(d6)
  BY <1>25, UsbSets, Zenon
<1> HIDE DEF d6
<1> QED BY <1>2, <1>26, Zenon

LEMMA UsbStepLined ==
  ASSUME UsbLined(state), D!Next
  PROVE  UsbLined(state')
<1>1. CASE D!SendSerialByte
  <2> DEFINE tx == Append(state.tx, state.sent)
             sent == (state.sent + 1) % Numbers
             flush == state.flush \/ state.parked > 0
             c == [state EXCEPT !.tx = tx]
             d == [c EXCEPT !.sent = sent]
             e == [d EXCEPT !.flush = flush]
  <2>1. state' = [state EXCEPT !.tx = tx, !.sent = sent, !.flush = flush]
    BY <1>1, Zenon DEF D!SendSerialByte
  <2> HIDE DEF tx, sent, flush
  <2>2. state' = e
    BY <2>1, Zenon
  <2>3. UsbLined(c)
    BY UsbSets, Zenon
  <2> HIDE DEF c
  <2>4. UsbLined(d)
    BY <2>3, UsbSets, Zenon
  <2> HIDE DEF d
  <2>5. UsbLined(e)
    BY <2>4, UsbSets, Zenon
  <2> HIDE DEF e
  <2> QED BY <2>2, <2>5, Zenon
<1>2. CASE D!SetControlLines
  <2>1. state' = D!SendSetup(state, "line state")
    BY <1>2, Zenon DEF D!SetControlLines
  <2> QED BY <2>1, SieStays, SetupLined, Zenon
<1> QED BY <1>1, <1>2, UsbAlarmLined, UsbSieLined, UsbResetLined, FirmwareLined, Zenon DEF D!Next

LEMMA UsbBegins == D!Init => UsbLined(state)
<1> SUFFICES ASSUME D!Init PROVE UsbLined(state)
  OBVIOUS
<1>1. PICK traffic \in Traffic : \E double, notice :
        state = [buf |-> [s \in D!Slots |-> [half \in {0, 1} |-> D!Idle]], double |-> double, notice |-> notice, traffic |-> traffic,
              sel |-> [s \in D!Slots |-> 0], two |-> [s \in D!Slots |-> 0], done |-> [s \in D!Slots |-> << >>],
              pending |-> << >>, writes |-> [s \in D!Ins |-> << >>], acked |-> [s \in D!Ins |-> << >>], reads |-> << >>,
              sie |-> {}, setup |-> "none", connected |-> FALSE, event |-> FALSE, raw |-> {}, inte |-> {}, line |-> FALSE,
              bus_reset |-> FALSE, tx |-> << >>, parked |-> 0, flush |-> FALSE,
              known |-> FALSE, read |-> 0, endpoints |-> FALSE, ready |-> FALSE,
              fw |-> D!Off, sent |-> 0, got |-> 0, given |-> 0, heard |-> 0]
  BY Zenon DEF D!Init
<1> DEFINE empty == [s \in D!Slots |-> << >>]
           queues == [s \in D!Ins |-> << >>]
           none == [s \in D!Slots |-> [half \in {0, 1} |-> D!Idle]]
<1>2. /\ UsbFields \subseteq DOMAIN state /\ state.sie = {} /\ state.raw = {} /\ state.line = FALSE /\ state.event = FALSE
      /\ state.inte = {} /\ state.traffic = traffic /\ state.fw = D!Off /\ state.reads = << >> /\ state.parked = 0
      /\ state.done = empty /\ state.writes = queues /\ state.acked = queues /\ state.buf = none
  BY <1>1 DEF UsbFields
<1>3. UsbWrites(queues) /\ UsbAcks(queues)
  <2>1. \A values : << >> \in Seq(values)
    OBVIOUS
  <2>2. DOMAIN queues = D!Ins /\ queues["in0"] = << >> /\ queues["in1"] = << >>
    BY SlotsAre
  <2> HIDE DEF queues
  <2> QED BY <2>1, <2>2, SequencesAre, Zenon DEF UsbWrites, UsbAcks
<1>4. UsbTodo(D!Off)
  <2>1. {"up", "todo", "configured", "own", "next"} \subseteq DOMAIN D!Off /\ D!Off.todo = << >>
    BY DEF D!Off
  <2>2. << >> \in Seq(UsbReplies)
    OBVIOUS
  <2> QED BY <2>1, <2>2, Zenon DEF UsbTodo
<1>5. UsbGiven(none)
  <2>1. "in0" \in DOMAIN none /\ 0 \in DOMAIN none["in0"] /\ none["in0"][0] = D!Idle
    BY SlotsAre
  <2>2. {"avail", "data"} \subseteq DOMAIN D!Idle /\ ~ D!Idle.avail
    BY DEF D!Idle
  <2> HIDE DEF none
  <2> QED BY <2>1, <2>2, Zenon DEF UsbGiven
<1>6. "in0" \notin traffic
  BY DevicesAssumption DEF D!UsbAssumption
<1>7. ~ UsbTold(state)
  BY <1>2, Zenon DEF UsbTold
<1> HIDE DEF empty, queues, none
<1>8. state.parked \in Int /\ UsbBits(state)
  BY <1>2 DEF UsbBits
<1>9. UsbQueues(state)
  BY <1>2, <1>3, <1>4, <1>5, <1>6, <1>8, SequencesAre, Zenon DEF UsbQueues
<1>10. UsbRaw(state)
  <2>1. {i \in {"BUFF_STATUS"} : UsbTold(state)} = {} /\ {i \in {"DEV_CONN_DIS"} : state.event} = {}
    BY <1>2, <1>7, Zenon
  <2>2. state.raw = (state.sie \cup {i \in {"BUFF_STATUS"} : UsbTold(state)} \cup {i \in {"DEV_CONN_DIS"} : state.event})
    BY <1>2, <2>1
  <2> QED BY <1>8, <2>2, Zenon DEF UsbRaw
<1>11. state.line = (state.raw \cap state.inte # {})
  <2>1. state.raw \cap state.inte = {}
    BY <1>2
  <2> QED BY <1>2, <2>1, Zenon
<1> QED BY <1>9, <1>10, <1>11, Zenon DEF UsbLined

LEMMA UsbIsLined == UsbLined(state) => D!LineTellsStatus
  BY Zenon DEF UsbLined, UsbRaw, UsbTold, D!LineTellsStatus
=============================================================================
