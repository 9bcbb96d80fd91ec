--------------------------------- MODULE Alu ---------------------------------
(***************************************************************************)
(* The arithmetic of the cores (_cortex_m0_core.py): the instructions that *)
(* add, subtract, compare, shift and multiply, the flags they leave and    *)
(* the conditions that branches make of them, on two registers of Width    *)
(* bits.  The code computes flags from Python integers that may be         *)
(* negative or too wide, as it does here; below, Reference is what they    *)
(* mean: sums of the signed and of the unsigned operands, and shifts made  *)
(* of single places.                                                       *)
(***************************************************************************)
EXTENDS Integers

CONSTANTS Width   \* the bits of a register (32)

AluAssumption == Width \in {2, 4, 8, 16, 32}

VARIABLE alu   \* registers x (rd and rn) and y (rm), the flags, and the instruction done last on which x and c

Full == 2 ^ Width
Half == 2 ^ (Width - 1)
Word == 0 .. Full - 1
-----------------------------------------------------------------------------
(* The code.  Of a Python integer v, v & 0x80000000 is its bit Width - 1 in two's complement. *)

Top(v) == (v \div Half) % 2 = 1
Bit(v, i) == (v \div 2 ^ i) % 2 = 1
Signed(v) == IF Top(v) THEN (v % Full) - Full ELSE v % Full      \* s32()

\* N and Z of a result.
Told(r, result) == [r EXCEPT !.n = Top(result), !.z = (result % Full = 0)]

SubtractUpdateFlags(r, minuend, subtrahend) ==
  LET result == minuend - subtrahend
  IN  [Told(r, result) EXCEPT
         !.c = minuend >= subtrahend,
         !.v = \/ Top(result) /\ ~ Top(minuend) /\ Top(subtrahend)
               \/ ~ Top(result) /\ Top(minuend) /\ ~ Top(subtrahend)]

AddUpdateFlags(r, addend1, addend2) ==
  LET result == addend1 + addend2
  IN  [Told(r, result) EXCEPT
         !.c = result # result % Full, !.v = Signed(result) # Signed(addend1) + Signed(addend2)]

Into(r, result) == [r EXCEPT !.x = result % Full]
Carry(r) == IF r.c THEN 1 ELSE 0

Shifted(r, result, c) == Into([Told(r, result) EXCEPT !.c = c], result)

\* An immediate amount of 0 means Width, but for LSLS; a register's amount may pass Width,
\* and a count of bits that goes below 0 wraps, as it does in JavaScript.
Lsls(r, n) == Shifted(r, r.x * 2 ^ n, IF n = 0 THEN r.c ELSE Bit(r.x, Width - n))
LslsRegister(r, n) ==
  Shifted(r, IF n >= Width THEN 0 ELSE r.x * 2 ^ n, IF n = 0 THEN r.c ELSE Bit(r.x, (Width - n) % Width))
Lsrs(r, n) == Shifted(r, IF n = 0 THEN 0 ELSE r.x \div 2 ^ n, Bit(r.x, IF n = 0 THEN Width - 1 ELSE n - 1))
LsrsRegister(r, n) ==
  Shifted(r, IF n < Width THEN r.x \div 2 ^ n ELSE 0, n <= Width /\ Bit(r.x, (n - 1) % Width))
ArithmeticShift(x, n) == IF n < Width THEN Signed(x) \div 2 ^ n ELSE IF Top(x) THEN Full - 1 ELSE 0
Asrs(r, n) == LET s == IF n = 0 THEN Width ELSE n IN Shifted(r, ArithmeticShift(r.x, s), Bit(r.x, s - 1))
AsrsRegister(r, n) ==
  LET s == IF n > Width THEN Width ELSE n IN Shifted(r, ArithmeticShift(r.x, s), Bit(r.x, (s - 1) % Width))
Ror(r, n) ==
  LET s == n % Width
      result == ((r.x \div 2 ^ s) + r.x * 2 ^ (Width - s)) % Full
  IN  Shifted(r, result, Top(result))

Adds(r) == Into(AddUpdateFlags(r, r.x, r.y), r.x + r.y)
Adcs(r) == LET addend == r.x + Carry(r) IN Into(AddUpdateFlags(r, r.y, addend), r.y + addend)
Cmn(r) == AddUpdateFlags(r, r.x, r.y)
Subs(r) == Into(SubtractUpdateFlags(r, r.x, r.y), r.x - r.y)
Sbcs(r) == LET subtrahend == r.y + 1 - Carry(r) IN Into(SubtractUpdateFlags(r, r.x, subtrahend), r.x - subtrahend)
Rsbs(r) == Into(SubtractUpdateFlags(r, 0, r.y), 0 - r.y)
Cmp(r) == SubtractUpdateFlags(r, r.x, r.y)
Muls(r) == Into(Told(r, (r.x * r.y) % Full), r.x * r.y)
Mvns(r) == Into(Told(r, -1 - r.y), -1 - r.y)

\* An instruction of two registers, or of one and an immediate operand, by its name.
Executed(r, op) ==
  CASE op = "adds" -> Adds(r) [] op = "adcs" -> Adcs(r) [] op = "cmn" -> Cmn(r)
    [] op = "subs" -> Subs(r) [] op = "sbcs" -> Sbcs(r) [] op = "rsbs" -> Rsbs(r) [] op = "cmp" -> Cmp(r)
    [] op = "muls" -> Muls(r) [] op = "mvns" -> Mvns(r)
    [] op = "lsls" -> LslsRegister(r, r.y) [] op = "lsrs" -> LsrsRegister(r, r.y)
    [] op = "asrs" -> AsrsRegister(r, r.y) [] op = "ror" -> Ror(r, r.y)

ExecutedImmediate(r, op, n) ==
  CASE op = "lsls imm" -> Lsls(r, n) [] op = "lsrs imm" -> Lsrs(r, n) [] op = "asrs imm" -> Asrs(r, n)

\* check_condition(): the condition codes in pairs, the odd one of each being the opposite.
BaseCondition(r, base) ==
  CASE base = 0 -> r.z [] base = 1 -> r.c [] base = 2 -> r.n [] base = 3 -> r.v
    [] base = 4 -> r.c /\ ~ r.z [] base = 5 -> r.n = r.v [] base = 6 -> r.n = r.v /\ ~ r.z [] base = 7 -> TRUE

CheckCondition(r, cond) ==
  IF cond % 2 = 1 /\ cond # 15 THEN ~ BaseCondition(r, cond \div 2) ELSE BaseCondition(r, cond \div 2)

Instructions == {"adds", "adcs", "cmn", "subs", "sbcs", "rsbs", "cmp", "muls", "mvns", "lsls", "lsrs", "asrs", "ror"}
ImmediateShifts == {"lsls imm", "lsrs imm", "asrs imm"}
-----------------------------------------------------------------------------
Init ==
  \E x, y \in Word : alu = [x |-> x, y |-> y, n |-> FALSE, z |-> FALSE, c |-> FALSE, v |-> FALSE,
                            did |-> [op |-> "none", x |-> x, c |-> FALSE, v |-> FALSE, by |-> y]]

Done(op, by) == [op |-> op, x |-> alu.x, c |-> alu.c, v |-> alu.v, by |-> by]

Execute == \E op \in Instructions : alu' = [Executed(alu, op) EXCEPT !.did = Done(op, alu.y)]

Shift ==
  \E op \in ImmediateShifts, n \in 0 .. Width - 1 : alu' = [ExecutedImmediate(alu, op, n) EXCEPT !.did = Done(op, n)]

Next == Execute \/ Shift
-----------------------------------------------------------------------------
(* What the instructions mean: <<result, carry, overflow>>. *)

AddWithCarry(a, b, carry) ==
  LET r == (a + b + carry) % Full
  IN  << r, a + b + carry >= Full, Signed(r) # Signed(a) + Signed(b) + carry >>

Not(a) == Full - 1 - a

\* One place to the left or right: the value and the bit that went out.
OnePlace(op, a) ==
  CASE op = "lsls" -> << (2 * a) % Full, Top(a) >>
    [] op = "lsrs" -> << a \div 2, Bit(a, 0) >>
    [] op = "asrs" -> << (a \div 2) + (IF Top(a) THEN Half ELSE 0), Bit(a, 0) >>
    [] op = "ror" -> << (a \div 2) + (IF Bit(a, 0) THEN Half ELSE 0), Bit(a, 0) >>

Places(op, a, n, c) ==
  LET after[i \in 0 .. n] == IF i = 0 THEN << a, c >> ELSE OnePlace(op, after[i - 1][1]) IN after[n]

OpOf(op) == CASE op = "lsls imm" -> "lsls" [] op = "lsrs imm" -> "lsrs" [] op = "asrs imm" -> "asrs" [] OTHER -> op
AmountOf(d) == IF d.op \in {"lsrs imm", "asrs imm"} /\ d.by = 0 THEN Width ELSE d.by

Reference(d) ==
  LET cin == IF d.c THEN 1 ELSE 0
      moved == Places(OpOf(d.op), d.x, AmountOf(d), d.c)
  IN  CASE d.op \in {"adds", "cmn"} -> AddWithCarry(d.x, d.by, 0)
        [] d.op = "adcs" -> AddWithCarry(d.x, d.by, cin)
        [] d.op \in {"subs", "cmp"} -> AddWithCarry(d.x, Not(d.by), 1)
        [] d.op = "sbcs" -> AddWithCarry(d.x, Not(d.by), cin)
        [] d.op = "rsbs" -> AddWithCarry(Not(d.by), 0, 1)
        [] d.op = "muls" -> << (d.x * d.by) % Full, d.c, d.v >>
        [] d.op = "mvns" -> << Not(d.by), d.c, d.v >>
        [] OTHER -> << moved[1], moved[2], d.v >>

\* Where the code's overflow is the opposite: the carry or borrow makes the largest
\* signed number of the operand that it is added to.
OverflowMissed(d) ==
  \/ d.op = "adcs" /\ d.c /\ d.x = Half - 1
  \/ d.op = "sbcs" /\ ~ d.c /\ d.by = Half - 1

\* Where the code's carry is a bit that did not go out: shifts by a register that holds 0
\* or, to the left, more than Width.
CarryMade(d) ==
  \/ d.op \in {"lsrs", "asrs", "ror"} /\ d.by = 0 /\ Top(d.x) # d.c
  \/ d.op = "lsls" /\ d.by > Width /\ Bit(d.x, (Width - d.by) % Width)

\* The registers and flags hold what they can.
TypeOK == alu.x \in Word /\ alu.y \in Word /\ {alu.n, alu.z, alu.c, alu.v, alu.did.c, alu.did.v} \subseteq BOOLEAN

\* Results and flags are those of the arithmetic meant, and wrong nowhere but in the
\* two cases above; after a comparison every condition code compares as it says.
Conditions(a, b) ==
  << a = b, a # b, a >= b, a < b, Signed((a - b) % Full) < 0, Signed((a - b) % Full) >= 0,
     Signed(a) - Signed(b) \notin -Half .. Half - 1, Signed(a) - Signed(b) \in -Half .. Half - 1, a > b, a <= b,
     Signed(a) >= Signed(b), Signed(a) < Signed(b), Signed(a) > Signed(b), Signed(a) <= Signed(b), TRUE, TRUE >>

FlagsTellResults ==
  alu.did.op # "none" =>
    LET d == alu.did
        ref == Reference(d)
    IN  /\ alu.x = IF d.op \in {"cmp", "cmn"} THEN d.x ELSE ref[1]
        /\ alu.n = (Signed(ref[1]) < 0) /\ alu.z = (ref[1] = 0)
        /\ alu.c = (ref[2] # CarryMade(d)) /\ alu.v = (ref[3] # OverflowMissed(d))
        /\ d.op = "cmp" => \A cond \in 0 .. 15 : CheckCondition(alu, cond) = Conditions(d.x, d.by)[cond + 1]
=============================================================================
