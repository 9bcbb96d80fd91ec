--------------------------------- MODULE Sio ---------------------------------
(***************************************************************************)
(* The divider and the spinlocks of the SIO (_sio.py), under programs that *)
(* use them as the pico-sdk does.  The registers of the divider are kept   *)
(* twice, core 0's as attributes of the SIO and core 1's in a _CoreState,  *)
(* and an access by core 1 runs between two exchanges of them.  A program  *)
(* divides in several accesses and its interrupt handlers divide too: who  *)
(* finds the result of another not yet read saves it and puts it back      *)
(* (tests/test_sio.py:59).  Words are those the bus delivers: a quotient   *)
(* that the code keeps as a fraction is read without it.                   *)
(***************************************************************************)
EXTENDS Integers, Sequences

CONSTANTS
  Width,        \* the bits of a word (32)
  Divisions     \* for each core the divisions, [signed, dividend, divisor], that its program may ask for,
                \* that a handler on top of it may, and so on as deep as handlers nest there

SioAssumption ==
  /\ Width \in {2, 4, 8, 16, 32}
  /\ DOMAIN Divisions = {0, 1}
  /\ \A c \in {0, 1} : \A i \in 1 .. Len(Divisions[c]) :
       Divisions[c][i] \subseteq [signed : BOOLEAN, dividend : 0 .. 2 ^ Width - 1, divisor : 0 .. 2 ^ Width - 1]

VARIABLE sio  \* mine and other (the two copies), spin (a spinlock), stack (each core's programs, the one that runs last),
              \* orphan (history: the lock was held by a program that a reset ended)

Full == 2 ^ Width
Word == 0 .. Full - 1
Cores == {0, 1}
-----------------------------------------------------------------------------
(* The divider. *)

Signed(w) == IF w >= Full \div 2 THEN w - Full ELSE w      \* s32()
Magnitude(n) == IF n < 0 THEN -n ELSE n

\* Toward zero, as int() of a quotient and _js_trunc_rem() have it.
Quotient(a, b) ==
  LET q == Magnitude(a) \div Magnitude(b) IN IF (a < 0) = (b < 0) THEN q ELSE -q

\* update_hardware_divider().
Divided(bank, signed) ==
  LET a == IF signed THEN Signed(bank.dividend) ELSE bank.dividend
      b == IF signed THEN Signed(bank.divisor) ELSE bank.divisor
      q == IF b = 0 THEN (IF a > 0 THEN -1 ELSE 1) ELSE Quotient(a, b)
      r == IF b = 0 THEN a ELSE a - b * Quotient(a, b)
  IN  [bank EXCEPT !.quotient = q % Full, !.remainder = r % Full, !.dirty = TRUE]

\* _write_uint32() and _read_uint32() of its registers; a read gives the word and the bank it leaves.
Written(bank, register, w) ==
  CASE register \in {"udividend", "sdividend"} -> Divided([bank EXCEPT !.dividend = w], register = "sdividend")
    [] register \in {"udivisor", "sdivisor"} -> Divided([bank EXCEPT !.divisor = w], register = "sdivisor")
    [] register = "quotient" -> [bank EXCEPT !.quotient = w, !.dirty = TRUE]
    [] register = "remainder" -> [bank EXCEPT !.remainder = w, !.dirty = TRUE]

Cleared(bank, register) == IF register = "quotient" THEN [bank EXCEPT !.dirty = FALSE] ELSE bank

PowerOn == [dividend |-> 0, divisor |-> 0, quotient |-> 0, remainder |-> 0, dirty |-> FALSE]
-----------------------------------------------------------------------------
(* The accesses of a core. *)

Swap(s) == [s EXCEPT !.mine = s.other, !.other = s.mine]

Write(s, core, register, w) ==
  LET write(t) == [t EXCEPT !.mine = Written(t.mine, register, w)]
  IN  IF core = 1 THEN Swap(write(Swap(s))) ELSE write(s)

\* What a read leaves, and what it gives.
AfterRead(s, core, register) ==
  LET read(t) == [t EXCEPT !.mine = Cleared(t.mine, register)]
  IN  IF core = 1 THEN Swap(read(Swap(s))) ELSE read(s)
Read(s, core, register) == (IF core = 1 THEN Swap(s) ELSE s).mine[register]

\* A read of a spinlock takes it, and tells whether it was free; a write frees it.
TakesLock(s) == ~ s.spin
AfterTake(s) == [s EXCEPT !.spin = TRUE]
AfterFree(s) == [s EXCEPT !.spin = FALSE]
-----------------------------------------------------------------------------
(* The programs: hw_divider of the pico-sdk, and a critical section.  A program that *)
(* does nothing is at 0; a division goes through the accesses from 1 on.             *)

Saves == << "dividend", "divisor", "remainder", "quotient" >>
Restores == << "udividend", "udivisor", "remainder", "quotient" >>

NoDivision == [signed |-> FALSE, dividend |-> 0, divisor |-> 0]
Idle == [at |-> 0, of |-> NoDivision, saved |-> << >>, answer |-> << >>, inside |-> FALSE]

Top(s, c) == s.stack[c][Len(s.stack[c])]
Put(s, c, task) == [s EXCEPT !.stack[c][Len(s.stack[c])] = task]

Init ==
  sio = [mine |-> PowerOn, other |-> PowerOn, spin |-> FALSE, stack |-> [c \in Cores |-> << Idle >>], orphan |-> FALSE]

\* A division begins: it looks whether a result of somebody else is still to be read.
Begin(c) ==
  \E d \in Divisions[c][Len(sio.stack[c])] :
    /\ Top(sio, c).at = 0 /\ (Len(sio.stack[c]) > 1 => Top(sio, c).of = NoDivision)
    /\ sio' = Put(sio, c, [Idle EXCEPT !.at = IF Read(sio, c, "dirty") THEN 1 ELSE 5, !.of = d, !.inside = Top(sio, c).inside])

Save(c) ==
  LET t == Top(sio, c)
      register == Saves[t.at]
  IN  /\ t.at \in 1 .. 4
      /\ sio' = Put(AfterRead(sio, c, register), c,
                    [t EXCEPT !.at = @ + 1, !.saved = Append(@, Read(sio, c, register))])

Ask(c) ==
  LET t == Top(sio, c)
      s == IF t.of.signed THEN << "sdividend", "sdivisor" >> ELSE << "udividend", "udivisor" >>
  IN  /\ t.at \in {5, 6}
      /\ sio' = Put(IF t.at = 5 THEN Write(sio, c, s[1], t.of.dividend) ELSE Write(sio, c, s[2], t.of.divisor), c,
                    [t EXCEPT !.at = @ + 1])

Answer(c) ==
  LET t == Top(sio, c)
      register == << "remainder", "quotient" >>[t.at - 6]
  IN  /\ t.at \in {7, 8}
      /\ sio' = Put(AfterRead(sio, c, register), c,
                    [t EXCEPT !.at = IF @ = 8 /\ t.saved = << >> THEN 0 ELSE @ + 1,
                              !.answer = Append(@, Read(sio, c, register))])

Restore(c) ==
  LET t == Top(sio, c)
  IN  /\ t.at \in 9 .. 12
      /\ sio' = Put(Write(sio, c, Restores[t.at - 8], t.saved[t.at - 8]), c,
                    [t EXCEPT !.at = IF @ = 12 THEN 0 ELSE @ + 1, !.saved = IF t.at = 12 THEN << >> ELSE @])

\* A handler comes between two accesses, unless the program holds the lock, and goes when it is done.
Interrupt(c) ==
  /\ Len(sio.stack[c]) < Len(Divisions[c]) /\ ~ Top(sio, c).inside
  /\ sio' = [sio EXCEPT !.stack[c] = Append(@, Idle)]

Return(c) ==
  /\ Len(sio.stack[c]) > 1 /\ Top(sio, c).at = 0
  /\ sio' = [sio EXCEPT !.stack[c] = SubSeq(@, 1, Len(@) - 1)]

\* spin_lock_blocking() reads until it is told that it has the lock.
Take(c) ==
  LET t == Top(sio, c)
  IN  /\ Len(sio.stack[c]) = 1 /\ t.at = 0 /\ ~ t.inside
      /\ sio' = Put(AfterTake(sio), c, [t EXCEPT !.inside = TakesLock(sio)])

Free(c) ==
  LET t == Top(sio, c)
  IN  /\ t.at = 0 /\ t.inside
      /\ sio' = Put(AfterFree(sio), c, [t EXCEPT !.inside = FALSE])

\* Core 1 is held and started again, which leaves the divider and the locks; a reset of the chip
\* by the watchdog starts both cores and leaves them too, if it does not select the SIO.
Restarted(s, cores) ==
  [s EXCEPT !.stack = [c \in Cores |-> IF c \in cores THEN << Idle >> ELSE @[c]],
            !.orphan = @ \/ \E c \in cores : s.stack[c][1].inside]
ResetCores == \E cores \in {{1}, Cores} : sio' = Restarted(sio, cores)
ChipReset ==
  sio' = [Restarted(sio, Cores) EXCEPT !.mine = PowerOn, !.other = PowerOn, !.spin = FALSE, !.orphan = FALSE]

Next ==
  \/ \E c \in Cores : \/ Begin(c) \/ Save(c) \/ Ask(c) \/ Answer(c) \/ Restore(c)
                      \/ Interrupt(c) \/ Return(c) \/ Take(c) \/ Free(c)
  \/ ResetCores
  \/ ChipReset
-----------------------------------------------------------------------------
Bank == [dividend : Word, divisor : Word, quotient : Word, remainder : Word, dirty : BOOLEAN]

\* Two copies of the registers, and programs as deep as handlers nest.
TypeOK ==
  /\ {sio.mine, sio.other} \subseteq Bank /\ {sio.spin, sio.orphan} \subseteq BOOLEAN
  /\ \A c \in Cores : Len(sio.stack[c]) \in 1 .. Len(Divisions[c])

\* The quotient and the remainder of a division by a divisor other than 0 are those of
\* the operands it asked for: they make up the dividend again, and the remainder is
\* smaller than the divisor and on the dividend's side.  The most negative number
\* by -1 has no quotient, and gives itself.
IsDivision(d, q, r) ==
  LET val(w) == IF d.signed THEN Signed(w) ELSE w
  IN  \/ /\ val(q) * val(d.divisor) + val(r) = val(d.dividend)
         /\ Magnitude(val(r)) < Magnitude(val(d.divisor))
         /\ r = 0 \/ (val(r) < 0) = (val(d.dividend) < 0)
      \/ d.signed /\ val(d.divisor) = -1 /\ q = Full \div 2 /\ d.dividend = q /\ r = 0
      \/ d.divisor = 0 /\ val(q) \in {1, val(Full - 1)} /\ r = d.dividend

\* Every division gets its own answer, whichever handlers of its core divide between
\* any two of its accesses and whatever the other core does; two cores are never inside a
\* critical section together, and the lock is held exactly while one is (or by a
\* program that a reset ended, which nobody frees but the chip's reset).
DivisionsAreOwn ==
  \A c \in Cores : \A i \in 1 .. Len(sio.stack[c]) :
    LET t == sio.stack[c][i] IN Len(t.answer) = 2 => IsDivision(t.of, t.answer[2], t.answer[1])

LocksExclude ==
  LET inside == {c \in Cores : sio.stack[c][1].inside}
  IN  inside # Cores /\ (inside # {} => sio.spin) /\ (sio.spin => inside # {} \/ sio.orphan)

ShowsWhatItDoes == DivisionsAreOwn /\ LocksExclude
=============================================================================
