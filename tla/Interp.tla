-------------------------------- MODULE Interp --------------------------------
(***************************************************************************)
(* An interpolator of the SIO (interpolator.py, and its registers in       *)
(* _sio.py).  Its results are not computed when they are read: each write  *)
(* calls update(), which also rewrites the control registers; a POP writes *)
(* the results back and updates once more.  The code works on Python       *)
(* integers, signed, wider than a word, or both, as it does here.          *)
(***************************************************************************)
EXTENDS Integers

CONSTANTS
  Width,     \* the bits of a word (32)
  Alpha,     \* the bits of a fraction when blending (8)
  Accums,    \* <<n, w>>: words that are written to, or added to, accumulator n
  Bases,     \* <<n, w>>: words that are written to base n
  Pairs,     \* words that are written to two bases at once
  Lanes0, Lanes1    \* what is written to the control registers

InterpAssumption ==
  /\ Width \in {4, 8, 16, 32} /\ Alpha \in 1 .. Width
  /\ Accums \subseteq (0 .. 1) \X (0 .. 2 ^ Width - 1) /\ Bases \subseteq (0 .. 2) \X (0 .. 2 ^ Width - 1)
  /\ Pairs \subseteq 0 .. 2 ^ Width - 1

VARIABLE interp  \* its registers and results; index is which of a core's two it is

Full == 2 ^ Width
Word == 0 .. Full - 1
Unsigned(v) == v % Full                                                 \* u32()
Signed(v) == IF Unsigned(v) >= Full \div 2 THEN Unsigned(v) - Full ELSE Unsigned(v)      \* s32()
Bit(v, i) == (v \div 2 ^ i) % 2 = 1
-----------------------------------------------------------------------------
(* update() *)

Shifted(input, ctrl) == Unsigned(input) \div 2 ^ ctrl.shift
Masked(input, ctrl) == ((Shifted(input, ctrl) % 2 ^ (ctrl.msb + 1)) \div 2 ^ ctrl.lsb) * 2 ^ ctrl.lsb
Overflows(input, ctrl) == Shifted(input, ctrl) >= 2 ^ (ctrl.msb + 1)

Result(input, ctrl) ==
  LET u == Masked(input, ctrl) IN IF ctrl.signed /\ Bit(u, ctrl.msb) THEN u - 2 ^ (ctrl.msb + 1) ELSE u

\* Between base0 and base1, in the order that lane 0 compares in.
Clamped(i, result, signed) ==
  LET of(v) == IF signed THEN Signed(v) ELSE Unsigned(v)
  IN  IF of(result) < of(i.base0) THEN i.base0 ELSE IF of(result) > of(i.base1) THEN i.base1 ELSE result

Blended(i, alpha, signed) ==
  LET of(v) == IF signed THEN Signed(v) ELSE v
  IN  of(i.base0) + Signed((alpha * (of(i.base1) - of(i.base0))) \div 2 ^ Alpha)

\* What FORCE_MSB puts into a result that the bus reads, and not into the one that a POP writes back.
Forced(w, ctrl) ==
  LET low == w % 2 ^ (Width - 4)
      two == (w \div 2 ^ (Width - 4)) % 4
      high == w \div 2 ^ (Width - 2)
      ored == LET b(k) == IF Bit(two, k) \/ Bit(ctrl.force, k) THEN 2 ^ k ELSE 0 IN b(0) + b(1)
  IN  high * 2 ^ (Width - 2) + ored * 2 ^ (Width - 4) + low

Update(i) ==
  LET clamp == i.ctrl0.clamp /\ i.index = 1
      blend == i.ctrl0.blend /\ i.index = 0
      input0 == Signed(IF i.ctrl0.crossInput THEN i.accum1 ELSE i.accum0)
      input1 == Signed(IF i.ctrl1.crossInput THEN i.accum0 ELSE i.accum1)
      result0 == Result(input0, i.ctrl0)
      result1 == Result(input1, i.ctrl1)
      alpha == result1 % 2 ^ Alpha
      add0 == i.base0 + (IF i.ctrl0.addRaw THEN input0 ELSE result0)
      add1 == i.base1 + (IF i.ctrl1.addRaw THEN input1 ELSE result1)
      lane0 == Unsigned(IF blend THEN alpha ELSE IF clamp THEN Clamped(i, result0, i.ctrl0.signed) ELSE add0)
      lane1 == Unsigned(IF blend THEN Blended(i, alpha, i.ctrl1.signed) ELSE add1)
  IN  [i EXCEPT !.sm0 = Unsigned(result0), !.sm1 = Unsigned(result1), !.lane0 = lane0, !.lane1 = lane1,
                !.result0 = IF blend THEN lane0 ELSE Forced(lane0, i.ctrl0), !.result1 = Forced(lane1, i.ctrl1),
                !.result2 = Unsigned(i.base2 + result0 + (IF blend THEN 0 ELSE result1)),
                !.ctrl0.clamp = clamp, !.ctrl0.blend = blend, !.ctrl1.clamp = FALSE, !.ctrl1.blend = FALSE,
                !.overf0 = Overflows(input0, i.ctrl0), !.overf1 = Overflows(input1, i.ctrl1)]
-----------------------------------------------------------------------------
(* The registers. *)

NoLane == [shift |-> 0, lsb |-> 0, msb |-> 0, signed |-> FALSE, crossInput |-> FALSE, crossResult |-> FALSE,
           addRaw |-> FALSE, force |-> 0, blend |-> FALSE, clamp |-> FALSE]
Fresh(index) ==
  Update([index |-> index, accum0 |-> 0, accum1 |-> 0, base0 |-> 0, base1 |-> 0, base2 |-> 0, ctrl0 |-> NoLane, ctrl1 |-> NoLane,
          sm0 |-> 0, sm1 |-> 0, lane0 |-> 0, lane1 |-> 0, result0 |-> 0, result1 |-> 0, result2 |-> 0,
          overf0 |-> FALSE, overf1 |-> FALSE])

WriteAccum(i, n, w) == Update(IF n = 0 THEN [i EXCEPT !.accum0 = w] ELSE [i EXCEPT !.accum1 = w])
\* The sum is not cut to a word; the bus and update() do that when they read it.
AddAccum(i, n, w) ==
  LET added == w % 2 ^ ((3 * Width) \div 4)      \* INTERP_ADD_MASK
  IN  Update(IF n = 0 THEN [i EXCEPT !.accum0 = @ + added] ELSE [i EXCEPT !.accum1 = @ + added])
WriteBase(i, n, w) ==
  Update(CASE n = 0 -> [i EXCEPT !.base0 = w] [] n = 1 -> [i EXCEPT !.base1 = w] [] n = 2 -> [i EXCEPT !.base2 = w])
WriteCtrl(i, n, ctrl) == Update(IF n = 0 THEN [i EXCEPT !.ctrl0 = ctrl] ELSE [i EXCEPT !.ctrl1 = ctrl])

\* set_base01(): a half for each base, with its sign if the lane has one (lane 1's for both when blending).
HalfWord(h, signed) ==
  LET half == 2 ^ (Width \div 2) IN Unsigned(IF signed /\ h >= half \div 2 THEN h - half ELSE h)
SetBase01(i, w) ==
  LET half == 2 ^ (Width \div 2)
      blend == i.ctrl0.blend /\ i.index = 0
  IN  Update([i EXCEPT !.base0 = HalfWord(w % half, IF blend THEN i.ctrl1.signed ELSE i.ctrl0.signed),
                       !.base1 = HalfWord(w \div half, i.ctrl1.signed)])

\* writeback(), after any of the three results was popped.
Writeback(i) ==
  Update([i EXCEPT !.accum0 = IF i.ctrl0.crossResult THEN i.lane1 ELSE i.lane0,
                   !.accum1 = IF i.ctrl1.crossResult THEN i.lane0 ELSE i.lane1])
-----------------------------------------------------------------------------
Init == \E index \in {0, 1} : interp = Fresh(index)

\* (An accumulator that nobody has written for long is kept below two words here.)
Accumulate ==
  \E a \in Accums :
    \/ interp' = WriteAccum(interp, a[1], a[2])
    \/ interp.accum0 < Full /\ interp.accum1 < Full /\ interp' = AddAccum(interp, a[1], a[2])
SetBase == \E b \in Bases : interp' = WriteBase(interp, b[1], b[2])
SetPair == \E w \in Pairs : interp' = SetBase01(interp, w)
SetLanes == \/ \E ctrl \in Lanes0 : interp' = WriteCtrl(interp, 0, ctrl)
            \/ \E ctrl \in Lanes1 : interp' = WriteCtrl(interp, 1, ctrl)
Pop == interp' = Writeback(interp)
Reset == interp' = Fresh(interp.index)

Next == Accumulate \/ SetBase \/ SetPair \/ SetLanes \/ Pop \/ Reset
-----------------------------------------------------------------------------
\* Bases and results are words.
TypeOK ==
  /\ {interp.base0, interp.base1, interp.base2, interp.sm0, interp.sm1, interp.lane0, interp.lane1} \subseteq Word
  /\ {interp.result0, interp.result1, interp.result2} \subseteq Word

\* The result of a lane is the field of its input from MASK_LSB to MASK_MSB, moved
\* down by SHIFT, with zeros below it and zeros or its sign above it.
IsField(w, input, ctrl) ==
  \A k \in 0 .. Width - 1 :
    LET source == IF k > ctrl.msb THEN ctrl.msb ELSE k
    IN  Bit(w, k) = /\ source >= ctrl.lsb /\ source + ctrl.shift < Width
                    /\ Bit(input, source + ctrl.shift) /\ (k > ctrl.msb => ctrl.signed)

\* A clamped lane lies between its bases, and is the field itself when that does.  A blend
\* lies between the bases too, whichever of them is greater, and starts at base0.
Between(w, low, high, signed) ==
  LET of(v) == IF signed THEN Signed(v) ELSE v IN of(low) <= of(w) /\ of(w) <= of(high)

StaysBetween(i) ==
  /\ i.ctrl0.clamp /\ Between(i.base0, i.base0, i.base1, i.ctrl0.signed) =>
       /\ Between(i.lane0, i.base0, i.base1, i.ctrl0.signed)
       /\ Between(i.sm0, i.base0, i.base1, i.ctrl0.signed) => i.lane0 = i.sm0
  /\ i.ctrl0.blend =>
       /\ \/ Between(i.lane1, i.base0, i.base1, i.ctrl1.signed)
          \/ Between(i.lane1, i.base1, i.base0, i.ctrl1.signed)
       /\ i.lane0 = 0 => i.lane1 = i.base0

\* Somebody else's use of the interpolator, who saves its registers by reading them
\* and writes them back in the pico-sdk's order, leaves the results as they were.
Outputs(i) ==
  << i.sm0, i.sm1, i.lane0, i.lane1, i.result0, i.result1, i.result2, i.ctrl0, i.ctrl1, i.overf0, i.overf1 >>

Restored(i, other) ==
  LET a == WriteAccum(WriteAccum(other, 0, Unsigned(i.accum0)), 1, Unsigned(i.accum1))
      b == WriteBase(WriteBase(WriteBase(a, 0, i.base0), 1, i.base1), 2, i.base2)
  IN  WriteCtrl(WriteCtrl(b, 0, i.ctrl0), 1, i.ctrl1)

\* The results are always those of the registers, as above.
LanesTellRegisters ==
  LET i == interp
  IN  /\ IsField(i.sm0, Unsigned(IF i.ctrl0.crossInput THEN i.accum1 ELSE i.accum0), i.ctrl0)
      /\ IsField(i.sm1, Unsigned(IF i.ctrl1.crossInput THEN i.accum0 ELSE i.accum1), i.ctrl1)
      /\ StaysBetween(i)
      /\ Outputs(Restored(i, Fresh(i.index))) = Outputs(i)
===============================================================================
