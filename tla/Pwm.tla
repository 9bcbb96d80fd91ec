--------------------------------- MODULE Pwm ---------------------------------
(***************************************************************************)
(* A PWM slice (peripherals/_pwm.py, PWMChannel) and its counter           *)
(* (utils/timer32.py): the counter is never stepped either.  It is a value *)
(* at a moment, and three alarms - the output falls, rises again on the    *)
(* way down of a phase-correct period, and the wrap - are with the clock   *)
(* for the counts they wait for.  CC and TOP are double-buffered.          *)
(*                                                                         *)
(* One output of the two, not inverted; time is in whole counts, and CSR,  *)
(* DIV, CTR and EN are written between the clock's ticks, after what is    *)
(* due has happened.                                                       *)
(***************************************************************************)
EXTENDS Integers

CONSTANTS
  Wide,      \* the values of the counter's word (2^32)
  ResetTop,  \* the TOP of a reset slice (0xFFFF)
  Tops,      \* the TOP values that are written
  Ccs,       \* the CC values that are written
  Ctrs       \* the CTR values that are written

PwmAssumption ==
  /\ Tops \subseteq Nat /\ ResetTop \in Nat /\ Ccs \subseteq Nat /\ Ctrs \subseteq Nat
  /\ Wide \in Nat /\ \A top \in Tops \cup {ResetTop} : 2 * (top + 1) < Wide

VARIABLE pwm

Never == -1
NoTop == -1   \* None: no TOP has been latched

Events == {"fall", "rise", "wrap"}
-----------------------------------------------------------------------------
(* The counter and its alarms, as functions of the state p of the slice. *)


\* Timer32PeriodicAlarm._schedule(), counting up: a target past the top never
\* comes, and the one the counter is on comes after a whole period.
CountsTo(count, target, top) ==
  IF target > top THEN Never ELSE IF target > count THEN target - count ELSE target - count + top + 1

Settled(p) == \A e \in Events : p.due[e] # 0

Scheduled(p, events) ==
  [p EXCEPT !.due = [e \in Events |->
     IF e \notin events THEN @[e] ELSE IF p.run THEN CountsTo(p.count, p.target[e], p.top) ELSE Never]]
Updated(p) == Scheduled(p, Events)

\* A stopped counter keeps what was written; a running one is taken modulo the top.
Placed(p, count) == Updated([p EXCEPT !.count = IF p.run THEN count % (p.top + 1) ELSE count])
Run(p, run) == IF run = p.run THEN p ELSE Placed([p EXCEPT !.run = run], p.count)
Advanced(p, delta) == Updated([p EXCEPT !.count = (@ + delta) % (p.top + 1), !.steady = FALSE])
Retargeted(p, e, target) ==
  IF p.target[e] = target THEN p ELSE Scheduled([p EXCEPT !.target[e] = target], {e})
Topped(p, top) ==
  IF p.top = top THEN p
  ELSE Updated([p EXCEPT !.top = top, !.count = IF @ <= top THEN @ ELSE 0])
-----------------------------------------------------------------------------
(* The slice. *)

CheckInterrupts(p) == [p EXCEPT !.line = (p.raw /\ p.inte) \/ p.intf]

\* _apply_latched(): the period and the two compare events, from the latched TOP and CC and the mode.
ApplyLatched(p) ==
  LET top == p.ltop
      period == (top + 1) * (IF p.ph THEN 2 ELSE 1)
      fall == IF ~ p.ph \/ p.lcc <= top THEN p.lcc ELSE period
      rise == IF p.ph /\ 1 <= p.lcc /\ p.lcc <= top THEN period - p.lcc ELSE period
  IN  IF top = NoTop THEN p ELSE Retargeted(Retargeted(Topped(p, period - 1), "fall", fall), "rise", rise)

UpdateDoubleBuffered(p) ==
  LET u == [p EXCEPT !.lcc = IF p.cc_updated THEN p.cc ELSE @, !.ltop = IF p.top_updated THEN p.ctop ELSE @,
                     !.cc_updated = FALSE, !.top_updated = FALSE]
  IN  IF p.cc_updated \/ p.top_updated THEN ApplyLatched([u EXCEPT !.steady = FALSE]) ELSE p

UpdateEnable(p) == Run(p, p.en /\ (p.gated => p.b))

CsrWritten(p, en, ph, gated, move) ==
  LET u == IF en /\ ~ p.en THEN UpdateDoubleBuffered(p) ELSE p
      v == [u EXCEPT !.en = en, !.ph = ph, !.gated = gated]
      w == IF en /\ ((move = 1 /\ p.slow) \/ move = -1) THEN Advanced(v, move) ELSE v
      x == UpdateEnable(w)
  IN  IF ph = p.ph THEN x ELSE ApplyLatched([x EXCEPT !.steady = FALSE])

\* A write of the block's EN register.
EnWritten(p, en) ==
  UpdateEnable([(IF en /\ ~ p.en THEN UpdateDoubleBuffered(p) ELSE p) EXCEPT !.en = en])

\* The prescaler's setter enables the counter, whatever CSR.EN says.
DivWritten(p, slow) == LET u == Run(p, TRUE) IN Updated([u EXCEPT !.slow = slow])

CtrWritten(p, n) == Placed([p EXCEPT !.steady = FALSE], n)

\* _wrap(): the interrupt, then the latched values of the next period.
Wrapped(p) ==
  LET u == UpdateDoubleBuffered(CheckInterrupts([p EXCEPT !.raw = TRUE]))
  IN  [u EXCEPT !.out = u.lcc > 0, !.steady = TRUE]

Happened(p, e) ==
  IF e = "wrap" THEN Wrapped(p) ELSE [p EXCEPT !.out = (e = "rise")]

\* PWMChannel.reset() and the block's: what is latched stays until the slice is enabled.
WasReset(p) ==
  LET u == Run(DivWritten(CsrWritten(p, FALSE, FALSE, FALSE, 0), FALSE), FALSE)
      v == [u EXCEPT !.count = 0, !.cc = 0, !.cc_updated = TRUE, !.ctop = ResetTop, !.top_updated = TRUE]
  IN  [v EXCEPT !.raw = FALSE, !.inte = FALSE, !.intf = FALSE, !.line = FALSE, !.steady = FALSE]

PowerOn ==
  [en |-> FALSE, ph |-> FALSE, gated |-> FALSE, b |-> FALSE, slow |-> FALSE, run |-> FALSE,
   count |-> 0, top |-> Wide - 1, target |-> [e \in Events |-> 0], due |-> [e \in Events |-> Never],
   cc |-> 0, ctop |-> ResetTop, cc_updated |-> TRUE, top_updated |-> TRUE, lcc |-> 0, ltop |-> NoTop,
   out |-> FALSE, raw |-> FALSE, inte |-> FALSE, intf |-> FALSE, line |-> FALSE, steady |-> FALSE]
-----------------------------------------------------------------------------
Init == pwm = PowerOn

Tick ==
  /\ pwm.run /\ Settled(pwm)
  /\ pwm' = [pwm EXCEPT !.count = (@ + 1) % (pwm.top + 1),
                        !.due = [e \in Events |-> IF @[e] = Never THEN Never ELSE @[e] - 1]]

\* _handle_alarm(): the callback, then the next period's alarm.
EventComes == \E e \in Events : pwm.due[e] = 0 /\ pwm' = Scheduled(Happened(pwm, e), {e})

WriteCsr ==
  \E en, ph, gated \in BOOLEAN, move \in {-1, 0, 1} : Settled(pwm) /\ pwm' = CsrWritten(pwm, en, ph, gated, move)
WriteEn == Settled(pwm) /\ pwm' = EnWritten(pwm, ~ pwm.en)
WriteDiv == Settled(pwm) /\ pwm' = DivWritten(pwm, ~ pwm.slow)
WriteCtr == \E n \in Ctrs : Settled(pwm) /\ pwm' = CtrWritten(pwm, n)
WriteCc == \E n \in Ccs : pwm' = [pwm EXCEPT !.cc = n, !.cc_updated = TRUE]
WriteTop == \E n \in Tops : pwm' = [pwm EXCEPT !.ctop = n, !.top_updated = TRUE]
\* The B pin, an input unless the slice runs free, is looked at only when it gates.
BChanges ==
  /\ Settled(pwm)
  /\ LET u == [pwm EXCEPT !.b = ~ @] IN pwm' = IF u.gated THEN UpdateEnable(u) ELSE u
WriteIntr == pwm' = CheckInterrupts([pwm EXCEPT !.raw = FALSE])
WriteInte == pwm' = CheckInterrupts([pwm EXCEPT !.inte = ~ @])
WriteIntf == pwm' = CheckInterrupts([pwm EXCEPT !.intf = ~ @])
Reset == Settled(pwm) /\ pwm' = WasReset(pwm)

Next ==
  \/ Tick \/ EventComes \/ WriteCsr \/ WriteEn \/ WriteDiv \/ WriteCtr \/ WriteCc \/ WriteTop
  \/ BChanges \/ WriteIntr \/ WriteInte \/ WriteIntf \/ Reset

Spec == Init /\ [][Next]_pwm
-----------------------------------------------------------------------------
(* Properties. *)

TypeOK ==
  /\ \A f \in {"en", "ph", "gated", "b", "slow", "run", "cc_updated", "top_updated", "out", "raw", "inte",
               "intf", "line", "steady"} : pwm[f] \in BOOLEAN
  /\ pwm.count \in Nat /\ (pwm.run => pwm.count <= pwm.top)
  /\ \A e \in Events : pwm.due[e] \in Nat \cup {Never} /\ pwm.target[e] \in Nat

\* Whatever stops, starts, moves and new periods came before, each alarm of a
\* running counter is with the clock for the count it waits for, and for no
\* count past the top; a stopped counter has no alarm (_updated, _schedule).
AlarmsComeOnTarget ==
  \A e \in Events :
    IF pwm.run /\ pwm.target[e] <= pwm.top
    THEN pwm.due[e] # Never /\ (pwm.count + pwm.due[e]) % (pwm.top + 1) = pwm.target[e]
    ELSE pwm.due[e] = Never

\* The interrupt line says what the wrap, enable and force bits say now.
LinesTellStatus == pwm.line = ((pwm.raw /\ pwm.inte) \/ pwm.intf)

\* CTR: the position on the triangle of a phase-correct period.
Shown(p) == IF p.ph /\ p.ltop # NoTop /\ p.count > p.ltop THEN 2 * p.ltop + 1 - p.count ELSE p.count

\* "The output is high while the counter is below CC" (PWMChannel): so it is
\* at every count of a period, through stops, resumes and new values waiting
\* for the wrap, once the wrap that began the period has set it and unless the
\* firmware moves the counter, changes the mode or latches values in it.
OutputIsDuty ==
  pwm.run /\ pwm.steady /\ Settled(pwm) /\ pwm.ltop # NoTop => pwm.out = (Shown(pwm) < pwm.lcc)
=============================================================================
