------------------------------ MODULE Watchdog ------------------------------
(***************************************************************************)
(* The watchdog (peripherals/_watchdog.py): a countdown on the tick, which *)
(* is a 32-bit counter with one periodic alarm at zero (utils/timer32.py,  *)
(* counting down), fed by LOAD, and stopped and started by CTRL.ENABLE and *)
(* by the tick itself.  Time is in counts; the tick's rate only says how   *)
(* long they are.                                                          *)
(***************************************************************************)
EXTENDS Integers

CONSTANTS
  Loads,        \* the LOAD values that are written (24 bits)
  CountValues   \* the values of the counter's word (2^32)

WatchdogAssumption == CountValues \in Nat \ {0} /\ Loads \subseteq 0 .. CountValues - 1

VARIABLE watchdog

Never == -1
-----------------------------------------------------------------------------
(* Timer32 and its alarm, and the block's methods, as functions of the state w. *)


\* Timer32PeriodicAlarm._schedule(), counting down to zero: from zero it is a whole wrap.
Scheduled(w) ==
  [w EXCEPT !.due = IF ~ (w.run /\ w.alarm) THEN Never ELSE IF w.count = 0 THEN CountValues ELSE w.count]

\* The counter's enable follows the alarm's in every caller, each told on a change only.
Enabled(w, on) ==
  LET t == IF w.run = on THEN w ELSE Scheduled([w EXCEPT !.run = on])
  IN  IF t.alarm = on THEN t ELSE Scheduled([t EXCEPT !.alarm = on])

Loaded(w, n) == Scheduled([w EXCEPT !.count = n])

\* _retick(): the tick runs or not; a new rate times the alarm again at the same count.
Reticked(w, ticking) ==
  LET t == [w EXCEPT !.ticking = ticking] IN Enabled(IF ticking THEN Scheduled(t) ELSE t, t.enable /\ ticking)


\* TRIGGER resets the chip, which leaves this block alone, then the enables are taken from the value.
CtrlWritten(w, trigger, enable) ==
  LET t == [w EXCEPT !.reason = IF trigger THEN "FORCE" ELSE @, !.enable = enable]
  IN  Enabled(t, enable /\ t.ticking)

\* reset(), by RUN or power-on only: CYCLES is 0, so the tick stops.
WasReset(w) ==
  Reticked(Loaded(Enabled([w EXCEPT !.reason = "NONE", !.enable = FALSE], FALSE), 0), FALSE)

PowerOn ==
  [enable |-> FALSE, ticking |-> FALSE, run |-> FALSE, alarm |-> FALSE, count |-> 0, due |-> Never, reason |-> "NONE"]
-----------------------------------------------------------------------------
Init == watchdog = PowerOn

Count ==
  /\ watchdog.run /\ watchdog.due # 0
  /\ watchdog' = [watchdog EXCEPT !.count = (@ - 1) % CountValues, !.due = IF @ = Never THEN Never ELSE @ - 1]

\* The alarm: the reason, the chip's reset, and the alarm again a wrap later.
TimesOut == watchdog.due = 0 /\ watchdog' = Scheduled([watchdog EXCEPT !.reason = "TIMER"])

WriteCtrl == \E trigger, enable \in BOOLEAN : watchdog' = CtrlWritten(watchdog, trigger, enable)
WriteLoad == \E n \in Loads : watchdog' = Loaded(watchdog, n)
\* TICK is written, or clk_ref changes.
Retick == \E ticking \in BOOLEAN : watchdog' = Reticked(watchdog, ticking)
Reset == watchdog' = WasReset(watchdog)

Next == Count \/ TimesOut \/ WriteCtrl \/ WriteLoad \/ Retick \/ Reset

Spec == Init /\ [][Next]_watchdog
-----------------------------------------------------------------------------
(* Properties. *)

TypeOK ==
  watchdog \in [enable : BOOLEAN, ticking : BOOLEAN, run : BOOLEAN, alarm : BOOLEAN, count : 0 .. CountValues - 1,
                due : 0 .. CountValues \cup {Never}, reason : {"NONE", "FORCE", "TIMER"}]

\* The chip is reset when the countdown reaches zero and not before, for the
\* last value fed, whatever stops and starts of the tick and of the watchdog
\* came in between; disabled, or without a tick, it is never reset.
AlarmsComeOnTarget ==
  IF watchdog.enable /\ watchdog.ticking
  THEN watchdog.due # Never /\ (watchdog.count - watchdog.due) % CountValues = 0
  ELSE watchdog.due = Never
=============================================================================
