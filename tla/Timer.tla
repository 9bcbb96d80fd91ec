-------------------------------- MODULE Timer --------------------------------
(***************************************************************************)
(* The system timer (peripherals/_timer.py): a wide count that advances    *)
(* once per tick of the watchdog's tick generator, and alarms that match   *)
(* its low word.  Nothing counts: the count is what it was at an epoch     *)
(* plus the periods since, and each armed alarm is an alarm of the clock   *)
(* at the moment the low word will reach its target, so whatever moves the *)
(* count or its rate must time them again.                                 *)
(*                                                                         *)
(* The RPTimer object is one record, each method a function of it.  Time   *)
(* is in ticks of the clock and a period is a whole number of them.        *)
(***************************************************************************)
EXTENDS Integers

CONSTANTS
  Alarms,          \* the alarms (4)
  Low,             \* the values of the low word, which the alarms match (2^32)
  High,            \* the values of the high word (2^32)
  Periods,         \* the ticks of the clock per count that TICK.CYCLES selects
  TimerEnables,    \* the INTE and INTF values that are written
  MaxElapsed,      \* the clock's origin moves at the latest after this many ticks
  RetunesStopped   \* FALSE: a stopped count is resumed only at a rate its ticks fit

TimerAssumption ==
  /\ Low \in Nat \ {0} /\ High \in Nat \ {0} /\ MaxElapsed \in Nat
  /\ Periods \subseteq Nat \ {0}
  /\ TimerEnables \subseteq SUBSET Alarms
  /\ RetunesStopped \in BOOLEAN

VARIABLE timer

Never == -1
-----------------------------------------------------------------------------
(* Methods, as functions of the state t of the block. *)

Frozen(t) == t.paused \/ t.period = 0

Total(t) == t.sub + t.elapsed
Passed(t) == IF Frozen(t) THEN 0 ELSE Total(t) \div t.period
Count(t) == (t.count + Passed(t)) % (Low * High)
Sub(t) == IF Frozen(t) THEN t.sub ELSE Total(t) % t.period

\* The ticks to the start of the count whose low word is target: none, on that count.
TicksTo(t, target) ==
  LET counts == (target - t.count - Passed(t)) % Low
  IN  IF counts = 0 THEN 0 ELSE (Passed(t) + counts) * t.period - Total(t)

Armed(t, alarms) == [t EXCEPT !.due = [a \in Alarms |-> IF a \in alarms THEN TicksTo(t, t.target[a]) ELSE @[a]]]
RescheduleArmed(t) == Armed(t, t.armed)
Disarmed(t, a) == [t EXCEPT !.armed = @ \ {a}, !.due[a] = Never]

CheckInterrupts(t) == [t EXCEPT !.lines = (t.raw \cap t.inte) \cup t.intf]

AlarmWritten(t, a, target) ==
  LET u == [t EXCEPT !.armed = @ \cup {a}, !.target[a] = target]
  IN  IF Frozen(t) THEN u ELSE Armed(u, {a})


\* (slip: the ticks into the current count are not brought to the new period)
Applied_SubKept(t, paused, period) ==
  LET u == [t EXCEPT !.paused = paused, !.period = period, !.count = Count(t), !.sub = Sub(t), !.elapsed = 0]
  IN  IF Frozen(u) THEN [u EXCEPT !.due = [a \in Alarms |-> Never]] ELSE RescheduleArmed(u)

\* _apply(): only a count that runs on has its ticks brought to the new period.
Applied(t, paused, period) ==
  LET u == [t EXCEPT !.paused = paused, !.period = period, !.count = Count(t), !.elapsed = 0, !.sub = Sub(t)]
      runs_on == [u EXCEPT !.sub = (@ * period) \div t.period]
  IN  IF Frozen(u) THEN [u EXCEPT !.due = [a \in Alarms |-> Never]]
      ELSE RescheduleArmed(IF Frozen(t) THEN u ELSE runs_on)

\* (slip: the alarms are left where the old time put them)
TimeSet_AlarmsStay(t, count) == [t EXCEPT !.count = count, !.sub = 0, !.elapsed = 0]
TimeSet(t, count) ==
  LET u == [t EXCEPT !.count = count, !.sub = 0, !.elapsed = 0]
  IN  IF Frozen(t) THEN u ELSE RescheduleArmed(u)

\* _rebased(): the clock's origin moves, and the time since the epoch goes into the count.
Rebased(t) == [t EXCEPT !.count = Count(t), !.sub = Sub(t), !.elapsed = 0]

Fired(t, a) == CheckInterrupts([Disarmed(t, a) EXCEPT !.raw = @ \cup {a}])

\* reset(), when the tick has this period: the tick is not the block's and goes on.
PowerOn(period) ==
  [count |-> 0, sub |-> 0, elapsed |-> 0, period |-> period, paused |-> FALSE,
   armed |-> {}, target |-> [a \in Alarms |-> 0], due |-> [a \in Alarms |-> Never],
   raw |-> {}, inte |-> {}, intf |-> {}, lines |-> {}]
-----------------------------------------------------------------------------
Init == timer = PowerOn(0)

\* Time passes up to the next alarm; the elapsed ticks of a stopped count are not looked at.
Tick ==
  /\ \A a \in Alarms : timer.due[a] # 0
  /\ ~ Frozen(timer) /\ timer.elapsed < MaxElapsed
  /\ timer' = [timer EXCEPT !.elapsed = @ + 1,
                            !.due = [a \in Alarms |-> IF @[a] = Never THEN Never ELSE @[a] - 1]]
Fire == \E a \in Alarms : timer.due[a] = 0 /\ timer' = Fired(timer, a)
Rebase == timer' = Rebased(timer)

WriteAlarm == \E a \in Alarms, n \in 0 .. Low - 1 : timer' = AlarmWritten(timer, a, n)
WriteArmed == \E a \in Alarms : timer' = Disarmed(timer, a)
WritePause == timer' = Applied(timer, ~ timer.paused, timer.period)
TickChanged ==
  \E p \in Periods \cup {0} :
    /\ p # timer.period
    /\ Frozen(timer) /\ ~ RetunesStopped => p = 0 \/ timer.sub < p
    /\ timer' = Applied(timer, timer.paused, p)
\* TIMELW, then TIMEHW.
WriteTime == \E n \in 0 .. Low * High - 1 : timer' = TimeSet(timer, n)

WriteIntr == \E a \in Alarms : timer' = CheckInterrupts([timer EXCEPT !.raw = @ \ {a}])
WriteInte == \E s \in TimerEnables : timer' = CheckInterrupts([timer EXCEPT !.inte = s])
WriteIntf == \E s \in TimerEnables : timer' = CheckInterrupts([timer EXCEPT !.intf = s])
Reset == timer' = PowerOn(timer.period)

Next ==
  \/ Tick \/ Fire \/ Rebase \/ WriteAlarm \/ WriteArmed \/ WritePause \/ TickChanged
  \/ WriteTime \/ WriteIntr \/ WriteInte \/ WriteIntf \/ Reset

Spec == Init /\ [][Next]_timer
-----------------------------------------------------------------------------
(* Properties. *)

TypeOK ==
  timer \in [count : 0 .. Low * High - 1, sub : Nat, elapsed : 0 .. MaxElapsed, period : Periods \cup {0},
             paused : BOOLEAN, armed : SUBSET Alarms, target : [Alarms -> 0 .. Low - 1],
             due : [Alarms -> Nat \cup {Never}], raw : SUBSET Alarms,
             inte : TimerEnables \cup {{}}, intf : TimerEnables \cup {{}}, lines : SUBSET Alarms]

\* The low word d ticks from now, if nothing is written.
LowIn(t, d) == (t.count + (Total(t) + d) \div t.period) % Low

\* Whatever moved the count, its rate or the clock's origin since it was
\* written, an armed alarm of a running timer is with the clock for the first
\* tick at which the low word equals its target, and no other alarm is with
\* the clock at all (_arm_clock_alarm).
AlarmsComeOnTarget ==
  \A a \in Alarms :
    IF a \in timer.armed /\ ~ Frozen(timer)
    THEN /\ timer.due[a] # Never
         /\ LowIn(timer, timer.due[a]) = timer.target[a]
         /\ \A d \in 0 .. timer.due[a] - 1 : LowIn(timer, d) # timer.target[a]
    ELSE timer.due[a] = Never

\* The four lines say what the alarms, enables and forces say now.
LinesTellStatus == timer.lines = (timer.raw \cap timer.inte) \cup timer.intf

\* "The count continuous across it" (_apply): unless it is written or reset,
\* the count stays or goes to the next value, also when it is paused, resumed,
\* retuned or rebased.  A count that skips passes the targets in between
\* without their alarms.
CountSteps == Count(timer') \in {Count(timer), (Count(timer) + 1) % (Low * High)} \/ WriteTime \/ Reset
CountNeverJumps == [][CountSteps]_timer
=============================================================================
