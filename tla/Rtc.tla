--------------------------------- MODULE Rtc ---------------------------------
(***************************************************************************)
(* The real-time clock (peripherals/_rtc.py): a calendar that an alarm of  *)
(* the simulation clock advances by a second, every (CLKDIV_M1 + 1)        *)
(* periods of clk_rtc while it is enabled and that clock runs; loaded from *)
(* two registers at once; and an interrupt while the fields that are asked *)
(* for match.  Ticks are those of the simulation clock; reads of the       *)
(* calendar are left out.                                                  *)
(***************************************************************************)
EXTENDS Integers

CONSTANTS
  Dates,        \* what is written to SETUP_0: [year, month, day]
  Times,        \* what is written to SETUP_1: [dotw, hour, minute, second]
  Dividers,     \* what is written to CLKDIV_M1
  RtcPeriods,   \* the periods of clk_rtc, in ticks; 0: it is stopped
  Matches0,     \* the values that IRQ_SETUP_0 asks of the fields of a date
  Matches1,     \* and IRQ_SETUP_1 of those of a time
  MaxSeconds    \* bound: seconds since the calendar was last set

MaxYear == 4095
DateType == [year : 0 .. MaxYear, month : 0 .. 15, day : 0 .. 31]
TimeType == [dotw : 0 .. 7, hour : 0 .. 31, minute : 0 .. 63, second : 0 .. 63]

RtcAssumption ==
  /\ Dates \subseteq DateType /\ Times \subseteq TimeType
  /\ Dividers \subseteq Nat /\ RtcPeriods \subseteq Nat /\ MaxSeconds \in Nat \ {0}
  /\ \A m \in Matches0 : DOMAIN m \subseteq {"year", "month", "day"}
  /\ \A m \in Matches1 : DOMAIN m \subseteq {"dotw", "hour", "minute", "second"}

VARIABLE rtc
-----------------------------------------------------------------------------
(* Methods, as functions of the state r of the block. *)

LeapYear(r) == r.date.year % 4 = 0 /\ ~ r.force_not_leap_year

DaysInMonth(month, leap) ==
  CASE month \in {4, 6, 9, 11} -> 30 [] month = 2 -> IF leap THEN 29 ELSE 28 [] OTHER -> 31

RawInterrupt(r) ==
  /\ r.match_ena
  /\ \A f \in DOMAIN r.irq_setup0 : r.date[f] = r.irq_setup0[f]
  /\ \A f \in DOMAIN r.irq_setup1 : r.time[f] = r.irq_setup1[f]

CheckInterrupts(r) == [r EXCEPT !.line = (RawInterrupt(r) /\ r.inte) \/ r.intf]

Running(r) == r.enable /\ r.period > 0
SecondTicks(r) == (r.clkdiv_m1 + 1) * r.period

\* _retime(): a second begins, unless one is under way that may go on.
Retime(r, restart) ==
  CASE ~ Running(r) -> [r EXCEPT !.left = -1, !.age = 0]
    [] Running(r) /\ (restart \/ r.left = -1) -> [r EXCEPT !.left = SecondTicks(r), !.age = 0]
    [] OTHER -> r

NextDate(d, leap) ==
  CASE d.day < DaysInMonth(d.month, leap) -> [d EXCEPT !.day = @ + 1]
    [] d.day >= DaysInMonth(d.month, leap) /\ d.month < 12 -> [d EXCEPT !.day = 1, !.month = @ + 1]
    [] OTHER -> [year |-> (d.year + 1) % (MaxYear + 1), month |-> 1, day |-> 1]

AdvanceSecond(r) ==
  LET t == r.time
      midnight == [dotw |-> IF t.dotw >= 6 THEN 0 ELSE t.dotw + 1, hour |-> 0, minute |-> 0, second |-> 0]
  IN  CASE t.second < 59 -> [r EXCEPT !.time = [t EXCEPT !.second = @ + 1]]
        [] t.second >= 59 /\ t.minute < 59 -> [r EXCEPT !.time = [t EXCEPT !.second = 0, !.minute = @ + 1]]
        [] t.second >= 59 /\ t.minute >= 59 /\ t.hour < 23 ->
             [r EXCEPT !.time = [t EXCEPT !.second = 0, !.minute = 0, !.hour = @ + 1]]
        [] OTHER -> [r EXCEPT !.time = midnight, !.date = NextDate(r.date, LeapYear(r))]

Load(r) == [r EXCEPT !.date = r.setup0, !.time = r.setup1]

CtrlWritten(r, enable, force, load) ==
  LET e == [r EXCEPT !.enable = enable, !.force_not_leap_year = force]
  IN  IF load THEN CheckInterrupts(Retime(Load(e), TRUE)) ELSE Retime(e, FALSE)

NoDate == [year |-> 0, month |-> 0, day |-> 0]
NoTime == [dotw |-> 0, hour |-> 0, minute |-> 0, second |-> 0]
NoMatch == [f \in {} |-> 0]

\* reset(): clk_rtc is the chip's and stays.
ResetFields(r) ==
  LET stopped == [r EXCEPT !.clkdiv_m1 = 0, !.setup0 = NoDate, !.setup1 = NoTime, !.date = NoDate, !.time = NoTime,
                           !.force_not_leap_year = FALSE, !.enable = FALSE]
  IN  [stopped EXCEPT !.match_ena = FALSE, !.irq_setup0 = NoMatch, !.irq_setup1 = NoMatch, !.inte = FALSE, !.intf = FALSE]
-----------------------------------------------------------------------------
Init ==
  rtc = [clkdiv_m1 |-> 0, setup0 |-> NoDate, setup1 |-> NoTime, date |-> NoDate, time |-> NoTime,
         match_ena |-> FALSE, irq_setup0 |-> NoMatch, irq_setup1 |-> NoMatch, inte |-> FALSE, intf |-> FALSE,
         force_not_leap_year |-> FALSE, enable |-> FALSE, period |-> 0, line |-> FALSE,
         left |-> -1,               \* ticks until the alarm, -1: it is not set
         age |-> 0,                 \* history: ticks since this second began
         passed |-> 0,              \* seconds since the calendar was set
         set |-> FALSE]             \* history: the last step set the calendar

\* A step that leaves the calendar to its alarm.
Other(r) == [r EXCEPT !.set = FALSE]

Tick == rtc.left > 0 /\ rtc' = [Other(rtc) EXCEPT !.left = @ - 1, !.age = @ + 1]

OnSecond ==
  /\ rtc.left = 0 /\ rtc.passed < MaxSeconds
  /\ rtc' = CheckInterrupts(Retime([AdvanceSecond(Other(rtc)) EXCEPT !.left = -1, !.passed = @ + 1], TRUE))

ClkRtcChanged ==
  \E p \in RtcPeriods : p # rtc.period /\ rtc' = Retime([Other(rtc) EXCEPT !.period = p], TRUE)

WriteDivider == \E d \in Dividers : rtc' = Retime([Other(rtc) EXCEPT !.clkdiv_m1 = d], TRUE)
WriteSetup0 == \E d \in Dates : rtc' = [Other(rtc) EXCEPT !.setup0 = d]
WriteSetup1 == \E t \in Times : rtc' = [Other(rtc) EXCEPT !.setup1 = t]

WriteCtrl ==
  \E enable, force, load \in BOOLEAN :
    rtc' = [CtrlWritten(rtc, enable, force, load) EXCEPT !.set = load, !.passed = IF load THEN 0 ELSE @]

WriteIrqSetup0 ==
  \E ena \in BOOLEAN, m \in Matches0 :
    rtc' = CheckInterrupts([Other(rtc) EXCEPT !.match_ena = ena, !.irq_setup0 = m])
WriteIrqSetup1 == \E m \in Matches1 : rtc' = CheckInterrupts([Other(rtc) EXCEPT !.irq_setup1 = m])
WriteInte == \E on \in BOOLEAN : rtc' = CheckInterrupts([Other(rtc) EXCEPT !.inte = on])
WriteIntf == \E on \in BOOLEAN : rtc' = CheckInterrupts([Other(rtc) EXCEPT !.intf = on])

Reset ==
  rtc' = [CheckInterrupts(Retime(ResetFields(rtc), TRUE)) EXCEPT !.set = TRUE, !.passed = 0]

Next ==
  \/ Tick \/ OnSecond \/ ClkRtcChanged \/ WriteDivider \/ WriteSetup0 \/ WriteSetup1 \/ WriteCtrl
  \/ WriteIrqSetup0 \/ WriteIrqSetup1 \/ WriteInte \/ WriteIntf \/ Reset
-----------------------------------------------------------------------------
(* Properties *)

\* The calendar's fields fit their registers.
TypeOK ==
  /\ {rtc.date, rtc.setup0} \subseteq DateType /\ {rtc.time, rtc.setup1} \subseteq TimeType
  /\ rtc.left \in Nat \cup {-1} /\ rtc.passed \in 0 .. MaxSeconds
  /\ {rtc.enable, rtc.force_not_leap_year, rtc.match_ena, rtc.inte, rtc.intf, rtc.line} \subseteq BOOLEAN

\* The line is what the calendar and the fields asked for make it, second by second.
LineTellsStatus == rtc.line = ((RawInterrupt(rtc) /\ rtc.inte) \/ rtc.intf)

\* A second is under way exactly while the counter is enabled and clocked, and it ends
\* when the divider and the clock that are set now say, counted from its beginning; a
\* second that is loaded is a whole one.
AlarmsComeOnTarget ==
  /\ rtc.set => rtc.age = 0
  /\ (rtc.left # -1) <=> Running(rtc)
  /\ Running(rtc) => rtc.left + rtc.age = SecondTicks(rtc)

\* The day's number in a calendar of 4096 years, of which every fourth is a leap year.
DaysBefore == << 0, 31, 59, 90, 120, 151, 181, 212, 243, 273, 304, 334, 365 >>
DayNumber(d, leaps) ==
  365 * d.year + DaysBefore[d.month] + d.day - 1
    + (IF leaps THEN (d.year + (IF d.month > 2 THEN 4 ELSE 3)) \div 4 ELSE 0)

Days(leaps) == (MaxYear + 1) * 365 + (IF leaps THEN (MaxYear + 1) \div 4 ELSE 0)
SecondOfDay(t) == (t.hour * 60 + t.minute) * 60 + t.second
LeapDay(r) == IF r.date.month = 2 /\ LeapYear(r) THEN 1 ELSE 0
Valid(r) ==
  /\ r.date.month \in 1 .. 12 /\ r.time.dotw < 7 /\ r.time.hour < 24 /\ r.time.minute < 60 /\ r.time.second < 60
  /\ r.date.day \in 1 .. DaysBefore[r.date.month + 1] - DaysBefore[r.date.month] + LeapDay(r)

\* The calendar moves by one second at a time, over the ends of months, leap days, years
\* and the week, and no access but a load or a reset moves it otherwise.
CountSteps ==
  << rtc'.date, rtc'.time >> # << rtc.date, rtc.time >> /\ ~ rtc'.set /\ Valid(rtc) =>
    LET leaps == ~ rtc.force_not_leap_year
        day == DayNumber(rtc'.date, leaps) - DayNumber(rtc.date, leaps)
    IN  /\ Valid(rtc')
        /\ \/ day = 0 /\ SecondOfDay(rtc'.time) = SecondOfDay(rtc.time) + 1 /\ rtc'.time.dotw = rtc.time.dotw
           \/ /\ day % Days(leaps) = 1 /\ SecondOfDay(rtc'.time) = 0 /\ SecondOfDay(rtc.time) = 24 * 60 * 60 - 1
              /\ rtc'.time.dotw = (rtc.time.dotw + 1) % 7
=============================================================================
