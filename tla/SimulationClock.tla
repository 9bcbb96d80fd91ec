--------------------------- MODULE SimulationClock ---------------------------
(***************************************************************************)
(* The emulator's clock (src/rp2040py/clock/_simulation_clock.py): integer *)
(* time, one sorted list of alarms, and three mechanisms that make it fast *)
(* and unbounded without a program being able to tell:                     *)
(*                                                                         *)
(*   - time that a batch of instructions let pass is DEFERRED (`pending`)  *)
(*     and applied only when an alarm is due or somebody reads the time;   *)
(*   - alarms fire from a loop whose callbacks may link, cancel and even   *)
(*     tick the clock again (the loop is re-entrant: `frames`);            *)
(*   - the origin MOVES once the time reaches RebaseAt.                    *)
(*                                                                         *)
(* Every call of the clock's interface is one action, except that a tick   *)
(* which fires an alarm is split at each callback, where other calls run.  *)
(***************************************************************************)
EXTENDS Integers, Sequences, FiniteSets, SequencesExt

CONSTANTS
  Alarms,      \* the ClockAlarm objects
  Controls,    \* [Alarms -> SUBSET Alarms]: the alarms a callback may link or cancel
  Deltas,      \* the delays an alarm is scheduled with (may be zero or negative)
  Steps,       \* the durations that ticks and instructions last
  MaxTicks,    \* MAX_TICKS: times saturate here
  RebaseAt,    \* REBASE_AT: the time at which the origin moves
  NoHorizon,   \* NO_HORIZON: the horizon when no alarm is linked
  LazyDelta,   \* LAZY_DELTA: the first step too long to be deferred
  MaxDepth,    \* bound: how deep callbacks may tick the clock
  MaxPending,  \* bound: how much time a batch lets pass without a read
  MaxTime      \* bound: how long the clock runs

ASSUME ClockAssumption ==
  /\ Controls \in [Alarms -> SUBSET Alarms]
  /\ Deltas \subseteq Int
  /\ Steps \subseteq Nat
  /\ MaxTicks \in Nat
  /\ RebaseAt \in 1 .. MaxTicks
  /\ NoHorizon \in Nat \ {0}
  /\ LazyDelta \in Nat
  /\ MaxDepth \in Nat
  /\ MaxPending \in Nat
  /\ MaxTime \in Nat

VARIABLES
  list,     \* the linked alarms from `_next_alarm` on
  due,      \* `alarm.ticks` of every linked alarm (0 for one that is not linked)
  ticks,    \* `_ticks`
  pending,  \* `_pending`
  horizon,  \* `_horizon`
  frames,   \* the activations of `_tick_now` inside a callback, outermost first
  rebased   \* `_rebased_ticks`

vars == <<list, due, ticks, pending, horizon, frames, rebased>>

Frame == [target : 0 .. MaxTicks, alarm : Alarms]

AtRest == frames = <<>>
Linked == {list[i] : i \in DOMAIN list}

\* The time a program can observe: `nanos` at rest settles the deferred ticks first, and a
\* callback sees the due time of its alarm.
Now == ticks + pending + rebased

----------------------------------------------------------------------------
(* The arithmetic *)

AddTicks(a, b) == IF b > 0 /\ a > MaxTicks - b THEN MaxTicks ELSE a + b

Later(a, b) == IF a >= b THEN a ELSE b

\* `rebase(delta)` on the linked alarms: a "never" alarm stays at the end.
Shifted(dues, in, delta) ==
  [a \in Alarms |-> IF a \in in /\ dues[a] < MaxTicks THEN dues[a] - delta ELSE dues[a]]

\* How far the origin moves when an outermost tick stops at time t.
MoveAt(t, depth) == IF depth = 0 /\ t >= RebaseAt THEN t ELSE 0

\* (slip: `<` for `<=` in the walk, a new alarm cuts in front of those of its instant)
Slot_CutsIn(s, dues, when) ==
  LET after == {i \in DOMAIN s : dues[s[i]] >= when}
  IN  IF after = {} THEN Len(s) + 1 ELSE Min(after)

\* The walk of `link_alarm_ticks`: before the first alarm that is due later, so that alarms
\* of one instant keep their order.
Slot(s, dues, when) ==
  LET after == {i \in DOMAIN s : dues[s[i]] > when}
  IN  IF after = {} THEN Len(s) + 1 ELSE Min(after)

Insert(s, dues, a) == InsertAt(s, Slot(s, dues, dues[a]), a)

\* `unlink_alarm`
Without(s, a) ==
  IF \E i \in DOMAIN s : s[i] = a
  THEN RemoveAt(s, CHOOSE i \in DOMAIN s : s[i] = a)
  ELSE s

\* `_refresh_horizon`
Horizon(s, dues, now) == IF s = <<>> THEN NoHorizon ELSE dues[Head(s)] - now

\* What `_flush` leaves when it fires nothing: every read of the time begins with it.
\* (FlushOnReadFiresNothing says that it never does fire anything.)
Settled ==
  LET sum  == AddTicks(ticks, pending)
      move == IF pending = 0 THEN 0 ELSE MoveAt(sum, Len(frames))
  IN  [now |-> sum - move, due |-> Shifted(due, Linked, move), move |-> move]

----------------------------------------------------------------------------
(* The interface *)

\* A call made from outside any tick, or by the callback that is running.
MayCall(a) == ~ AtRest => a \in Controls[Last(frames).alarm]

\* (slip: the cached horizon is not refreshed by a link)
Schedule_StaleHorizon(a, delta) ==
  LET s    == Settled
      dues == [s.due EXCEPT ![a] = AddTicks(s.now, delta)]
  IN  /\ MayCall(a)
      /\ list' = Insert(Without(list, a), dues, a)
      /\ due' = dues
      /\ ticks' = s.now
      /\ pending' = 0
      /\ rebased' = rebased + s.move
      /\ UNCHANGED <<horizon, frames>>

\* (slip: a link measures its delay from the time last applied, deferred ticks ignored)
Schedule_Unsettled(a, delta) ==
  LET dues == [due EXCEPT ![a] = AddTicks(ticks, delta)]
  IN  /\ MayCall(a)
      /\ list' = Insert(Without(list, a), dues, a)
      /\ due' = dues
      /\ horizon' = Horizon(list', dues, ticks)
      /\ UNCHANGED <<ticks, pending, frames, rebased>>

\* `ClockAlarm.schedule`: cancelled if it is linked, then linked `delta` from now.
Schedule(a, delta) ==
  LET s    == Settled
      rest == Without(list, a)
      dues == [s.due EXCEPT ![a] = AddTicks(s.now, delta)]
  IN  /\ MayCall(a)
      /\ list' = Insert(rest, dues, a)
      /\ due' = dues
      /\ ticks' = s.now
      /\ pending' = 0
      /\ horizon' = Horizon(list', dues, s.now)
      /\ rebased' = rebased + s.move
      /\ UNCHANGED frames

\* `ClockAlarm.cancel` of a linked alarm: the deferred time stays deferred.
Cancel(a) ==
  /\ MayCall(a)
  /\ a \in Linked
  /\ list' = Without(list, a)
  /\ due' = [due EXCEPT ![a] = 0]
  /\ horizon' = Horizon(list', due, ticks)
  /\ UNCHANGED <<ticks, pending, frames, rebased>>

\* (slip: a callback that ticked past its successor turns the time back)
Fire_NoMax(dues, now, target, outer) ==
  LET a == Head(list)
  IN  /\ list' = Tail(list)
      /\ due' = [dues EXCEPT ![a] = 0]
      /\ ticks' = dues[a]
      /\ frames' = Append(outer, [target |-> target, alarm |-> a])
      /\ UNCHANGED horizon

\* One turn of the loop in `_tick_now` that pops the head and enters its callback; `outer`
\* holds the activations around this one.
Fire(dues, now, target, outer) ==
  LET a == Head(list)
  IN  /\ list' = Tail(list)
      /\ due' = [dues EXCEPT ![a] = 0]
      /\ ticks' = Later(now, dues[a])
      /\ frames' = Append(outer, [target |-> target, alarm |-> a])
      /\ UNCHANGED horizon

\* The end of `_tick_now`: the time goes to the target unless a callback passed it, the
\* origin moves if this was the outermost tick, the horizon is refreshed.
Finish(dues, now, target, outer) ==
  LET t    == Later(now, target)
      move == MoveAt(t, Len(outer))
  IN  /\ list' = list
      /\ due' = Shifted(dues, Linked, move)
      /\ ticks' = t - move
      /\ frames' = outer
      /\ horizon' = Horizon(list, due', t - move)

\* `_tick_now(delta)` entered at time `now` with the origin already moved by `moved`.
Run(dues, now, moved, delta) ==
  LET target == AddTicks(now, delta)
  IN  /\ pending' = 0
      /\ IF list # <<>> /\ dues[Head(list)] <= target
         THEN /\ Fire(dues, now, target, frames)
              /\ rebased' = rebased + moved
         ELSE /\ Finish(dues, now, target, frames)
              /\ rebased' = rebased + moved + MoveAt(target, Len(frames))

\* `tick_ticks`, from the run loop or from inside a callback.
TickTicks(delta) ==
  /\ Len(frames) < MaxDepth
  /\ LET s == Settled IN Run(s.due, s.now, s.move, delta)

\* `defer_ticks`: how the run loop lets the time of an instruction pass.
DeferTicks(delta) ==
  /\ AtRest
  /\ pending + delta <= MaxPending
  /\ IF delta >= LazyDelta
     THEN TickTicks(delta)
     ELSE IF pending + delta < horizon
     THEN /\ pending' = pending + delta
          /\ UNCHANGED <<list, due, ticks, horizon, frames, rebased>>
     ELSE Run(due, ticks, 0, pending + delta)

\* Any read of the time (`ticks`, `nanos`, `ticks_to_next_alarm`) flushes.
Read ==
  /\ pending # 0
  /\ Run(due, ticks, 0, pending)

\* The running callback returns to the loop in `_tick_now`.
Resume ==
  /\ ~ AtRest
  /\ LET target == Last(frames).target
         outer  == Front(frames)
     IN  /\ UNCHANGED pending
         /\ IF list # <<>> /\ due[Head(list)] <= target
            THEN /\ Fire(due, ticks, target, outer)
                 /\ UNCHANGED rebased
            ELSE /\ Finish(due, ticks, target, outer)
                 /\ rebased' = rebased + MoveAt(Later(ticks, target), Len(outer))

----------------------------------------------------------------------------

Init ==
  /\ list = <<>>
  /\ due = [a \in Alarms |-> 0]
  /\ ticks = 0
  /\ pending = 0
  /\ horizon = NoHorizon
  /\ frames = <<>>
  /\ rebased = 0

Bounded == ticks + rebased <= MaxTime

Next ==
  \/ \E a \in Alarms, delta \in Deltas : Bounded /\ Schedule(a, delta)
  \/ \E a \in Alarms : Bounded /\ Cancel(a)
  \/ \E delta \in Steps : Bounded /\ TickTicks(delta)
  \/ \E delta \in Steps : Bounded /\ DeferTicks(delta)
  \/ Bounded /\ Read
  \/ Resume

\* The loop in `_tick_now` is a while loop: once a callback has returned it goes on.
Spec == Init /\ [][Next]_vars
FairSpec == Spec /\ WF_vars(Resume)

----------------------------------------------------------------------------
(* Properties *)

\* Every variable has its type, and no time passes MaxTicks: `_add_ticks` clamps each sum
\* that a link or a tick makes.
TypeOK ==
  /\ list \in Seq(Alarms)
  /\ due \in [Alarms -> {t \in Int : t <= MaxTicks}]
  /\ ticks \in 0 .. MaxTicks
  /\ pending \in Nat
  /\ horizon \in Int
  /\ frames \in Seq(Frame)
  /\ rebased \in Nat

\* The walk that keeps the alarm list sorted stops at the first alarm due later, and the
\* loop that fires looks at the head alone: both are right only while no alarm is linked
\* twice and the list is sorted by due time - also after the origin has moved under it, with
\* "never" alarms left where they are, and while a callback edits it.
ListIsSorted ==
  \A i, j \in DOMAIN list : i < j =>
    /\ list[i] # list[j]
    /\ due[list[i]] <= due[list[j]]

\* `_horizon` is a cached copy of the distance to the head of the list.  Links and cancels
\* between two instructions must leave it exact, or a batch runs past an alarm.
HorizonIsExact == AtRest => horizon = Horizon(list, due, ticks)

\* Deferred time never passes an alarm, so the flush a read begins with runs no callback:
\* a register read in the middle of an instruction cannot raise an interrupt.
FlushOnReadFiresNothing ==
  pending # 0 => AtRest /\ \A a \in Linked : due[a] > ticks + pending

\* The origin moves only once the outermost tick is over, and nothing is left above it.
OriginMovesInTime == AtRest => ticks < RebaseAt

\* Observable time never goes back, whatever is deferred, flushed or rebased in between and
\* however callbacks tick the clock; an alarm that fires late would turn it back.
TimeNeverGoesBack == [][Now' >= Now]_vars

\* Inside a tick an alarm that is due at the present instant is reached even if a callback
\* re-arms its own alarm with no delay for ever (the starvation of docs/tasks/main-spi-hang.md:
\* one DMA channel that cuts in front of the other).
IsDue(a) == ~ AtRest /\ a \in Linked /\ due[a] <= ticks
NoStarvation == \A a \in Alarms : IsDue(a) ~> ~ IsDue(a)

\* Equivalent to applying every instruction's time at once, on a clock without an origin.
Eager == INSTANCE EagerClock WITH
  now   <- Now,
  when  <- [a \in Linked |-> due[a] + rebased],
  order <- {p \in Linked \X Linked : \E i, j \in DOMAIN list : i < j /\ p = <<list[i], list[j]>>},
  calls <- [i \in DOMAIN frames |-> [frames[i] EXCEPT !.target = @ + rebased]]

RefinesEagerClock == Eager!Spec

=============================================================================
