------------------------------ MODULE EagerClock ------------------------------
(***************************************************************************)
(* What the clock promises a program: time that runs on for ever, applied  *)
(* after every instruction, and alarms that fire when they are due, those  *)
(* of one instant in the order in which they were armed.  No time is       *)
(* deferred, nothing is cached, the origin never moves and there is no     *)
(* list: only, for every linked alarm, when it is due (`when`) and which   *)
(* alarms it comes before (`order`).                                       *)
(***************************************************************************)
EXTENDS Integers, Sequences, SequencesExt

CONSTANTS
  Alarms,      \* the alarms
  Controls,    \* the alarms a callback may link or cancel
  Deltas,      \* the delays alarms are scheduled with
  Steps        \* the durations that pass

VARIABLES
  now,         \* the time since the clock was created
  when,        \* linked alarms -> the time each is due
  order,       \* pairs <<a, b>> of linked alarms: a is to fire before b
  calls        \* the ticks that are inside a callback: target and alarm of each

vars == <<now, when, order, calls>>

Latest(a, b) == IF a >= b THEN a ELSE b

MayCall(a) == calls # <<>> => a \in Controls[Last(calls).alarm]

Others(a) == DOMAIN when \ {a}
Among(S) == order \cap (S \X S)

Due(target) == {a \in DOMAIN when : when[a] <= target}
First(a) == \A b \in Others(a) : <<a, b>> \in order

Init ==
  /\ now = 0
  /\ when = [a \in {} |-> 0]
  /\ order = {}
  /\ calls = <<>>

\* An alarm armed for an instant comes after those already armed for it.
Schedule(a, delta) ==
  LET t == now + delta
  IN  /\ MayCall(a)
      /\ when' = [b \in Others(a) \cup {a} |-> IF b = a THEN t ELSE when[b]]
      /\ order' = Among(Others(a))
                    \cup {<<b, a>> : b \in {c \in Others(a) : when[c] <= t}}
                    \cup {<<a, b>> : b \in {c \in Others(a) : when[c] > t}}
      /\ UNCHANGED <<now, calls>>

Cancel(a) ==
  /\ MayCall(a)
  /\ a \in DOMAIN when
  /\ when' = [b \in Others(a) |-> when[b]]
  /\ order' = Among(Others(a))
  /\ UNCHANGED <<now, calls>>

\* The first alarm fires, at the time it is due and never before the present.
Fire(target, outer) ==
  \E a \in Due(target) :
    /\ First(a)
    /\ now' = Latest(now, when[a])
    /\ when' = [b \in Others(a) |-> when[b]]
    /\ order' = Among(Others(a))
    /\ calls' = Append(outer, [target |-> target, alarm |-> a])

\* Nothing is due by the target: it is reached.
Reach(target, outer) ==
  /\ Due(target) = {}
  /\ now' = Latest(now, target)
  /\ calls' = outer
  /\ UNCHANGED <<when, order>>

Pass(delta) == Fire(now + delta, calls) \/ Reach(now + delta, calls)

Resume ==
  /\ calls # <<>>
  /\ LET target == Last(calls).target
     IN  Fire(target, Front(calls)) \/ Reach(target, Front(calls))

Next ==
  \/ \E a \in Alarms, delta \in Deltas : Schedule(a, delta)
  \/ \E a \in Alarms : Cancel(a)
  \/ \E delta \in Steps : Pass(delta)
  \/ Resume

Spec == Init /\ [][Next]_vars

=============================================================================
