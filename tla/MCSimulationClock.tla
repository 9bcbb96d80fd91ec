-------------------------- MODULE MCSimulationClock --------------------------
(***************************************************************************)
(* Small instances of SimulationClock.  Times are scaled down: the origin  *)
(* moves every few ticks, so every run crosses it many times.              *)
(***************************************************************************)
EXTENDS SimulationClock, TLC

CONSTANTS a1, a2, a3

\* Any callback may touch any alarm.
AllControls == [a \in Alarms |-> Alarms]

\* A callback only re-arms its own alarm, as a DMA channel's does.
OwnControls == [a \in Alarms |-> {a}]

\* Alarms differ in their names only.
Symmetry == Permutations(Alarms)

ShortDeltas == {-1, 0, 2}
LongDeltas == {0, 2, 7}

=============================================================================
