SPECIFICATION Spec
CONSTANTS
  a1 = a1
  a2 = a2
  a3 = a3
  Alarms = {a1, a2, a3}
  Controls <- AllControls
  Deltas <- ShortDeltas
  Steps = {1, 2}
  MaxTicks = 99
  RebaseAt = 3
  NoHorizon = 100
  LazyDelta = 2
  MaxDepth = 2
  MaxPending = 3
  MaxTime = 5
PROPERTIES
  RefinesEagerClock
  TimeNeverGoesBack
SYMMETRY Symmetry
CHECK_DEADLOCK FALSE
