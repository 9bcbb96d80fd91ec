SPECIFICATION FairSpec
CONSTANTS
  a1 = a1
  a2 = a2
  a3 = a3
  Alarms = {a1, a2}
  Controls <- OwnControls
  Deltas <- LongDeltas
  Steps = {0, 1, 3}
  MaxTicks = 7
  RebaseAt = 4
  NoHorizon = 8
  LazyDelta = 3
  MaxDepth = 2
  MaxPending = 8
  MaxTime = 12
INVARIANTS
  HorizonIsExact
  FlushOnReadFiresNothing
PROPERTY NoStarvation
CHECK_DEADLOCK FALSE
