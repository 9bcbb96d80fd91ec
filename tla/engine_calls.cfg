SPECIFICATION Spec
CONSTANTS
  Callers = {t1, t2}
  Hasty = {t2}
  Requesters = {}
  MaxStarts = 2
  NoOne = NoOne
  t1 = t1
  t2 = t2
  r1 = r1
  r2 = r2
INVARIANTS ExecutingMeansAlive CrashIsNeverCalledAStop
CHECK_DEADLOCK FALSE
