SPECIFICATION FairSpec
CONSTANTS
  Callers = {t1, t2}
  Hasty = {}
  Requesters = {r1}
  MaxStarts = 1
  NoOne = NoOne
  t1 = t1
  t2 = t2
  r1 = r1
  r2 = r2
PROPERTIES EndedWaitsReturn CallsAreServed ShutdownIsHonoured
CHECK_DEADLOCK FALSE
