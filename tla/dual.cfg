SPECIFICATION Spec
CONSTANTS
  Quanta = {1, 4}
  Costs = {1, 2}
  Delays = {0, 2, 5}
  Accesses = 2
  Rounds = 2
  PacedIdle = 1
INVARIANTS CoresStayTogether
PROPERTIES AccessesAreOrdered AlarmsAreKept EveryCoreRuns
