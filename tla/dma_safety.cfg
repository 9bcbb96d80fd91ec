SPECIFICATION Spec
CONSTANTS
  Channels = {0, 1}
  Requests = {0}
  Irqs = {0}
  MaxCount = 2
  Ctrls <- SomeCtrls
  Forces = {{}}
  Timers = {TRUE}
  Writers = {"ctrl"}
INVARIANTS RequestedIsArmed ArmedIsActive SequenceMovesItsCount LinesTellStatus
CHECK_DEADLOCK FALSE
