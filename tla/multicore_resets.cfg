SPECIFICATION Spec
CONSTANTS
  Words = {0, 1}
  FifoDepth = 1
  Enables <- SomeEnables
  Resets = {"chip", "watchdog", "system"}
  MaxEchoes = 1
INVARIANTS LineTellsStatus NoPhantomInterrupt RomOwnsMailbox
PROPERTIES LaunchedByHandshake
CHECK_DEADLOCK FALSE
