SPECIFICATION FirmwareSpec
CONSTANTS
  Words = {0, 1, 2, 3, 4}
  FifoDepth = 2
  Enables = {}
  Resets = {}
  MaxEchoes = 5
  Messages <- ThreeMessages
  Returns = FALSE
  Abandons = TRUE
INVARIANTS PendingTracksLine AnswersInOrder NoLostWakeup
PROPERTIES LaunchCompletes ExchangeCompletes
