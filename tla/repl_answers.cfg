SPECIFICATION Spec
CONSTANTS
  Execs = {1, 2}
  Length = 1
  ConsoleSize = 2
  PacketSize = 2
  MaxReplies = 3
  Timeouts = {FALSE}
  Lags = {TRUE}
INVARIANTS AnswersAreOwn
CHECK_DEADLOCK FALSE
