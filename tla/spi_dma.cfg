SPECIFICATION SpiDmaSpec
CONSTANTS
  Channels = {0, 1}
  Requests = {0, 16, 17}
  Irqs = {0}
  MaxCount = 5
  Ctrls = {}
  Forces = {}
  Timers = {}
  Writers = {}
  Length = 5
  MaxPauses = 2
  FrameCycles = 3
  FifoDepth = 2
  Prompts = {TRUE, FALSE}
  None = None
INVARIANTS NoOverrun InterruptMeansDone
PROPERTIES ImplementsExchange
