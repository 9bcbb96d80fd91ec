SPECIFICATION Spec
CONSTANTS
  Kinds = {"pio"}
  Words = {1}
  FifoDepth = 3
  Masks <- MCMasks
  Enables <- MCEnables
  Prompts = {TRUE, FALSE}
  MaxOwed = 1
  None = None
  UartDepth = 3
  UartTriggers = {1, 2}
  UartControls <- MCUartControls
  UartMasks <- MCUartMasks
  UartDmacrs <- MCUartDmacrs
  AdcDepth = 3
  AdcThresholds = {0, 2}
  Alarms = {1, 2}
  Low = 2
  High = 2
  Periods = {1, 3}
  TimerEnables = {{1}}
  MaxElapsed = 2
  RetunesStopped = FALSE
  Wide = 5
  ResetTop = 0
  Tops = {1}
  Ccs = {1}
  Ctrs = {1}
  I2cDepth = 2
  Commands <- MCCommands
  Thresholds = {0, 1}
  I2cMasks = {{"TX_EMPTY"}}
  Loads = {1, 3}
  CountValues = 6
  Machines = {0, 1}
  PioDepth = 1
  Joins = {"none", "tx"}
  Programs <- MCPrograms
  Strobes <- MCStrobes
  PioDelays = {0}
  PioCycles = {1}
  MaxArrears = 0
  PioEnables <- MCPioEnables
  Irqs <- MCIrqs
  Tunable <- MCTunable
  Levels = {0, 3}
  SleepsInHandlers = FALSE
  TunesInHandlers = FALSE
  MaxNesting = 6
  Execs = {1, 2}
  Length = 2
  ConsoleSize = 2
  PacketSize = 2
  MaxReplies = 2
  Timeouts = {TRUE, FALSE}
  Lags = {TRUE, FALSE}
  Debuggers = {1, 2}
  Script <- MCScript
  Doubles = {TRUE, FALSE}
  Notices = {1, 2}
  Traffic <- MCTraffic
  Packets = 2
  BufferSize = 2
  Numbers = 5
  UsbEnables <- MCUsbEnables
  MaxSent = 3
  MaxAcked = 2
  Conns = {1, 2}
  Plans <- MCPlans
  Mss = 2
  Room = 2
  MaxComing = 2
  SeqNumbers = 8
  Isses = {4}
  Hasty = FALSE
  PacketWords <- MCPacketWords
  Credits = 8
  ReplyCounts = {1, 3}
  MaxSends = 2
  MaxFrames = 2
  PinCount = 2
  Outsides = {"button", "wire"}
  GpioCtrls <- MCGpioCtrls
  GpioPads <- MCGpioPads
  GpioWrites <- MCGpioWrites
  GpioWords <- MCGpioWords
  PinWaits <- MCPinWaits
  Width = 4
  Divisions <- MCDivisions
  Alpha = 2
  Accums <- MCAccums
  Bases <- MCBases
  Pairs = {9}
  Lanes0 <- MCLanes0
  Lanes1 <- MCLanes1
  SysticksOf = {0}
  Crystal = 2352
  Ring = 1274
  DefaultHz = 24500
  RingDivs = {16}
  Sources = {"xosc", "pll_sys"}
  Ratios <- MCRatios
  GeneratorDivs <- MCGeneratorDivs
  TickCycles = {0, 7}
  Measured = {"xosc"}
  MaxAway = 3
  Dates <- MCDates
  Times <- MCTimes
  Dividers = {0, 1}
  RtcPeriods = {0, 1}
  Matches0 <- MCMatches0
  Matches1 <- MCMatches1
  MaxSeconds = 2
INVARIANTS StallsEnd
CHECK_DEADLOCK FALSE
