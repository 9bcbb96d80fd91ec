----------------------------- MODULE Peripherals -----------------------------
(***************************************************************************)
(* The register blocks that are the chip's own: those with FIFOs, whose    *)
(* DMA requests the controller is told of, and those with counters, whose  *)
(* alarms are with the clock.                                              *)
(***************************************************************************)
EXTENDS Integers

CONSTANTS
  Words, FifoDepth, Masks, Enables, Prompts, MaxOwed, None,               \* Spi
  UartDepth, UartTriggers, UartControls, UartMasks, UartDmacrs,           \* Uart
  AdcDepth, AdcThresholds,                                                \* Adc
  Alarms, Low, High, Periods, TimerEnables, MaxElapsed, RetunesStopped,   \* Timer
  Wide, ResetTop, Tops, Ccs, Ctrs,                                        \* Pwm
  I2cDepth, Commands, Thresholds, I2cMasks,                               \* I2c
  Loads, CountValues,                                                     \* Watchdog
  Machines, PioDepth, Joins, Programs, Strobes, PioDelays, PioCycles, MaxArrears, PioEnables,  \* Pio
  Dates, Times, Dividers, RtcPeriods, Matches0, Matches1, MaxSeconds          \* Rtc

VARIABLES
  part,   \* which of them it is
  state   \* its state

S == INSTANCE Spi WITH spi <- state
U == INSTANCE Uart WITH uart <- state
A == INSTANCE Adc WITH adc <- state
T == INSTANCE Timer WITH timer <- state
P == INSTANCE Pwm WITH pwm <- state
I == INSTANCE I2c WITH i2c <- state
W == INSTANCE Watchdog WITH watchdog <- state
O == INSTANCE Pio WITH pio <- state
C == INSTANCE Rtc WITH rtc <- state

ASSUME PeripheralsAssumption ==
  /\ S!SpiAssumption /\ U!UartAssumption /\ A!AdcAssumption /\ T!TimerAssumption /\ P!PwmAssumption
  /\ I!I2cAssumption /\ W!WatchdogAssumption /\ O!PioAssumption /\ C!RtcAssumption
-----------------------------------------------------------------------------
PeripheralsInit ==
  \/ part = "spi" /\ S!Init
  \/ part = "uart" /\ U!Init
  \/ part = "adc" /\ A!Init
  \/ part = "timer" /\ T!Init
  \/ part = "pwm" /\ P!Init
  \/ part = "i2c" /\ I!Init
  \/ part = "watchdog" /\ W!Init
  \/ part = "pio" /\ O!Init
  \/ part = "rtc" /\ C!Init

PeripheralsNext ==
  \/ part = "spi" /\ S!Next
  \/ part = "uart" /\ U!Next
  \/ part = "adc" /\ A!Next
  \/ part = "timer" /\ T!Next
  \/ part = "pwm" /\ P!Next
  \/ part = "i2c" /\ I!Next
  \/ part = "watchdog" /\ W!Next
  \/ part = "pio" /\ O!Next
  \/ part = "rtc" /\ C!Next
-----------------------------------------------------------------------------
\* The DMA controller has last been told the request that the FIFOs, enables
\* and errors of the SPI, the UART, the ADC and a PIO block make now.
RequestsTellFifos ==
  CASE part = "spi" -> S!RequestsTellFifos [] part = "uart" -> U!RequestsTellFifos
    [] part = "adc" -> A!RequestsTellFifos [] part = "pio" -> O!RequestsTellFifos [] OTHER -> TRUE

\* The alarms of the timer, of the PWM slices and of the watchdog are with the
\* clock for the tick at which their count comes, and for no other, and so is the
\* end of the RTC's second; a PIO block
\* looks at its machines no later than one of them is due.
AlarmsComeOnTarget ==
  CASE part = "timer" -> T!AlarmsComeOnTarget [] part = "pwm" -> P!AlarmsComeOnTarget
    [] part = "watchdog" -> W!AlarmsComeOnTarget [] part = "pio" -> O!AlarmsComeOnTarget
    [] part = "rtc" -> C!AlarmsComeOnTarget [] OTHER -> TRUE

\* The timer's count and the RTC's calendar go from each value to the next.
CountSteps == (part = "timer" => T!CountSteps) /\ (part = "rtc" => C!CountSteps)
=============================================================================
