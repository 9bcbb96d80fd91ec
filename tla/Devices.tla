------------------------------- MODULE Devices -------------------------------
(***************************************************************************)
(* Beside the chip's own register blocks, the parts that what is outside   *)
(* of it drives: USB with its host, the pins, and the wireless chip on     *)
(* them.                                                                   *)
(***************************************************************************)
EXTENDS Peripherals

CONSTANTS
  PacketWords, Credits, ReplyCounts, MaxSends, MaxFrames,                     \* Gspi
  PinCount, Outsides, GpioCtrls, GpioPads, GpioWrites, GpioWords, PinWaits,   \* Gpio
  Doubles, Notices, Traffic, Packets, BufferSize, Numbers, UsbEnables, MaxSent, MaxAcked  \* Usb

D == INSTANCE Usb WITH usb <- state
B == INSTANCE Gspi WITH bus <- state
L == INSTANCE Gpio WITH io <- state

ASSUME DevicesAssumption == D!UsbAssumption /\ B!GspiAssumption /\ L!GpioAssumption
=============================================================================
