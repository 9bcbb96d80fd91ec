------------------------------- MODULE MCParts -------------------------------
(* Instances of Parts for TLC. *)
EXTENDS Parts, TLC

MCMasks == {{}, {"TX"}, {"TX", "RX", "ROR"}}
MCEnables == SUBSET {16, 17}
MCUartControls ==
  {{"TXE", "RXE"}, {"UARTEN", "TXE", "RXE"}, {"UARTEN", "TXE", "RXE", "LBE"}, {"UARTEN", "RXE"}}
MCUartMasks == {{"TX"}, {"TX", "RX", "OE"}}
MCUartDmacrs == {{"TXDMAE", "RXDMAE"}, {"TXDMAE", "RXDMAE", "DMAONERR"}}
MCCommands ==
  {[read |-> FALSE, restart |-> FALSE, stop |-> FALSE],
   [read |-> TRUE, restart |-> FALSE, stop |-> TRUE],
   [read |-> TRUE, restart |-> TRUE, stop |-> FALSE]}
MCPrograms ==
  (0 :> {"pull", "push", "irq wait", "PIN high"}) @@
  (1 :> {"pull noblock", "push", "irq", "irq clear", "IRQ set"})
MCStrobes == {<<{}, {}>>, <<{0}, {}>>}
MCPioEnables == {{<<"TX", 0>>, <<"RX", 1>>, <<"IRQ", 0>>}}

\* 41 is a hardware interrupt (the RTC's, the last of them), 42 a software one, 14 is PendSV.
MCIrqs == {41, 42}
MCTunable == {41, 14}

MCTraffic == {{"in1"}, {"out1"}, {"lines"}}
MCUsbEnables == {{"SETUP_REQ", "BUS_RESET", "BUFF_STATUS", "DEV_CONN_DIS"}}

MCPlan(conns, host, guest, queries) == [conns |-> conns, host |-> host, guest |-> guest, queries |-> queries]
MCPlans == {MCPlan(1, 3, 0, FALSE), MCPlan(1, 1, 2, FALSE), MCPlan(2, 0, 0, FALSE), MCPlan(1, 0, 0, TRUE)}

MCPacketWords == <<1, 2>>

MCCtrl(pin, func, outover, oeover) ==
  [pin |-> pin, func |-> func, outover |-> outover, oeover |-> oeover, inover |-> "normal", irqover |-> "normal"]
MCGpioCtrls ==
  {MCCtrl(0, "sio", "normal", "normal"), MCCtrl(0, "null", "invert", "high"), MCCtrl(1, "sio", "normal", "normal"),
   MCCtrl(1, "pio", "normal", "normal")}
MCPad(pin, ie, od, up, down) == [pin |-> pin, ie |-> ie, od |-> od, up |-> up, down |-> down]
MCGpioPads == {MCPad(0, FALSE, TRUE, FALSE, TRUE), MCPad(0, TRUE, FALSE, FALSE, TRUE)}
MCGpioWrites ==
  {[func |-> "sio", out |-> {0}, oe |-> {0}], [func |-> "sio", out |-> {}, oe |-> {0, 1}],
   [func |-> "sio", out |-> {0}, oe |-> {}], [func |-> "pio", out |-> {1}, oe |-> {1}]}
MCGpioWords == {[p \in {0, 1} |-> {}], (0 :> {"EDGE_HIGH"}) @@ (1 :> {"EDGE_LOW", "LEVEL_HIGH"})}
MCPinWaits == {[on |-> 1, level |-> TRUE]}

MCDates == {[year |-> 4, month |-> 2, day |-> 28], [year |-> 4095, month |-> 12, day |-> 31], [year |-> 7, month |-> 11, day |-> 30]}
MCTimes == {[dotw |-> 6, hour |-> 23, minute |-> 59, second |-> 59]}
MCMatches0 == {("day" :> 1)}
MCMatches1 == {("second" :> 0)}

MCDivision(signed, dividend, divisor) == [signed |-> signed, dividend |-> dividend, divisor |-> divisor]
MCDivisions ==
  (0 :> << {MCDivision(TRUE, 9, 2)}, {MCDivision(TRUE, 8, 0)} >>) @@
  (1 :> << {MCDivision(FALSE, 9, 15)} >>)

MCLane(shift, lsb, msb, signed) ==
  [shift |-> shift, lsb |-> lsb, msb |-> msb, signed |-> signed, crossInput |-> FALSE, crossResult |-> FALSE,
   addRaw |-> FALSE, force |-> 0, blend |-> FALSE, clamp |-> FALSE]
MCAccums == {<<1, 11>>}
MCBases == {<<0, 10>>, <<2, 13>>}
MCRatios == { << 125, 49 >> }
MCGeneratorDivs == {"refDiv"} \X {2}
MCLanes0 ==
  {[MCLane(0, 0, 3, FALSE) EXCEPT !.blend = TRUE, !.clamp = TRUE],
   [MCLane(1, 1, 2, TRUE) EXCEPT !.clamp = TRUE, !.crossInput = TRUE, !.crossResult = TRUE, !.force = 2]}
MCLanes1 ==
  {MCLane(2, 0, 1, TRUE), [MCLane(0, 1, 3, FALSE) EXCEPT !.addRaw = TRUE, !.crossInput = TRUE, !.force = 1]}

MCScript == <<"step", "continue", "query">>
=============================================================================
