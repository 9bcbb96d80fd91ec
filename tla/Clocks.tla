------------------------------- MODULE Clocks -------------------------------
(***************************************************************************)
(* The clock tree: the oscillators and PLLs (peripherals/_rosc.py,         *)
(* _xosc.py, _pll.py), the generators and the frequency counter            *)
(* (_clocks.py), and what keeps a rate of its own that follows them: the   *)
(* SysTick of each core, the PWM slices, whoever listens to clk_sys, the   *)
(* baud rate a UART announced, the watchdog's tick with the timer behind   *)
(* it, and the RTC.  Nobody asks the tree: every write and reset that      *)
(* changes a frequency has to tell them all.  A frequency is a whole       *)
(* number of some unit, 0 for a clock that does not run.                   *)
(***************************************************************************)
EXTENDS Naturals, FiniteSets

CONSTANTS
  Cores,            \* those whose SysTick is looked at
  Crystal,          \* what the crystal delivers
  Ring,             \* what the ring oscillator delivers at its reset divider
  DefaultHz,        \* clk_sys and clk_peri until the tree is configured (125 MHz)
  Sources,          \* the oscillators and PLLs that generators are pointed at
  RingDivs,         \* what is written to ROSC DIV
  Ratios,           \* feedback and post dividers that PLLs are given: << FBDIV, POSTDIV1 * POSTDIV2 >>
  GeneratorDivs,    \* what is written to the dividers of CLK_REF, CLK_SYS and CLK_RTC: << register, value >>
  TickCycles,       \* what is written to TICK.CYCLES
  Measured,         \* the clocks that the frequency counter is pointed at
  MaxAway           \* bound: registers that differ from their reset value at a time

AllSources == {"rosc", "xosc", "pll_sys", "pll_usb"}
Plls == Sources \ {"rosc", "xosc"}
RefSources == {"rosc"} \cup (Sources \ {"pll_sys"})
SysSources == {"ref"} \cup Sources
PeriSources == {"off", "sys"} \cup Sources
RtcSources == {"off"} \cup Sources
ResetDiv == 16
ResetRatio == << 0, 49 >>

ClocksAssumption ==
  /\ {Crystal, Ring, DefaultHz} \cup RingDivs \subseteq Nat \ {0}
  /\ GeneratorDivs \subseteq {"refDiv", "sysDiv", "rtcDiv"} \X (Nat \ {0})
  /\ Ratios \subseteq Nat \X (Nat \ {0}) /\ TickCycles \cup {MaxAway} \subseteq Nat
  /\ Sources \subseteq AllSources /\ Measured \subseteq {"sys", "peri", "ref"} \cup Sources

VARIABLE tree
-----------------------------------------------------------------------------
(* What the registers make of the oscillators. *)

XoscHz(c) == IF c.stable THEN Crystal ELSE 0

PllHz(c, p) ==
  CASE c.power[p] = "down" -> 0
    [] c.power[p] # "down" /\ c.bypass[p] -> XoscHz(c)
    [] c.power[p] = "up" /\ ~ c.bypass[p] -> (XoscHz(c) * c.ratio[p][1]) \div c.ratio[p][2]
    [] OTHER -> 0

SourceHz(c, s) ==
  CASE s = "rosc" -> c.ring [] s = "xosc" -> XoscHz(c) [] s \in Plls -> PllHz(c, s) [] OTHER -> 0

RefHz(c) == SourceHz(c, c.ref) \div c.refDiv
SysHz(c) == (IF c.sys = "ref" THEN RefHz(c) ELSE SourceHz(c, c.sys)) \div c.sysDiv
PeriHz(c) == IF c.peri = "sys" THEN SysHz(c) ELSE SourceHz(c, c.peri)
RtcHz(c) == SourceHz(c, c.rtc) \div c.rtcDiv
-----------------------------------------------------------------------------
(* Who is told, as functions of the state c. *)

SystickRate(t) == IF t.processor THEN t.clkSys ELSE t.tick
\* (the frequency of a counter that its clock stopped is not told apart: it is set again before it runs)
Retuned(t) == [t EXCEPT !.hz = SystickRate(t), !.run = t.enable /\ SystickRate(t) > 0]

SysSet(c, hz) ==
  [c EXCEPT !.clkSys = hz, !.systick = [i \in Cores |-> Retuned([c.systick[i] EXCEPT !.clkSys = hz])],
            !.pwm = hz, !.heard = hz, !.followed = @ /\ c.clkSys = c.heard]

PeriSet(c, hz) == [c EXCEPT !.clkPeri = hz, !.announced = IF c.baud THEN hz ELSE @]

TickHz(c) == IF c.cycles = 0 THEN 0 ELSE c.clkRef \div c.cycles
Reticked(c) ==
  IF TickHz(c) = c.tick THEN c
  ELSE [c EXCEPT !.tick = TickHz(c), !.timer = TickHz(c),
                 !.systick = [i \in Cores |-> Retuned([c.systick[i] EXCEPT !.tick = TickHz(c)])]]

RefAndRtcTold(c) == [Reticked([c EXCEPT !.clkRef = RefHz(c)]) EXCEPT !.rtcHz = RtcHz(c)]

\* update_clocks(): a rate of 0 and an unchanged one leave things as they are.
UpdateClocks(c) ==
  LET s == IF SysHz(c) \in {0, c.clkSys} THEN c ELSE SysSet(c, SysHz(c))
      p == IF PeriHz(c) \in {0, c.clkPeri} THEN s ELSE PeriSet(s, PeriHz(c))
  IN  [RefAndRtcTold(p) EXCEPT !.derived = TRUE]

\* reset_clock_tree(), after the block's own reset().
ResetTree(c) ==
  LET r == [c EXCEPT !.ref = "rosc", !.refDiv = 1, !.sys = "ref", !.sysDiv = 1, !.peri = "off", !.rtc = "off",
                     !.rtcDiv = 1, !.count = "none", !.measures = "ref", !.alive = FALSE, !.armed = FALSE,
                     !.power = [p \in Plls |-> "down"], !.bypass = [p \in Plls |-> FALSE],
                     !.ratio = [p \in Plls |-> ResetRatio], !.derived = FALSE]
      s == IF r.clkSys = DefaultHz THEN r ELSE SysSet(r, DefaultHz)
  IN  RefAndRtcTold(IF s.clkPeri = DefaultHz THEN s ELSE PeriSet(s, DefaultHz))

RingSet(c, div) ==
  LET hz == (Ring * ResetDiv) \div div IN IF hz = c.ring THEN c ELSE UpdateClocks([c EXCEPT !.ring = hz])

\* XOSC: write_uint32() compares the flag before and after; reset() tells nobody.
CrystalSet(c, enable, dormant) ==
  LET x == [c EXCEPT !.enabled = enable, !.dormant = dormant, !.stable = enable /\ ~ dormant]
  IN  IF x.stable = c.stable THEN x ELSE UpdateClocks(x)

FrequencyOf(c, m) ==
  CASE m = "sys" -> c.clkSys [] m = "peri" -> c.clkPeri [] m = "ref" -> RefHz(c) [] OTHER -> SourceHz(c, m)
-----------------------------------------------------------------------------
PowerOn ==
  [clkSys |-> DefaultHz, clkPeri |-> DefaultHz, derived |-> FALSE,
   ring |-> Ring, enabled |-> FALSE, dormant |-> FALSE, stable |-> FALSE,
   power |-> [p \in Plls |-> "down"], bypass |-> [p \in Plls |-> FALSE], ratio |-> [p \in Plls |-> ResetRatio],
   ref |-> "rosc", refDiv |-> 1, sys |-> "ref", sysDiv |-> 1, peri |-> "off", rtc |-> "off", rtcDiv |-> 1,
   systick |-> [i \in Cores |-> [clkSys |-> DefaultHz, tick |-> 0, processor |-> FALSE, enable |-> FALSE,
                                 hz |-> 0, run |-> FALSE]],
   pwm |-> DefaultHz, heard |-> DefaultHz, followed |-> TRUE, baud |-> FALSE, announced |-> 0,
   cycles |-> 0, clkRef |-> Ring, tick |-> 0, timer |-> 0, rtcHz |-> 0,
   count |-> "none", measures |-> "ref", alive |-> FALSE, armed |-> FALSE]

Init == tree = PowerOn

\* How many registers differ from what a chip comes up with, the ENABLE of the crystal aside.
Away(c) ==
  LET reset == PowerOn
      fields == {"ring", "dormant", "ref", "refDiv", "sys", "sysDiv", "peri", "rtc", "rtcDiv", "cycles", "baud", "count"}
  IN    Cardinality({f \in fields : c[f] # reset[f]})
      + Cardinality({e \in {"power", "bypass", "ratio"} \X Plls : c[e[1]][e[2]] # reset[e[1]][e[2]]})
      + Cardinality({i \in Cores : c.systick[i].processor \/ c.systick[i].enable})

Becomes(c) == Away(c) <= MaxAway /\ tree' = c

WriteRing == \E div \in RingDivs : Becomes(RingSet(tree, div))

\* CTRL: ENABLE does nothing to a dormant crystal.
EnableCrystal == Becomes(IF tree.dormant THEN tree ELSE CrystalSet(tree, TRUE, FALSE))
DisableCrystal == Becomes(CrystalSet(tree, FALSE, tree.dormant))
SleepCrystal == Becomes(CrystalSet(tree, tree.enabled, TRUE))
WakeCrystal == Becomes(CrystalSet(tree, tree.enabled, FALSE))

WritePll ==
  \E p \in Plls : \/ \E w \in {"down", "idle", "up"} : Becomes(UpdateClocks([tree EXCEPT !.power[p] = w]))
                  \/ \E b \in BOOLEAN : Becomes(UpdateClocks([tree EXCEPT !.bypass[p] = b]))
                  \/ \E r \in Ratios : Becomes(UpdateClocks([tree EXCEPT !.ratio[p] = r]))

WriteGenerator ==
  \/ \E s \in RefSources : Becomes(UpdateClocks([tree EXCEPT !.ref = s]))
  \/ \E s \in SysSources : Becomes(UpdateClocks([tree EXCEPT !.sys = s]))
  \/ \E s \in PeriSources : Becomes(UpdateClocks([tree EXCEPT !.peri = s]))
  \/ \E s \in RtcSources : Becomes(UpdateClocks([tree EXCEPT !.rtc = s]))
  \/ \E d \in GeneratorDivs : Becomes(UpdateClocks([tree EXCEPT ![d[1]] = d[2]]))

WriteSystick ==
  \E i \in Cores, processor, enable \in BOOLEAN :
    Becomes([tree EXCEPT !.systick[i] = Retuned([tree.systick[i] EXCEPT !.processor = processor, !.enable = enable])])
WriteTick == \E n \in TickCycles : Becomes(Reticked([tree EXCEPT !.cycles = n]))
\* UARTIBRD or UARTFBRD.
WriteBaud == Becomes([tree EXCEPT !.baud = TRUE, !.announced = tree.clkPeri])

\* FC0_SRC begins a count, in the place of one under way.
StartCount ==
  \E m \in Measured : Becomes([tree EXCEPT !.count = "running", !.measures = m, !.armed = TRUE,
                                           !.alive = FrequencyOf(tree, m) > 0])
EndCount ==
  tree.armed /\ tree' = [tree EXCEPT !.armed = FALSE, !.count = "done", !.measures = "ref", !.alive = @ /\ FrequencyOf(tree, tree.measures) > 0]

\* RP2040.reset() for the domains from `first` on, and the watchdog's own after a RUN or power-on reset.
Domains == << "rosc", "xosc", "clocks", "resets", "later" >>
WasReset(c, first, run) ==
  LET core == [c EXCEPT !.systick = [i \in Cores |-> Retuned([c.systick[i] EXCEPT !.processor = FALSE, !.enable = FALSE])]]
      clocks == IF first <= 3 THEN ResetTree(core) ELSE core
      blocks == IF first <= 4 THEN [clocks EXCEPT !.baud = FALSE, !.announced = 0] ELSE clocks
      xosc == IF first <= 2 THEN [blocks EXCEPT !.enabled = FALSE, !.dormant = FALSE, !.stable = FALSE] ELSE blocks
      rosc == IF first <= 1 THEN RingSet(xosc, ResetDiv) ELSE xosc
  IN  IF run THEN Reticked([rosc EXCEPT !.cycles = 0]) ELSE rosc

ChipReset == tree' = WasReset(tree, 1, TRUE)
WatchdogReset == \E first \in DOMAIN Domains : tree' = WasReset(tree, first, FALSE)

Next ==
  \/ WriteRing \/ EnableCrystal \/ DisableCrystal \/ SleepCrystal \/ WakeCrystal \/ WritePll \/ WriteGenerator
  \/ WriteSystick \/ WriteTick \/ WriteBaud \/ StartCount \/ EndCount \/ ChipReset \/ WatchdogReset

Spec == Init /\ [][Next]_tree
-----------------------------------------------------------------------------
(* Properties. *)

TypeOK ==
  /\ {tree.clkSys, tree.clkPeri, tree.ring, tree.pwm, tree.heard, tree.announced, tree.clkRef, tree.tick, tree.rtcHz} \subseteq Nat
  /\ tree.ref \in RefSources /\ tree.sys \in SysSources /\ tree.peri \in PeriSources /\ tree.rtc \in RtcSources
  /\ tree.count \in {"none", "running", "done"} /\ tree.measures \in Measured \cup {"ref"}

\* What keeps a rate of its own runs at that of the tree as its registers are now:
\* the two clocks of the chip, once any register of the tree has been written (until
\* then they are at their default), and all that follows them or the other two, in
\* whatever order oscillators, PLLs, generators and their users were set up, stopped
\* and reset; a source that stops leaves the clocks as they were, and never at 0, by
\* which the loops that run the cores divide.
EveryoneFollows ==
  /\ tree.clkSys > 0 /\ tree.clkPeri > 0
  /\ IF tree.derived
     THEN SysHz(tree) \in {0, tree.clkSys} /\ PeriHz(tree) \in {0, tree.clkPeri}
     ELSE tree.clkSys = DefaultHz /\ tree.clkPeri = DefaultHz
  /\ tree.pwm = tree.clkSys /\ tree.heard = tree.clkSys /\ tree.followed
  /\ tree.baud => tree.announced = tree.clkPeri
  /\ tree.clkRef = RefHz(tree) /\ tree.rtcHz = RtcHz(tree)
  /\ tree.timer = (IF tree.cycles = 0 THEN 0 ELSE RefHz(tree) \div tree.cycles)
  /\ \A i \in Cores : LET t == tree.systick[i]
                          rate == IF t.processor THEN tree.clkSys ELSE tree.timer
                      IN  t.run = (t.enable /\ rate > 0) /\ (t.run => t.hz = rate)

\* A count of the frequency counter that is running is with the clock, and ends.
NothingWaits == (tree.count = "running") = tree.armed
=============================================================================
