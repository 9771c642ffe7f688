-------------------------------- MODULE R850 --------------------------------
(***************************************************************************)
(* The tuner chip of the terrestrial side                                  *)
(* (tunelith-driver-px4/src/r850.rs).  The driver keeps a shadow of its    *)
(* registers, which two calibrations borrow to load tables of their own,   *)
(* and writes it out whole to tune.  Any transfer may fail.                *)
(*                                                                         *)
(* Registers are told apart by what they are set from: the table they      *)
(* start with, the row of the system, the row of the frequency, and what   *)
(* set_mux and set_pll compute, which is modelled number by number; of the *)
(* row of the system, the clock of the AGC is told apart, which some       *)
(* frequencies turn off.  Frequencies are in kHz.                          *)
(***************************************************************************)
EXTENDS Integers, Sequences

CONSTANTS
  Nothing,
  Asked,   \* the SystemConfigs to set
  Freqs,   \* the frequencies to tune to
  MaxCuts, \* bound: the calibrations of the images that fail
  Configs  \* R850Config: [imr, lpf : BOOLEAN], whether to calibrate those

VARIABLES
  config,
  chipId,  \* the chip: 0 or 1
  driver,  \* the driver's struct R850
  regs,    \* the registers in the chip: what the shadow was as it was written
  lastSet, \* what set_frequency last returned Ok for, or Nothing
  cuts     \* how many calibrations of the images were cut short

r850Vars == <<config, chipId, driver, regs, lastSet, cuts>>

Xtal    == 24000
FreqMin == 40000
FreqMax == 1002000

-----------------------------------------------------------------------------
(* Tables.  A system's rows: bandwidth, intermediate frequency, and the    *)
(* one to calibrate the filter at.  Both chips have the same, but for      *)
(* agc_clk, which is that of the chip in every row.                        *)

SystemRows(system) ==
  CASE system \in {"DvbT", "DvbT2"} ->
         {<<6, 4570, 7550>>, <<7, 4570, 7920>>, <<8, 4570, 8450>>,
          <<6, 5000, 7920>>, <<7, 5000, 8450>>, <<8, 5000, 8700>>}
    [] system = "DvbT2_1" -> {<<7, 1900, 7920>>, <<7, 5000, 6000>>}
    [] system = "DvbC" ->
         {<<6, 5070, 8100>>, <<8, 5070, 9550>>, <<6, 5000, 7780>>, <<8, 5000, 9250>>}
    [] system = "J83b"  -> {<<6, 5070, 8100>>, <<6, 5000, 7550>>}
    [] system = "IsdbT" -> {<<6, 4063, 7070>>, <<6, 4570, 7400>>, <<6, 5000, 7780>>}
    [] system = "Dtmb" ->
         {<<6, 4500, 7200>>, <<8, 4570, 8450>>, <<6, 5000, 8100>>, <<8, 5000, 8800>>}
    [] system = "Atsc"  -> {<<6, 5070, 8050>>, <<6, 5000, 7920>>}
    [] OTHER -> {} \* "Fm"

\* The rows of the frequencies, in order: for an intermediate frequency, or
\* any, from one to another, where 0 is no bound.
IsdbTFreqRows ==
  LET bands == << <<0, 340000>>, <<470000, 487999>>, <<680000, 691999>>, <<692000, 697999>>,
                  <<0, 0>> >>
  IN  [i \in 1 .. 10 |-> <<IF i <= 5 THEN 4063 ELSE 0>> \o bands[((i - 1) % 5) + 1]]

Least(S) == CHOOSE i \in S : \A j \in S : i <= j

FreqRows(system) ==
  CASE system \in {"DvbT", "DvbT2", "DvbT2_1"} ->
         << <<0, 0, 340000>>, <<0, 662001, 670000>>, <<0, 782001, 790000>>, <<0, 0, 0>> >>
    [] system = "DvbC" -> << <<0, 0, 660000>>, <<0, 0, 0>> >>
    [] system = "J83b" -> << <<0, 0, 335000>>, <<0, 340001, 660000>>, <<0, 0, 0>> >>
    [] system = "IsdbT" -> IsdbTFreqRows
    [] system = "Dtmb" -> << <<0, 0, 100000>>, <<0, 0, 340000>>, <<0, 0, 0>> >>
    [] system = "Atsc" -> << <<0, 0, 340000>>, <<0, 0, 0>> >>
    [] OTHER -> <<>> \* "Fm"

RowsOf(s) == {r \in SystemRows(s.system) : r[1] = s.bandwidth /\ r[2] = s.if}

FreqRowOf(s, f) ==
  LET Fits(r) == /\ r[1] \in {0, s.if}
                 /\ r[2] = 0 \/ r[2] <= f
                 /\ r[3] = 0 \/ r[3] >= f
      rows == FreqRows(s.system)
      fit == {i \in DOMAIN rows : Fits(rows[i])}
  IN  Least(fit)

AgcClk(chip) == chip

\* Where ISDB-T is received without it.
Unclocked(s, f) == s.system = "IsdbT" /\ 478000 <= f /\ f <= 481999

\* mixer_mode, and mixer_amp_lpf_imr_cal.
Mode(system) == IF system \in {"J83b", "Dtmb", "Atsc"} THEN 0 ELSE 1
Amp(system)  == IF system \in {"J83b", "Dtmb", "Atsc", "IsdbT"} THEN 7 ELSE 4

LoOf(s, f) == IF Mode(s.system) = 1 THEN f - s.if ELSE f + s.if

-----------------------------------------------------------------------------
(* set_pll.                                                                *)

VcoMin(chip) == IF chip = 0 THEN 2270000 ELSE 2200000

\* mix_div, which starts at 2 and is doubled, and vco_freq.
Vco(lo, div) == lo * <<2, 4, 8, 16, 32, 64, 128>>[div + 1]

InRange(vco, chip) == VcoMin(chip) <= vco /\ vco < 2 * VcoMin(chip)

Div(lo, chip) ==
  LET fit == {i \in 0 .. 5 : InRange(Vco(lo, i), chip)}
  IN  IF fit = {} THEN 6 ELSE Least(fit)

\* What the crystal is divided by, to keep its harmonics off the channel.
XtalDiv(s, lo) ==
  CASE lo < 380500 /\ ((lo + s.if) \div 12000) % 2 = 0 -> 2
    [] lo >= 380500 /\ s.system = "IsdbT" /\ 478000 <= lo + s.if /\ lo + s.if < 482000 -> 4
    [] OTHER -> 1

\* The fraction, bit by bit: what the k-th turn of the loop leaves.
SdmTurn(acc, xtal) ==
  LET part  == (2 * xtal) \div acc.nsdm
      taken == acc.fra > 1 /\ part < acc.fra
  IN  [fra  |-> acc.fra - (IF taken THEN part ELSE 0),
       sdm  |-> acc.sdm + (IF taken THEN 32768 \div (acc.nsdm \div 2) ELSE 0),
       nsdm |-> 2 * acc.nsdm]

Sdm(fra, xtal) ==
  LET turn[k \in 0 .. 15] ==
        IF k = 0 THEN [fra |-> fra, sdm |-> 0, nsdm |-> 2] ELSE SdmTurn(turn[k - 1], xtal)
  IN  turn[15].sdm

\* Mutant: the fraction is kept as it is right below a whole number.
RoundedDown(fra, xtal) ==
  IF fra < xtal \div 64 \/ fra > (xtal * 127) \div 64 THEN <<0, 0>> ELSE <<fra, 0>>

\* The fraction kept away from whole numbers and from halves, and whether
\* the whole number is the next.
Rounded(fra, xtal) ==
  CASE fra < xtal \div 64 -> <<0, 0>>
    [] fra > (xtal * 127) \div 64 -> <<0, 1>>
    [] fra > (xtal * 127) \div 128 /\ fra < xtal -> <<(xtal * 127) \div 128, 0>>
    [] fra > xtal /\ fra < (xtal * 129) \div 128 -> <<(xtal * 129) \div 128, 0>>
    [] OTHER -> <<fra, 0>>

Pll(s, lo, chip) ==
  LET div   == Div(lo, chip)
      xdiv  == XtalDiv(s, lo)
      xtal  == Xtal \div xdiv
      vco   == Vco(lo, div)
      whole == (vco \div 2) \div xtal
      fra   == Rounded(vco - 2 * xtal * whole, xtal)
      nint  == whole + fra[2]
  IN  [div |-> div, xdiv |-> xdiv, ni |-> (nint - 13) \div 4, si |-> (nint - 13) % 4,
       sdm |-> Sdm(fra[1], xtal)]

-----------------------------------------------------------------------------
(* set_mux: filters by the frequency, and the point of least image.        *)

Below(freq, steps, last) ==
  LET under == {i \in DOMAIN steps : freq < steps[i][1]}
  IN  IF under = {} THEN last ELSE steps[Least(under)][2]

ImrIdx(lo) == Below(lo, << <<170000, 0>>, <<240000, 4>>, <<400000, 1>>, <<760000, 2>> >>, 3)

Mux(s, lo, cal) ==
  [bpf  |-> Below(lo, << <<580000, 7>>, <<660000, 1>>, <<780000, 6>>, <<900000, 4>> >>, 0),
   poly |-> Below(lo, << <<133000, 2>>, <<221000, 1>>, <<760000, 0>> >>, 3),
   cnr  |-> Below(lo, << <<480000, 3>>, <<550000, 2>>, <<700000, 1>> >>, 0),
   notch |-> IF s.system \in {"DvbC", "J83b"}
             THEN Below(lo, << <<77000, 10>>, <<85000, 4>>, <<115000, 3>>, <<125000, 1>> >>, 0)
             ELSE Below(lo, << <<73000, 10>>, <<81000, 4>>, <<89000, 3>>, <<121000, 1>> >>, 0),
   cap |-> IF s.system \in {"DvbC", "J83b"}
           THEN Below(lo, << <<85000, 15>>, <<115000, 13>>, <<125000, 11>>, <<141000, 9>>,
                             <<157000, 8>>, <<181000, 6>>, <<205000, 3>> >>, 0)
           ELSE Below(lo, << <<89000, 8>>, <<121000, 6>>, <<145000, 4>>, <<153000, 3>>,
                             <<177000, 2>>, <<201000, 1>> >>, 0),
   diplexer |-> IF lo < 330000 THEN 2 ELSE 0,
   \* the amplifier's setting the point was measured at, 0 for none: (2, 0)
   imr |-> IF cal.done /\ cal.good[ImrIdx(lo)] THEN cal.at[ImrIdx(lo)] ELSE 0]

-----------------------------------------------------------------------------
(* The search for the point of least image: gains and phases of a sign     *)
(* (0x20) and four bits.  The least reading decides among what is tried,   *)
(* so a search may end at any of it.                                       *)

Mag(v)  == v % 16
Flip(v) == IF (v \div 32) % 2 = 1 THEN v - 32 ELSE v + 32
At(gain, phase) == [gain |-> gain, phase |-> phase]

Cross == {At(0, p) : p \in {0, 1, 33, 2, 34}} \cup {At(g, 0) : g \in {1, 33, 2, 34}}

Tree(v, num) ==
  {v, v + 1} \cup
  CASE num = 3 -> IF Mag(v) = 0 THEN {Flip(v) + 1} ELSE {v - 1}
    [] num = 5 -> {v + 2} \cup (CASE Mag(v) = 0 -> {Flip(v) + 1, Flip(v) + 2}
                                  [] Mag(v) = 1 -> {v - 1, Flip(v - 1) + 1}
                                  [] OTHER -> {v - 1, v - 2})

Steps(v) == {v} \cup (v .. (v - Mag(v)) + 9)

Along(p, axis, vs) == {[p EXCEPT ![axis] = v] : v \in vs}
Other(axis) == IF axis = "gain" THEN "phase" ELSE "gain"

FullSearch ==
  UNION {LET axis == IF c.phase # 0 THEN "phase" ELSE "gain"
             stepped == Along(c, axis, Steps(c[axis]))
             crossed == UNION {Along(p, Other(axis), Tree(p[Other(axis)], 5)) : p \in stepped}
         IN  UNION {Along(p, axis, Tree(p[axis], 3)) : p \in crossed} : c \in Cross}

Section(p) ==
  LET gains == IF p.gain # 0 THEN {p.gain - 1, p.gain, p.gain + 1} ELSE {0, 1, 33}
  IN  {At(g, q) : g \in gains, q \in Tree(p.phase, 3)}

Sections(ps) == UNION {Section(p) : p \in ps}

\* The order the points are measured in, whether one is searched in full,
\* and otherwise the one it is searched around.
Order == <<2, 1, 0, 3, 4>>
Full(j, mode) == j = 2 \/ (j = 3 /\ mode = 1)
Pre(j) == IF j \in {0, 4} THEN 1 ELSE 2

\* What points may be: searched in full, around those, and around these.
FullPoints  == Sections(FullSearch)
NextPoints  == Sections(FullPoints)
LastPoints  == Sections(NextPoints)
FoundPoints == FullPoints \cup NextPoints \cup LastPoints

\* Mutant: the gain is not looked at.
UsableByPhase(p) == Mag(p.phase) <= 6

\* ImrCal::result: what set_mux goes by.
Usable(p) == Mag(p.gain) <= 6 /\ Mag(p.phase) <= 6

-----------------------------------------------------------------------------
(* The driver.  An operation maps the driver's state to those it may leave *)
(* it in, with whether it is to go on.                                     *)

\* The shadow, but for what set_system_frequency sets anew each time.
Table(base, row, clock) == [base |-> base, row |-> row, clock |-> clock]

\* A table as it is in the code, without the row of a system.
Plain(base) == Table(base, Nothing, 0)

\* The chip with the registers as they were in part, or powered on.
Mixed == Plain("mixed")
Unset == Plain("zero")

NoCal == [done |-> FALSE, amp |-> 0, at |-> [j \in 0 .. 4 |-> 0],
          good |-> [j \in 0 .. 4 |-> FALSE]]

Ended(s, ok) == [d |-> s, ok |-> ok]

\* The first `k` points measured, with the amplifier set to `amp`.
Measured(cal, k, amp, good) ==
  LET js == {Order[i] : i \in 1 .. k}
  IN  [cal EXCEPT !.at   = [j \in 0 .. 4 |-> IF j \in js THEN amp ELSE cal.at[j]],
                  !.good = [j \in 0 .. 4 |-> IF j \in js THEN good ELSE cal.good[j]]]

\* All of them.
Whole(cal, amp, good) == [Measured(cal, 5, amp, good) EXCEPT !.done = TRUE, !.amp = amp]

\* The calibration loads a table of its own, and leaves the shadow so.
Calibrating(s, mode, cal) ==
  [s EXCEPT !.shadow = Plain("imr"), !.cal = [s.cal EXCEPT ![mode] = cal]]

CalibrateImr(s) ==
  LET mode == Mode(s.sys.system)
      amp  == Amp(s.sys.system)
      cal  == s.cal[mode]
  IN  UNION {{Ended(Calibrating(s, mode, Measured(cal, k, amp, good)), FALSE) : k \in 0 .. 4}
             \cup {Ended(Calibrating(s, mode, Whole(cal, amp, good)), TRUE)} : good \in BOOLEAN}

Imr(s) ==
  LET cal == s.cal[Mode(s.sys.system)] IN
  IF config.imr /\ (~cal.done \/ cal.amp # Amp(s.sys.system)) THEN CalibrateImr(s)
  ELSE {Ended(s, TRUE)}

\* calibrate_lpf: fails, or finds a filter.
CalibrateLpf(s) ==
  {Ended([s EXCEPT !.shadow = Plain("lpf")], ok) : ok \in BOOLEAN}

\* Mutant: the system is taken for set before the filter is calibrated.
SystemParamsEarly(s) ==
  IF s.cur = s.sys THEN {Ended(s, TRUE)}
  ELSE IF RowsOf(s.sys) = {} THEN {Ended(s, FALSE)}
  ELSE {IF ~r.ok THEN Ended([r.d EXCEPT !.cur = s.sys], FALSE)
        ELSE Ended([r.d EXCEPT !.shadow = Table("init", s.sys, AgcClk(s.chip)),
                               !.cur = s.sys], TRUE)
        : r \in IF config.lpf THEN CalibrateLpf(s) ELSE {Ended(s, TRUE)}}

\* The rest of set_system_params.
SystemParams(s) ==
  IF s.cur = s.sys THEN {Ended(s, TRUE)}
  ELSE IF RowsOf(s.sys) = {} THEN {Ended(s, FALSE)}
  ELSE {IF ~r.ok THEN r
        ELSE Ended([r.d EXCEPT !.shadow = Table("init", s.sys, AgcClk(s.chip)),
                               !.cur = s.sys], TRUE)
        : r \in IF config.lpf THEN CalibrateLpf(s) ELSE {Ended(s, TRUE)}}

\* set_system_frequency: what it leaves of the system's row in the shadow.
Clocked(s, f) ==
  [s EXCEPT !.shadow = [s.shadow EXCEPT !.clock = IF Unclocked(s.sys, f) THEN 0 ELSE s.shadow.clock]]

\* The registers, which set_pll writes whole before it starts the oscillator.
SystemFrequency(s, f) ==
  LET lo == LoOf(s.sys, f)
  IN  [base |-> s.shadow.base, row |-> s.shadow.row, clock |-> s.shadow.clock,
       freq |-> FreqRowOf(s.sys, f),
       mux  |-> Mux(s.sys, lo, s.cal[Mode(s.sys.system)]),
       pll  |-> Pll(s.sys, lo, s.chip)]

R850Init ==
  /\ config \in Configs /\ chipId \in 0 .. 1
  /\ driver = [init |-> FALSE, chip |-> 0, sys |-> Nothing, cur |-> Nothing,
               shadow |-> Unset, cal |-> [m \in 0 .. 1 |-> NoCal]]
  /\ regs = Unset /\ lastSet = Nothing /\ cuts = 0

Undone(s) == [s EXCEPT !.init = FALSE, !.chip = 0, !.sys = Nothing, !.cur = Nothing,
                       !.cal = [m \in 0 .. 1 |-> [s.cal[m] EXCEPT !.done = FALSE]]]

\* R850::init: the id in up to four reads, the crystal's power, and the
\* registers as they were.  It fails before the crystal, or in it.
InitTuner ==
  /\ \/ /\ driver' = [Undone(driver) EXCEPT !.init = TRUE, !.chip = chipId,
                                           !.shadow = Plain("init")]
        /\ UNCHANGED regs
     \/ driver' = Undone(driver) /\ UNCHANGED regs
     \/ /\ driver' = [Undone(driver) EXCEPT !.chip = chipId, !.shadow = Plain("init")]
        /\ regs' = Mixed
  /\ lastSet' = Nothing
  /\ UNCHANGED <<config, chipId, cuts>>

TermTuner ==
  /\ driver.init
  /\ driver' = [Undone(driver) EXCEPT !.shadow = Unset]
  /\ UNCHANGED <<config, chipId, regs, lastSet, cuts>>

SetSystem(sys) ==
  /\ driver.init
  /\ driver' = [driver EXCEPT !.sys = sys, !.cur = Nothing]
  /\ UNCHANGED <<config, chipId, regs, lastSet, cuts>>

SetFrequency(f) ==
  /\ driver.init /\ driver.sys # Nothing /\ f \in FreqMin .. FreqMax
  /\ \E imr \in Imr(driver) :
       \E params \in IF imr.ok THEN SystemParams(imr.d) ELSE {imr} :
         /\ cuts' = cuts + (IF imr.ok THEN 0 ELSE 1)
         /\ driver' = IF params.ok THEN Clocked(params.d, f) ELSE params.d
         /\ \/ params.ok /\ regs' = SystemFrequency(Clocked(params.d, f), f)
               /\ lastSet' = [sys |-> driver.sys, freq |-> f, chip |-> driver.chip]
            \/ /\ lastSet' = Nothing
               /\ regs' = IF ~params.ok /\ params.d = driver THEN regs ELSE Mixed
  /\ cuts' <= MaxCuts
  /\ UNCHANGED <<config, chipId>>

\* The board is powered off once the tuner is not in use.
LosePower ==
  /\ ~driver.init
  /\ regs' = Unset /\ lastSet' = Nothing
  /\ UNCHANGED <<config, chipId, driver, cuts>>

R850Next ==
  \/ InitTuner \/ TermTuner \/ LosePower
  \/ \E s \in Asked : SetSystem(s)
  \/ \E f \in Freqs : SetFrequency(f)

R850Spec == R850Init /\ [][R850Next]_r850Vars

-----------------------------------------------------------------------------
(* Properties.                                                             *)

\* Whatever transfer failed before, in whichever calibration, a chip that was
\* tuned holds the registers for reception of the system and the frequency
\* asked for, none left of a calibration (r850.rs:1355, 1134); and what
\* sys_curr spares the driver to set is in the shadow still (r850.rs:1368), all
\* but the clock of the AGC, which is off where it is to be (r850.rs:1575).
ReceivesAsSet ==
  /\ driver.cur # Nothing => driver.shadow.base = "init" /\ driver.shadow.row = driver.cur
  /\ lastSet # Nothing =>
       /\ regs.base = "init" /\ regs.row = lastSet.sys
       /\ regs.freq = FreqRowOf(lastSet.sys, lastSet.freq)
       /\ regs.clock \in {0, AgcClk(lastSet.chip)}
       /\ Unclocked(lastSet.sys, lastSet.freq) => regs.clock = 0

\* "Tunes to `freq` in kHz, in the system last set" (r850.rs:1726): with the
\* clock of the AGC that the system's row has, but where it is turned off.
SystemIsWhole ==
  (lastSet # Nothing /\ ~Unclocked(lastSet.sys, lastSet.freq)) =>
    regs.clock = AgcClk(lastSet.chip)

OnFrequency(p, lo, chip) ==
  LET xtal == Xtal \div p.xdiv
      vco  == Vco(lo, p.div)
      set  == 2 * xtal * (4 * p.ni + p.si + 13) + (xtal * (p.sdm \div 2)) \div 16384
  IN  /\ vco - set \in -(xtal \div 64) - 2 .. (xtal \div 64) + 2
      /\ InRange(vco, chip)
      /\ p.div \in 0 .. 6 /\ p.ni \in 0 .. 127 /\ 0 <= p.sdm /\ p.sdm < 65536

\* The oscillator is within a 64th of the crystal of what the frequency asks
\* for, in the range of the chip, and what it takes fits the registers
\* (r850.rs:694).
LoIsRight ==
  lastSet # Nothing => OnFrequency(regs.pll, LoOf(lastSet.sys, lastSet.freq), lastSet.chip)

UsedAsTried ==
  \A p \in FoundPoints :
    Usable(p) => /\ (p.gain \div 16) % 2 = 0 /\ p.gain < 64
                 /\ (p.phase \div 16) % 2 = 0 /\ p.phase < 64

\* A point of the images that reception goes by was tried as it is recorded:
\* the search leaves the sign and the four bits only for points that are not
\* used (r850.rs:1083); each is searched around one measured before
\* (r850.rs:1143); and it is of the amplifier's setting of the system, unless
\* a calibration was cut short, which mixes its points with those before.
PointsAreTrue ==
  /\ UsedAsTried
  /\ \A mode \in 0 .. 1, i \in 1 .. 5 :
       Full(Order[i], mode) \/ \E h \in 1 .. i - 1 : Order[h] = Pre(Order[i])
  /\ (lastSet # Nothing /\ cuts = 0) => regs.mux.imr \in {0, Amp(lastSet.sys.system)}

=============================================================================
