---------------------------- MODULE ChipProofs ----------------------------
(***************************************************************************)
(* What is proved of the chips of the boards.                              *)
(*                                                                         *)
(* Of PxMlt, for any number of tuners on any buses and any number of calls *)
(* that fail: that what a tuner was set to its chips stay set to, and that *)
(* the driver's notes of an open tuner's chips no call of which failed are *)
(* true, those of a tuner that is not open being at rest.                  *)
(*                                                                         *)
(* Of R850, for any systems, any frequencies and any number of transfers   *)
(* that fail: that the chip receives as it was set, that the oscillator is *)
(* set to what the frequency asks for, and that reception goes by points   *)
(* of the images that were measured so.                                    *)
(***************************************************************************)
EXTENDS PxMlt, R850, WellFoundedInduction, TLAPS

Modes == {"T", "S"}
Ids   == {p.id : p \in Params} \cup {None}
Khzs  == {p.khz : p \in Params} \cup {None}

Chip ==
  [mode : Modes \cup {None}, core : Modes \cup {"asleep"}, t : BOOLEAN, s : BOOLEAN,
   pins : BOOLEAN, out : BOOLEAN, id : Ids, gate : BOOLEAN,
   tmode : Modes \cup {None}, tunerT : Khzs, tunerS : Khzs]

States == [Chips -> Chip]

TypeOK ==
  /\ opened \in SUBSET Chips /\ power \in BOOLEAN /\ cut \in SUBSET Chips
  /\ system \in [Chips -> {"none", "set", "locking"}]
  /\ got \in [Chips -> Params \cup {None}]
  /\ chip \in States
  /\ fails \in 0 .. MaxFails

\* The gate of a tuner that is set to something is closed: what is sent to its
\* neighbours does not reach it.
TunedIsShut == \A i \in Chips : got[i] # None => ~chip[i].gate

OpenIsPowered == opened # {} => power

IInv == TypeOK /\ OpenIsPowered /\ TunedIsKept /\ TunedIsShut /\ NotesAreTrue

-----------------------------------------------------------------------------
(* What a run of commands for a tuner leaves: the chips of the others as   *)
(* they were in `c`, if their gates were closed, and its own, if all went  *)
(* well, as `x`.                                                           *)

Beside(c, i) == {d \in States : \A j \in Chips \ {i} : ~c[j].gate => d[j] = c[j]}

Leaves(runs, c, i, x) ==
  \A r \in runs : r \in [c : Beside(c, i), ok : BOOLEAN] /\ (r.ok => r.c[i] = x)

\* A register, set to what it can hold.
Put(x, reg, val) == [x EXCEPT ![reg] = val]

Fits(reg, val) == \A x \in Chip : Put(x, reg, val) \in Chip

LEMMA Registers ==
  /\ \A on \in BOOLEAN : Fits("out", on) /\ Fits("pins", on) /\ Fits("gate", on)
                         /\ Fits("t", on) /\ Fits("s", on)
  /\ \A m \in Modes : Fits("core", m) /\ \A on \in BOOLEAN : Fits(Side(m), on)
  /\ Fits("core", "asleep")
  /\ \A m \in Modes \cup {None} : Fits("mode", m) /\ Fits("tmode", m)
  /\ \A k \in Khzs : Fits("tunerT", k) /\ Fits("tunerS", k)
                     /\ \A m \in Modes : Fits(TunerSide(m), k)
  /\ \A id \in Ids : Fits("id", id)
<1>1. \A on \in BOOLEAN : Fits("out", on) /\ Fits("pins", on) /\ Fits("gate", on)
                          /\ Fits("t", on) /\ Fits("s", on)
  BY DEF Fits, Chip, Put
<1>2. \A m \in Modes : Fits("core", m)
  BY DEF Fits, Chip, Put
<1>3. Fits("core", "asleep")
  BY DEF Fits, Chip, Put
<1>4. \A m \in Modes \cup {None} : Fits("mode", m) /\ Fits("tmode", m)
  BY DEF Fits, Chip, Put
<1>5. \A k \in Khzs : Fits("tunerT", k) /\ Fits("tunerS", k)
  BY DEF Fits, Chip, Put
<1>6. \A id \in Ids : Fits("id", id)
  BY DEF Fits, Chip, Put
<1> QED
  BY <1>1, <1>2, <1>3, <1>4, <1>5, <1>6 DEF Side, TunerSide

LEMMA DoneLeaves ==
  ASSUME NEW c, NEW i \in Chips, NEW d \in Beside(c, i)
  PROVE  Leaves(Done(d), c, i, d[i])
<1>1. \A r \in Done(d) : r = [c |-> d, ok |-> TRUE]
  BY DEF Done
<1>2. [c |-> d, ok |-> TRUE] \in [c : Beside(c, i), ok : BOOLEAN] /\ [c |-> d, ok |-> TRUE].c = d
  OBVIOUS
<1> QED
  BY <1>1, <1>2 DEF Leaves

LEMMA NotedBeside ==
  ASSUME NEW c, NEW i \in Chips, NEW d \in Beside(c, i), NEW m \in Modes \cup {None}
  PROVE  /\ Noted(d, i, m) \in Beside(c, i)
         /\ Noted(d, i, m)[i] = Put(d[i], "mode", m)
         /\ TunerNoted(d, i, m) \in Beside(c, i)
         /\ TunerNoted(d, i, m)[i] = Put(d[i], "tmode", m)
<1>1. Put(d[i], "mode", m) \in Chip /\ Put(d[i], "tmode", m) \in Chip
  BY Registers DEF Fits, Beside, States
<1>2. Noted(d, i, m) = [d EXCEPT ![i] = Put(d[i], "mode", m)]
  BY DEF Put, Noted
<1>3. TunerNoted(d, i, m) = [d EXCEPT ![i] = Put(d[i], "tmode", m)]
  BY DEF Put, TunerNoted
<1>4. ASSUME NEW x \in Chip
      PROVE  [d EXCEPT ![i] = x] \in Beside(c, i) /\ [d EXCEPT ![i] = x][i] = x
  BY DEF Beside, States
<1> QED
  BY <1>1, <1>2, <1>3, <1>4

\* A command to the demodulator, and one to the tuner chip behind an open gate.
LEMMA DemodWrites ==
  ASSUME NEW c, NEW i \in Chips, NEW d \in Beside(c, i), NEW reg, NEW val, Fits(reg, val)
  PROVE  /\ Write(d, Demod(i, reg, val)) \in Beside(c, i)
         /\ Write(d, Demod(i, reg, val))[i] = Put(d[i], reg, val)
<1> DEFINE w == Write(d, Demod(i, reg, val))
<1>1. w = [j \in Chips |-> IF j = i THEN Put(d[j], reg, val) ELSE d[j]]
  BY DEF Write, Demod, Put
<1>2. \A j \in Chips : Put(d[j], reg, val) \in Chip
  BY DEF Fits, Beside, States
<1> HIDE DEF w
<1>3. w \in States /\ \A j \in Chips \ {i} : w[j] = d[j]
  BY <1>1, <1>2 DEF Beside, States
<1>4. w \in Beside(c, i) /\ w[i] = Put(d[i], reg, val)
  BY <1>1, <1>3 DEF Beside
<1> QED
  BY <1>4 DEF w

LEMMA TunerWrites ==
  ASSUME NEW c, NEW i \in Chips, NEW d \in Beside(c, i), NEW reg, NEW val, Fits(reg, val)
  PROVE  /\ Write(d, Tuner(i, reg, val)) \in Beside(c, i)
         /\ d[i].gate => Write(d, Tuner(i, reg, val))[i] = Put(d[i], reg, val)
<1> DEFINE w == Write(d, Tuner(i, reg, val))
<1>1. w = [j \in Chips |-> IF BusOf[j] = BusOf[i] /\ d[j].gate
                           THEN Put(d[j], reg, val) ELSE d[j]]
  BY DEF Write, Tuner, Put
<1>2. \A j \in Chips : Put(d[j], reg, val) \in Chip
  BY DEF Fits, Beside, States
<1> HIDE DEF w
<1>3. w \in States
  BY <1>1, <1>2 DEF Beside, States
<1>4. \A j \in Chips \ {i} : ~c[j].gate => w[j] = c[j]
  BY <1>1 DEF Beside
<1>5. w \in Beside(c, i) /\ (d[i].gate => w[i] = Put(d[i], reg, val))
  BY <1>1, <1>3, <1>4 DEF Beside
<1> QED
  BY <1>5 DEF w

LEMMA RunIs ==
  ASSUME NEW d, NEW cmd, NEW r \in Run(d, cmd)
  PROVE  r \in [c : {d, Write(d, cmd)}, ok : BOOLEAN] /\ (r.ok => r.c = Write(d, cmd))
<1>1. CASE r = [c |-> d, ok |-> FALSE]
  <2>1. r \in [c : {d, Write(d, cmd)}, ok : BOOLEAN] /\ r.ok = FALSE
    BY <1>1
  <2> QED
    BY <2>1
<1>2. CASE \E b \in BOOLEAN : r = [c |-> Write(d, cmd), ok |-> b]
  <2>1. PICK b \in BOOLEAN : r = [c |-> Write(d, cmd), ok |-> b]
    BY <1>2
  <2>2. r.c = Write(d, cmd) /\ r \in [c : {d, Write(d, cmd)}, ok : BOOLEAN]
    BY <2>1
  <2> QED
    BY <2>2
<1> QED
  BY <1>1, <1>2 DEF Run

LEMMA RunLeaves ==
  ASSUME NEW c, NEW i \in Chips, NEW d \in Beside(c, i), NEW reg, NEW val, Fits(reg, val)
  PROVE  /\ Leaves(Run(d, Demod(i, reg, val)), c, i, Put(d[i], reg, val))
         /\ d[i].gate => Leaves(Run(d, Tuner(i, reg, val)), c, i, Put(d[i], reg, val))
<1>1. ASSUME NEW cmd, NEW x, Write(d, cmd) \in Beside(c, i), Write(d, cmd)[i] = x
      PROVE  Leaves(Run(d, cmd), c, i, x)
  <2> SUFFICES ASSUME NEW r \in Run(d, cmd)
               PROVE  r \in [c : Beside(c, i), ok : BOOLEAN] /\ (r.ok => r.c[i] = x)
    BY DEF Leaves
  <2> QED
    BY <1>1, RunIs
<1>2. Leaves(Run(d, Demod(i, reg, val)), c, i, Put(d[i], reg, val))
  BY <1>1, DemodWrites
<1>3. ASSUME d[i].gate
      PROVE  Leaves(Run(d, Tuner(i, reg, val)), c, i, Put(d[i], reg, val))
  BY <1>1, <1>3, TunerWrites
<1> QED
  BY <1>2, <1>3

LEMMA ThenLeaves ==
  ASSUME NEW c, NEW i \in Chips, NEW runs, NEW x, Leaves(runs, c, i, x),
         NEW reg, NEW val, Fits(reg, val)
  PROVE  /\ Leaves(Then(runs, Demod(i, reg, val)), c, i, Put(x, reg, val))
         /\ x.gate => Leaves(Then(runs, Tuner(i, reg, val)), c, i, Put(x, reg, val))
<1>1. \A r \in runs : r.ok =>
        /\ Leaves(Run(r.c, Demod(i, reg, val)), c, i, Put(x, reg, val))
        /\ x.gate => Leaves(Run(r.c, Tuner(i, reg, val)), c, i, Put(x, reg, val))
  <2>1. ASSUME NEW r \in runs, r.ok
        PROVE  r.c \in Beside(c, i) /\ r.c[i] = x
    BY <2>1 DEF Leaves
  <2> QED
    BY <2>1, RunLeaves
<1> QED
  BY <1>1 DEF Then, AndThen, Leaves

\* Of a step taken in any case, and one before.
LEMMA BothLeave ==
  ASSUME NEW c, NEW i \in Chips, NEW x, NEW r, NEW q, NEW p, r.ok \in BOOLEAN,
         q \in [c : Beside(c, i), ok : BOOLEAN], q.ok /\ r.ok => q.c[i] = x,
         p = [q EXCEPT !.ok = @ /\ r.ok]
  PROVE  p \in [c : Beside(c, i), ok : BOOLEAN] /\ (p.ok => p.c[i] = x)
<1>1. PICK d \in Beside(c, i), b \in BOOLEAN : q = [c |-> d, ok |-> b]
  OBVIOUS
<1>2. q.c = d /\ q.ok = b
  BY <1>1
<1>3. p = [c |-> d, ok |-> b /\ r.ok]
  BY <1>1, <1>2
<1>4. p.c = d /\ p.ok = (b /\ r.ok)
  BY <1>3
<1>5. p \in [c : Beside(c, i), ok : BOOLEAN]
  BY <1>3
<1> QED
  BY <1>2, <1>4, <1>5

\* Closed again, whatever became of what was done behind the gate.
LEMMA CloseLeaves ==
  ASSUME NEW c, NEW i \in Chips, NEW runs, NEW x, Leaves(runs, c, i, x)
  PROVE  Leaves(Close(runs, i), c, i, Put(x, "gate", FALSE))
<1> SUFFICES ASSUME NEW p \in Close(runs, i)
             PROVE  p \in [c : Beside(c, i), ok : BOOLEAN]
                    /\ (p.ok => p.c[i] = Put(x, "gate", FALSE))
  BY DEF Leaves
<1>0. PICK r \in runs : \E q \in Run(r.c, Demod(i, "gate", FALSE)) : p = [q EXCEPT !.ok = @ /\ r.ok]
  BY DEF Close, InAnyCase
<1>1. PICK q \in Run(r.c, Demod(i, "gate", FALSE)) : p = [q EXCEPT !.ok = @ /\ r.ok]
  BY <1>0
<1>2. r.c \in Beside(c, i) /\ r.ok \in BOOLEAN /\ (r.ok => r.c[i] = x)
  BY DEF Leaves
<1>3. Fits("gate", FALSE)
  BY DEF Fits, Chip, Put
<1>4. Leaves(Run(r.c, Demod(i, "gate", FALSE)), c, i, Put(r.c[i], "gate", FALSE))
  BY <1>2, <1>3, RunLeaves
<1>5. q \in [c : Beside(c, i), ok : BOOLEAN]
      /\ (q.ok => q.c[i] = Put(r.c[i], "gate", FALSE))
  BY <1>4 DEF Leaves
<1> QED
  BY <1>1, <1>2, <1>5, BothLeave

-----------------------------------------------------------------------------
(* What each operation makes of the chips of a tuner, when all goes well.  *)

SleptOf(x, m) ==
  Put(Put(Put(Put(x, "out", FALSE), "pins", FALSE), Side(m), FALSE), "core", "asleep")
SleepOf(x) == IF x.mode = None THEN x ELSE SleptOf(Put(x, "mode", None), x.mode)

AwakeOf(x, m)  == Put(Put(Put(x, "core", m), Side(m), TRUE), "pins", TRUE)
WokenOf(x, m)  == Put(AwakeOf(x, m), "mode", m)
WakeupOf(x, m) == WokenOf(SleepOf(x), m)

StopOf(x) ==
  IF x.tmode = None THEN x ELSE Put(Put(x, "tmode", None), TunerSide(x.tmode), None)
StoppedOf(x, m) == IF x.tmode \notin {None, m} THEN StopOf(x) ELSE x
SetOf(x, m, khz) == Put(Put(StoppedOf(x, m), TunerSide(m), khz), "tmode", m)

Opened(x) == Put(x, "gate", TRUE)
Shut(x)   == Put(x, "gate", FALSE)

DemodInitOf(x) == Put(Put(x, "mode", None), "core", "asleep")
PowerOnOf(x)   == Put(Put(x, "tunerT", None), "tunerS", None)
TunerInitOf(x) == Shut(PowerOnOf(Opened(Put(x, "tmode", None))))
InitOf(x)      == TunerInitOf(DemodInitOf(x))

TermOf(x) == IF x.tmode = None THEN x ELSE Shut(StopOf(Opened(x)))
RestOf(x) == SleepOf(TermOf(x))

PickedOf(x, id) == IF id = None THEN x ELSE Put(x, "id", id)
TunerTuneOf(x, m, khz) == Shut(SetOf(Opened(x), m, khz))
TunedOf(x, p) ==
  Put(TunerTuneOf(WakeupOf(PickedOf(x, p.id), p.mode), p.mode, p.khz), "out", TRUE)

LEMMA SleepLeaves ==
  ASSUME NEW c, NEW i \in Chips, NEW d \in Beside(c, i)
  PROVE  Leaves(Sleep(d, i), c, i, SleepOf(d[i]))
<1>0. d[i] \in Chip
  BY DEF Beside, States
<1>1. CASE d[i].mode = None
  BY <1>1, DoneLeaves DEF Sleep, SleepOf
<1>2. CASE d[i].mode # None
  <2>1. PICK m \in Modes : m = d[i].mode
    BY <1>0, <1>2 DEF Chip
  <2>2. PICK e \in Beside(c, i) :
          e = Noted(d, i, None) /\ e[i] = Put(d[i], "mode", None)
    <3>1. None \in Modes \cup {None}
      OBVIOUS
    <3> QED
      BY <3>1, NotedBeside
  <2>3. Sleep(d, i) = SleepOps(e, i, m) /\ SleepOf(d[i]) = SleptOf(e[i], m)
    BY <1>2, <2>1, <2>2 DEF Sleep, SleepOf
  <2>4. Leaves(Run(e, Demod(i, "out", FALSE)), c, i, Put(e[i], "out", FALSE))
    BY Registers, RunLeaves
  <2> DEFINE r == Then(Run(e, Demod(i, "out", FALSE)), Demod(i, "pins", FALSE))
             x == Put(Put(e[i], "out", FALSE), "pins", FALSE)
  <2>5. Leaves(r, c, i, x)
    BY <2>4, Registers, ThenLeaves
  <2> HIDE DEF r, x
  <2>6. Leaves(Then(r, Demod(i, Side(m), FALSE)), c, i, Put(x, Side(m), FALSE))
    BY <2>5, Registers, ThenLeaves
  <2>7. Leaves(Then(Then(r, Demod(i, Side(m), FALSE)), Demod(i, "core", "asleep")), c, i,
               Put(Put(x, Side(m), FALSE), "core", "asleep"))
    BY <2>6, Registers, ThenLeaves
  <2> QED
    BY <2>3, <2>7 DEF SleepOps, SleptOf, r, x
<1> QED
  BY <1>1, <1>2

LEMMA WokenLeaves ==
  ASSUME NEW c, NEW i \in Chips, NEW d \in Beside(c, i), NEW m \in Modes
  PROVE  Leaves(Woken(d, i, m), c, i, WokenOf(d[i], m))
<1>1. Leaves(WakeOps(d, i, m), c, i, AwakeOf(d[i], m))
  <2>1. Leaves(Run(d, Demod(i, "core", m)), c, i, Put(d[i], "core", m))
    BY Registers, RunLeaves
  <2>2. Leaves(Then(Run(d, Demod(i, "core", m)), Demod(i, Side(m), TRUE)), c, i,
               Put(Put(d[i], "core", m), Side(m), TRUE))
    BY <2>1, Registers, ThenLeaves
  <2> QED
    BY <2>2, Registers, ThenLeaves DEF WakeOps, AwakeOf
<1>2. ASSUME NEW r \in WakeOps(d, i, m), r.ok
      PROVE  Leaves(Done(Noted(r.c, i, m)), c, i, WokenOf(d[i], m))
  <2>1. r.c \in Beside(c, i) /\ r.c[i] = AwakeOf(d[i], m)
    BY <1>1, <1>2 DEF Leaves
  <2>2. PICK e \in Beside(c, i) :
          e = Noted(r.c, i, m) /\ e[i] = Put(r.c[i], "mode", m)
    <3>1. m \in Modes \cup {None}
      OBVIOUS
    <3>2. Noted(r.c, i, m) \in Beside(c, i)
          /\ Noted(r.c, i, m)[i] = Put(r.c[i], "mode", m)
      BY <2>1, <3>1, NotedBeside
    <3> QED
      BY <3>2
  <2> QED
    BY <2>1, <2>2, DoneLeaves DEF WokenOf
<1> QED
  BY <1>1, <1>2 DEF Woken, AndThen, Leaves

LEMMA WakeupLeaves ==
  ASSUME NEW c, NEW i \in Chips, NEW d \in Beside(c, i), NEW m \in Modes
  PROVE  Leaves(Wakeup(d, i, m), c, i, WakeupOf(d[i], m))
<1>1. Leaves(Sleep(d, i), c, i, SleepOf(d[i]))
  BY SleepLeaves
<1>2. ASSUME NEW r \in Sleep(d, i), r.ok
      PROVE  Leaves(Woken(r.c, i, m), c, i, WakeupOf(d[i], m))
  <2>1. r.c \in Beside(c, i) /\ r.c[i] = SleepOf(d[i])
    BY <1>1, <1>2 DEF Leaves
  <2> QED
    BY <2>1, WokenLeaves DEF WakeupOf
<1> QED
  BY <1>1, <1>2 DEF Wakeup, AndThen, Leaves

\* The tuner chip: what is done behind the gate is done with the gate open.
LEMMA GateLeaves ==
  ASSUME NEW c, NEW i \in Chips, NEW d \in Beside(c, i)
  PROVE  /\ Leaves(Run(d, Demod(i, "gate", TRUE)), c, i, Opened(d[i]))
         /\ \A r \in Run(d, Demod(i, "gate", TRUE)) :
              r.ok => r.c \in Beside(c, i) /\ r.c[i] = Opened(d[i]) /\ r.c[i].gate
<1>1. Leaves(Run(d, Demod(i, "gate", TRUE)), c, i, Opened(d[i]))
  BY Registers, RunLeaves DEF Opened
<1>2. d[i] \in Chip => Opened(d[i]).gate
  BY DEF Opened, Put, Chip
<1> QED
  BY <1>1, <1>2 DEF Leaves, Beside, States

LEMMA StopLeaves ==
  ASSUME NEW c, NEW i \in Chips, NEW d \in Beside(c, i), d[i].gate
  PROVE  Leaves(Stop(d, i), c, i, StopOf(d[i]))
<1>0. d[i] \in Chip
  BY DEF Beside, States
<1>1. CASE d[i].tmode = None
  BY <1>1, DoneLeaves DEF Stop, StopOf
<1>2. CASE d[i].tmode # None
  <2>1. PICK m \in Modes : m = d[i].tmode
    BY <1>0, <1>2 DEF Chip
  <2>2. None \in Modes \cup {None} /\ None \in Khzs
    BY DEF Khzs
  <2>3. PICK e \in Beside(c, i) :
          e = TunerNoted(d, i, None) /\ e[i] = Put(d[i], "tmode", None)
    BY <2>2, NotedBeside
  <2>4. e[i].gate
    BY <1>0, <2>3 DEF Put, Chip
  <2>5. Leaves(Run(e, Tuner(i, TunerSide(m), None)), c, i, Put(e[i], TunerSide(m), None))
    BY <2>2, <2>4, Registers, RunLeaves
  <2> QED
    BY <1>2, <2>1, <2>3, <2>5 DEF Stop, StopOf
<1> QED
  BY <1>1, <1>2

LEMMA TermLeaves ==
  ASSUME NEW c, NEW i \in Chips, NEW d \in Beside(c, i)
  PROVE  Leaves(Term(d, i), c, i, TermOf(d[i]))
<1>1. CASE d[i].tmode = None
  BY <1>1, DoneLeaves DEF Term, TermOf
<1>2. CASE d[i].tmode # None
  <2>1. ASSUME NEW r \in Run(d, Demod(i, "gate", TRUE)), r.ok
        PROVE  Leaves(Close(Stop(r.c, i), i), c, i, TermOf(d[i]))
    <3>1. r.c \in Beside(c, i) /\ r.c[i] = Opened(d[i]) /\ r.c[i].gate
      BY <2>1, GateLeaves
    <3>2. Leaves(Stop(r.c, i), c, i, StopOf(Opened(d[i])))
      BY <3>1, StopLeaves
    <3> QED
      BY <1>2, <3>2, CloseLeaves DEF TermOf, Shut
  <2> QED
    BY <1>2, <2>1, GateLeaves DEF Term, Gated, AndThen, Leaves
<1> QED
  BY <1>1, <1>2

LEMMA SetLeaves ==
  ASSUME NEW c, NEW i \in Chips, NEW d \in Beside(c, i), d[i].gate, NEW m \in Modes,
         NEW khz \in Khzs
  PROVE  Leaves(Set(d, i, m, khz), c, i, SetOf(d[i], m, khz))
<1> DEFINE stopped == IF d[i].tmode \notin {None, m} THEN Stop(d, i) ELSE Done(d)
           set     == Then(stopped, Tuner(i, TunerSide(m), khz))
<1>1. Leaves(stopped, c, i, StoppedOf(d[i], m))
  BY StopLeaves, DoneLeaves DEF StoppedOf
<1>2. StoppedOf(d[i], m).gate
  <2>1. d[i] \in Chip
    BY DEF Beside, States
  <2>2. StopOf(d[i]).gate
    BY <2>1, ParamsAssumption DEF StopOf, Put, Chip, TunerSide
  <2> QED
    BY <2>2 DEF StoppedOf
<1> HIDE DEF stopped
<1>3. Leaves(set, c, i, Put(StoppedOf(d[i], m), TunerSide(m), khz))
  BY <1>1, <1>2, Registers, ThenLeaves
<1> HIDE DEF set
<1>4. ASSUME NEW r \in set, r.ok
      PROVE  Leaves(Done(TunerNoted(r.c, i, m)), c, i, SetOf(d[i], m, khz))
  <2>1. r.c \in Beside(c, i) /\ r.c[i] = Put(StoppedOf(d[i], m), TunerSide(m), khz)
    BY <1>3, <1>4 DEF Leaves
  <2>2. PICK e \in Beside(c, i) :
          e = TunerNoted(r.c, i, m) /\ e[i] = Put(r.c[i], "tmode", m)
    <3>1. m \in Modes \cup {None}
      OBVIOUS
    <3>2. TunerNoted(r.c, i, m) \in Beside(c, i)
          /\ TunerNoted(r.c, i, m)[i] = Put(r.c[i], "tmode", m)
      BY <2>1, <3>1, NotedBeside
    <3> QED
      BY <3>2
  <2> QED
    BY <2>1, <2>2, DoneLeaves DEF SetOf
<1>5. Set(d, i, m, khz) = AndThen(set, LAMBDA e : Done(TunerNoted(e, i, m)))
  BY DEF Set, set, stopped
<1> QED
  BY <1>3, <1>4, <1>5 DEF AndThen, Leaves

LEMMA TunerTuneLeaves ==
  ASSUME NEW c, NEW i \in Chips, NEW d \in Beside(c, i), NEW m \in Modes, NEW khz \in Khzs
  PROVE  Leaves(TunerTune(d, i, m, khz), c, i, TunerTuneOf(d[i], m, khz))
<1>1. ASSUME NEW r \in Run(d, Demod(i, "gate", TRUE)), r.ok
      PROVE  Leaves(Close(Set(r.c, i, m, khz), i), c, i, TunerTuneOf(d[i], m, khz))
  <2>1. r.c \in Beside(c, i) /\ r.c[i] = Opened(d[i]) /\ r.c[i].gate
    BY <1>1, GateLeaves
  <2>2. Leaves(Set(r.c, i, m, khz), c, i, SetOf(Opened(d[i]), m, khz))
    BY <2>1, SetLeaves
  <2> QED
    BY <2>2, CloseLeaves DEF TunerTuneOf, Shut
<1> QED
  BY <1>1, GateLeaves DEF TunerTune, Gated, AndThen, Leaves

LEMMA InitLeaves ==
  ASSUME NEW i \in Chips, chip \in States
  PROVE  Leaves(InitChip(i), chip, i, InitOf(chip[i]))
<1>0. chip \in Beside(chip, i) /\ None \in Modes \cup {None} /\ None \in Khzs
  BY DEF Beside, Khzs
<1>1. Leaves(DemodInit(chip, i), chip, i, DemodInitOf(chip[i]))
  <2>1. Noted(chip, i, None) \in Beside(chip, i)
        /\ Noted(chip, i, None)[i] = Put(chip[i], "mode", None)
    BY <1>0, NotedBeside
  <2> QED
    BY <2>1, Registers, RunLeaves DEF DemodInit, DemodInitOf
<1>2. ASSUME NEW d \in Beside(chip, i)
      PROVE  Leaves(TunerInit(d, i), chip, i, TunerInitOf(d[i]))
  <2>1. PICK e \in Beside(chip, i) : e = TunerNoted(d, i, None) /\ e[i] = Put(d[i], "tmode", None)
    BY <1>0, NotedBeside
  <2>2. ASSUME NEW r \in Run(e, Demod(i, "gate", TRUE)), r.ok
        PROVE  Leaves(Close(PowerOn(r.c, i), i), chip, i, TunerInitOf(d[i]))
    <3>1. r.c \in Beside(chip, i) /\ r.c[i] = Opened(e[i]) /\ r.c[i].gate /\ r.c[i] \in Chip
      <4>1. r.c \in Beside(chip, i) /\ r.c[i] = Opened(e[i]) /\ r.c[i].gate
        BY <2>2, GateLeaves
      <4> QED
        BY <4>1 DEF Beside, States
    <3>2. Leaves(Run(r.c, Tuner(i, "tunerT", None)), chip, i, Put(r.c[i], "tunerT", None))
      BY <1>0, <3>1, Registers, RunLeaves
    <3>3. Put(r.c[i], "tunerT", None).gate
      BY <3>1 DEF Put, Chip
    <3>4. Leaves(PowerOn(r.c, i), chip, i, PowerOnOf(r.c[i]))
      BY <1>0, <3>2, <3>3, Registers, ThenLeaves DEF PowerOn, PowerOnOf
    <3> QED
      BY <2>1, <3>1, <3>4, CloseLeaves DEF TunerInitOf, Shut
  <2> QED
    <3>1. TunerInit(d, i) = AndThen(Run(e, Demod(i, "gate", TRUE)),
                                    LAMBDA c : Close(PowerOn(c, i), i))
      BY <2>1 DEF TunerInit, Gated
    <3>2. Leaves(Run(e, Demod(i, "gate", TRUE)), chip, i, Opened(e[i]))
      BY <2>1, GateLeaves
    <3> QED
      BY <2>2, <3>1, <3>2 DEF AndThen, Leaves
<1> DEFINE set == AndThen(DemodInit(chip, i), LAMBDA c : TunerInit(c, i))
<1>3. Leaves(set, chip, i, InitOf(chip[i]))
  <2>1. ASSUME NEW r \in DemodInit(chip, i), r.ok
        PROVE  Leaves(TunerInit(r.c, i), chip, i, InitOf(chip[i]))
    BY <1>1, <1>2, <2>1 DEF Leaves, InitOf
  <2> QED
    BY <1>1, <2>1 DEF AndThen, Leaves
<1>4. InitChip(i) = AndThen(set, Setup)
  BY DEF InitChip
<1> HIDE DEF set
<1>5. ASSUME NEW r \in set, r.ok
      PROVE  Leaves(Setup(r.c), chip, i, InitOf(chip[i]))
  <2>1. r.c \in Beside(chip, i) /\ r.c[i] = InitOf(chip[i])
    BY <1>3, <1>5 DEF Leaves
  <2>2. \A q \in Setup(r.c) : \E ok \in BOOLEAN : q = [c |-> r.c, ok |-> ok]
    BY DEF Setup
  <2>3. \A ok \in BOOLEAN : /\ [c |-> r.c, ok |-> ok] \in [c : Beside(chip, i), ok : BOOLEAN]
                            /\ [c |-> r.c, ok |-> ok].c = r.c
    BY <2>1
  <2> QED
    BY <2>1, <2>2, <2>3 DEF Leaves
<1> QED
  BY <1>3, <1>4, <1>5 DEF AndThen, Leaves

LEMMA RestLeaves ==
  ASSUME NEW i \in Chips, chip \in States
  PROVE  Leaves(Rest(chip, i), chip, i, RestOf(chip[i]))
<1> SUFFICES ASSUME NEW p \in Rest(chip, i)
             PROVE  p \in [c : Beside(chip, i), ok : BOOLEAN]
                    /\ (p.ok => p.c[i] = RestOf(chip[i]))
  BY DEF Leaves
<1>0. PICK r \in Term(chip, i) : \E q \in Sleep(r.c, i) : p = [q EXCEPT !.ok = @ /\ r.ok]
  BY DEF Rest, InAnyCase
<1>1. PICK q \in Sleep(r.c, i) : p = [q EXCEPT !.ok = @ /\ r.ok]
  BY <1>0
<1>2. chip \in Beside(chip, i)
  BY DEF Beside
<1>3. Leaves(Term(chip, i), chip, i, TermOf(chip[i]))
  BY <1>2, TermLeaves
<1>4. r.c \in Beside(chip, i) /\ r.ok \in BOOLEAN /\ (r.ok => r.c[i] = TermOf(chip[i]))
  BY <1>3 DEF Leaves
<1>5. Leaves(Sleep(r.c, i), chip, i, SleepOf(r.c[i]))
  BY <1>4, SleepLeaves
<1>6. /\ q \in [c : Beside(chip, i), ok : BOOLEAN]
      /\ q.ok /\ r.ok => q.c[i] = RestOf(chip[i])
  BY <1>4, <1>5 DEF Leaves, RestOf
<1> QED
  BY <1>1, <1>4, <1>6, BothLeave

LEMMA SetChipsLeaves ==
  ASSUME NEW i \in Chips, NEW p \in Params, chip \in States
  PROVE  Leaves(SetChips(i, p), chip, i, TunedOf(chip[i], p))
<1> DEFINE picked == IF p.id = None THEN Done(chip) ELSE Run(chip, Demod(i, "id", p.id))
           woken  == AndThen(picked, LAMBDA c : Wakeup(c, i, p.mode))
           set    == AndThen(woken, LAMBDA c : TunerTune(c, i, p.mode, p.khz))
           x      == PickedOf(chip[i], p.id)
           y      == WakeupOf(x, p.mode)
           z      == TunerTuneOf(y, p.mode, p.khz)
<1>0. chip \in Beside(chip, i) /\ p.mode \in Modes /\ p.khz \in Khzs /\ p.id \in Ids
  BY ParamsAssumption DEF Beside, Modes, Khzs, Ids
<1>1. Leaves(picked, chip, i, x)
  BY <1>0, DoneLeaves, RunLeaves, Registers DEF PickedOf
<1> HIDE DEF picked, x
<1>2. Leaves(woken, chip, i, y)
  <2>1. ASSUME NEW r \in picked, r.ok
        PROVE  Leaves(Wakeup(r.c, i, p.mode), chip, i, y)
    <3>1. r.c \in Beside(chip, i) /\ r.c[i] = x
      BY <1>1, <2>1 DEF Leaves
    <3> QED
      BY <1>0, <3>1, WakeupLeaves
  <2> QED
    BY <1>1, <2>1 DEF AndThen, Leaves
<1> HIDE DEF woken, y
<1>3. Leaves(set, chip, i, z)
  <2>1. ASSUME NEW r \in woken, r.ok
        PROVE  Leaves(TunerTune(r.c, i, p.mode, p.khz), chip, i, z)
    <3>1. r.c \in Beside(chip, i) /\ r.c[i] = y
      BY <1>2, <2>1 DEF Leaves
    <3> QED
      BY <1>0, <3>1, TunerTuneLeaves
  <2> QED
    BY <1>2, <2>1 DEF AndThen, Leaves
<1> HIDE DEF set, z
<1>4. Leaves(Then(set, Demod(i, "out", TRUE)), chip, i, Put(z, "out", TRUE))
  BY <1>3, Registers, ThenLeaves
<1> QED
  BY <1>4 DEF SetChips, TunedOf, set, woken, picked, x, y, z

-----------------------------------------------------------------------------
(* What the properties say of the chips of one tuner.                      *)

KeptAt(x, p) ==
  /\ x.mode = p.mode /\ x.core = p.mode /\ x[Side(p.mode)]
  /\ x[TunerSide(p.mode)] = p.khz
  /\ p.id # None => x.id = p.id
  /\ x.pins /\ x.out /\ ~x.gate

\* The chips of a tuner run what the notes given say.
TrueAs(x, mode, tmode) ==
  /\ x.core = IF mode = None THEN "asleep" ELSE mode
  /\ x.t = (mode = "T") /\ x.s = (mode = "S")
  /\ x.pins = (mode # None) /\ (mode = None => ~x.out)
  /\ (x.tunerT # None) = (tmode = "T") /\ (x.tunerS # None) = (tmode = "S")
  /\ ~x.gate

TrueOf(x)  == TrueAs(x, x.mode, x.tmode)
Resting(x) == TrueAs(x, None, None)

LEMMA SleepIsTrue ==
  ASSUME NEW x \in Chip, TrueOf(x)
  PROVE  /\ SleepOf(x) \in Chip /\ TrueOf(SleepOf(x)) /\ SleepOf(x).mode = None
         /\ SleepOf(x).tmode = x.tmode
  BY ParamsAssumption, ZenonT(30) DEF SleepOf, SleptOf, Put, Chip, TrueOf, TrueAs, Side, Modes

LEMMA WokenIsTrue ==
  ASSUME NEW x \in Chip, TrueOf(x), x.mode = None, NEW m \in Modes
  PROVE  WokenOf(x, m) \in Chip /\ TrueOf(WokenOf(x, m))
  BY ParamsAssumption, ZenonT(30) DEF WokenOf, AwakeOf, Put, Chip, TrueOf, TrueAs, Side, Modes

LEMMA TermIsTrue ==
  ASSUME NEW x \in Chip, TrueOf(x)
  PROVE  TermOf(x) \in Chip /\ TrueOf(TermOf(x)) /\ TermOf(x).tmode = None
  BY ParamsAssumption DEF TermOf, StopOf, Opened, Shut, Put, Chip, TrueOf, TrueAs, TunerSide, Modes, Khzs

\* But for the gate, which is open as a tuner chip is set.
LEMMA StoppedIsTrue ==
  ASSUME NEW x \in Chip, TrueOf(x), NEW m \in Modes
  PROVE  LET y == StoppedOf(Opened(x), m) IN
           /\ y \in Chip /\ y.gate /\ TrueOf(Shut(y)) /\ y.mode = x.mode /\ y.tmode \in {None, m}
  BY ParamsAssumption, ZenonT(30)
     DEF StoppedOf, StopOf, Opened, Shut, Put, Chip, TrueOf, TrueAs, TunerSide, Modes, Khzs

LEMMA SetIsTrue ==
  ASSUME NEW y \in Chip, y.gate, TrueOf(Shut(y)), NEW m \in Modes, y.tmode \in {None, m},
         NEW k \in Khzs, k # None
  PROVE  LET z == Shut(Put(Put(y, TunerSide(m), k), "tmode", m)) IN
           z \in Chip /\ TrueOf(z) /\ z.mode = y.mode
<1>1. CASE m = "T"
  BY <1>1, ParamsAssumption, ZenonT(30) DEF Shut, Put, Chip, TrueOf, TrueAs, TunerSide, Modes
<1>2. CASE m = "S"
  BY <1>2, ParamsAssumption, ZenonT(30) DEF Shut, Put, Chip, TrueOf, TrueAs, TunerSide, Modes
<1> QED
  BY <1>1, <1>2 DEF Modes

LEMMA TunerTuneIsTrue ==
  ASSUME NEW x \in Chip, TrueOf(x), NEW m \in Modes, NEW k \in Khzs, k # None
  PROVE  TunerTuneOf(x, m, k) \in Chip /\ TrueOf(TunerTuneOf(x, m, k))
         /\ TunerTuneOf(x, m, k).mode = x.mode
  BY StoppedIsTrue, SetIsTrue DEF TunerTuneOf, SetOf

LEMMA InitIsTrue ==
  ASSUME NEW x \in Chip, Resting(x)
  PROVE  TrueOf(InitOf(x))
  BY ParamsAssumption
     DEF InitOf, DemodInitOf, TunerInitOf, PowerOnOf, Opened, Shut, Put, Chip, TrueOf, TrueAs, Resting, Modes

LEMMA RestIsTrue ==
  ASSUME NEW x \in Chip, TrueOf(x)
  PROVE  Resting(RestOf(x))
<1>1. TrueOf(RestOf(x)) /\ RestOf(x).mode = None /\ RestOf(x).tmode = None
  BY TermIsTrue, SleepIsTrue DEF RestOf
<1> QED
  BY <1>1 DEF TrueOf, Resting

LEMMA TunedIsTrue ==
  ASSUME NEW x \in Chip, TrueOf(x), NEW p \in Params
  PROVE  TrueOf(TunedOf(x, p))
<1> DEFINE y == PickedOf(x, p.id)
           z == TunerTuneOf(WakeupOf(y, p.mode), p.mode, p.khz)
<1>0. p.mode \in Modes /\ p.khz \in Khzs /\ p.khz # None /\ p.id \in Ids
  BY ParamsAssumption DEF Modes, Khzs, Ids
<1>1. y \in Chip /\ TrueOf(y)
  BY <1>0 DEF PickedOf, Put, Chip, TrueOf, TrueAs
<1> HIDE DEF y
<1>2. WakeupOf(y, p.mode) \in Chip /\ TrueOf(WakeupOf(y, p.mode))
  BY <1>0, <1>1, SleepIsTrue, WokenIsTrue DEF WakeupOf
<1>3. WakeupOf(y, p.mode).mode # None
  BY <1>0, <1>1, SleepIsTrue, ParamsAssumption DEF WakeupOf, WokenOf, AwakeOf, Put, Chip, Modes, Side
<1>4. z \in Chip /\ TrueOf(z) /\ z.mode # None
  BY <1>0, <1>2, <1>3, TunerTuneIsTrue
<1> HIDE DEF z
<1>5. TrueOf(Put(z, "out", TRUE))
  BY <1>4 DEF Put, Chip, TrueOf, TrueAs
<1> QED
  BY <1>5 DEF TunedOf, y, z

\* Whatever they were before.
LEMMA WakeupIsKept ==
  ASSUME NEW x \in Chip, NEW m \in Modes
  PROVE  LET y == WakeupOf(x, m) IN
           /\ y \in Chip /\ y.mode = m /\ y.core = m /\ y[Side(m)] /\ y.pins
           /\ y.id = x.id
<1>1. SleepOf(x) \in Chip /\ SleepOf(x).id = x.id
  BY ParamsAssumption, ZenonT(30) DEF SleepOf, SleptOf, Put, Chip, Side, Modes
<1>2. ASSUME NEW y \in Chip
      PROVE  LET z == WokenOf(y, m) IN
               /\ z \in Chip /\ z.mode = m /\ z.core = m /\ z[Side(m)] /\ z.pins
               /\ z.id = y.id
  <2>1. CASE m = "T"
    BY <2>1, ZenonT(30) DEF WokenOf, AwakeOf, Put, Chip, Side, Modes
  <2>2. CASE m = "S"
    BY <2>2, ZenonT(30) DEF WokenOf, AwakeOf, Put, Chip, Side, Modes
  <2> QED
    BY <2>1, <2>2 DEF Modes
<1> QED
  BY <1>1, <1>2 DEF WakeupOf

LEMMA StoppedIsKept ==
  ASSUME NEW x \in Chip, NEW m \in Modes
  PROVE  LET y == StoppedOf(Opened(x), m) IN
           /\ y \in Chip /\ y.mode = x.mode /\ y.core = x.core /\ y.t = x.t /\ y.s = x.s
           /\ y.pins = x.pins /\ y.id = x.id
  BY ParamsAssumption, ZenonT(30) DEF StoppedOf, StopOf, Opened, Put, Chip, TunerSide, Modes, Khzs

LEMMA SetIsKept ==
  ASSUME NEW y \in Chip, NEW m \in Modes, NEW k \in Khzs
  PROVE  LET z == Put(Shut(Put(Put(y, TunerSide(m), k), "tmode", m)), "out", TRUE) IN
           /\ z[TunerSide(m)] = k /\ z.out /\ ~z.gate
           /\ z.mode = y.mode /\ z.core = y.core /\ z.t = y.t /\ z.s = y.s
           /\ z.pins = y.pins /\ z.id = y.id
<1>1. CASE m = "T"
  BY <1>1 DEF Shut, Put, Chip, TunerSide, Modes
<1>2. CASE m = "S"
  BY <1>2 DEF Shut, Put, Chip, TunerSide, Modes
<1> QED
  BY <1>1, <1>2 DEF Modes

LEMMA TunedIsKeptAt ==
  ASSUME NEW x \in Chip, NEW p \in Params
  PROVE  KeptAt(TunedOf(x, p), p)
<1> DEFINE m == p.mode
           v == PickedOf(x, p.id)
           w == WakeupOf(v, m)
           y == StoppedOf(Opened(w), m)
           z == Put(Shut(Put(Put(y, TunerSide(m), p.khz), "tmode", m)), "out", TRUE)
<1>0. m \in Modes /\ p.khz \in Khzs /\ p.id \in Ids
  BY ParamsAssumption DEF Modes, Khzs, Ids
<1>1. v \in Chip /\ (p.id # None => v.id = p.id)
  BY <1>0 DEF PickedOf, Put, Chip
<1>2. z = TunedOf(x, p)
  BY DEF TunedOf, TunerTuneOf, SetOf
<1> HIDE DEF v
<1>3. w \in Chip /\ w.mode = m /\ w.core = m /\ w[Side(m)] /\ w.pins /\ w.id = v.id
  BY <1>0, <1>1, WakeupIsKept
<1> HIDE DEF w
<1>4. /\ y \in Chip /\ y.mode = w.mode /\ y.core = w.core /\ y.t = w.t /\ y.s = w.s
      /\ y.pins = w.pins /\ y.id = w.id
  BY <1>0, <1>3, StoppedIsKept
<1> HIDE DEF y
<1>5. /\ z[TunerSide(m)] = p.khz /\ z.out /\ ~z.gate
      /\ z.mode = y.mode /\ z.core = y.core /\ z.t = y.t /\ z.s = y.s
      /\ z.pins = y.pins /\ z.id = y.id
  BY <1>0, <1>4, SetIsKept
<1> HIDE DEF z
<1>6. z[Side(m)]
  BY <1>0, <1>3, <1>4, <1>5 DEF Side
<1> QED
  BY <1>1, <1>2, <1>3, <1>4, <1>5, <1>6 DEF KeptAt

-----------------------------------------------------------------------------
(* The board                                                               *)

LEMMA Tellings ==
  /\ TunedIsKept /\ TunedIsShut <=>
       \A i \in Chips : got[i] # None => power /\ i \in opened /\ KeptAt(chip[i], got[i])
  /\ NotesAreTrue <=>
       \A i \in Chips \ cut :
         (i \in opened => TrueOf(chip[i])) /\ (i \notin opened => Resting(chip[i]))
<1>1. TunedIsKept /\ TunedIsShut <=>
        \A i \in Chips : got[i] # None => power /\ i \in opened /\ KeptAt(chip[i], got[i])
  BY DEF TunedIsKept, TunedIsShut, KeptAt
<1>2. NotesAreTrue <=>
        \A i \in Chips \ cut :
          TrueAs(chip[i], IF i \in opened THEN chip[i].mode ELSE None,
                          IF i \in opened THEN chip[i].tmode ELSE None)
  BY Zenon DEF NotesAreTrue, TrueAs
<1>3. \A i \in Chips :
        TrueAs(chip[i], IF i \in opened THEN chip[i].mode ELSE None,
                        IF i \in opened THEN chip[i].tmode ELSE None)
        <=> (i \in opened => TrueOf(chip[i])) /\ (i \notin opened => Resting(chip[i]))
  <2>1. ASSUME NEW i \in Chips, i \in opened
        PROVE  TrueAs(chip[i], IF i \in opened THEN chip[i].mode ELSE None,
                               IF i \in opened THEN chip[i].tmode ELSE None) <=> TrueOf(chip[i])
    BY <2>1 DEF TrueOf
  <2>2. ASSUME NEW i \in Chips, i \notin opened
        PROVE  TrueAs(chip[i], IF i \in opened THEN chip[i].mode ELSE None,
                               IF i \in opened THEN chip[i].tmode ELSE None) <=> Resting(chip[i])
    BY <2>2 DEF Resting
  <2> QED
    BY <2>1, <2>2, Zenon
<1> QED
  BY <1>1, <1>2, <1>3, Zenon

LEMMA TellingsOfNotes ==
  (\A i \in Chips \ cut' :
    (i \in opened' => TrueOf(chip'[i])) /\ (i \notin opened' => Resting(chip'[i])))
  => NotesAreTrue'
<1> SUFFICES ASSUME \A i \in Chips \ cut' :
                      (i \in opened' => TrueOf(chip'[i])) /\ (i \notin opened' => Resting(chip'[i]))
             PROVE  NotesAreTrue'
  OBVIOUS
<1>1. \A i \in Chips \ cut' :
        TrueAs(chip'[i], IF i \in opened' THEN chip'[i].mode ELSE None,
                         IF i \in opened' THEN chip'[i].tmode ELSE None)
  <2>1. ASSUME NEW i \in Chips \ cut', i \in opened'
        PROVE  TrueAs(chip'[i], IF i \in opened' THEN chip'[i].mode ELSE None,
                                IF i \in opened' THEN chip'[i].tmode ELSE None)
    BY <2>1 DEF TrueOf
  <2>2. ASSUME NEW i \in Chips \ cut', i \notin opened'
        PROVE  TrueAs(chip'[i], IF i \in opened' THEN chip'[i].mode ELSE None,
                                IF i \in opened' THEN chip'[i].tmode ELSE None)
    BY <2>2 DEF Resting
  <2> QED
    BY <2>1, <2>2, Zenon
<1> QED
  BY <1>1, Zenon DEF NotesAreTrue, TrueAs

LEMMA InitHolds == Init => IInv
<1> SUFFICES ASSUME Init PROVE IInv
  OBVIOUS
<1>1. AtRest \in Chip
  BY DEF AtRest, Chip, Ids, Khzs
<1>2. Resting(AtRest)
  BY ParamsAssumption DEF AtRest, TrueAs, Resting
<1>3. TypeOK
  <2>1. chip \in States
    BY <1>1 DEF Init, States
  <2>2. fails \in 0 .. MaxFails
    BY FailsAssumption DEF Init
  <2> QED
    BY <2>1, <2>2 DEF Init, TypeOK
<1>4. \A i \in Chips : got[i] = None /\ chip[i] = AtRest
  BY DEF Init
<1> QED
  BY <1>2, <1>3, <1>4, Tellings DEF IInv, OpenIsPowered, Init

\* The other tuners, as one has a run of commands done.
LEMMA OthersAreAside ==
  ASSUME IInv, NEW i \in Chips, NEW c \in Beside(chip, i)
  PROVE  \A j \in Chips \ {i} : got[j] # None \/ j \notin cut => c[j] = chip[j]
<1>1. \A j \in Chips : got[j] # None \/ j \notin cut => ~chip[j].gate
  BY DEF IInv, TunedIsShut, NotesAreTrue
<1> QED
  BY <1>1 DEF Beside

LEMMA ComesTyped ==
  ASSUME IInv, NEW i \in Chips, NEW runs, NEW x, Leaves(runs, chip, i, x),
         NEW r \in runs, Comes(r, i)
  PROVE  /\ chip' = r.c /\ chip' \in States /\ chip' \in Beside(chip, i)
         /\ cut' \in SUBSET Chips /\ fails' \in 0 .. MaxFails
         /\ r.ok => chip'[i] = x /\ cut' = cut
         /\ ~r.ok => cut' = cut \cup {i}
<1>1. r.c \in Beside(chip, i) /\ r.ok \in BOOLEAN /\ (r.ok => r.c[i] = x)
  BY DEF Leaves
<1>2. chip' = r.c /\ r.c \in States
  BY <1>1 DEF Comes, Beside
<1>3. fails' \in 0 .. MaxFails
  BY FailsAssumption DEF Comes, IInv, TypeOK
<1>4. (r.ok => cut' = cut) /\ (~r.ok => cut' = cut \cup {i})
  BY DEF Comes
<1>5. cut' \in SUBSET Chips
  BY <1>4 DEF IInv, TypeOK
<1> QED
  BY <1>1, <1>2, <1>3, <1>4, <1>5

\* What one call leaves on a board that stays powered.
LEMMA ComesHolds ==
  ASSUME IInv, NEW i \in Chips, NEW runs, NEW x, Leaves(runs, chip, i, x),
         NEW r \in runs, Comes(r, i),
         opened' \in SUBSET Chips, opened' \cup {i} = opened \cup {i},
         power' \in BOOLEAN, power => power', opened' # {} => power',
         system' \in [Chips -> {"none", "set", "locking"}],
         got' \in [Chips -> Params \cup {None}], \A j \in Chips \ {i} : got'[j] = got[j],
         got'[i] # None => r.ok /\ power' /\ i \in opened' /\ KeptAt(x, got'[i]),
         r.ok /\ i \notin cut =>
           (i \in opened' => TrueOf(x)) /\ (i \notin opened' => Resting(x))
  PROVE  IInv'
<1>0. /\ chip' = r.c /\ chip' \in States /\ chip' \in Beside(chip, i)
      /\ cut' \in SUBSET Chips /\ fails' \in 0 .. MaxFails
      /\ r.ok => chip'[i] = x /\ cut' = cut
      /\ ~r.ok => cut' = cut \cup {i}
  BY ComesTyped
<1>1. TypeOK'
  BY <1>0 DEF TypeOK
<1>2. \A j \in Chips \ {i} : got[j] # None \/ j \notin cut => chip'[j] = chip[j]
  BY <1>0, OthersAreAside
<1>3. \A j \in Chips \ {i} : j \in opened' <=> j \in opened
  OBVIOUS
<1>4. ASSUME NEW j \in Chips, got'[j] # None
      PROVE  power' /\ j \in opened' /\ KeptAt(chip'[j], got'[j])
  <2>1. CASE j = i
    BY <1>0, <1>4, <2>1
  <2>2. CASE j # i
    <3>1. got'[j] = got[j] /\ chip'[j] = chip[j]
      BY <1>2, <1>4, <2>2
    <3>2. power /\ j \in opened /\ KeptAt(chip[j], got[j])
      BY <1>4, <3>1, Tellings DEF IInv
    <3> QED
      BY <1>3, <2>2, <3>1, <3>2
  <2> QED
    BY <2>1, <2>2
<1>5. ASSUME NEW j \in Chips \ cut'
      PROVE  (j \in opened' => TrueOf(chip'[j])) /\ (j \notin opened' => Resting(chip'[j]))
  <2>1. CASE j = i
    BY <1>0, <1>5, <2>1
  <2>2. CASE j # i
    <3>1. j \notin cut /\ chip'[j] = chip[j]
      BY <1>0, <1>2, <1>5, <2>2
    <3>2. (j \in opened => TrueOf(chip[j])) /\ (j \notin opened => Resting(chip[j]))
      BY <3>1, Tellings DEF IInv
    <3>3. j \in opened' <=> j \in opened
      BY <1>3, <2>2
    <3> QED
      BY <3>1, <3>2, <3>3
  <2> QED
    BY <2>1, <2>2
<1>6. (\A j \in Chips : got'[j] # None => power' /\ j \in opened' /\ KeptAt(chip'[j], got'[j]))
      => TunedIsKept' /\ TunedIsShut'
  BY DEF TunedIsKept, TunedIsShut, KeptAt
<1>7. (\A j \in Chips \ cut' :
         (j \in opened' => TrueOf(chip'[j])) /\ (j \notin opened' => Resting(chip'[j])))
      => NotesAreTrue'
  BY TellingsOfNotes
<1> QED
  BY <1>1, <1>4, <1>5, <1>6, <1>7 DEF IInv, OpenIsPowered

\* A board nobody has open: it is turned off, or stays powered as that fails.
LEMMA PowerOffHolds ==
  ASSUME IInv, NEW i \in Chips, NEW runs, NEW x, Leaves(runs, chip, i, x),
         NEW r \in runs, PowerOff(r, i), fails' <= MaxFails,
         opened' = {}, opened \subseteq {i},
         system' \in [Chips -> {"none", "set", "locking"}],
         got' = [j \in Chips |-> None],
         r.ok /\ i \notin cut => Resting(x)
  PROVE  IInv'
<1>1. r.c \in Beside(chip, i) /\ r.c \in States /\ r.ok \in BOOLEAN /\ (r.ok => r.c[i] = x)
  BY DEF Leaves, Beside
<1>2. fails' \in 0 .. MaxFails
  BY <1>1, FailsAssumption DEF PowerOff, IInv, TypeOK
<1>3. ASSUME chip' \in States, cut' \in SUBSET Chips, power' \in BOOLEAN,
             \A j \in Chips \ cut' : Resting(chip'[j])
      PROVE  IInv'
  <2>1. TypeOK'
    BY <1>2, <1>3 DEF TypeOK
  <2>2. NotesAreTrue'
    BY <1>3, TellingsOfNotes
  <2>3. TunedIsKept' /\ TunedIsShut'
    BY DEF TunedIsKept, TunedIsShut
  <2> QED
    BY <2>1, <2>2, <2>3 DEF IInv, OpenIsPowered
<1>4. CASE power' = FALSE /\ chip' = Unpowered(r.c) /\ cut' = {}
  <2>1. ASSUME NEW y \in Chip
        PROVE  LET n == [AtRest EXCEPT !.mode = y.mode, !.tmode = y.tmode]
               IN  n \in Chip /\ Resting(n)
    BY ParamsAssumption DEF AtRest, Chip, Ids, Khzs, TrueAs, Resting
  <2>2. chip' = [j \in Chips |-> [AtRest EXCEPT !.mode = r.c[j].mode, !.tmode = r.c[j].tmode]]
    BY <1>4 DEF Unpowered
  <2>3. \A j \in Chips : r.c[j] \in Chip
    BY <1>1 DEF States
  <2>4. chip' \in States /\ \A j \in Chips : Resting(chip'[j])
    BY <2>1, <2>2, <2>3 DEF States
  <2> QED
    BY <1>3, <1>4, <2>4
<1>5. CASE power' = TRUE /\ chip' = r.c /\ cut' = IF r.ok THEN cut ELSE cut \cup {i}
  <2>1. cut' \in SUBSET Chips
    BY <1>5 DEF IInv, TypeOK
  <2>2. ASSUME NEW j \in Chips \ cut' PROVE Resting(chip'[j])
    <3>1. CASE j = i
      <4>1. r.ok /\ i \notin cut
        BY <1>5, <2>2, <3>1
      <4> QED
        BY <1>1, <1>5, <3>1, <4>1
    <3>2. CASE j # i
      <4>1. j \notin cut /\ j \notin opened
        BY <1>5, <2>2, <3>2
      <4>2. r.c[j] = chip[j]
        BY <1>1, <3>2, <4>1, OthersAreAside
      <4>3. Resting(chip[j])
        BY <4>1, Tellings DEF IInv
      <4> QED
        BY <1>5, <4>2, <4>3
    <3> QED
      BY <3>1, <3>2
  <2> QED
    BY <1>1, <1>3, <1>5, <2>1, <2>2
<1> QED
  BY <1>4, <1>5 DEF PowerOff

LEMMA OpenHolds ==
  ASSUME IInv, NEW i \in Chips, Open(i)
  PROVE  IInv'
<1>1. PICK r \in InitChip(i) : r.ok /\ Comes(r, i)
  BY DEF Open
<1>2. Leaves(InitChip(i), chip, i, InitOf(chip[i]))
  BY InitLeaves DEF IInv, TypeOK
<1>3. i \notin opened /\ opened' = opened \cup {i} /\ power' = TRUE /\ UNCHANGED <<system, got>>
  BY DEF Open
<1>4. got[i] = None
  BY <1>3, Tellings DEF IInv
<1>5. i \notin cut => TrueOf(InitOf(chip[i]))
  BY <1>3, Tellings, InitIsTrue DEF IInv, TypeOK, States
<1>6. /\ opened' \in SUBSET Chips /\ opened' \cup {i} = opened \cup {i} /\ i \in opened'
      /\ system' \in [Chips -> {"none", "set", "locking"}]
      /\ got' \in [Chips -> Params \cup {None}] /\ got'[i] = None
      /\ \A j \in Chips \ {i} : got'[j] = got[j]
  BY <1>3, <1>4 DEF IInv, TypeOK
<1> DEFINE x == InitOf(chip[i])
<1> HIDE DEF x
<1>7. Leaves(InitChip(i), chip, i, x) /\ (i \notin cut => TrueOf(x))
  BY <1>2, <1>5 DEF x
<1> QED
  BY <1>1, <1>3, <1>6, <1>7, ComesHolds

LEMMA PowerFailsHolds ==
  ASSUME IInv, PowerFails
  PROVE  IInv'
<1>1. opened = {} /\ power' \in {power, TRUE} /\ fails' = fails + 1 /\ fails' <= MaxFails
      /\ UNCHANGED <<opened, system, got, chip, cut>>
  BY DEF PowerFails
<1>2. TypeOK'
  <2>1. fails' \in 0 .. MaxFails
    BY <1>1, FailsAssumption DEF IInv, TypeOK
  <2>2. power' \in BOOLEAN
    BY <1>1 DEF IInv, TypeOK
  <2> QED
    BY <1>1, <2>1, <2>2 DEF IInv, TypeOK
<1>3. \A i \in Chips : got[i] = None
  BY <1>1, Tellings DEF IInv
<1>4. TunedIsKept' /\ TunedIsShut'
  BY <1>1, <1>3 DEF TunedIsKept, TunedIsShut
<1>5. NotesAreTrue'
  BY <1>1 DEF IInv, NotesAreTrue
<1> QED
  BY <1>1, <1>2, <1>4, <1>5 DEF IInv, OpenIsPowered

LEMMA OpenFailsHolds ==
  ASSUME IInv, NEW i \in Chips, OpenFails(i)
  PROVE  IInv'
<1>1. PICK r \in InitChip(i) :
        /\ ~r.ok
        /\ IF opened = {} THEN PowerOff(r, i) ELSE Comes(r, i) /\ UNCHANGED power
  BY DEF OpenFails
<1>2. Leaves(InitChip(i), chip, i, InitOf(chip[i]))
  BY InitLeaves DEF IInv, TypeOK
<1>3. i \notin opened /\ UNCHANGED <<opened, system, got>> /\ fails' <= MaxFails
  BY DEF OpenFails
<1>4. /\ opened' \in SUBSET Chips /\ opened' \cup {i} = opened \cup {i}
      /\ system' \in [Chips -> {"none", "set", "locking"}]
      /\ got' \in [Chips -> Params \cup {None}]
      /\ \A j \in Chips \ {i} : got'[j] = got[j]
  BY <1>3 DEF IInv, TypeOK
<1>5. \A j \in Chips : j \notin opened => got'[j] = None
  BY <1>3, Tellings DEF IInv
<1>6. CASE opened = {}
  <2>2. got' = [j \in Chips |-> None]
    BY <1>4, <1>5, <1>6
  <2> QED
    BY <1>1, <1>2, <1>3, <1>4, <1>6, <2>2, PowerOffHolds
<1>7. CASE opened # {}
  <2> DEFINE x == InitOf(chip[i])
  <2> HIDE DEF x
  <2>1. Leaves(InitChip(i), chip, i, x)
    BY <1>2 DEF x
  <2>2. power' \in BOOLEAN /\ (power => power') /\ (opened' # {} => power') /\ Comes(r, i)
    BY <1>1, <1>3, <1>7 DEF IInv, TypeOK, OpenIsPowered
  <2>3. got'[i] = None
    BY <1>3, <1>5
  <2> QED
    BY <1>1, <1>4, <2>1, <2>2, <2>3, ComesHolds
<1> QED
  BY <1>6, <1>7

LEMMA ReleaseHolds ==
  ASSUME IInv, NEW i \in Chips, Release(i)
  PROVE  IInv'
<1>1. PICK r \in Rest(chip, i) :
        IF opened' = {} THEN PowerOff(r, i)
        ELSE Comes(r, i) /\ UNCHANGED power
  BY DEF Release
<1>2. Leaves(Rest(chip, i), chip, i, RestOf(chip[i]))
  BY RestLeaves DEF IInv, TypeOK
<1>3. /\ i \in opened /\ opened' = opened \ {i} /\ fails' <= MaxFails
      /\ system' = [system EXCEPT ![i] = "none"] /\ got' = [got EXCEPT ![i] = None]
  BY DEF Release
<1>4. /\ opened' \in SUBSET Chips /\ opened' \cup {i} = opened \cup {i}
      /\ system' \in [Chips -> {"none", "set", "locking"}]
      /\ got' \in [Chips -> Params \cup {None}] /\ got'[i] = None
      /\ \A j \in Chips \ {i} : got'[j] = got[j]
  BY <1>3 DEF IInv, TypeOK
<1>5. i \notin cut => Resting(RestOf(chip[i]))
  BY <1>3, Tellings, RestIsTrue DEF IInv, TypeOK, States
<1>6. CASE opened' = {}
  <2>1. PowerOff(r, i) /\ opened \subseteq {i}
    BY <1>1, <1>3, <1>6
  <2>2. \A j \in Chips : j \notin opened => got[j] = None
    BY Tellings DEF IInv
  <2>3. \A j \in Chips : got'[j] = None
    BY <1>3, <1>4, <1>6, <2>2
  <2>4. got' = [j \in Chips |-> None]
    BY <1>4, <2>3
  <2> DEFINE x == RestOf(chip[i])
  <2>5. Leaves(Rest(chip, i), chip, i, x) /\ (i \notin cut => Resting(x))
    BY <1>2, <1>5
  <2> HIDE DEF x
  <2> QED
    BY <1>3, <1>4, <1>6, <2>1, <2>4, <2>5, PowerOffHolds
<1>7. CASE opened' # {}
  <2> DEFINE x == RestOf(chip[i])
  <2> HIDE DEF x
  <2>1. Leaves(Rest(chip, i), chip, i, x) /\ (i \notin cut => Resting(x))
    BY <1>2, <1>5 DEF x
  <2>2. power' \in BOOLEAN /\ (power => power') /\ (opened' # {} => power') /\ Comes(r, i)
    BY <1>1, <1>3, <1>7 DEF IInv, TypeOK, OpenIsPowered
  <2>3. r.ok /\ i \notin cut =>
          (i \in opened' => TrueOf(x)) /\ (i \notin opened' => Resting(x))
    BY <1>3, <2>1
  <2> QED
    BY <1>4, <2>1, <2>2, <2>3, ComesHolds
<1> QED
  BY <1>6, <1>7

LEMMA TuneHolds ==
  ASSUME IInv, NEW i \in Chips, NEW p \in Params, Tune(i, p)
  PROVE  IInv'
<1>1. PICK r \in SetChips(i, p) :
        /\ Comes(r, i)
        /\ system' = [system EXCEPT ![i] = IF r.ok THEN "locking" ELSE "none"]
        /\ got' = [got EXCEPT ![i] = IF r.ok THEN p ELSE None]
  BY DEF Tune
<1>2. i \in opened /\ UNCHANGED <<opened, power>>
  BY DEF Tune
<1>3. chip \in States /\ chip[i] \in Chip
  BY DEF IInv, TypeOK, States
<1> DEFINE x == TunedOf(chip[i], p)
<1>4. /\ Leaves(SetChips(i, p), chip, i, x) /\ KeptAt(x, p)
      /\ i \notin cut => TrueOf(x)
  BY <1>2, <1>3, SetChipsLeaves, TunedIsKeptAt, TunedIsTrue, Tellings DEF IInv
<1> HIDE DEF x
<1>5. /\ system' \in [Chips -> {"none", "set", "locking"}]
      /\ got' \in [Chips -> Params \cup {None}]
      /\ \A j \in Chips \ {i} : got'[j] = got[j]
      /\ r.ok => got'[i] = p
      /\ ~r.ok => got'[i] = None
  BY <1>1 DEF IInv, TypeOK
<1>6. power
  BY <1>2 DEF IInv, OpenIsPowered
<1> QED
  BY <1>1, <1>2, <1>4, <1>5, <1>6, ComesHolds DEF IInv, TypeOK

LEMMA LockHolds ==
  ASSUME IInv, NEW i \in Chips, Lock(i)
  PROVE  IInv'
<1>1. UNCHANGED <<opened, got, chip, power, cut, fails>>
      /\ system' \in [Chips -> {"none", "set", "locking"}]
  BY DEF Lock, IInv, TypeOK
<1>2. TypeOK' /\ OpenIsPowered'
  BY <1>1 DEF IInv, TypeOK, OpenIsPowered
<1>3. TunedIsKept' /\ TunedIsShut' /\ NotesAreTrue'
  BY <1>1 DEF IInv, TunedIsKept, TunedIsShut, NotesAreTrue
<1> QED
  BY <1>2, <1>3 DEF IInv

LEMMA NextHolds == IInv /\ [Next]_vars => IInv'
<1> SUFFICES ASSUME IInv, [Next]_vars PROVE IInv'
  OBVIOUS
<1>1. CASE UNCHANGED vars
  <2>1. UNCHANGED <<opened, system, got, chip, power, cut, fails>>
    BY <1>1 DEF vars
  <2>2. TypeOK' /\ OpenIsPowered'
    BY <2>1 DEF IInv, TypeOK, OpenIsPowered
  <2>3. TunedIsKept' /\ TunedIsShut' /\ NotesAreTrue'
    BY <2>1 DEF IInv, TunedIsKept, TunedIsShut, NotesAreTrue
  <2> QED
    BY <2>2, <2>3 DEF IInv
<1> QED
  BY <1>1, OpenHolds, PowerFailsHolds, OpenFailsHolds, ReleaseHolds, LockHolds, TuneHolds DEF Next

\* The inductive invariant holds.
THEOREM InvHolds == Spec => []IInv
  BY InitHolds, NextHolds, PTL DEF Spec

\* What a tuner was set to, its chips stay set to, whatever is done with the
\* others of its bus and whichever of their calls fail (cxd2858er.rs:40).
THEOREM TunedIsKeptHolds == Spec => []TunedIsKept
  BY InvHolds, PTL DEF IInv

\* The driver's notes of an open tuner, no call of which failed since the board
\* was powered, are true (cxd2856er.rs:203, cxd2858er.rs:47), and the chips of
\* one nobody has open are at rest, whatever notes of them outlived a failure.
THEOREM NotesAreTrueHolds == Spec => []NotesAreTrue
  BY InvHolds, PTL DEF IInv

-----------------------------------------------------------------------------
(* The tuner chip of the terrestrial side.  First, induction.              *)

\* A set of naturals has a least; and one that has 0 and, with each of its
\* numbers, the next, has all.  The library's theorems on induction are about
\* any predicate, which no prover here can be given; this is about a set.
LEMMA LeastIs ==
  ASSUME NEW T \in SUBSET Nat, T # {}
  PROVE  \E n \in T : \A m \in T : ~ m < n
<1> DEFINE Lt == OpToRel(<, Nat)
<1>1. IsWellFoundedOn(Lt, Nat)
  BY NatLessThanWellFounded
<1>2. \A m \in Nat, n \in Nat : m < n => <<m, n>> \in Lt
  BY DEF OpToRel
<1> HIDE DEF Lt
<1>3. PICK n \in T : \A m \in T : ~ (<<m, n>> \in Lt)
  BY <1>1, WFMin
<1> QED
  BY <1>2, <1>3

LEMMA Induction ==
  ASSUME NEW T \in SUBSET Nat, 0 \in T, \A n \in T : n + 1 \in T
  PROVE  T = Nat
<1> SUFFICES ASSUME T # Nat PROVE FALSE
  OBVIOUS
<1>1. PICK n \in Nat \ T : \A m \in Nat \ T : ~ m < n
  BY LeastIs
<1>2. n - 1 \in Nat /\ n - 1 < n
  BY <1>1
<1>3. n - 1 \in T
  BY <1>1, <1>2
<1> QED
  BY <1>1, <1>3

-----------------------------------------------------------------------------
(* The loop of set_pll that takes the fraction apart, turn by turn: what   *)
(* it leaves of it, and how far what is set is off (r850.rs:582).          *)

\* What the loop starts from, and the first n turns of it, as Sdm has them.
Start(fra) == [fra |-> fra, sdm |-> 0, nsdm |-> 2]

Turns(t, fra, xtal, n) ==
  t = [k \in 0 .. n |-> IF k = 0 THEN Start(fra) ELSE SdmTurn(t[k - 1], xtal)]

\* The loop runs any number of turns.
LEMMA TurnsExist ==
  ASSUME NEW fra, NEW xtal, NEW n \in Nat
  PROVE  \E t : Turns(t, fra, xtal, n)
<1> DEFINE T == {m \in Nat : \E t : Turns(t, fra, xtal, m)}
<1>1. 0 \in T
  <2> DEFINE t == [k \in 0 .. 0 |-> Start(fra)]
  <2>1. Turns(t, fra, xtal, 0)
    BY DEF Turns
  <2> QED
    BY <2>1
<1>2. ASSUME NEW m \in T PROVE m + 1 \in T
  <2>1. PICK t : t = [k \in 0 .. m |-> IF k = 0 THEN Start(fra) ELSE SdmTurn(t[k - 1], xtal)]
    BY DEF Turns
  <2> DEFINE u == [k \in 0 .. m + 1 |-> IF k <= m THEN t[k] ELSE SdmTurn(t[m], xtal)]
             v == [k \in 0 .. m + 1 |-> IF k = 0 THEN Start(fra) ELSE SdmTurn(u[k - 1], xtal)]
  <2>2. ASSUME NEW k \in 0 .. m + 1 PROVE u[k] = v[k]
    <3>1. CASE k = 0
      BY <3>1, <2>1
    <3>2. CASE k \in 1 .. m
      <4>1. k - 1 \in 0 .. m /\ k \in 0 .. m /\ k # 0 /\ k - 1 \in 0 .. m + 1 /\ k - 1 <= m /\ k <= m
        BY <3>2
      <4>2. u[k - 1] = t[k - 1] /\ u[k] = t[k]
        BY <4>1
      <4>3. t[k] = SdmTurn(t[k - 1], xtal)
        BY <4>1, <2>1
      <4>4. v[k] = SdmTurn(u[k - 1], xtal)
        BY <4>1
      <4> QED
        BY <4>2, <4>3, <4>4
    <3>3. CASE k = m + 1
      <4>1. k # 0 /\ ~ k <= m /\ k - 1 = m /\ m \in 0 .. m + 1 /\ m <= m
        BY <3>3
      <4>2. u[m] = t[m]
        BY <4>1
      <4> QED
        BY <4>1, <4>2
    <3> QED
      BY <3>1, <3>2, <3>3
  <2>3. u = v
    BY <2>2
  <2>4. Turns(u, fra, xtal, m + 1)
    BY <2>3 DEF Turns
  <2> QED
    BY <2>4
<1> HIDE DEF T
<1>3. T \in SUBSET Nat
  BY DEF T
<1>4. T = Nat
  BY <1>1, <1>2, <1>3, Induction
<1> QED
  BY <1>4 DEF T

Parts(u, n) == u \div n

IsPart(p, u, n) == p \in Nat /\ n * p <= u /\ u < n * p + n

\* A division's quotient.
LEMMA Part == ASSUME NEW u \in Nat, NEW n \in Nat \ {0} PROVE IsPart(u \div n, u, n)
BY DEF IsPart

LEMMA PartsOf == ASSUME NEW u \in Nat, NEW n \in Nat \ {0} PROVE Parts(u, n) \in Nat
BY Part DEF IsPart, Parts

\* Of two multiples the less is of the less.
LEMMA Times ==
  ASSUME NEW a \in Nat, NEW b \in Nat, NEW n \in Nat, n * a < n * b
  PROVE  a < b
<1> SUFFICES ASSUME b <= a PROVE n * b <= n * a
  OBVIOUS
<1>1. PICK i \in Nat : a = b + i
  OBVIOUS
<1>2. n * a = n * b + n * i /\ n * i \in Nat /\ n * b \in Nat
  BY <1>1
<1> QED
  BY <1>2

\* What is left of a number of parts when it is halved.
LEMMA HalfPart ==
  ASSUME NEW u \in Nat, NEW n \in Nat \ {0}
  PROVE  u \div (2 * n) \in Nat /\ u \div n <= 2 * (u \div (2 * n)) + 1
<1> DEFINE p == u \div n
           q == u \div (2 * n)
<1>1. p \in Nat /\ n * p <= u
  BY Part DEF IsPart
<1>2. 2 * n \in Nat \ {0}
  OBVIOUS
<1>3. q \in Nat /\ u < (2 * n) * q + 2 * n
  BY <1>2, Part DEF IsPart
<1> HIDE DEF p, q
<1>4. (2 * n) * q + 2 * n = n * (2 * q + 2) /\ 2 * q + 2 \in Nat
  BY <1>3
<1>5. n * p < n * (2 * q + 2)
  BY <1>1, <1>3, <1>4
<1>6. p < 2 * q + 2
  BY <1>1, <1>4, <1>5, Times
<1>7. p <= 2 * q + 1
  BY <1>1, <1>3, <1>6
<1> QED
  BY <1>3, <1>7 DEF p, q

\* What nsdm counts to, and what the register is told of a part.
Weighs(n, w) == n * w = 65536

\* A part is as much of the crystal as the register is told, but for less than one.
LEMMA TakenPart ==
  ASSUME NEW u \in Nat, NEW n \in Nat \ {0}, NEW w \in Nat, Weighs(n, w), NEW p, IsPart(p, u, n)
  PROVE  65536 * p <= u * w /\ u * w <= 65536 * p + 65536
<1> DEFINE i == u - n * p
<1>1. p \in Nat /\ n * p \in Nat /\ i \in 0 .. n /\ u = n * p + i
  BY DEF IsPart
<1> HIDE DEF i
<1>2. n * w = 65536
  BY DEF Weighs
<1>3. u * w = (n * w) * p + i * w /\ (n * w) * p = 65536 * p
  BY <1>1, <1>2
<1>4. i * w \in Nat /\ n * w = i * w + (n - i) * w /\ (n - i) * w \in Nat
  BY <1>1
<1>5. i * w <= 65536
  BY <1>2, <1>4
<1> QED
  BY <1>1, <1>3, <1>4, <1>5

\* The books of the loop after k turns, with f of the fraction left and s in the
\* register: what was taken off the one is what is in the other, but for less than
\* one a turn, and little is left.
Balance(u, fra, k, f, s, n, w) ==
  /\ Weighs(n, w)
  /\ s + 2 * w <= 65536 /\ s % 2 = 0 /\ f <= fra
  /\ 65536 * (fra - f) <= u * s
  /\ u * s <= 65536 * (fra - f) + 65536 * k
  /\ f <= 2 * (u \div n) + k
  /\ fra <= 1 => s = 0

\* The next turn's parts are half of this one's, and so is what is told of them.
LEMMA Halved ==
  ASSUME NEW n \in Nat, NEW w \in Nat, w % 2 = 0, Weighs(n, w)
  PROVE  w \div 2 \in Nat /\ 2 * (w \div 2) = w /\ Weighs(2 * n, w \div 2)
<1> DEFINE h == w \div 2
<1>1. h \in Nat /\ w = 2 * h
  OBVIOUS
<1> HIDE DEF h
<1>2. (2 * n) * h = n * w
  BY <1>1
<1> QED
  BY <1>1, <1>2 DEF h, Weighs

\* The books balance after a turn that takes its part,
LEMMA TakenBalance ==
  ASSUME NEW u \in Nat, NEW fra \in Nat, NEW k \in Nat, NEW f \in Nat, NEW s \in Nat,
         NEW n \in Nat \ {0}, NEW w \in Nat, w % 2 = 0,
         Balance(u, fra, k, f, s, n, w), NEW p, p = Parts(u, n), p < f, 1 < f
  PROVE  Balance(u, fra, k + 1, f - p, s + w, 2 * n, w \div 2)
<1> DEFINE q == u \div (2 * n)
           a == u * s
           b == u * w
<1>0. Weighs(n, w)
  BY DEF Balance
<1>1. /\ s + 2 * w <= 65536 /\ s % 2 = 0 /\ f <= fra
      /\ 65536 * (fra - f) <= a /\ a <= 65536 * (fra - f) + 65536 * k
      /\ f <= 2 * p + k
  BY DEF Balance, Parts
<1>2. p \in Nat /\ q \in Nat /\ p <= 2 * q + 1
  BY Part, HalfPart DEF IsPart, Parts
<1>p. IsPart(p, u, n)
  BY Part DEF Parts
<1>3. 65536 * p <= b /\ b <= 65536 * p + 65536
  BY <1>0, <1>p, TakenPart
<1>4. a \in Nat /\ b \in Nat /\ u * (s + w) = a + b
  OBVIOUS
<1>5. 2 * (w \div 2) = w /\ Weighs(2 * n, w \div 2)
  BY <1>0, Halved
<1> HIDE DEF q, a, b
<1>6. f <= fra /\ f <= 2 * p + k /\ s % 2 = 0 /\ s + 2 * w <= 65536
  BY <1>1
<1>7. (s + w) + w <= 65536 /\ (s + w) % 2 = 0
  BY <1>6
<1>8. p < f
  OBVIOUS
<1>9. f - p \in Nat /\ f - p <= fra /\ f - p <= 2 * q + (k + 1)
  BY <1>2, <1>6, <1>8
<1>10. /\ 65536 * (fra - f) <= a /\ a <= 65536 * (fra - f) + 65536 * k
  BY <1>1
<1>11. /\ 65536 * (fra - (f - p)) <= a + b
       /\ a + b <= 65536 * (fra - (f - p)) + 65536 * (k + 1)
  BY <1>2, <1>3, <1>4, <1>10
<1>12. ~ fra <= 1
  BY <1>6
<1> QED
  BY <1>4, <1>5, <1>7, <1>9, <1>11, <1>12, SMT DEF Balance, q

\* and after one that leaves it.
LEMMA LeftBalance ==
  ASSUME NEW u \in Nat, NEW fra \in Nat, NEW k \in Nat, NEW f \in Nat, NEW s \in Nat,
         NEW n \in Nat \ {0}, NEW w \in Nat, w % 2 = 0,
         Balance(u, fra, k, f, s, n, w), NEW p, p = Parts(u, n), f <= 1 \/ f <= p
  PROVE  Balance(u, fra, k + 1, f, s, 2 * n, w \div 2)
<1> DEFINE q == u \div (2 * n)
           a == u * s
<1>0. Weighs(n, w)
  BY DEF Balance
<1>1. /\ s + 2 * w <= 65536 /\ s % 2 = 0 /\ f <= fra
      /\ 65536 * (fra - f) <= a /\ a <= 65536 * (fra - f) + 65536 * k
      /\ (fra <= 1 => s = 0)
  BY DEF Balance
<1>2. p \in Nat /\ q \in Nat /\ p <= 2 * q + 1 /\ (f <= 1 \/ f <= p)
  BY Part, HalfPart DEF IsPart, Parts
<1>3. 2 * (w \div 2) = w /\ Weighs(2 * n, w \div 2)
  BY <1>0, Halved
<1>4. a \in Nat
  OBVIOUS
<1> HIDE DEF q, a
<1>5. f <= 2 * q + (k + 1)
  BY <1>2
<1>6. s + w <= 65536 /\ a <= 65536 * (fra - f) + 65536 * (k + 1)
  BY <1>1, <1>4
<1> QED
  BY <1>0, <1>1, <1>3, <1>5, <1>6 DEF Balance, q, a

\* nsdm and what the register is told, turn by turn.
Nsdms   == <<2, 4, 8, 16, 32, 64, 128, 256, 512, 1024, 2048, 4096, 8192, 16384, 32768, 65536>>
Weights == <<32768, 16384, 8192, 4096, 2048, 1024, 512, 256, 128, 64, 32, 16, 8, 4, 2, 1>>

Doubles(k) ==
  LET n == Nsdms[k + 1]
      w == Weights[k + 1]
  IN  /\ n \in Nat \ {0} /\ w \in Nat /\ w % 2 = 0 /\ w = 32768 \div (n \div 2)
      /\ Nsdms[(k + 1) + 1] = 2 * n /\ Weights[(k + 1) + 1] = w \div 2

LEMMA DoublesAlways == \A k \in 0 .. 14 : Doubles(k)
<1>1. SUFFICES ASSUME NEW k \in 0 .. 14 PROVE Doubles(k)
  OBVIOUS
<1>2. k \in {0, 1, 2, 3, 4, 5, 6, 7, 8, 9, 10, 11, 12, 13, 14}
  OBVIOUS
<1> QED
  BY <1>2 DEF Nsdms, Weights, Doubles

\* The invariant of the loop.
TurnInv(acc, fra, u, k) ==
  /\ acc \in [fra : Nat, sdm : Nat, nsdm : Nat]
  /\ acc.nsdm = Nsdms[k + 1]
  /\ Balance(u, fra, k, acc.fra, acc.sdm, acc.nsdm, Weights[k + 1])

\* A turn takes its part or leaves it.
LEMMA TurnIs ==
  ASSUME NEW xtal, NEW acc \in [fra : Nat, sdm : Nat, nsdm : Nat]
  PROVE  LET p == Parts(2 * xtal, acc.nsdm)
             w == 32768 \div (acc.nsdm \div 2)
         IN  \/ /\ acc.fra > 1 /\ p < acc.fra
                /\ SdmTurn(acc, xtal) =
                     [fra |-> acc.fra - p, sdm |-> acc.sdm + w, nsdm |-> 2 * acc.nsdm]
             \/ /\ acc.fra <= 1 \/ ~ p < acc.fra
                /\ SdmTurn(acc, xtal) = [fra |-> acc.fra, sdm |-> acc.sdm, nsdm |-> 2 * acc.nsdm]
<1> DEFINE p == Parts(2 * xtal, acc.nsdm)
<1>1. CASE acc.fra > 1 /\ p < acc.fra
  BY <1>1 DEF SdmTurn, Parts
<1>2. CASE ~ (acc.fra > 1 /\ p < acc.fra)
  <2>1. SdmTurn(acc, xtal) = [fra |-> acc.fra - 0, sdm |-> acc.sdm + 0, nsdm |-> 2 * acc.nsdm]
    BY <1>2 DEF SdmTurn, Parts
  <2>2. acc.fra - 0 = acc.fra /\ acc.sdm + 0 = acc.sdm
    OBVIOUS
  <2>3. acc.fra <= 1 \/ ~ p < acc.fra
    BY <1>2
  <2> QED
    BY <2>1, <2>2, <2>3
<1> QED
  BY <1>1, <1>2

LEMMA TurnMade ==
  ASSUME NEW u, NEW fra, NEW k, NEW g \in Nat, NEW t \in Nat, NEW n \in Nat, NEW w,
         Balance(u, fra, k + 1, g, t, n, w), n = Nsdms[(k + 1) + 1], w = Weights[(k + 1) + 1]
  PROVE  TurnInv([fra |-> g, sdm |-> t, nsdm |-> n], fra, u, k + 1)
BY DEF TurnInv

\* A turn keeps the invariant, the start has it, and so do the fifteen turns.
LEMMA TurnHolds ==
  ASSUME NEW xtal \in Nat, NEW fra \in Nat, NEW k \in 0 .. 14, NEW acc,
         TurnInv(acc, fra, 2 * xtal, k)
  PROVE  TurnInv(SdmTurn(acc, xtal), fra, 2 * xtal, k + 1)
<1> DEFINE u == 2 * xtal
           f == acc.fra
           s == acc.sdm
           n == acc.nsdm
           p == Parts(u, n)
           w == Weights[k + 1]
           res == SdmTurn(acc, xtal)
<1>1. /\ acc \in [fra : Nat, sdm : Nat, nsdm : Nat] /\ f \in Nat /\ s \in Nat
      /\ n = Nsdms[k + 1] /\ Balance(u, fra, k, f, s, n, w)
  BY DEF TurnInv
<1>2. /\ n \in Nat \ {0} /\ w \in Nat /\ w % 2 = 0 /\ w = 32768 \div (n \div 2)
      /\ Nsdms[(k + 1) + 1] = 2 * n /\ Weights[(k + 1) + 1] = w \div 2
  <2>1. Doubles(k)
    BY DoublesAlways
  <2> QED
    BY <2>1, <1>1 DEF Doubles
<1>3. u \in Nat /\ k \in Nat /\ k + 1 \in Nat
  OBVIOUS
<1>5. \/ 1 < f /\ p < f /\ res = [fra |-> f - p, sdm |-> s + w, nsdm |-> 2 * n]
      \/ (f <= 1 \/ ~ p < f) /\ res = [fra |-> f, sdm |-> s, nsdm |-> 2 * n]
  <2>1. acc \in [fra : Nat, sdm : Nat, nsdm : Nat] /\ w = 32768 \div (n \div 2)
    BY <1>1, <1>2
  <2>2. f > 1 <=> 1 < f
    BY <1>1
  <2> HIDE DEF w
  <2> QED
    BY <2>1, <2>2, TurnIs
<1>b. Balance(u, fra, k, f, s, n, w) /\ f \in Nat /\ s \in Nat
  BY <1>1
<1>c. n \in Nat \ {0} /\ w \in Nat /\ w % 2 = 0
  BY <1>2
<1>d. p = Parts(u, n)
  OBVIOUS
<1> HIDE DEF u, f, s, n, p, w, res
<1>4. p \in Nat
  BY <1>c, <1>d, <1>3, PartsOf
<1>6. 1 < f /\ p < f => Balance(u, fra, k + 1, f - p, s + w, 2 * n, w \div 2)
  BY <1>b, <1>c, <1>d, <1>3, TakenBalance
<1>7. f <= 1 \/ f <= p => Balance(u, fra, k + 1, f, s, 2 * n, w \div 2)
  BY <1>b, <1>c, <1>d, <1>3, LeftBalance
<1>e. 2 * n = Nsdms[(k + 1) + 1] /\ w \div 2 = Weights[(k + 1) + 1] /\ 2 * n \in Nat
  BY <1>2
<1>9. ASSUME 1 < f, p < f, res = [fra |-> f - p, sdm |-> s + w, nsdm |-> 2 * n]
      PROVE  TurnInv(res, fra, u, k + 1)
  <2>1. f - p \in Nat /\ s + w \in Nat
    BY <1>b, <1>c, <1>4, <1>9
  <2>2. Balance(u, fra, k + 1, f - p, s + w, 2 * n, w \div 2)
    BY <1>6, <1>9
  <2> QED
    BY <2>1, <2>2, <1>e, <1>9, TurnMade
<1>10. ASSUME f <= 1 \/ ~ p < f, res = [fra |-> f, sdm |-> s, nsdm |-> 2 * n]
       PROVE  TurnInv(res, fra, u, k + 1)
  <2>1. f <= 1 \/ f <= p
    BY <1>b, <1>4, <1>10
  <2>2. Balance(u, fra, k + 1, f, s, 2 * n, w \div 2)
    BY <2>1, <1>7
  <2> QED
    BY <2>2, <1>b, <1>e, <1>10, TurnMade
<1>11. TurnInv(res, fra, u, k + 1)
  BY <1>5, <1>9, <1>10
<1> QED
  BY <1>11 DEF res, u

LEMMA StartHolds ==
  ASSUME NEW xtal \in Nat, NEW fra \in Nat, fra <= 2 * xtal
  PROVE  TurnInv(Start(fra), fra, 2 * xtal, 0)
<1> DEFINE u == 2 * xtal
<1>1. /\ Start(fra) \in [fra : Nat, sdm : Nat, nsdm : Nat] /\ Start(fra).fra = fra
      /\ Start(fra).sdm = 0 /\ Start(fra).nsdm = 2
  BY DEF Start
<1>2. Nsdms[0 + 1] = 2 /\ Weights[0 + 1] = 32768
  BY DEF Nsdms, Weights
<1>3. Weighs(2, 32768)
  BY DEF Weighs
<1>4. fra <= 2 * (u \div 2) + 0 /\ u * 0 = 0
  OBVIOUS
<1>5. Balance(u, fra, 0, fra, 0, 2, 32768)
  <2>1. /\ 0 + 2 * 32768 <= 65536 /\ 0 % 2 = 0 /\ fra <= fra /\ fra - fra = 0
        /\ 65536 * (fra - fra) <= u * 0 /\ u * 0 <= 65536 * (fra - fra) + 65536 * 0
    BY <1>4
  <2> QED
    BY <1>3, <1>4, <2>1 DEF Balance
<1> QED
  BY <1>1, <1>2, <1>5 DEF TurnInv

LEMMA TurnsHold ==
  ASSUME NEW xtal \in Nat, NEW fra \in Nat, fra <= 2 * xtal, NEW t, Turns(t, fra, xtal, 15)
  PROVE  TurnInv(t[15], fra, 2 * xtal, 15)
<1> DEFINE T == {k \in Nat : k \in 0 .. 15 => TurnInv(t[k], fra, 2 * xtal, k)}
<1>t. t = [k \in 0 .. 15 |-> IF k = 0 THEN Start(fra) ELSE SdmTurn(t[k - 1], xtal)]
  BY DEF Turns
<1>1. 0 \in T
  <2>1. t[0] = Start(fra)
    BY <1>t
  <2>2. TurnInv(Start(fra), fra, 2 * xtal, 0)
    BY StartHolds
  <2> QED
    BY <2>1, <2>2
<1>2. ASSUME NEW k \in T PROVE k + 1 \in T
  <2>1. k \in Nat /\ (k \in 0 .. 15 => TurnInv(t[k], fra, 2 * xtal, k))
    OBVIOUS
  <2>2. ASSUME k + 1 \in 0 .. 15 PROVE TurnInv(t[k + 1], fra, 2 * xtal, k + 1)
    <3>1. k \in 0 .. 14 /\ k \in 0 .. 15 /\ k + 1 # 0 /\ (k + 1) - 1 = k
      BY <2>1, <2>2
    <3>2. t[k + 1] = SdmTurn(t[k], xtal)
      BY <1>t, <2>2, <3>1
    <3>3. TurnInv(t[k], fra, 2 * xtal, k)
      BY <2>1, <3>1
    <3>4. TurnInv(SdmTurn(t[k], xtal), fra, 2 * xtal, k + 1)
      BY <3>1, <3>3, TurnHolds
    <3> QED
      BY <3>2, <3>4
  <2> QED
    BY <2>1, <2>2
<1> HIDE DEF T
<1>3. T \in SUBSET Nat
  BY DEF T
<1>4. 15 \in T
  BY <1>1, <1>2, <1>3, Induction
<1> QED
  BY <1>4 DEF T

\* What Sdm returns is what the last turn left in the register.
LEMMA SdmIsLast ==
  ASSUME NEW xtal \in Nat, NEW fra \in Nat, fra <= 2 * xtal
  PROVE  \E acc : TurnInv(acc, fra, 2 * xtal, 15) /\ Sdm(fra, xtal) = acc.sdm
<1> DEFINE t == CHOOSE t : Turns(t, fra, xtal, 15)
<1>1. Sdm(fra, xtal) = t[15].sdm
  BY DEF Sdm, Turns, Start
<1>2. Turns(t, fra, xtal, 15)
  BY TurnsExist
<1> HIDE DEF t
<1>3. TurnInv(t[15], fra, 2 * xtal, 15)
  BY <1>2, TurnsHold
<1> QED
  BY <1>1, <1>3

\* By how much the fraction that is set is off.
Off(fra, xtal, sdm) == fra - (xtal * (sdm \div 2)) \div 16384

\* What is off by the fraction that is set: the 15 turns lose less than one each,
\* and leave no more than that.
LEMMA SdmFits ==
  ASSUME NEW xtal \in Nat, xtal < 32768, NEW fra \in Nat, fra <= 2 * xtal,
         NEW u, u = 2 * xtal, NEW acc, TurnInv(acc, fra, u, 15)
  PROVE  /\ acc.sdm \in Nat /\ acc.sdm <= 65534
         /\ Off(fra, xtal, acc.sdm) \in -15 .. 15
         /\ fra <= 1 => Off(fra, xtal, acc.sdm) = fra
<1> DEFINE f == acc.fra
           s == acc.sdm
           h == s \div 2
           b == xtal * h
<1>1. /\ f \in Nat /\ s \in Nat
      /\ Balance(u, fra, 15, f, s, 65536, 1)
  BY DEF TurnInv, Nsdms, Weights
<1>2. /\ s + 2 <= 65536 /\ s % 2 = 0 /\ f <= fra
      /\ 65536 * (fra - f) <= u * s /\ u * s <= 65536 * (fra - f) + 65536 * 15
      /\ f <= 2 * (u \div 65536) + 15 /\ (fra <= 1 => s = 0)
  BY <1>1 DEF Balance
<1>a. s + 2 <= 65536 /\ s \in Nat /\ (fra <= 1 => s = 0)
  BY <1>1, <1>2
<1>3. h \in Nat /\ s = 2 * h /\ f <= 15
  BY <1>1, <1>2
<1> HIDE DEF h, f, s
<1>8. s \in Nat /\ s <= 65534
  BY <1>a
<1>4. u * s = 4 * b /\ b \in Nat
  BY <1>3
<1> HIDE DEF b
<1>5. 16384 * (fra - f) <= b /\ b <= 16384 * (fra - f) + 16384 * 15
  BY <1>1, <1>2, <1>4
<1>6. b \div 16384 \in (fra - f) .. (fra - f) + 15
  BY <1>1, <1>2, <1>4, <1>5
<1>7. fra - (b \div 16384) \in -15 .. 15
  BY <1>1, <1>2, <1>3, <1>6
<1>9. Off(fra, xtal, s) = fra - (b \div 16384)
  BY DEF Off, b, h
<1>10. Off(fra, xtal, s) \in -15 .. 15
  BY <1>7, <1>9
<1>11. fra <= 1 => Off(fra, xtal, s) = fra
  <2>1. xtal * (0 \div 2) = 0 /\ fra - (0 \div 16384) = fra
    OBVIOUS
  <2> QED
    BY <1>a, <2>1 DEF Off
<1> QED
  BY <1>8, <1>10, <1>11 DEF s

\* So the register is of its width, and what it sets off by less than 16, if at all.
LEMMA SdmIs ==
  ASSUME NEW xtal \in Nat, xtal < 32768, NEW fra \in Nat, fra <= 2 * xtal
  PROVE  LET sdm == Sdm(fra, xtal)
         IN  /\ sdm \in Nat /\ sdm <= 65534
             /\ Off(fra, xtal, sdm) \in -15 .. 15
             /\ fra <= 1 => Off(fra, xtal, sdm) = fra
<1> DEFINE u == 2 * xtal
<1>u. u = 2 * xtal
  OBVIOUS
<1> HIDE DEF u
<1>1. PICK acc : TurnInv(acc, fra, u, 15) /\ Sdm(fra, xtal) = acc.sdm
  BY SdmIsLast DEF u
<1>2. /\ acc.sdm \in Nat /\ acc.sdm <= 65534
      /\ Off(fra, xtal, acc.sdm) \in -15 .. 15
      /\ fra <= 1 => Off(fra, xtal, acc.sdm) = fra
  BY <1>1, <1>u, SdmFits
<1> QED
  BY <1>1, <1>2

-----------------------------------------------------------------------------
(* The rest of set_pll: the divider of the oscillator, what is left of it  *)
(* of whole crystals, and how that is rounded (r850.rs:694).               *)

\* The first that fits fits.
LEMMA LeastHolds ==
  ASSUME NEW T \in SUBSET Nat, T # {}
  PROVE  Least(T) \in T /\ \A m \in T : Least(T) <= m
<1>1. PICK n \in T : \A m \in T : ~ m < n
  BY LeastIs
<1>2. \A m \in T : n <= m
  BY <1>1
<1> QED
  BY <1>2 DEF Least

\* The divider takes the oscillator to the range of the chip.
Divides(lo, i, ver) == InRange(Vco(lo, i), ver)

LEMMA VcoIs ==
  ASSUME NEW lo \in Nat
  PROVE  /\ Vco(lo, 0) = 2 * lo /\ Vco(lo, 1) = 4 * lo /\ Vco(lo, 2) = 8 * lo
         /\ Vco(lo, 3) = 16 * lo /\ Vco(lo, 4) = 32 * lo /\ Vco(lo, 5) = 64 * lo
         /\ Vco(lo, 6) = 128 * lo
BY DEF Vco

\* If no divider before it does, the last does.
LEMMA SomeDivides ==
  ASSUME NEW lo \in Nat, 34930 <= lo, lo <= 1007070, NEW ver
  PROVE  (\A i \in 0 .. 5 : ~ Divides(lo, i, ver)) => Divides(lo, 6, ver)
<1> DEFINE m == VcoMin(ver)
<1>1. m \in {2200000, 2270000}
  BY DEF VcoMin
<1> HIDE DEF m
<1>2. \A v : InRange(v, ver) <=> m <= v /\ v < 2 * m
  BY DEF InRange, m
<1> SUFFICES ASSUME \A i \in 0 .. 5 : ~ Divides(lo, i, ver) PROVE Divides(lo, 6, ver)
  OBVIOUS
<1>3. /\ ~ Divides(lo, 0, ver) /\ ~ Divides(lo, 1, ver) /\ ~ Divides(lo, 2, ver)
      /\ ~ Divides(lo, 3, ver) /\ ~ Divides(lo, 4, ver) /\ ~ Divides(lo, 5, ver)
  OBVIOUS
<1>4. \A i \in 0 .. 6 : Divides(lo, i, ver) <=> m <= Vco(lo, i) /\ Vco(lo, i) < 2 * m
  BY <1>2 DEF Divides
<1>5. 64 * lo < m
  BY <1>1, <1>3, <1>4, VcoIs
<1>6. m <= 128 * lo /\ 128 * lo < 2 * m
  BY <1>1, <1>5
<1> QED
  BY <1>4, <1>6, VcoIs

LEMMA DivHolds ==
  ASSUME NEW lo \in Nat, 34930 <= lo, lo <= 1007070, NEW ver
  PROVE  Div(lo, ver) \in 0 .. 6 /\ Divides(lo, Div(lo, ver), ver)
<1> DEFINE fit == {i \in 0 .. 5 : InRange(Vco(lo, i), ver)}
<1>1. Div(lo, ver) = IF fit = {} THEN 6 ELSE Least(fit)
  BY DEF Div
<1>2. CASE fit = {}
  BY <1>1, <1>2, SomeDivides DEF Divides
<1>3. CASE fit # {}
  <2>1. fit \in SUBSET Nat
    OBVIOUS
  <2>2. Least(fit) \in fit
    BY <2>1, <1>3, LeastHolds
  <2> QED
    BY <2>2, <1>1, <1>3 DEF Divides
<1> QED
  BY <1>2, <1>3

\* What the crystal may be divided to.
Crystals == {24000, 12000, 6000}

LEMMA CrystalIs ==
  ASSUME NEW s, NEW lo
  PROVE  XtalDiv(s, lo) \in {1, 2, 4} /\ Xtal \div XtalDiv(s, lo) \in Crystals
<1>1. XtalDiv(s, lo) \in {1, 2, 4}
  BY DEF XtalDiv
<1> QED
  BY <1>1 DEF Xtal, Crystals

\* What is left of it is less than two of the crystal.
LEMMA RestIs ==
  ASSUME NEW h \in Nat, 1100000 <= h, h < 2270000, NEW xtal \in Crystals
  PROVE  LET whole == h \div xtal
                      rest  == 2 * h - 2 * xtal * whole
         IN  whole \in Nat /\ 45 <= whole /\ whole <= 378 /\ rest \in Nat /\ rest <= 2 * xtal
<1>1. CASE xtal = 24000
  BY <1>1
<1>2. CASE xtal = 12000
  BY <1>2
<1>3. CASE xtal = 6000
  BY <1>3
<1> QED
  BY <1>1, <1>2, <1>3 DEF Crystals

\* Rounding moves it by no more than a 64th of the crystal, and but by half of that
\* where the fraction is not dropped.
Near(xtal, n, fra, up, by) ==
  /\ fra \in Nat /\ fra <= 2 * xtal /\ up \in {0, 1}
  /\ -n <= by /\ by <= n
  /\ fra <= 1 \/ (-n + 13 <= by /\ by <= n - 13)

\* What it is rounded to, case by case.
LEMMA RoundedIs ==
  ASSUME NEW xtal \in Nat, NEW rest \in Nat
  PROVE  LET to == Rounded(rest, xtal)
         IN  \/ rest < xtal \div 64 /\ to = <<0, 0>>
             \/ rest > (xtal * 127) \div 64 /\ to = <<0, 1>>
             \/ rest > (xtal * 127) \div 128 /\ rest < xtal /\ to = <<(xtal * 127) \div 128, 0>>
             \/ rest > xtal /\ rest < (xtal * 129) \div 128 /\ to = <<(xtal * 129) \div 128, 0>>
             \/ ~ rest < xtal \div 64 /\ to = <<rest, 0>>
BY DEF Rounded

LEMMA RoundedHolds ==
  ASSUME NEW xtal \in Crystals, NEW rest \in Nat, rest <= 2 * xtal
  PROVE  LET to  == Rounded(rest, xtal)
             fra == to[1]
             up  == to[2]
         IN  Near(xtal, xtal \div 64, fra, up, rest - (fra + 2 * xtal * up))
<1> DEFINE to == Rounded(rest, xtal)
<1>0. xtal \in Nat
  BY DEF Crystals
<1>1. \/ rest < xtal \div 64 /\ to = <<0, 0>>
      \/ rest > (xtal * 127) \div 64 /\ to = <<0, 1>>
      \/ rest > (xtal * 127) \div 128 /\ rest < xtal /\ to = <<(xtal * 127) \div 128, 0>>
      \/ rest > xtal /\ rest < (xtal * 129) \div 128 /\ to = <<(xtal * 129) \div 128, 0>>
      \/ ~ rest < xtal \div 64 /\ to = <<rest, 0>>
  BY <1>0, RoundedIs
<1> HIDE DEF to
<1>2. \/ /\ xtal = 24000 /\ xtal \div 64 = 375 /\ (xtal * 127) \div 64 = 47625
         /\ (xtal * 127) \div 128 = 23812 /\ (xtal * 129) \div 128 = 24187
      \/ /\ xtal = 12000 /\ xtal \div 64 = 187 /\ (xtal * 127) \div 64 = 23812
         /\ (xtal * 127) \div 128 = 11906 /\ (xtal * 129) \div 128 = 12093
      \/ /\ xtal = 6000 /\ xtal \div 64 = 93 /\ (xtal * 127) \div 64 = 11906
         /\ (xtal * 127) \div 128 = 5953 /\ (xtal * 129) \div 128 = 6046
  BY DEF Crystals
<1> DEFINE n == xtal \div 64
           fra == to[1]
           up == to[2]
           by == rest - (fra + 2 * xtal * up)
<1>3. /\ fra \in Nat /\ fra <= 2 * xtal /\ up \in {0, 1}
      /\ -n <= by /\ by <= n
      /\ fra <= 1 \/ (-n + 13 <= by /\ by <= n - 13)
  <2>1. CASE rest < xtal \div 64 /\ to = <<0, 0>>
    <3>1. fra = 0 /\ up = 0
      BY <2>1
    <3> HIDE DEF fra, up
    <3> QED
      BY <2>1, <3>1, <1>2
  <2>2. CASE rest > (xtal * 127) \div 64 /\ to = <<0, 1>>
    <3>1. fra = 0 /\ up = 1
      BY <2>2
    <3> HIDE DEF fra, up
    <3> QED
      BY <2>2, <3>1, <1>2
  <2>3. CASE rest > (xtal * 127) \div 128 /\ rest < xtal /\ to = <<(xtal * 127) \div 128, 0>>
    <3>1. fra = (xtal * 127) \div 128 /\ up = 0
      BY <2>3
    <3> HIDE DEF fra, up
    <3> QED
      BY <2>3, <3>1, <1>2
  <2>4. CASE rest > xtal /\ rest < (xtal * 129) \div 128 /\ to = <<(xtal * 129) \div 128, 0>>
    <3>1. fra = (xtal * 129) \div 128 /\ up = 0
      BY <2>4
    <3> HIDE DEF fra, up
    <3> QED
      BY <2>4, <3>1, <1>2
  <2>5. CASE ~ rest < xtal \div 64 /\ to = <<rest, 0>>
    <3>1. fra = rest /\ up = 0
      BY <2>5
    <3> HIDE DEF fra, up
    <3> QED
      BY <2>5, <3>1, <1>2
  <2> QED
    BY <1>1, <2>1, <2>2, <2>3, <2>4, <2>5
<1> HIDE DEF fra, up, by, n
<1>4. Near(xtal, n, fra, up, by)
  BY <1>3 DEF Near
<1> QED
  BY <1>4 DEF fra, up, to, n, by

\* What is set of the crystal, in the registers.
LEMMA SetNear ==
  ASSUME NEW xtal \in Crystals, NEW h \in Nat, 1100000 <= h, h < 2270000,
         NEW fra, NEW up, NEW whole, whole = h \div xtal,
         Near(xtal, xtal \div 64, fra, up, (2 * h - 2 * xtal * whole) - (fra + 2 * xtal * up))
  PROVE  LET nint == whole + up
             ni   == (nint - 13) \div 4
             si   == (nint - 13) % 4
             sdm  == Sdm(fra, xtal)
             set  == 2 * xtal * (4 * ni + si + 13) + (xtal * (sdm \div 2)) \div 16384
         IN  /\ 2 * h - set \in -(xtal \div 64) - 2 .. (xtal \div 64) + 2
             /\ ni \in 0 .. 127 /\ 0 <= sdm /\ sdm < 65536
<1> DEFINE nint == whole + up
           ni   == (nint - 13) \div 4
           si   == (nint - 13) % 4
           sdm  == Sdm(fra, xtal)
           w    == 2 * xtal * whole
           rest == 2 * h - w
           z    == 2 * xtal * up
           by   == rest - (fra + z)
           n    == xtal \div 64
           off  == Off(fra, xtal, sdm)
           frac == (xtal * (sdm \div 2)) \div 16384
<1>1. /\ xtal \in Nat /\ xtal < 32768 /\ n \in Nat
      /\ whole \in Nat /\ 45 <= whole /\ whole <= 378
  BY RestIs DEF Crystals
<1>2. /\ fra \in Nat /\ fra <= 2 * xtal /\ up \in {0, 1}
      /\ -n <= by /\ by <= n
      /\ fra <= 1 \/ (-n + 13 <= by /\ by <= n - 13)
  BY DEF Near
<1>3. /\ sdm \in Nat /\ sdm <= 65534 /\ off \in -15 .. 15 /\ (fra <= 1 => off = fra)
  BY <1>1, <1>2, SdmIs
<1>4. off = fra - frac /\ frac \in Int
  <2>1. frac \in Int
    BY <1>1, <1>3
  <2> QED
    BY <2>1 DEF Off
<1>5. /\ nint \in Nat /\ 45 <= nint /\ nint <= 379
      /\ w \in Int /\ z \in Int /\ 2 * xtal * nint = w + z
  BY <1>1, <1>2
<1>6. ni \in 0 .. 127 /\ 4 * ni + si + 13 = nint /\ ni \in Int /\ si \in Int
  BY <1>5
<1>7. 2 * xtal * (4 * ni + si + 13) = w + z
  BY <1>5, <1>6
<1> HIDE DEF w, z, n, off, frac, ni, si, sdm
<1>8. LET set == (w + z) + frac IN -n - 2 <= 2 * h - set /\ 2 * h - set <= n + 2 /\ 2 * h - set \in Int
  BY <1>1, <1>2, <1>3, <1>4, <1>5
<1>9. LET set == (w + z) + frac IN 2 * h - set \in -n - 2 .. n + 2
  BY <1>8, <1>1
<1>10. 0 <= sdm /\ sdm < 65536
  BY <1>3
<1> QED
  BY <1>6, <1>7, <1>9, <1>10 DEF w, z, n, frac, ni, si, sdm

\* set_pll sets the oscillator right for any frequency it is given.
LEMMA PllHolds ==
  ASSUME NEW s, NEW lo \in Nat, 34930 <= lo, lo <= 1007070, NEW ver
  PROVE  OnFrequency(Pll(s, lo, ver), lo, ver)
<1> DEFINE div   == Div(lo, ver)
           xdiv  == XtalDiv(s, lo)
           xtal  == Xtal \div xdiv
           vco   == Vco(lo, div)
           h     == vco \div 2
           whole == h \div xtal
           fra   == Rounded(vco - 2 * xtal * whole, xtal)
           nint  == whole + fra[2]
           sdm   == Sdm(fra[1], xtal)
           p     == Pll(s, lo, ver)
<1>1. p = [div |-> div, xdiv |-> xdiv, ni |-> (nint - 13) \div 4, si |-> (nint - 13) % 4, sdm |-> sdm]
  BY DEF Pll
<1>2. div \in 0 .. 6 /\ InRange(vco, ver)
  BY DivHolds DEF Divides
<1>3. xtal \in Crystals
  BY CrystalIs
<1>4. h \in Nat /\ vco = 2 * h
  <2>1. div \in {0, 1, 2, 3, 4, 5, 6}
    BY <1>2
  <2> HIDE DEF div
  <2> QED
    BY <2>1, VcoIs
<1>5. 1100000 <= h /\ h < 2270000
  <2> HIDE DEF vco, h
  <2> QED
    BY <1>2, <1>4 DEF InRange, VcoMin
<1> HIDE DEF div, xdiv, xtal, vco, h, p
<1>6. 2 * h - 2 * xtal * whole \in Nat /\ 2 * h - 2 * xtal * whole <= 2 * xtal
  BY <1>3, <1>4, <1>5, RestIs
<1>7. Near(xtal, xtal \div 64, fra[1], fra[2],
           (2 * h - 2 * xtal * whole) - (fra[1] + 2 * xtal * fra[2]))
  BY <1>3, <1>4, <1>6, RoundedHolds
<1>8. LET ni  == (nint - 13) \div 4
          si  == (nint - 13) % 4
          set == 2 * xtal * (4 * ni + si + 13) + (xtal * (sdm \div 2)) \div 16384
      IN  /\ 2 * h - set \in -(xtal \div 64) - 2 .. (xtal \div 64) + 2
          /\ ni \in 0 .. 127 /\ 0 <= sdm /\ sdm < 65536
  <2> DEFINE a == fra[1]
             b == fra[2]
             w == whole
  <2>1. Near(xtal, xtal \div 64, a, b, (2 * h - 2 * xtal * w) - (a + 2 * xtal * b)) /\ w = h \div xtal
    BY <1>7
  <2> HIDE DEF a, b, w
  <2>2. LET n   == w + b
            ni  == (n - 13) \div 4
            si  == (n - 13) % 4
            sd  == Sdm(a, xtal)
            set == 2 * xtal * (4 * ni + si + 13) + (xtal * (sd \div 2)) \div 16384
        IN  /\ 2 * h - set \in -(xtal \div 64) - 2 .. (xtal \div 64) + 2
            /\ ni \in 0 .. 127 /\ 0 <= sd /\ sd < 65536
    BY <2>1, <1>3, <1>4, <1>5, SetNear
  <2> QED
    BY <2>2 DEF a, b, w
<1> HIDE DEF nint, sdm
<1>9. /\ p.div = div /\ p.xdiv = xdiv /\ p.ni = (nint - 13) \div 4 /\ p.si = (nint - 13) % 4
      /\ p.sdm = sdm
  BY <1>1
<1>10. Xtal \div p.xdiv = xtal /\ Vco(lo, p.div) = 2 * h
  BY <1>4, <1>9 DEF xtal, vco
<1> QED
  BY <1>2, <1>4, <1>8, <1>9, <1>10 DEF OnFrequency, p

-----------------------------------------------------------------------------
(* The search for the points of least image (r850.rs:1143).                *)

\* What a gain and a phase may be, searched in full and around n times.
Values(n) == (0 .. 10 + n) \cup (32 - n .. 42 + n)
Points(n) == [gain : Values(n), phase : Values(n)]

\* The gains and phases to start from, and those reached step by step.
Starts == {0, 1, 2, 33, 34}
Stepped == (0 .. 9) \cup (33 .. 41)

LEMMA TreeOfFull == \A v \in {0} : Tree(v, 5) \subseteq Starts
BY DEF Tree, Mag, Flip, Starts

LEMMA StepsOfFull == ASSUME NEW v \in Starts PROVE Steps(v) \subseteq Stepped
BY DEF Steps, Mag, Starts, Stepped

LEMMA TreeOfStepped == ASSUME NEW v \in Stepped PROVE Tree(v, 3) \subseteq Values(0)
BY DEF Tree, Mag, Flip, Stepped, Values

LEMMA TreeOfValues ==
  ASSUME NEW n \in 0 .. 2, NEW v \in Values(n) PROVE Tree(v, 3) \subseteq Values(n + 1)
BY DEF Tree, Mag, Flip, Values

\* Searched around once more, a point moves by one at most.
LEMMA SectionsHold ==
  ASSUME NEW n \in 0 .. 2, NEW ps \in SUBSET Points(n)
  PROVE  Sections(ps) \subseteq Points(n + 1)
<1> SUFFICES ASSUME NEW p \in ps, NEW q \in Section(p) PROVE q \in Points(n + 1)
  BY DEF Sections
<1>1. p.gain \in Values(n) /\ p.phase \in Values(n)
  BY DEF Points
<1> DEFINE gains == IF p.gain # 0 THEN {p.gain - 1, p.gain, p.gain + 1} ELSE {0, 1, 33}
<1>2. gains \subseteq Values(n + 1)
  BY <1>1 DEF Values
<1>3. Tree(p.phase, 3) \subseteq Values(n + 1)
  BY <1>1, TreeOfValues
<1>4. q \in {At(g, h) : g \in gains, h \in Tree(p.phase, 3)}
  BY DEF Section
<1> HIDE DEF gains
<1> QED
  BY <1>2, <1>3, <1>4 DEF At, Points

LEMMA FullSearchHolds == FullSearch \subseteq Points(0)
<1> DEFINE Axis(c) == IF c.phase # 0 THEN "phase" ELSE "gain"
           St(c) == Along(c, Axis(c), Steps(c[Axis(c)]))
           Cr(c) == UNION {Along(p, Other(Axis(c)), Tree(p[Other(Axis(c))], 5)) : p \in St(c)}
<1>1. FullSearch = UNION {UNION {Along(p, Axis(c), Tree(p[Axis(c)], 3)) : p \in Cr(c)} : c \in Cross}
  BY DEF FullSearch
<1> SUFFICES ASSUME NEW c \in Cross, NEW p \in Cr(c), NEW q \in Along(p, Axis(c), Tree(p[Axis(c)], 3))
             PROVE  q \in Points(0)
  BY <1>1
<1> DEFINE axis == Axis(c)
           other == Other(axis)
<1>2. /\ c \in [gain : Starts, phase : Starts] /\ axis \in {"gain", "phase"} /\ other \in {"gain", "phase"}
      /\ axis # other /\ c[other] = 0 /\ c[axis] \in Starts
  BY DEF Cross, At, Starts, Other
<1> HIDE DEF axis
<1>3. ASSUME NEW o \in St(c) PROVE o \in [gain : Stepped \cup Starts, phase : Stepped \cup Starts]
                                /\ o[axis] \in Stepped /\ o[other] = 0
  <2>1. PICK v \in Steps(c[axis]) : o = [c EXCEPT ![axis] = v]
    BY DEF Along, axis
  <2>2. v \in Stepped
    BY <1>2, StepsOfFull
  <2> QED
    BY <2>1, <2>2, <1>2
<1>4. PICK o \in St(c) : p \in Along(o, other, Tree(o[other], 5))
  BY DEF axis
<1>5. p \in [gain : Stepped \cup Starts, phase : Stepped \cup Starts] /\ p[axis] \in Stepped
  <2>1. PICK v \in Tree(o[other], 5) : p = [o EXCEPT ![other] = v]
    BY <1>4 DEF Along
  <2>2. v \in Starts
    BY <1>3, <2>1, TreeOfFull
  <2> QED
    BY <2>1, <2>2, <1>3, <1>2
<1>6. PICK v \in Tree(p[axis], 3) : q = [p EXCEPT ![axis] = v]
  BY DEF Along, axis
<1>7. v \in Values(0)
  BY <1>5, <1>6, TreeOfStepped
<1>8. Stepped \cup Starts \subseteq Values(0)
  BY DEF Stepped, Starts, Values
<1> QED
  BY <1>2, <1>5, <1>6, <1>7, <1>8 DEF Points

LEMMA PointsHold == FoundPoints \subseteq Points(3)
<1>1. FullPoints \subseteq Points(1)
  BY FullSearchHolds, SectionsHold DEF FullPoints
<1>2. NextPoints \subseteq Points(2)
  BY <1>1, SectionsHold DEF NextPoints
<1>3. LastPoints \subseteq Points(3)
  BY <1>2, SectionsHold DEF LastPoints
<1>4. Points(1) \subseteq Points(3) /\ Points(2) \subseteq Points(3)
  BY DEF Points, Values
<1> QED
  BY <1>1, <1>2, <1>3, <1>4 DEF FoundPoints

\* A point with a bit that the registers do not keep is never used.
LEMMA UsedAsTriedHolds == UsedAsTried
<1> SUFFICES ASSUME NEW p \in FoundPoints, Usable(p)
             PROVE  /\ (p.gain \div 16) % 2 = 0 /\ p.gain < 64
                    /\ (p.phase \div 16) % 2 = 0 /\ p.phase < 64
  BY DEF UsedAsTried
<1>1. p.gain \in Values(3) /\ p.phase \in Values(3)
  BY PointsHold DEF Points
<1>2. p.gain % 16 <= 6 /\ p.phase % 16 <= 6
  BY DEF Usable, Mag
<1>3. ASSUME NEW v \in Values(3), v % 16 <= 6 PROVE (v \div 16) % 2 = 0 /\ v < 64
  BY <1>3 DEF Values
<1> QED
  BY <1>1, <1>2, <1>3

\* Each point is searched in full or around one measured before.
LEMMA OrderHolds ==
  \A mode \in 0 .. 1, i \in 1 .. 5 :
    Full(Order[i], mode) \/ \E h \in 1 .. i - 1 : Order[h] = Pre(Order[i])
<1> SUFFICES ASSUME NEW mode \in 0 .. 1, NEW i \in 1 .. 5
             PROVE  Full(Order[i], mode) \/ \E h \in 1 .. i - 1 : Order[h] = Pre(Order[i])
  OBVIOUS
<1>1. /\ Order[1] = 2 /\ Order[2] = 1 /\ Order[3] = 0 /\ Order[4] = 3 /\ Order[5] = 4
  BY DEF Order
<1>2. CASE i = 1
  BY <1>1, <1>2 DEF Full
<1>3. CASE i \in {2, 4}
  <2>1. 1 \in 1 .. i - 1 /\ Order[1] = Pre(Order[i])
    BY <1>1, <1>3 DEF Pre
  <2> QED
    BY <2>1
<1>4. CASE i \in {3, 5}
  <2>1. 2 \in 1 .. i - 1 /\ Order[2] = Pre(Order[i])
    BY <1>1, <1>4 DEF Pre
  <2> QED
    BY <2>1
<1> QED
  BY <1>2, <1>3, <1>4

-----------------------------------------------------------------------------
(* The driver.                                                             *)

\* The truth values, kept from the provers, which take them for formulas.
Bools == BOOLEAN
MixerModes == 0 .. 1
ChipIds == 0 .. 1

Bases  == {"zero", "mixed", "init", "imr", "lpf"}
Rows   == [base : Bases, row : Asked \cup {Nothing}, clock : ChipIds]
Images == [done : Bools, amp : Nat, at : [0 .. 4 -> Nat], good : [0 .. 4 -> Bools]]
Driver == [init : Bools, chip : ChipIds, sys : Asked \cup {Nothing}, cur : Asked \cup {Nothing},
           shadow : Rows, cal : [MixerModes -> Images]]

\* The images of the mode of the system, calibrated with its amplifier.
Calibrated(s) ==
  LET cal == s.cal[Mode(s.sys.system)] IN cal.done /\ cal.amp = Amp(s.sys.system)

\* The points of a calibration that was not cut short are all of one setting.
OneSetting(s) == \A m \in MixerModes : s.cal[m].done => \A j \in 0 .. 4 : s.cal[m].at[j] = s.cal[m].amp

\* The row of a system is in the shadow, all but the clock of the AGC perhaps.
Laid(s, sys) ==
  /\ s.shadow.base = "init" /\ s.shadow.row = sys
  /\ s.shadow.clock \in {0, AgcClk(s.chip)}

\* What sys_curr stands for.
Current(c, s) ==
  s.cur # Nothing => /\ s.cur = s.sys /\ RowsOf(s.sys) # {}
                     /\ Laid(s, s.sys)
                     /\ c.imr => Calibrated(s)

\* Where the images are not to be calibrated, they are not.
NotAsked(c, s) == ~ c.imr => \A m \in MixerModes : ~ s.cal[m].done

\* The registers of a chip that was tuned to `t`, c calibrations having been cut short.
Held(t, h, c) ==
  /\ RowsOf(t.sys) # {} /\ t.freq \in FreqMin .. FreqMax
  /\ h.base = "init" /\ h.row = t.sys /\ h.clock \in {0, AgcClk(t.chip)}
  /\ Unclocked(t.sys, t.freq) => h.clock = 0
  /\ h.freq = FreqRowOf(t.sys, t.freq)
  /\ h.pll = Pll(t.sys, LoOf(t.sys, t.freq), t.chip)
  /\ c = 0 => h.mux.imr \in {0, Amp(t.sys.system)}

\* The inductive invariant.  What sys_curr spares the driver to set is calibrated
\* for, so that the images are not calibrated, and the shadow not borrowed, while it
\* stands; and a point is of its calibration's setting unless one was cut short.
ChipInv ==
  /\ chipId \in ChipIds /\ driver \in Driver /\ cuts \in Nat
  /\ Current(config, driver) /\ NotAsked(config, driver)
  /\ cuts = 0 => OneSetting(driver)
  /\ lastSet # Nothing => Held(lastSet, regs, cuts)

LEMMA ModeIs ==
  ASSUME NEW name PROVE Mode(name) \in MixerModes /\ Amp(name) \in Nat
<1>1. Mode(name) = 0 \/ Mode(name) = 1
  BY DEF Mode
<1>2. Amp(name) = 7 \/ Amp(name) = 4
  BY DEF Amp
<1> QED
  BY <1>1, <1>2 DEF MixerModes

LEMMA TruthIs == TRUE \in Bools /\ FALSE \in Bools
BY Zenon DEF Bools

LEMMA MeasuredIs ==
  ASSUME NEW cal \in Images, NEW k \in Nat, NEW amp \in Nat, NEW good \in Bools
  PROVE  LET c == Measured(cal, k, amp, good)
         IN  /\ c \in Images
             /\ k = 5 => \A j \in 0 .. 4 : c.at[j] = amp
<1> DEFINE js == {Order[i] : i \in 1 .. k}
           at == [j \in 0 .. 4 |-> IF j \in js THEN amp ELSE cal.at[j]]
           ok == [j \in 0 .. 4 |-> IF j \in js THEN good ELSE cal.good[j]]
<1>1. Measured(cal, k, amp, good) = [cal EXCEPT !.at = at, !.good = ok]
  BY DEF Measured
<1>2. k = 5 => \A j \in 0 .. 4 : j \in js
  <2>1. /\ Order[1] = 2 /\ Order[2] = 1 /\ Order[3] = 0 /\ Order[4] = 3 /\ Order[5] = 4
    BY DEF Order
  <2> HIDE DEF Order
  <2> QED
    BY <2>1
<1> HIDE DEF js
<1>3. /\ at \in [0 .. 4 -> Nat] /\ ok \in [0 .. 4 -> Bools]
      /\ \A j \in 0 .. 4 : j \in js => at[j] = amp
  BY DEF Images
<1> HIDE DEF at, ok
<1> QED
  BY <1>1, <1>2, <1>3 DEF Images

LEMMA WholeIs ==
  ASSUME NEW cal \in Images, NEW amp \in Nat, NEW good \in Bools
  PROVE  LET c == Whole(cal, amp, good)
         IN  /\ c \in Images /\ c.done = TRUE /\ c.amp = amp
             /\ \A j \in 0 .. 4 : c.at[j] = amp
<1> DEFINE m == Measured(cal, 5, amp, good)
<1>1. m \in Images /\ \A j \in 0 .. 4 : m.at[j] = amp
  BY MeasuredIs
<1>2. Whole(cal, amp, good) = [m EXCEPT !.done = TRUE, !.amp = amp]
  BY DEF Whole
<1> HIDE DEF m
<1> QED
  BY <1>1, <1>2, TruthIs DEF Images

LEMMA CalibratingIs ==
  ASSUME NEW s \in Driver, NEW mode \in MixerModes, NEW cal \in Images
  PROVE  LET left == Calibrating(s, mode, cal)
         IN  /\ left \in Driver
             /\ left.init = s.init /\ left.chip = s.chip /\ left.sys = s.sys /\ left.cur = s.cur
             /\ left.cal[mode] = cal /\ \A i \in MixerModes : i # mode => left.cal[i] = s.cal[i]
<1> DEFINE left == Calibrating(s, mode, cal)
           cals == [s.cal EXCEPT ![mode] = cal]
           row  == Plain("imr")
<1>1. row \in Rows
  BY DEF Plain, Table, Rows, Bases, ChipIds
<1>2. /\ cals \in [MixerModes -> Images]
      /\ cals[mode] = cal /\ \A i \in MixerModes : i # mode => cals[i] = s.cal[i]
  BY DEF Driver
<1>3. left = [s EXCEPT !.shadow = row, !.cal = cals]
  BY DEF Calibrating
<1> HIDE DEF cals, row, left
<1> QED
  BY <1>1, <1>2, <1>3 DEF Driver, left

\* calibrate_imr touches nothing but the shadow and the points of the mode.
LEMMA CalibrateImrIs ==
  ASSUME NEW s \in Driver, NEW r \in CalibrateImr(s)
  PROVE  /\ r.d \in Driver
         /\ r.d.init = s.init /\ r.d.chip = s.chip /\ r.d.sys = s.sys /\ r.d.cur = s.cur
         /\ r.ok => Calibrated(r.d) /\ (OneSetting(s) => OneSetting(r.d))
<1> DEFINE mode == Mode(s.sys.system)
           amp  == Amp(s.sys.system)
           cal  == s.cal[mode]
<1>0. PICK g \in Bools :
        r \in {Ended(Calibrating(s, mode, Measured(cal, k, amp, g)), FALSE) : k \in 0 .. 4}
             \cup {Ended(Calibrating(s, mode, Whole(cal, amp, g)), TRUE)}
  <2>1. r \in UNION {{Ended(Calibrating(s, mode, Measured(cal, k, amp, g)), FALSE) : k \in 0 .. 4}
                     \cup {Ended(Calibrating(s, mode, Whole(cal, amp, g)), TRUE)} : g \in Bools}
    BY DEF CalibrateImr, Bools
  <2> HIDE DEF mode, amp, cal
  <2> QED
    BY <2>1
<1>1. \/ \E k \in 0 .. 4 : r = Ended(Calibrating(s, mode, Measured(cal, k, amp, g)), FALSE)
      \/ r = Ended(Calibrating(s, mode, Whole(cal, amp, g)), TRUE)
  <2> HIDE DEF mode, amp, cal
  <2> QED
    BY <1>0
<1>2. mode \in MixerModes /\ amp \in Nat /\ cal \in Images
  BY ModeIs DEF Driver
<1>c. (Calibrated(r.d) <=> r.d.cal[Mode(r.d.sys.system)].done
                           /\ r.d.cal[Mode(r.d.sys.system)].amp = Amp(r.d.sys.system))
  BY DEF Calibrated
<1>m. mode = Mode(s.sys.system) /\ amp = Amp(s.sys.system) /\ cal = s.cal[mode]
  OBVIOUS
<1> HIDE DEF mode, amp, cal
<1>3. ASSUME NEW k \in 0 .. 4,
             r = Ended(Calibrating(s, mode, Measured(cal, k, amp, g)), FALSE)
      PROVE  /\ r.ok = FALSE /\ r.d \in Driver
             /\ r.d.init = s.init /\ r.d.chip = s.chip /\ r.d.sys = s.sys /\ r.d.cur = s.cur
  <2>1. Measured(cal, k, amp, g) \in Images
    BY <1>2, MeasuredIs
  <2>2. r.ok = FALSE /\ r.d = Calibrating(s, mode, Measured(cal, k, amp, g))
    BY <1>3 DEF Ended
  <2> QED
    BY <2>1, <2>2, <1>2, CalibratingIs
<1>4. ASSUME r = Ended(Calibrating(s, mode, Whole(cal, amp, g)), TRUE)
      PROVE  /\ r.ok = TRUE /\ r.d \in Driver
             /\ r.d.init = s.init /\ r.d.chip = s.chip /\ r.d.sys = s.sys /\ r.d.cur = s.cur
             /\ Calibrated(r.d) /\ (OneSetting(s) => OneSetting(r.d))
  <2> DEFINE w == Whole(cal, amp, g)
  <2>1. w \in Images /\ w.done = TRUE /\ w.amp = amp /\ \A j \in 0 .. 4 : w.at[j] = amp
    BY <1>2, WholeIs
  <2>2. r.ok = TRUE /\ r.d = Calibrating(s, mode, w)
    BY <1>4 DEF Ended
  <2> HIDE DEF w
  <2>3. /\ r.d \in Driver
        /\ r.d.init = s.init /\ r.d.chip = s.chip /\ r.d.sys = s.sys /\ r.d.cur = s.cur
        /\ r.d.cal[mode] = w /\ \A i \in MixerModes : i # mode => r.d.cal[i] = s.cal[i]
    BY <1>2, <2>1, <2>2, CalibratingIs
  <2>4. Calibrated(r.d)
    BY <2>1, <2>3, <1>c, <1>m
  <2>5. ASSUME OneSetting(s), NEW m \in MixerModes, r.d.cal[m].done, NEW j \in 0 .. 4
        PROVE  r.d.cal[m].at[j] = r.d.cal[m].amp
    <3>1. CASE m = mode
      BY <3>1, <2>1, <2>3
    <3>2. CASE m # mode
      BY <3>2, <2>3, <2>5 DEF OneSetting
    <3> QED
      BY <3>1, <3>2
  <2>6. OneSetting(s) => OneSetting(r.d)
    BY <2>5 DEF OneSetting
  <2> QED
    BY <2>2, <2>3, <2>4, <2>6
<1> QED
  BY <1>1, <1>3, <1>4

\* The images are calibrated where they are to be and are not yet.
LEMMA ImrIs ==
  ASSUME NEW s \in Driver, NEW r \in Imr(s)
  PROVE  \/ r.ok /\ r.d = s /\ (config.imr => Calibrated(s))
         \/ r \in CalibrateImr(s) /\ config.imr /\ ~ Calibrated(s)
<1> DEFINE cal == s.cal[Mode(s.sys.system)]
           on  == config.imr /\ (~ cal.done \/ cal.amp # Amp(s.sys.system))
<1>1. Imr(s) = IF on THEN CalibrateImr(s) ELSE {Ended(s, TRUE)}
  BY DEF Imr
<1>2. on <=> config.imr /\ ~ Calibrated(s)
  BY DEF Calibrated
<1> HIDE DEF on
<1>3. CASE on
  BY <1>1, <1>2, <1>3
<1>4. CASE ~ on
  <2>1. r = Ended(s, TRUE)
    BY <1>1, <1>4
  <2> QED
    BY <2>1, <1>2, <1>4 DEF Ended
<1> QED
  BY <1>3, <1>4

\* What set_system_params leaves as it was.
Same(s, t) == t.init = s.init /\ t.chip = s.chip /\ t.sys = s.sys /\ t.cal = s.cal

LEMMA ShadowIs ==
  ASSUME NEW s \in Driver, NEW base \in Bases
  PROVE  LET t == [s EXCEPT !.shadow = Plain(base)]
         IN  t \in Driver /\ Same(s, t) /\ t.cur = s.cur
<1>1. Plain(base) \in Rows
  BY DEF Plain, Table, Rows, ChipIds
<1> QED
  BY <1>1 DEF Driver, Same

\* What set_system_frequency leaves of it.
LEMMA ClockedIs ==
  ASSUME NEW s \in Driver, Laid(s, s.sys), NEW f
  PROVE  LET t == Clocked(s, f)
         IN  /\ t \in Driver /\ Same(s, t) /\ t.cur = s.cur /\ Laid(t, s.sys)
             /\ Unclocked(s.sys, f) => t.shadow.clock = 0
<1> DEFINE clock == IF Unclocked(s.sys, f) THEN 0 ELSE s.shadow.clock
           row   == [s.shadow EXCEPT !.clock = clock]
           t     == [s EXCEPT !.shadow = row]
<1>1. s.shadow \in Rows /\ clock \in ChipIds /\ clock \in {0, AgcClk(s.chip)}
      /\ (Unclocked(s.sys, f) => clock = 0)
  BY DEF Driver, Rows, ChipIds, Laid
<1> HIDE DEF clock
<1>2. row \in Rows /\ row.base = s.shadow.base /\ row.row = s.shadow.row /\ row.clock = clock
  BY <1>1 DEF Rows
<1> HIDE DEF row
<1>3. t \in Driver /\ Same(s, t) /\ t.cur = s.cur /\ t.shadow = row
  BY <1>2 DEF Driver, Same
<1>4. Clocked(s, f) = t
  BY DEF Clocked, row, clock
<1> HIDE DEF t
<1>5. Laid(t, s.sys)
  BY <1>1, <1>2, <1>3 DEF Laid, Same
<1> QED
  BY <1>1, <1>2, <1>3, <1>4, <1>5

LEMMA CalibrateLpfIs ==
  ASSUME NEW s \in Driver, NEW r \in CalibrateLpf(s)
  PROVE  r.d \in Driver /\ Same(s, r.d) /\ r.d.cur = s.cur
<1>1. r \in {Ended([s EXCEPT !.shadow = Plain("lpf")], ok) : ok \in Bools}
  BY DEF CalibrateLpf, Bools
<1>2. r.d = [s EXCEPT !.shadow = Plain("lpf")]
  BY <1>1 DEF Ended
<1>3. "lpf" \in Bases
  BY DEF Bases
<1> QED
  BY <1>2, <1>3, ShadowIs

\* set_system_params sets the shadow whole or leaves sys_curr as it was.
LEMMA SystemParamsIs ==
  ASSUME NEW s \in Driver, NEW r \in SystemParams(s)
  PROVE  /\ r.d \in Driver /\ Same(s, r.d)
         /\ ~ r.ok => r.d = s \/ (s.cur # s.sys /\ r.d.cur = s.cur)
         /\ r.ok => \/ s.cur = s.sys /\ r.d = s
                    \/ /\ RowsOf(s.sys) # {} /\ r.d.cur = s.sys
                       /\ Laid(r.d, s.sys)
<1> DEFINE Lpfs == IF config.lpf THEN CalibrateLpf(s) ELSE {Ended(s, TRUE)}
           Renewed(o) == IF ~ o.ok THEN o
                     ELSE Ended([o.d EXCEPT !.shadow = Table("init", s.sys, AgcClk(s.chip)),
                                            !.cur = s.sys], TRUE)
<1>1. SystemParams(s) =
        IF s.cur = s.sys THEN {Ended(s, TRUE)}
        ELSE IF RowsOf(s.sys) = {} THEN {Ended(s, FALSE)}
        ELSE {Renewed(o) : o \in Lpfs}
  BY DEF SystemParams
<1>2. ASSUME NEW o \in Lpfs PROVE o.d \in Driver /\ Same(s, o.d) /\ o.d.cur = s.cur
  <2>1. o \in CalibrateLpf(s) \/ o = Ended(s, TRUE)
    OBVIOUS
  <2>2. Ended(s, TRUE).d = s /\ Same(s, s)
    BY DEF Ended, Same
  <2> QED
    BY <2>1, <2>2, CalibrateLpfIs
<1>3. CASE s.cur = s.sys
  <2>1. r = Ended(s, TRUE)
    BY <1>1, <1>3
  <2> QED
    BY <2>1, <1>3 DEF Ended, Same
<1>4. CASE s.cur # s.sys /\ RowsOf(s.sys) = {}
  <2>1. r = Ended(s, FALSE)
    BY <1>1, <1>4
  <2> QED
    BY <2>1, <1>4 DEF Ended, Same
<1>5. CASE s.cur # s.sys /\ RowsOf(s.sys) # {}
  <2>1. r \in {Renewed(o) : o \in Lpfs}
    BY <1>1, <1>5
  <2>2. PICK o \in Lpfs : r = Renewed(o)
    BY <2>1
  <2>3. o.d \in Driver /\ Same(s, o.d) /\ o.d.cur = s.cur
    BY <1>2
  <2>4. CASE ~ o.ok
    BY <2>2, <2>3, <2>4, <1>5
  <2>5. CASE o.ok
    <3> DEFINE row == Table("init", s.sys, AgcClk(s.chip))
               d   == o.d
               t   == [d EXCEPT !.shadow = row, !.cur = s.sys]
    <3>1. r.d = t /\ r.ok = TRUE
      BY <2>2, <2>5 DEF Ended
    <3>2. s.sys \in Asked \cup {Nothing}
      BY DEF Driver
    <3>3. row \in Rows /\ row.base = "init" /\ row.row = s.sys /\ row.clock = AgcClk(s.chip)
      BY <3>2 DEF Table, Rows, Bases, AgcClk, Driver
    <3>4. d \in Driver /\ Same(s, d)
      BY <2>3
    <3> HIDE DEF row, d
    <3>5. t \in Driver /\ Same(s, t) /\ t.cur = s.sys /\ t.shadow = row
      BY <3>2, <3>3, <3>4 DEF Driver, Same
    <3>6. Laid(t, s.sys)
      BY <3>3, <3>5 DEF Laid, Same
    <3> QED
      BY <3>1, <3>5, <3>6, <1>5
  <2> QED
    BY <2>4, <2>5
<1> QED
  BY <1>3, <1>4, <1>5

LEMMA NoCalIs ==
  LET cal == [m \in 0 .. 1 |-> NoCal]
  IN  cal \in [MixerModes -> Images] /\ \A m \in MixerModes : ~ cal[m].done
<1>1. NoCal \in Images /\ ~ NoCal.done
  <2> DEFINE at == [j \in 0 .. 4 |-> 0]
             good == [j \in 0 .. 4 |-> FALSE]
  <2>1. NoCal = [done |-> FALSE, amp |-> 0, at |-> at, good |-> good]
    BY DEF NoCal
  <2>2. at \in [0 .. 4 -> Nat] /\ good \in [0 .. 4 -> Bools]
    BY TruthIs
  <2> HIDE DEF at, good
  <2> QED
    BY <2>1, <2>2, TruthIs DEF Images
<1> QED
  BY <1>1 DEF MixerModes

LEMMA ChipInit == R850Init => ChipInv
<1> SUFFICES ASSUME R850Init PROVE ChipInv
  OBVIOUS
<1> DEFINE cal == [m \in 0 .. 1 |-> NoCal]
<1>1. /\ chipId \in ChipIds /\ lastSet = Nothing /\ cuts = 0
      /\ driver = [init |-> FALSE, chip |-> 0, sys |-> Nothing, cur |-> Nothing,
                   shadow |-> Unset, cal |-> cal]
  BY DEF R850Init, ChipIds
<1>2. cal \in [MixerModes -> Images] /\ \A m \in MixerModes : ~ cal[m].done
  BY NoCalIs
<1>3. Unset \in Rows /\ 0 \in ChipIds
  BY DEF Unset, Plain, Table, Rows, Bases, ChipIds
<1> HIDE DEF cal
<1>4. driver \in Driver /\ driver.cur = Nothing /\ driver.cal = cal
  BY <1>1, <1>2, <1>3, TruthIs DEF Driver
<1>5. Current(config, driver) /\ NotAsked(config, driver) /\ OneSetting(driver)
  BY <1>2, <1>4 DEF Current, NotAsked, OneSetting
<1> QED
  BY <1>1, <1>4, <1>5 DEF ChipInv

\* A driver that was undone knows of no system and of no point.
Blank(s) == s \in Driver /\ s.cur = Nothing /\ \A m \in MixerModes : ~ s.cal[m].done

LEMMA UndoneIs ==
  ASSUME NEW s \in Driver
  PROVE  Blank(Undone(s))
<1> DEFINE cal == [m \in 0 .. 1 |-> [s.cal[m] EXCEPT !.done = FALSE]]
<1>1. cal \in [MixerModes -> Images] /\ \A m \in MixerModes : ~ cal[m].done
  <2>1. ASSUME NEW c \in Images
        PROVE  [c EXCEPT !.done = FALSE] \in Images /\ ~ [c EXCEPT !.done = FALSE].done
    BY TruthIs DEF Images
  <2>2. \A m \in MixerModes : s.cal[m] \in Images
    BY DEF Driver
  <2> QED
    BY <2>1, <2>2 DEF MixerModes
<1>2. Undone(s) = [s EXCEPT !.init = FALSE, !.chip = 0, !.sys = Nothing, !.cur = Nothing, !.cal = cal]
  BY DEF Undone
<1> HIDE DEF cal
<1>3. 0 \in ChipIds
  BY DEF ChipIds
<1> QED
  BY <1>1, <1>2, <1>3, TruthIs DEF Driver, Blank

LEMMA BlankHolds ==
  ASSUME NEW c, NEW s, Blank(s)
  PROVE  s \in Driver /\ Current(c, s) /\ NotAsked(c, s) /\ OneSetting(s)
BY DEF Blank, Current, NotAsked, OneSetting

LEMMA InitChipStep == ASSUME ChipInv, InitTuner PROVE ChipInv'
<1> DEFINE blank == Undone(driver)
           on    == [blank EXCEPT !.init = TRUE, !.chip = chipId, !.shadow = Plain("init")]
           off   == [blank EXCEPT !.chip = chipId, !.shadow = Plain("init")]
<1>1. /\ driver' \in {on, blank, off} /\ lastSet' = Nothing
      /\ config' = config /\ chipId' = chipId /\ cuts' = cuts
  BY DEF InitTuner
<1>2. chipId \in ChipIds /\ driver \in Driver /\ cuts \in Nat
  BY DEF ChipInv
<1>3. Blank(blank)
  BY <1>2, UndoneIs
<1> HIDE DEF blank
<1>4. Plain("init") \in Rows
  BY DEF Plain, Table, Rows, Bases, ChipIds
<1>5. Blank(on) /\ Blank(off)
  BY <1>2, <1>3, <1>4, TruthIs DEF Blank, Driver
<1> HIDE DEF on, off
<1>6. Blank(driver')
  BY <1>1, <1>3, <1>5
<1>7. driver' \in Driver /\ Current(config', driver') /\ NotAsked(config', driver') /\ OneSetting(driver')
  BY <1>6, BlankHolds
<1> QED
  BY <1>1, <1>2, <1>7 DEF ChipInv

LEMMA TermStep == ASSUME ChipInv, TermTuner PROVE ChipInv'
<1> DEFINE blank == Undone(driver)
<1>1. driver' = [blank EXCEPT !.shadow = Unset] /\ UNCHANGED <<config, chipId, regs, lastSet, cuts>>
  BY DEF TermTuner
<1>2. driver \in Driver
  BY DEF ChipInv
<1>3. Blank(blank)
  BY <1>2, UndoneIs
<1> HIDE DEF blank
<1>4. Unset \in Rows
  BY DEF Unset, Plain, Table, Rows, Bases, ChipIds
<1>5. Blank(driver')
  BY <1>1, <1>3, <1>4 DEF Blank, Driver
<1>6. driver' \in Driver /\ Current(config', driver') /\ NotAsked(config', driver') /\ OneSetting(driver')
  BY <1>5, BlankHolds
<1> QED
  BY <1>1, <1>6 DEF ChipInv

LEMMA PowerOffStep == ASSUME ChipInv, LosePower PROVE ChipInv'
BY DEF ChipInv, LosePower

LEMMA SetSystemStep == ASSUME ChipInv, NEW sys \in Asked, SetSystem(sys) PROVE ChipInv'
<1>1. driver' = [driver EXCEPT !.sys = sys, !.cur = Nothing] /\ UNCHANGED <<config, chipId, regs, lastSet, cuts>>
  BY DEF SetSystem
<1>2. driver \in Driver /\ NotAsked(config, driver) /\ (cuts = 0 => OneSetting(driver))
  BY DEF ChipInv
<1>3. driver' \in Driver /\ driver'.cur = Nothing /\ driver'.cal = driver.cal
  BY <1>1, <1>2 DEF Driver
<1>4. Current(config', driver') /\ NotAsked(config', driver') /\ (cuts' = 0 => OneSetting(driver'))
  BY <1>1, <1>2, <1>3 DEF Current, NotAsked, OneSetting
<1> QED
  BY <1>1, <1>3, <1>4 DEF ChipInv

LEMMA ImrIdxIs == ASSUME NEW lo PROVE ImrIdx(lo) \in 0 .. 4
<1> DEFINE steps == << <<170000, 0>>, <<240000, 4>>, <<400000, 1>>, <<760000, 2>> >>
           under == {i \in DOMAIN steps : lo < steps[i][1]}
<1>1. ImrIdx(lo) = IF under = {} THEN 3 ELSE steps[Least(under)][2]
  BY DEF ImrIdx, Below
<1>2. DOMAIN steps = 1 .. 4
  OBVIOUS
<1>3. steps[1][2] = 0 /\ steps[2][2] = 4 /\ steps[3][2] = 1 /\ steps[4][2] = 2
  OBVIOUS
<1>4. under \in SUBSET Nat /\ under \subseteq 1 .. 4
  BY <1>2
<1> HIDE DEF under, steps
<1>5. CASE under = {}
  BY <1>1, <1>5
<1>6. CASE under # {}
  <2>1. Least(under) \in under
    BY <1>4, <1>6, LeastHolds
  <2> DEFINE i == Least(under)
  <2>2. ImrIdx(lo) = steps[i][2]
    BY <1>1, <1>6
  <2> HIDE DEF i
  <2>3. i \in 1 .. 4
    BY <2>1, <1>4 DEF i
  <2>4. i = 1 \/ i = 2 \/ i = 3 \/ i = 4
    BY <2>3
  <2> QED
    BY <2>2, <2>4, <1>3
<1> QED
  BY <1>5, <1>6

\* Reception goes by a point of the amplifier's setting, or by none.
LEMMA MuxIs ==
  ASSUME NEW s, OneSetting(s), NEW lo, NEW sys,
         LET cal == s.cal[Mode(sys)] IN cal.done => cal.amp = Amp(sys)
  PROVE  Mux(s.sys, lo, s.cal[Mode(sys)]).imr \in {0, Amp(sys)}
<1> DEFINE cal == s.cal[Mode(sys)]
           j   == ImrIdx(lo)
<1>1. Mux(s.sys, lo, cal).imr = IF cal.done /\ cal.good[j] THEN cal.at[j] ELSE 0
  BY DEF Mux
<1>2. cal.done => cal.at[j] = cal.amp
  BY ModeIs, ImrIdxIs DEF OneSetting
<1> HIDE DEF cal, j
<1> QED
  BY <1>1, <1>2 DEF cal

\* What the driver is in once the images are seen to: as it was, or calibrated, or
\* short of it.
Tuning(c, s, t, ok) ==
  /\ t \in Driver
  /\ t.init = s.init /\ t.chip = s.chip /\ t.sys = s.sys /\ t.cur = s.cur
  /\ Current(c, t) /\ NotAsked(c, t)
  /\ ok => /\ c.imr => Calibrated(t)
           /\ OneSetting(s) => OneSetting(t)

LEMMA ImrHolds ==
  ASSUME NEW s \in Driver, Current(config, s), NotAsked(config, s), NEW r \in Imr(s)
  PROVE  Tuning(config, s, r.d, r.ok)
<1>1. CASE r.ok /\ r.d = s /\ (config.imr => Calibrated(s))
  BY <1>1 DEF Tuning
<1>2. CASE r \in CalibrateImr(s) /\ config.imr /\ ~ Calibrated(s)
  <2>1. /\ r.d \in Driver
        /\ r.d.init = s.init /\ r.d.chip = s.chip /\ r.d.sys = s.sys /\ r.d.cur = s.cur
        /\ r.ok => Calibrated(r.d) /\ (OneSetting(s) => OneSetting(r.d))
    BY <1>2, CalibrateImrIs
  <2>2. r.d.cur = Nothing
    BY <2>1, <1>2 DEF Current
  <2> QED
    BY <2>1, <2>2, <1>2 DEF Tuning, Current, NotAsked
<1> QED
  BY <1>1, <1>2, ImrIs

\* The driver, once the parameters of the system are set too.
LEMMA ParamsHold ==
  ASSUME NEW s, s.sys # Nothing, NEW t, Tuning(config, s, t, TRUE), NEW r \in SystemParams(t)
  PROVE  /\ r.d \in Driver /\ r.d.chip = s.chip /\ r.d.sys = s.sys
         /\ Current(config, r.d) /\ NotAsked(config, r.d)
         /\ config.imr => Calibrated(r.d)
         /\ OneSetting(s) => OneSetting(r.d)
         /\ r.ok => RowsOf(s.sys) # {} /\ Laid(r.d, s.sys)
<1>1. /\ t \in Driver /\ t.chip = s.chip /\ t.sys = s.sys
      /\ Current(config, t) /\ NotAsked(config, t)
      /\ config.imr => Calibrated(t)
      /\ OneSetting(s) => OneSetting(t)
  BY DEF Tuning
<1>2. /\ r.d \in Driver /\ Same(t, r.d)
      /\ ~ r.ok => r.d = t \/ (t.cur # t.sys /\ r.d.cur = t.cur)
      /\ r.ok => \/ t.cur = t.sys /\ r.d = t
                 \/ /\ RowsOf(t.sys) # {} /\ r.d.cur = t.sys
                    /\ Laid(r.d, t.sys)
  BY <1>1, SystemParamsIs
<1>3. r.d.chip = s.chip /\ r.d.sys = s.sys /\ r.d.cal = t.cal
  BY <1>1, <1>2 DEF Same
<1>4. NotAsked(config, r.d) /\ (config.imr => Calibrated(r.d)) /\ (OneSetting(s) => OneSetting(r.d))
  BY <1>1, <1>3 DEF NotAsked, Calibrated, OneSetting
<1>5. r.ok => RowsOf(s.sys) # {} /\ Laid(r.d, s.sys)
  BY <1>1, <1>2 DEF Current
<1>6. Current(config, r.d)
  <2>1. CASE r.d = t
    BY <2>1, <1>1
  <2>2. CASE t.cur # t.sys /\ r.d.cur = t.cur
    BY <2>2, <1>1 DEF Current
  <2>3. CASE RowsOf(t.sys) # {} /\ r.d.cur = t.sys /\ Laid(r.d, t.sys)
    BY <2>3, <1>1, <1>3, <1>4 DEF Current
  <2> QED
    BY <1>2, <2>1, <2>2, <2>3
<1> QED
  BY <1>1, <1>2, <1>3, <1>4, <1>5, <1>6

\* The ver, tuned.
LEMMA TunedHolds ==
  ASSUME NEW s, NEW t, NEW f \in FreqMin .. FreqMax, NEW c,
         t.chip = s.chip, t.sys = s.sys, NotAsked(config, t), config.imr => Calibrated(t),
         c = 0 => OneSetting(t),
         RowsOf(s.sys) # {}, Laid(t, s.sys), Unclocked(s.sys, f) => t.shadow.clock = 0
  PROVE  Held([sys |-> s.sys, freq |-> f, chip |-> s.chip], SystemFrequency(t, f), c)
<1> DEFINE h   == SystemFrequency(t, f)
           mux == Mux(t.sys, LoOf(t.sys, f), t.cal[Mode(t.sys.system)])
           q   == [sys |-> s.sys, freq |-> f, chip |-> s.chip]
<1>1. /\ h.base = t.shadow.base /\ h.row = t.shadow.row /\ h.clock = t.shadow.clock
      /\ h.freq = FreqRowOf(t.sys, f)
      /\ h.pll = Pll(t.sys, LoOf(t.sys, f), t.chip)
      /\ h.mux = mux
  BY DEF SystemFrequency
<1>2. /\ t.shadow.base = "init" /\ t.shadow.row = s.sys
      /\ t.shadow.clock \in {0, AgcClk(s.chip)}
  BY DEF Laid
<1>3. t.cal[Mode(t.sys.system)].done => t.cal[Mode(t.sys.system)].amp = Amp(t.sys.system)
  BY ModeIs DEF NotAsked, Calibrated
<1>4. c = 0 => mux.imr \in {0, Amp(t.sys.system)}
  BY <1>3, MuxIs
<1>5. q.sys = s.sys /\ q.freq = f /\ q.chip = s.chip
  OBVIOUS
<1> HIDE DEF h, mux, q
<1>6. Held(q, h, c)
  BY <1>1, <1>2, <1>4, <1>5 DEF Held
<1> QED
  BY <1>6 DEF h, q

LEMMA SetFrequencyStep == ASSUME ChipInv, NEW f, SetFrequency(f) PROVE ChipInv'
<1>1. PICK imr \in Imr(driver) :
        \E params \in IF imr.ok THEN SystemParams(imr.d) ELSE {imr} :
          /\ cuts' = cuts + (IF imr.ok THEN 0 ELSE 1)
          /\ driver' = IF params.ok THEN Clocked(params.d, f) ELSE params.d
          /\ \/ /\ params.ok /\ regs' = SystemFrequency(Clocked(params.d, f), f)
                /\ lastSet' = [sys |-> driver.sys, freq |-> f, chip |-> driver.chip]
             \/ lastSet' = Nothing
  BY DEF SetFrequency
<1>2. PICK params \in IF imr.ok THEN SystemParams(imr.d) ELSE {imr} :
          /\ cuts' = cuts + (IF imr.ok THEN 0 ELSE 1)
          /\ driver' = IF params.ok THEN Clocked(params.d, f) ELSE params.d
          /\ \/ /\ params.ok /\ regs' = SystemFrequency(Clocked(params.d, f), f)
                /\ lastSet' = [sys |-> driver.sys, freq |-> f, chip |-> driver.chip]
             \/ lastSet' = Nothing
  BY <1>1
<1>3. driver.sys # Nothing /\ f \in FreqMin .. FreqMax /\ config' = config /\ chipId' = chipId
  BY DEF SetFrequency
<1>4. /\ chipId \in ChipIds /\ driver \in Driver /\ cuts \in Nat
      /\ Current(config, driver) /\ NotAsked(config, driver)
      /\ cuts = 0 => OneSetting(driver)
  BY DEF ChipInv
<1>5. Tuning(config, driver, imr.d, imr.ok)
  BY <1>4, ImrHolds
<1>6. CASE ~ imr.ok
  <2>1. params = imr
    BY <1>6, <1>2
  <2>2. driver' = imr.d /\ lastSet' = Nothing /\ cuts' = cuts + 1
    BY <1>2, <1>6, <2>1
  <2>3. driver' \in Driver /\ Current(config, driver') /\ NotAsked(config, driver')
    BY <1>5, <2>2 DEF Tuning
  <2>4. cuts' \in Nat /\ cuts' # 0
    BY <1>4, <2>2
  <2> QED
    BY <1>3, <1>4, <2>2, <2>3, <2>4 DEF ChipInv
<1>7. CASE imr.ok
  <2>1. params \in SystemParams(imr.d) /\ cuts' = cuts
    BY <1>2, <1>4, <1>7
  <2>2. Tuning(config, driver, imr.d, TRUE)
    BY <1>5, <1>7 DEF Tuning
  <2>3. /\ params.d \in Driver /\ params.d.chip = driver.chip /\ params.d.sys = driver.sys
        /\ Current(config, params.d) /\ NotAsked(config, params.d)
        /\ config.imr => Calibrated(params.d)
        /\ OneSetting(driver) => OneSetting(params.d)
        /\ params.ok => RowsOf(driver.sys) # {} /\ Laid(params.d, driver.sys)
    BY <2>1, <2>2, <1>3, ParamsHold
  <2>4. cuts = 0 => OneSetting(params.d)
    BY <2>3, <1>4
  <2>5. params.ok =>
          /\ driver' = Clocked(params.d, f) /\ driver' \in Driver /\ Same(params.d, driver')
          /\ driver'.cur = params.d.cur /\ Laid(driver', driver.sys)
          /\ Unclocked(driver.sys, f) => driver'.shadow.clock = 0
    BY <2>3, <1>2, ClockedIs
  <2>6. /\ driver' \in Driver /\ driver'.chip = driver.chip /\ driver'.sys = driver.sys
        /\ NotAsked(config, driver') /\ (config.imr => Calibrated(driver'))
        /\ cuts = 0 => OneSetting(driver')
    <3>1. CASE params.ok
      BY <3>1, <2>3, <2>4, <2>5 DEF Same, NotAsked, Calibrated, OneSetting
    <3>2. CASE ~params.ok
      BY <3>2, <2>3, <2>4, <1>2
    <3> QED
      BY <3>1, <3>2
  <2>7. Current(config, driver')
    <3>1. CASE params.ok
      BY <3>1, <2>3, <2>5, <2>6 DEF Current
    <3>2. CASE ~params.ok
      BY <3>2, <2>3, <1>2
    <3> QED
      BY <3>1, <3>2
  <2>8. ASSUME params.ok, regs' = SystemFrequency(driver', f),
               lastSet' = [sys |-> driver.sys, freq |-> f, chip |-> driver.chip]
        PROVE  Held(lastSet', regs', cuts')
    BY <2>1, <2>3, <2>5, <2>6, <2>8, <1>3, TunedHolds
  <2>9. lastSet' # Nothing => Held(lastSet', regs', cuts')
    BY <2>5, <2>8, <1>2
  <2> QED
    BY <1>3, <1>4, <2>1, <2>6, <2>7, <2>9 DEF ChipInv
<1> QED
  BY <1>6, <1>7

LEMMA ChipStep == ChipInv /\ [R850Next]_r850Vars => ChipInv'
<1> SUFFICES ASSUME ChipInv, [R850Next]_r850Vars PROVE ChipInv'
  OBVIOUS
<1>1. CASE InitTuner
  BY <1>1, InitChipStep
<1>2. CASE TermTuner
  BY <1>2, TermStep
<1>3. CASE LosePower
  BY <1>3, PowerOffStep
<1>4. ASSUME NEW s \in Asked, SetSystem(s) PROVE ChipInv'
  BY <1>4, SetSystemStep
<1>5. ASSUME NEW f \in Freqs, SetFrequency(f) PROVE ChipInv'
  BY <1>5, SetFrequencyStep
<1>6. CASE UNCHANGED r850Vars
  BY <1>6 DEF r850Vars, ChipInv
<1> QED
  BY <1>1, <1>2, <1>3, <1>4, <1>5, <1>6 DEF R850Next

\* The invariant holds, whatever fails.
THEOREM ChipInvHolds == R850Spec => []ChipInv
BY ChipInit, ChipStep, PTL DEF R850Spec

\* Whatever transfer failed before, in whichever calibration, a chip that was tuned
\* holds the registers for the system and the frequency asked for, and what sys_curr
\* spares the driver to set is in the shadow still, all but the clock of the AGC
\* (r850.rs:1355, 1368, 1575).
THEOREM ReceivesAsSetHolds == R850Spec => []ReceivesAsSet
<1>1. ChipInv => ReceivesAsSet
  BY DEF ChipInv, Current, Held, ReceivesAsSet, Laid
<1> QED
  BY <1>1, ChipInvHolds, PTL

LEMMA FreqsAre == /\ FreqMin \in Nat /\ 40000 <= FreqMin
                  /\ FreqMax \in Nat /\ FreqMax <= 1002000
BY DEF FreqMin, FreqMax

LEMMA RowsAre ==
  ASSUME NEW s, RowsOf(s) # {}
  PROVE  s.if \in {1900, 4063, 4500, 4570, 5000, 5070}
<1> DEFINE Ifs == {1900, 4063, 4500, 4570, 5000, 5070}
<1>1. PICK r \in SystemRows(s.system) : r[2] = s.if
  BY DEF RowsOf
<1>2. ASSUME NEW name, NEW q \in SystemRows(name) PROVE q[2] \in Ifs
  <2>1. CASE name \in {"DvbT", "DvbT2"}
    BY <1>2, <2>1 DEF SystemRows
  <2>2. CASE name = "DvbT2_1"
    BY <1>2, <2>2 DEF SystemRows
  <2>3. CASE name = "DvbC"
    BY <1>2, <2>3 DEF SystemRows
  <2>4. CASE name = "J83b"
    BY <1>2, <2>4 DEF SystemRows
  <2>5. CASE name = "IsdbT"
    BY <1>2, <2>5 DEF SystemRows
  <2>6. CASE name = "Dtmb"
    BY <1>2, <2>6 DEF SystemRows
  <2>7. CASE name = "Atsc"
    BY <1>2, <2>7 DEF SystemRows
  <2>8. CASE name \notin {"DvbT", "DvbT2", "DvbT2_1", "DvbC", "J83b", "IsdbT", "Dtmb", "Atsc"}
    BY <1>2, <2>8 DEF SystemRows
  <2> QED
    BY <2>1, <2>2, <2>3, <2>4, <2>5, <2>6, <2>7, <2>8
<1> QED
  BY <1>1, <1>2

LEMMA LoIs ==
  ASSUME NEW s, RowsOf(s) # {}, NEW f \in FreqMin .. FreqMax
  PROVE  LET lo == LoOf(s, f) IN lo \in Nat /\ 34930 <= lo /\ lo <= 1007070
<1>1. s.if \in {1900, 4063, 4500, 4570, 5000, 5070}
  BY RowsAre
<1>2. f \in Nat /\ 40000 <= f /\ f <= 1002000
  BY FreqsAre
<1>3. LoOf(s, f) = f - s.if \/ LoOf(s, f) = f + s.if
  BY DEF LoOf
<1> QED
  BY <1>1, <1>2, <1>3

\* For every frequency the driver takes, the oscillator is set within a 64th of the
\* crystal of what it asks for, in the range of the chip, by numbers that fit their
\* registers (r850.rs:694).
THEOREM LoIsRightHolds == R850Spec => []LoIsRight
<1>1. ChipInv => LoIsRight
  <2> SUFFICES ASSUME ChipInv, lastSet # Nothing
               PROVE  OnFrequency(regs.pll, LoOf(lastSet.sys, lastSet.freq), lastSet.chip)
    BY DEF LoIsRight
  <2> DEFINE lo == LoOf(lastSet.sys, lastSet.freq)
  <2>1. /\ RowsOf(lastSet.sys) # {} /\ lastSet.freq \in FreqMin .. FreqMax
        /\ regs.pll = Pll(lastSet.sys, lo, lastSet.chip)
    BY DEF ChipInv, Held
  <2>2. lo \in Nat /\ 34930 <= lo /\ lo <= 1007070
    BY <2>1, LoIs
  <2> HIDE DEF lo
  <2>3. OnFrequency(Pll(lastSet.sys, lo, lastSet.chip), lo, lastSet.chip)
    BY <2>2, PllHolds
  <2> QED
    BY <2>1, <2>3 DEF lo
<1> QED
  BY <1>1, ChipInvHolds, PTL

\* A point of the images that reception goes by was tried as it is recorded, and, unless
\* a calibration was cut short, with the amplifier as the system has it (r850.rs:1143).
THEOREM PointsAreTrueHolds == R850Spec => []PointsAreTrue
<1>1. ChipInv => PointsAreTrue
  BY UsedAsTriedHolds, OrderHolds DEF ChipInv, Held, PointsAreTrue
<1> QED
  BY <1>1, ChipInvHolds, PTL

=============================================================================
