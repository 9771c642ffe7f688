------------------------------- MODULE PxMlt -------------------------------
(***************************************************************************)
(* A PX-MLT board (tunelith-driver-px4/src/pxmlt.rs): a demodulator        *)
(* (cxd2856er.rs) and a tuner chip (cxd2858er.rs) for each tuner, reached  *)
(* over few I2C buses.  All the tuner chips of a bus have one address, so  *)
(* that the gates of the demodulators alone tell them apart; and of the    *)
(* system a chip is set up for the driver keeps a note of its own.         *)
(*                                                                         *)
(* What is done under the lock of the board is one action.  Any command    *)
(* of it may fail, having taken effect or not, and ends it there; giving   *)
(* up on a call leaves the same.                                           *)
(***************************************************************************)
EXTENDS Naturals

CONSTANTS
  None,
  Chips,    \* the tuners of the board
  BusOf,    \* the I2C bus of each
  Params,   \* what is tuned to: [mode, khz, id], id being None for "T"
  MaxFails  \* bound: the calls that fail

ASSUME BusAssumption == DOMAIN BusOf = Chips
ASSUME FailsAssumption == MaxFails \in Nat
ASSUME ParamsAssumption ==
  /\ \A p \in Params : p.mode \in {"T", "S"} /\ p.khz # None
  /\ None \notin Params /\ None \notin {"T", "S"}

VARIABLES
  opened,  \* State::opened, whose number open_count is
  system,  \* BoardTuner::system: "none", "set", or "locking" as it polls
  got,     \* what the last tune of each set its chips to, or None
  chip,    \* the chips of each tuner, and the driver's notes of them
  power,
  cut,     \* the tuners a call of which failed since the board was powered
  fails    \* how many calls failed

vars == <<opened, system, got, chip, power, cut, fails>>

\* mode and tmode are the driver's notes; the rest is in the chips: the side
\* that runs, what each side was set up for, what lets the TS out, the stream
\* picked, the gate, and the frequency of each side of the tuner chip.
AtRest ==
  [mode |-> None, core |-> "asleep", t |-> FALSE, s |-> FALSE,
   pins |-> FALSE, out |-> FALSE, id |-> None, gate |-> FALSE,
   tmode |-> None, tunerT |-> None, tunerS |-> None]

Init ==
  /\ opened = {} /\ power = FALSE /\ cut = {} /\ fails = 0
  /\ system = [i \in Chips |-> "none"] /\ got = [i \in Chips |-> None]
  /\ chip = [i \in Chips |-> AtRest]

-----------------------------------------------------------------------------
(* Commands, and what becomes of a run of them: the chips `c` as they are  *)
(* left, and whether all went well.                                        *)

\* A write of a register of the demodulator of i, or of the tuner chips that
\* hear what is sent over its bus.
Demod(i, reg, val) == [to |-> {i}, gated |-> FALSE, reg |-> reg, val |-> val]
Tuner(i, reg, val) ==
  [to |-> {j \in Chips : BusOf[j] = BusOf[i]}, gated |-> TRUE, reg |-> reg, val |-> val]

Write(c, cmd) ==
  [j \in Chips |-> IF j \in cmd.to /\ (cmd.gated => c[j].gate)
                   THEN [c[j] EXCEPT ![cmd.reg] = cmd.val] ELSE c[j]]

Done(c)     == {[c |-> c, ok |-> TRUE]}
Run(c, cmd) == {[c |-> c, ok |-> FALSE]} \cup {[c |-> Write(c, cmd), ok |-> ok] : ok \in BOOLEAN}

\* `?`, then another step or command; and a step that is taken whatever became
\* of those before.
AndThen(runs, Step(_)) ==
  {r \in runs : ~r.ok} \cup UNION {Step(r.c) : r \in {q \in runs : q.ok}}
Then(runs, cmd) == AndThen(runs, LAMBDA c : Run(c, cmd))
InAnyCase(runs, Step(_)) ==
  UNION {{[q EXCEPT !.ok = @ /\ r.ok] : q \in Step(r.c)} : r \in runs}

\* The driver's notes: what the demodulator runs, and the tuner chip is set for.
Noted(c, i, m)      == [c EXCEPT ![i].mode = m]
TunerNoted(c, i, m) == [c EXCEPT ![i].tmode = m]

-----------------------------------------------------------------------------
(* The demodulator.                                                        *)

DemodInit(c, i) ==
  Run(Noted(c, i, None), Demod(i, "core", "asleep"))

\* The sequences of commands, by the registers the sides do not share.
Side(m) == IF m = "T" THEN "t" ELSE "s"

SleepOps(c, i, m) ==
  Then(Then(Then(Run(c, Demod(i, "out", FALSE)), Demod(i, "pins", FALSE)),
            Demod(i, Side(m), FALSE)), Demod(i, "core", "asleep"))
WakeOps(c, i, m) ==
  Then(Then(Run(c, Demod(i, "core", m)), Demod(i, Side(m), TRUE)), Demod(i, "pins", TRUE))

Sleep(c, i) ==
  IF c[i].mode = None THEN Done(c)
  ELSE SleepOps(Noted(c, i, None), i, c[i].mode)

Woken(c, i, m) ==
  AndThen(WakeOps(c, i, m), LAMBDA d : Done(Noted(d, i, m)))

\* Mutant: it is not put to sleep from a system to another.
WokenAsItIs(c, i, m) == Woken(c, i, m)

Wakeup(c, i, m) == AndThen(Sleep(c, i), LAMBDA d : Woken(d, i, m))

-----------------------------------------------------------------------------
(* The tuner chip, behind the gate.                                        *)

\* Mutant: nobody asks whether the gate closed.
CloseUnasked(runs, i) ==
  UNION {{[q EXCEPT !.ok = r.ok] : q \in Run(r.c, Demod(i, "gate", FALSE))} : r \in runs}

Close(runs, i) == InAnyCase(runs, LAMBDA d : Run(d, Demod(i, "gate", FALSE)))

Gated(c, i, Body(_)) ==
  AndThen(Run(c, Demod(i, "gate", TRUE)), LAMBDA d : Close(Body(d), i))

PowerOn(c, i) == Then(Run(c, Tuner(i, "tunerT", None)), Tuner(i, "tunerS", None))

TunerInit(c, i) == Gated(TunerNoted(c, i, None), i, LAMBDA d : PowerOn(d, i))

TunerSide(m) == IF m = "T" THEN "tunerT" ELSE "tunerS"

Stop(c, i) ==
  IF c[i].tmode = None THEN Done(c)
  ELSE Run(TunerNoted(c, i, None), Tuner(i, TunerSide(c[i].tmode), None))

Term(c, i) == IF c[i].tmode = None THEN Done(c) ELSE Gated(c, i, LAMBDA d : Stop(d, i))

\* set_t and set_s.
Set(c, i, m, khz) ==
  AndThen(Then(IF c[i].tmode \notin {None, m} THEN Stop(c, i) ELSE Done(c),
               Tuner(i, TunerSide(m), khz)),
          LAMBDA d : Done(TunerNoted(d, i, m)))

TunerTune(c, i, m, khz) == Gated(c, i, LAMBDA d : Set(d, i, m, khz))

-----------------------------------------------------------------------------
(* The board.                                                              *)

\* What an action does of a run of commands for tuner i.
Comes(r, i) ==
  /\ chip' = r.c
  /\ cut' = IF r.ok THEN cut ELSE cut \cup {i}
  /\ fails' = IF r.ok THEN fails ELSE fails + 1
  /\ fails' <= MaxFails

\* Without power the chips forget all they were told; the driver's notes stay.
Unpowered(c) ==
  [i \in Chips |-> [AtRest EXCEPT !.mode = c[i].mode, !.tmode = c[i].tmode]]

\* power(false), after a run of commands for tuner i; it may fail, the power
\* being off or staying on.
PowerOff(r, i) ==
  LET failed == fails + (IF r.ok THEN 0 ELSE 1)
  IN  \/ /\ power' = FALSE /\ chip' = Unpowered(r.c) /\ cut' = {}
         /\ fails' \in failed .. failed + 1
      \/ /\ power' = TRUE /\ chip' = r.c
         /\ cut' = IF r.ok THEN cut ELSE cut \cup {i}
         /\ fails' = failed + 1

\* setup() writes what nothing here tells apart, but may fail.
Setup(c) == {[c |-> c, ok |-> ok] : ok \in BOOLEAN}

InitChip(i) ==
  AndThen(AndThen(DemodInit(chip, i), LAMBDA c : TunerInit(c, i)), Setup)

Open(i) ==
  /\ i \notin opened
  /\ opened' = opened \cup {i} /\ power' = TRUE
  /\ \E r \in InitChip(i) : r.ok /\ Comes(r, i)
  /\ UNCHANGED <<system, got>>

\* power(true) fails, having taken effect or not.
PowerFails ==
  /\ opened = {}
  /\ power' \in {power, TRUE}
  /\ fails' = fails + 1 /\ fails' <= MaxFails
  /\ UNCHANGED <<opened, system, got, chip, cut>>

\* A chip fails: a board nobody has open is turned off again.
OpenFails(i) ==
  /\ i \notin opened
  /\ \E r \in InitChip(i) :
       /\ ~r.ok
       /\ IF opened = {} THEN PowerOff(r, i) ELSE Comes(r, i) /\ UNCHANGED power
  /\ fails' <= MaxFails
  /\ UNCHANGED <<opened, system, got>>

Rest(c, i) == InAnyCase(Term(c, i), LAMBDA d : Sleep(d, i))

\* release().
Release(i) ==
  /\ i \in opened
  /\ opened' = opened \ {i}
  /\ system' = [system EXCEPT ![i] = "none"] /\ got' = [got EXCEPT ![i] = None]
  /\ \E r \in Rest(chip, i) :
       IF opened' = {} THEN PowerOff(r, i)
       ELSE Comes(r, i) /\ UNCHANGED power
  /\ fails' <= MaxFails

SetChips(i, p) ==
  LET picked == IF p.id = None THEN Done(chip) ELSE Run(chip, Demod(i, "id", p.id))
      woken  == AndThen(picked, LAMBDA c : Wakeup(c, i, p.mode))
      set    == AndThen(woken, LAMBDA c : TunerTune(c, i, p.mode, p.khz))
  IN  Then(set, Demod(i, "out", TRUE))

\* tune, up to the lock; a tune while another polls follows one given up.
Tune(i, p) ==
  /\ i \in opened
  /\ \E r \in SetChips(i, p) :
       /\ Comes(r, i)
       /\ system' = [system EXCEPT ![i] = IF r.ok THEN "locking" ELSE "none"]
       /\ got' = [got EXCEPT ![i] = IF r.ok THEN p ELSE None]
  /\ UNCHANGED <<opened, power>>

\* A poll finds the lock, or the last one, or the demodulator's giving up, none.
Lock(i) ==
  /\ system[i] = "locking"
  /\ \E found \in BOOLEAN : system' = [system EXCEPT ![i] = IF found THEN "set" ELSE "none"]
  /\ UNCHANGED <<opened, got, chip, power, cut, fails>>

Next ==
  \E i \in Chips :
    \/ Open(i) \/ PowerFails \/ OpenFails(i) \/ Release(i) \/ Lock(i)
    \/ \E p \in Params : Tune(i, p)

Spec == Init /\ [][Next]_vars

-----------------------------------------------------------------------------
(* Properties *)

\* What a tuner was set to, its chips stay set to until it is tuned again or
\* let go of: the tuner chip at the frequency, the demodulator on the stream
\* and awake, its TS let out, whatever is done with the other tuners of its bus
\* and whichever of their calls fail.  And what lock() and signal() read is of
\* the system that was tuned to (cxd2856er.rs:314).
TunedIsKept ==
  \A i \in Chips :
    LET c == chip[i]
        p == got[i] IN
      p # None =>
        /\ power /\ i \in opened
        /\ c.mode = p.mode /\ c.core = p.mode /\ c[Side(p.mode)]
        /\ c[TunerSide(p.mode)] = p.khz
        /\ p.id # None => c.id = p.id
        /\ c.pins /\ c.out

\* As long as no call of a tuner failed since the board was powered, the
\* driver's notes of its chips are true (cxd2856er.rs:203, cxd2858er.rs:47) from
\* when it is opened to when it is let go of: they run the system noted and no
\* side of the other, and nothing noted to be asleep runs or lets anything out.
\* The chips of a tuner nobody has open are at rest, also on a board that others
\* keep powered; a note of them may outlive a failure and the power, and be
\* wrong, but the next open takes it back before it reads it.
NotesAreTrue ==
  \A i \in Chips \ cut :
    LET c     == chip[i]
        mode  == IF i \in opened THEN c.mode ELSE None
        tmode == IF i \in opened THEN c.tmode ELSE None
    IN
      /\ c.core = IF mode = None THEN "asleep" ELSE mode
      /\ c.t = (mode = "T") /\ c.s = (mode = "S")
      /\ c.pins = (mode # None) /\ (mode = None => ~c.out)
      /\ (c.tunerT # None) = (tmode = "T") /\ (c.tunerS # None) = (tmode = "S")
      /\ ~c.gate

\* "The system it runs, or `None` asleep." (cxd2856er.rs:203, of mode): a
\* demodulator noted to be asleep is.  But wakeup() takes the note only after its
\* commands, and sleep() takes it back before them (cxd2856er.rs:283, 300): where
\* one fails the side may run that is noted asleep.
NoneIsAsleep == \A i \in Chips : chip[i].mode = None => chip[i].core = "asleep"

=============================================================================
