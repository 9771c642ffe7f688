------------------------------ MODULE BdaTuner ------------------------------
(***************************************************************************)
(* A tuner of the Windows driver (tunelith-core/src/bda/mod.rs) as its     *)
(* holder sees it: opened, tuned, its LNB powered, let go of.  The calls   *)
(* run on threads of their own, and their caller may give up on one at any *)
(* time: then it is not run, if it has not started, and else goes on to    *)
(* its end, unheard and with the graph of pins in its hands.               *)
(***************************************************************************)
EXTENDS Naturals

CONSTANTS
  None,
  Params,   \* what is tuned to: [system, low], `low` being below the LNB's
  Satellite, \* systems
  MaxCalls  \* bound: the calls made

ASSUME CallsAssumption == MaxCalls \in Nat

VARIABLES
  opened,    \* BdaDeviceHandle::opened, of this tuner
  tuner,     \* the BdaTuner: [graph, system, lnb], or None
  call,      \* the call awaited, or 0
  next,      \* the calls made, each of which has that number
  task,      \* what runs of each; a graph has the number of its open_tuner
  reqs,      \* Graph::lnb of each: [last, closed]
  \* the device
  owner,     \* the graph whose pins have it, or 0
  change,    \* what is set and not committed: [tuner, demod]
  tuned,     \* what is in force: [stream, tuner, demod]
  lnb,       \* whether the LNB is powered
  supported, \* whether there is a way to power it
  \* history
  asked,     \* what set_lnb last returned Ok for, or None once asked again
  stuck,     \* whether the LNB could not be turned off as a tuner went
  overlap    \* whether the last tune began with one given up under way

holder == <<opened, tuner, call, next, task, reqs>>
device == <<owner, change, tuned, lnb, supported>>
vars   == <<holder, device, asked, stuck, overlap>>

Calls == 1 .. MaxCalls

\* struct BdaTuner.
Tuners == [graph : Calls, system : {p.system : p \in Params} \cup {None}, lnb : BOOLEAN]

ASSUME NoneAssumption == None \notin Tuners /\ None \notin Params

Task(op, pc, graph, arg, req) ==
  [op |-> op, pc |-> pc, graph |-> graph, arg |-> arg, req |-> req]

NoTask == Task("none", "end", 0, None, 0)

\* The graphs that a tuner or a closure has in its hands, and what becomes of
\* the device as they change: the last to let go of a graph stops its pins.
Held(t, ts) == {ts[i].graph : i \in Calls} \cup (IF t = None THEN {} ELSE {t.graph})
Kept(t, ts) == IF owner \in Held(t, ts) THEN owner ELSE 0

Init ==
  /\ opened = FALSE /\ tuner = None /\ call = 0 /\ next = 0
  /\ task = [i \in Calls |-> NoTask]
  /\ reqs = [i \in Calls |-> [last |-> 0, closed |-> FALSE]]
  /\ owner = 0 /\ lnb = FALSE /\ supported \in BOOLEAN
  /\ change = [tuner |-> None, demod |-> None]
  /\ tuned = [stream |-> None, tuner |-> None, demod |-> None]
  /\ asked = None /\ stuck = FALSE /\ overlap = FALSE

-----------------------------------------------------------------------------
(* The calls, up to where they are awaited.                                *)

Called(t) ==
  /\ call = 0 /\ next < MaxCalls
  /\ next' = next + 1 /\ call' = next'
  /\ task' = [task EXCEPT ![next'] = t]

\* open_tuner; where the tuner is marked already it returns ResourceBusy.
OpenTuner ==
  /\ ~opened /\ opened' = TRUE
  /\ Called(Task("build", "queued", 0, None, 0))
  /\ UNCHANGED <<tuner, reqs, device, asked, stuck, overlap>>

\* Mutant: a tune that fails leaves the system as it was.
SystemKept(t) == t

SystemUnset(t) == [t EXCEPT !.system = None]

\* tune, of what is valid and the tuner receives.
Tune(p) ==
  /\ tuner # None
  /\ Called(Task("tune", "queued", tuner.graph, p, 0))
  /\ tuner' = SystemUnset(tuner)
  /\ overlap' = \E i \in Calls : task[i].op = "tune" /\ task[i].pc # "cancelled"
  /\ UNCHANGED <<opened, reqs, device, asked, stuck>>

Signal ==
  /\ tuner # None
  /\ Called(Task("signal", "queued", tuner.graph, None, 0))
  /\ UNCHANGED <<opened, tuner, reqs, device, asked, stuck, overlap>>

\* Mutant: the tuner remembers to turn the LNB off only once it is on.
MarkedAfter(t, on) == t

Marked(t, on) == [t EXCEPT !.lnb = @ \/ on]

SetLnb(on) ==
  /\ tuner # None
  /\ LET g == tuner.graph IN
       /\ reqs' = [reqs EXCEPT ![g].last = @ + 1]
       /\ Called(Task("lnb", "queued", g, on, reqs[g].last + 1))
  /\ tuner' = Marked(tuner, on)
  /\ asked' = None
  /\ UNCHANGED <<opened, device, stuck, overlap>>

\* close, or a drop, whose steps are the same on whatever thread.
Close ==
  /\ tuner # None
  /\ Called(Task("drop", "lnb", tuner.graph, tuner.lnb, 0))
  /\ tuner' = None /\ asked' = None
  /\ UNCHANGED <<opened, reqs, device, stuck, overlap>>

\* The caller of a call drops what it awaits.
Abandoned(t) ==
  CASE t.pc = "queued" -> [t EXCEPT !.pc = "cancelled"]
    [] t.pc = "ok" /\ t.op = "build" -> [t EXCEPT !.op = "drop", !.pc = "graph"]
    [] t.pc = "failed" \/ (t.pc = "ok" /\ t.op # "build") -> NoTask
    [] OTHER -> t

GiveUp ==
  /\ call # 0 /\ call' = 0
  /\ task' = [task EXCEPT ![call] = Abandoned(@)]
  /\ owner' = Kept(tuner, task')
  /\ UNCHANGED <<opened, tuner, next, reqs, change, tuned, lnb, supported, asked, stuck, overlap>>

\* What a call does once its closure has ended.
Return ==
  /\ call # 0 /\ call' = 0
  /\ LET t == task[call] IN
       /\ t.pc \in {"ok", "failed"}
       /\ tuner' = IF t.pc = "failed" THEN tuner
                   ELSE CASE t.op = "build" -> [graph |-> t.graph, system |-> None, lnb |-> FALSE]
                          [] t.op = "tune"  -> [tuner EXCEPT !.system = t.arg.system]
                          [] t.op = "lnb"   -> [tuner EXCEPT !.lnb = t.arg]
                          [] OTHER -> tuner
       /\ asked' = IF t.op = "lnb" /\ t.pc = "ok" THEN t.arg ELSE asked
  /\ task' = [task EXCEPT ![call] = NoTask]
  /\ UNCHANGED <<opened, next, reqs, device, stuck, overlap>>

-----------------------------------------------------------------------------
(* The threads.                                                            *)

First(op) == CASE op = "build" -> "acquire" [] op = "tune" -> "select"
               [] op = "signal" -> "ask"    [] op = "lnb" -> "send"

Start(i) ==
  /\ task[i].pc = "queued"
  /\ task' = [task EXCEPT ![i].pc = First(task[i].op)]
  /\ UNCHANGED <<opened, tuner, call, next, reqs, device, asked, stuck, overlap>>

\* Mutant: the mark is the future's, not the closure's.
MarkLeft(t) == opened

\* The closure of an open goes with the mark.
MarkOf(t) == IF t.op = "build" THEN FALSE ELSE opened

\* A closure given up before it began goes with all it holds.
Discard(i) ==
  /\ task[i].pc = "cancelled"
  /\ opened' = MarkOf(task[i])
  /\ task' = [task EXCEPT ![i] = NoTask]
  /\ owner' = Kept(tuner, task')
  /\ UNCHANGED <<tuner, call, next, reqs, change, tuned, lnb, supported, asked, stuck, overlap>>

Goes(i, pc) == task' = [task EXCEPT ![i].pc = pc] /\ UNCHANGED <<opened, owner>>

\* A closure ends, heard or not.
Ends(i, pc) ==
  LET t     == task[i]
      built == t.op = "build" /\ pc = "ok"
      done  == [t EXCEPT !.pc = pc, !.graph = IF built THEN @ ELSE 0]
  IN  /\ task' = [task EXCEPT ![i] = IF call = i THEN done ELSE Abandoned(done)]
      /\ opened' = IF t.op = "build" /\ ~built THEN FALSE ELSE opened
      /\ owner' = Kept(tuner, task')

\* Graph::build: the input pin tells a tuner in use, by another program too.
Acquire(i) ==
  /\ task[i].pc = "acquire"
  /\ \/ /\ owner = 0 /\ owner' = i
        /\ task' = [task EXCEPT ![i].pc = "connect", ![i].graph = i]
        /\ UNCHANGED opened
     \/ Ends(i, "failed")
  /\ UNCHANGED <<tuner, call, next, reqs, change, tuned, lnb, supported, asked, stuck, overlap>>

Connect(i) ==
  /\ task[i].pc = "connect"
  /\ \E r \in {"ok", "failed"} : Ends(i, r)
  /\ UNCHANGED <<tuner, call, next, reqs, change, tuned, lnb, supported, asked, stuck, overlap>>

\* Graph::tune, any part of which may fail.
SelectStream(i) ==
  /\ task[i].pc = "select"
  /\ IF task[i].arg.system \in Satellite THEN tuned' = [tuned EXCEPT !.stream = task[i].arg]
     ELSE UNCHANGED tuned
  /\ Goes(i, "start") /\ UNCHANGED change

StartChanges(i) ==
  /\ task[i].pc = "start"
  /\ change' = [tuner |-> None, demod |-> None]
  /\ Goes(i, "tuner") /\ UNCHANGED tuned

SetTuner(i) ==
  /\ task[i].pc = "tuner" /\ ~task[i].arg.low
  /\ change' = [change EXCEPT !.tuner = task[i].arg]
  /\ Goes(i, IF task[i].arg.system \in Satellite THEN "demod" ELSE "commit")
  /\ UNCHANGED tuned

SetDemodulator(i) ==
  /\ task[i].pc = "demod"
  /\ change' = [change EXCEPT !.demod = task[i].arg]
  /\ Goes(i, "commit") /\ UNCHANGED tuned

CommitChanges(i) ==
  /\ task[i].pc = "commit"
  /\ tuned' = [tuned EXCEPT !.tuner = IF change.tuner = None THEN @ ELSE change.tuner,
                            !.demod = IF change.demod = None THEN @ ELSE change.demod]
  /\ change' = [tuner |-> None, demod |-> None]
  /\ Goes(i, "lock")

\* It is locked in time, or is not, or cannot be told.
Lock(i) == task[i].pc = "lock" /\ Ends(i, "ok") /\ UNCHANGED <<change, tuned>>

TuneFails(i) ==
  /\ task[i].pc \in {"select", "start", "tuner", "demod", "commit", "lock"}
  /\ Ends(i, "failed") /\ UNCHANGED <<change, tuned>>

Ask(i) ==
  /\ task[i].pc = "ask"
  /\ \E r \in {"ok", "failed"} : Ends(i, r)
  /\ UNCHANGED <<change, tuned>>

\* Mutant: whatever was asked is sent.
LatestAny(t) == ~reqs[t.graph].closed

\* Nothing asked for since, nor the tuner gone.
Latest(t) == ~reqs[t.graph].closed /\ reqs[t.graph].last = t.req

\* The command to the LNB, under the lock of the requests.
SendLnb(i) ==
  /\ task[i].pc = "send"
  /\ LET on == task[i].arg IN
       \/ ~Latest(task[i]) /\ Ends(i, "ok") /\ UNCHANGED lnb
       \/ Latest(task[i]) /\ ~supported /\ Ends(i, IF on THEN "failed" ELSE "ok") /\ UNCHANGED lnb
       \/ Latest(task[i]) /\ supported /\ lnb' = on /\ Ends(i, "ok")
       \/ Latest(task[i]) /\ supported /\ lnb' \in {lnb, on} /\ Ends(i, "failed")
  /\ UNCHANGED <<tuner, call, next, reqs, change, tuned, supported, asked, stuck, overlap>>

\* Drop of the BdaTuner: the LNB under that lock, the graph, the mark.
DropLnb(i) ==
  LET t == task[i] IN
  /\ t.op = "drop" /\ t.pc = "lnb"
  /\ reqs' = [reqs EXCEPT ![t.graph].closed = TRUE]
  /\ Goes(i, "graph")
  /\ \/ t.arg /\ supported /\ lnb' = FALSE /\ UNCHANGED stuck
     \/ t.arg /\ stuck' = TRUE /\ UNCHANGED lnb
     \/ ~t.arg /\ UNCHANGED <<lnb, stuck>>
  /\ UNCHANGED <<tuner, call, next, change, tuned, supported, asked, overlap>>

DropGraph(i) ==
  /\ task[i].op = "drop" /\ task[i].pc = "graph"
  /\ task' = [task EXCEPT ![i].graph = 0, ![i].pc = "mark"]
  /\ owner' = Kept(tuner, task')
  /\ UNCHANGED <<opened, tuner, call, next, reqs, change, tuned, lnb, supported, asked, stuck,
                 overlap>>

DropMark(i) ==
  /\ task[i].op = "drop" /\ task[i].pc = "mark"
  /\ opened' = FALSE
  /\ task' = [task EXCEPT ![i] = NoTask]
  /\ call' = IF call = i THEN 0 ELSE call
  /\ UNCHANGED <<tuner, next, reqs, device, asked, stuck, overlap>>

TuneSteps(i) ==
  /\ \/ SelectStream(i) \/ StartChanges(i) \/ SetTuner(i) \/ SetDemodulator(i)
     \/ CommitChanges(i) \/ Lock(i) \/ TuneFails(i) \/ Ask(i)
  /\ UNCHANGED <<tuner, call, next, reqs, lnb, supported, asked, stuck, overlap>>

Runs(i) ==
  \/ Start(i) \/ Discard(i) \/ Acquire(i) \/ Connect(i) \/ TuneSteps(i) \/ SendLnb(i)
  \/ DropLnb(i) \/ DropGraph(i) \/ DropMark(i)

Next ==
  \/ OpenTuner \/ Signal \/ Close \/ GiveUp \/ Return
  \/ \E p \in Params : Tune(p)
  \/ \E on \in BOOLEAN : SetLnb(on)
  \/ \E i \in Calls : Runs(i)

Spec == Init /\ [][Next]_vars

-----------------------------------------------------------------------------
(* Properties.                                                             *)

\* The LNB is powered only for a tuner that will turn it off as it goes, or
\* is about to: whatever of set_lnb was given up on, and went on after
\* (mod.rs:644, 650), no supply is left on for good, unless the command to
\* turn it off failed.
LnbOffWhenGone ==
  lnb => \/ tuner # None /\ tuner.lnb
         \/ \E i \in Calls : task[i].op = "drop" /\ task[i].pc = "lnb" /\ task[i].arg
         \/ stuck

\* Once set_lnb has returned Ok the supply is as asked, and stays so until
\* asked for again: none given up on before comes through late (mod.rs:650).
LastAskedHolds ==
  (tuner # None /\ asked # None /\ supported) => lnb = asked

\* A tuner that knows its system, which stream takes the format from
\* (mod.rs:753), is tuned to it, in all its parts, also after tunes that
\* failed midway; but for a tune begun with one given up under way, whose
\* settings go among its own.
FormatIsTuned ==
  (tuner # None /\ tuner.system # None /\ ~overlap) =>
    /\ tuned.tuner # None /\ tuned.tuner.system = tuner.system
    /\ tuner.system \in Satellite =>
         tuned.demod = tuned.tuner /\ tuned.stream = tuned.tuner

\* What the mark is for: a tuner, one being opened, one going.
Marks ==
  {i \in Calls : \/ task[i].op = "build" /\ task[i].pc # "failed"
                 \/ task[i].op = "drop"}
  \cup (IF tuner = None THEN {} ELSE {0})

\* The mark keeps a tuner from being opened twice, and no open or drop that
\* is given up on, at any point, leaves it behind for nothing (mod.rs:380).
MarkIsHeld ==
  /\ opened = (Marks # {})
  /\ \A i, j \in Marks : i = j

\* "The mark goes with the graph, so that the tuner is free again once the
\* graph is gone" (mod.rs:380), and close returns "once another may open it"
\* (traits.rs:40): a tuner that is not marked has none of our graphs on it.
FreeOnceGone == ~opened => owner = 0

=============================================================================
