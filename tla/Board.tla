------------------------------- MODULE Board -------------------------------
(***************************************************************************)
(* A device of the px4 driver (tunelith-driver-px4/src/board.rs) over each *)
(* of its models (px4.rs, pxmlt.rs, single.rs): its tuners are opened,     *)
(* tuned, made to stream and let go of by programs that know nothing of    *)
(* one another, while any command to the device may fail, having taken     *)
(* effect or not.                                                          *)
(*                                                                         *)
(* What is done under the lock of `state` is one action; a failure in it   *)
(* leaves any of the states a prefix of its commands may leave.            *)
(***************************************************************************)
EXTENDS StreamHub

CONSTANTS
  Satellite,  \* the tuners for satellite systems, of a px4 model
  Devices     \* the devices to look at: a model, and the tuners it has

ASSUME DevicesAssumption ==
  /\ Satellite \subseteq Tuners
  /\ Devices \subseteq [model : {"px4", "pxmlt", "single"}, tuners : SUBSET Tuners]

VARIABLES
  device,
  opened,   \* State::opened
  handle,   \* the BoardTuner: "none", "held", or "gone": closed or dropped,
            \* its release still to come
  system,   \* BoardTuner::system; "locking" while tune() polls for the lock
  count,    \* open_count, of the board of each bridge
  ready,    \* the tuners whose chips are initialised, to the driver's knowledge
  wants,    \* Lnb
  \* the hardware
  power,    \* the bridges whose boards are powered
  lnb,      \* those which power the LNB
  awake,    \* the tuners initialised, and not put to sleep since
  ts,       \* those which let their TS out to the bridge
  \* what happened
  asked,    \* the tuners for which set_lnb(true) returned Ok
  lost      \* whether writing a GPIO ever failed

boardVars == <<opened, handle, system, count, ready, wants, asked>>
hardware  == <<power, lnb, awake, ts, lost>>
vars == <<device, boardVars, hardware, hubVars>>

TypeOK ==
  /\ HubTypeOK
  /\ device \in Devices
  /\ opened \cup ready \cup wants \cup asked \cup awake \cup ts
       \subseteq device.tuners
  /\ handle \in [Tuners -> {"none", "held", "gone"}]
  /\ system \in [Tuners -> {"none", "locking", "set"}]
  /\ count \in [Bridges -> 0..Cardinality(Tuners)]
  /\ power \subseteq Bridges /\ lnb \subseteq Bridges
  /\ lost \in BOOLEAN

Init ==
  /\ HubInit
  /\ device \in Devices
  /\ opened = {} /\ ready = {} /\ wants = {} /\ asked = {}
  /\ handle = [i \in Tuners |-> "none"] /\ system = [i \in Tuners |-> "none"]
  /\ count = [b \in Bridges |-> 0]
  /\ power = {} /\ lnb = {} /\ awake = {} /\ ts = {} /\ lost = FALSE

Boards == {BridgeOf[i] : i \in device.tuners}

\* The tuners on the board of i.
Beside(i) == On(BridgeOf[i]) \cap device.tuners

Unopened == \A b \in Boards : count[b] = 0

-----------------------------------------------------------------------------
(* Power *)

\* Mutant: a board whose chips fail is left on.
LeftOn == power' = Boards /\ UNCHANGED lost

\* power(false) of boards that were on: no error stops it.
PowerOff ==
  \E still \in SUBSET Boards :
    /\ power' = still
    /\ lost' = (lost \/ still # {})

\* What is left of a set of tuners once the boards in p alone are powered: one
\* that is off forgets everything.
Kept(S, p) == {i \in S : BridgeOf[i] \in p}

-----------------------------------------------------------------------------
(* Opening *)

\* Nobody has the tuner open.
Free(i) == i \notin opened

\* The tuners whose chips are initialised as i is opened: all of a px4 board
\* if it was unused.
Initialises(i) ==
  IF device.model = "px4" /\ count[BridgeOf[i]] = 0 THEN Beside(i) ELSE {i}

\* Of the boards, any may have been powered, whether power(true) failed there
\* or not; nobody turns them off again.
PowerFails(i) ==
  /\ i \in device.tuners /\ Free(i)
  /\ Unopened
  /\ \E on \in SUBSET Boards : power \subseteq on /\ power' = on
  /\ lost' = TRUE
  /\ UNCHANGED <<device, boardVars, lnb, awake, ts, hubVars>>

\* BoardDevice::open_tuner.  What a PX-MLT demodulator that could not be put to
\* sleep lets out, initialising it again may not stop.
OpenTuner(i) ==
  /\ i \in device.tuners /\ Free(i)
  /\ power' = IF Unopened THEN Boards ELSE power
  /\ ready' = ready \cup Initialises(i)
  /\ awake' = (awake \ Initialises(i)) \cup {i}
  /\ ts' \in {ts \ {i}} \cup IF device.model = "pxmlt" THEN {ts} ELSE {}
  /\ count' = [count EXCEPT ![BridgeOf[i]] = @ + 1]
  /\ opened' = opened \cup {i}
  /\ handle' = [handle EXCEPT ![i] = "held"]
  /\ UNCHANGED <<device, system, wants, asked, lnb, lost, hubVars>>

\* term(), with n other tuners open on the board of i: what is left of the
\* chips that are ready.  The chips of a px4 board last as long as a tuner on it.
Terminated(i, n) ==
  ready \ IF device.model # "px4" THEN {i} ELSE IF n = 0 THEN Beside(i) ELSE {}

\* Initialising or waking the chips fails.
OpenFails(i) ==
  /\ i \in device.tuners /\ Free(i)
  /\ ready' = Terminated(i, count[BridgeOf[i]])
  /\ IF Unopened THEN PowerOff ELSE UNCHANGED <<power, lost>>
  /\ \E some \in SUBSET Initialises(i) :
       awake' = Kept((awake \ Initialises(i)) \cup some, power')
  /\ \E off \in SUBSET {i} : ts' = Kept(ts \ off, power')
  /\ UNCHANGED <<device, opened, handle, system, count, wants, asked, lnb, hubVars>>

-----------------------------------------------------------------------------
(* The LNB *)

HasLnb(i) ==
  \/ device.model = "pxmlt"
  \/ device.model = "px4" /\ i \in Satellite

\* Mutant: a tuner is one of the others to itself.
OthersAndItself(i) == wants \cap Beside(i)

\* The others that want the LNB.
Others(i) == (wants \cap Beside(i)) \ {i}

\* Lnb::set succeeds.
LnbSet(i, on) ==
  /\ wants' = IF on THEN wants \cup {i} ELSE wants \ {i}
  /\ lnb' = IF (i \in wants) = on \/ Others(i) # {} THEN lnb
            ELSE IF on THEN lnb \cup {BridgeOf[i]} ELSE lnb \ {BridgeOf[i]}

\* Writing the GPIO fails, be it that only the reply is lost.
LnbFails(i, on) ==
  /\ i \in wants <=> ~on
  /\ Others(i) = {}
  /\ lnb' \in {lnb, IF on THEN lnb \cup {BridgeOf[i]} ELSE lnb \ {BridgeOf[i]}}
  /\ UNCHANGED wants

\* Tuner::set_lnb.
SetLnb(i, on) ==
  /\ handle[i] = "held" /\ system[i] # "locking" /\ HasLnb(i)
  /\ \/ /\ LnbSet(i, on)
        /\ asked' = IF on THEN asked \cup {i} ELSE asked \ {i}
        /\ UNCHANGED lost
     \/ /\ LnbFails(i, on)
        /\ asked' = asked \ {i}
        /\ lost' = TRUE
  /\ UNCHANGED <<device, opened, handle, system, count, ready, power, awake, ts,
                 hubVars>>

-----------------------------------------------------------------------------
(* Tuning *)

\* BoardTuner::tune, to the end of Board::tune.  The PX-MLT lets the TS out as
\* its demodulator wakes up.
Tune(i) ==
  /\ handle[i] = "held" /\ system[i] # "locking" /\ i \notin streams
  /\ system' \in {[system EXCEPT ![i] = s] : s \in {"none", "locking"}}
  /\ IF device.model = "pxmlt"
       THEN \/ ts' = ts \cup {i}
            \/ system'[i] = "none" /\ ts' = ts \ {i}
       ELSE UNCHANGED ts
  /\ held' = [held EXCEPT ![i] = IF @ = "none" THEN @ ELSE "before"]
  /\ UNCHANGED <<device, opened, handle, count, ready, wants, asked, power, lnb,
                 awake, lost, senders, running, receiving, streams, stale>>

\* The polls found the lock and the stream was selected, or not.
TuneEnds(i) ==
  /\ handle[i] = "held" /\ system[i] = "locking"
  /\ system' \in {[system EXCEPT ![i] = s] : s \in {"none", "set"}}
  /\ UNCHANGED <<device, opened, handle, count, ready, wants, asked, hardware,
                 hubVars>>

-----------------------------------------------------------------------------
(* Streaming *)

\* purge_psb, as the reception starts.
Purged(i) ==
  IF ToStart(i)
    THEN [j \in Tuners |-> IF j \in On(BridgeOf[i]) THEN "none" ELSE held[j]]
    ELSE held

Stream(i) ==
  /\ handle[i] = "held" /\ system[i] = "set" /\ i \notin streams
  /\ ToStart(i) => receiving[BridgeOf[i]] = "no"
  /\ Attached(i)
  /\ held' = Purged(i)
  /\ ts' = ts \cup {i}
  /\ UNCHANGED <<device, boardVars, power, lnb, awake, lost>>

\* A command fails, or the endpoint is still taken.
StreamFails(i) ==
  /\ handle[i] = "held" /\ system[i] = "set" /\ i \notin streams
  /\ IF ToStart(i) THEN Abort(i) ELSE Detach(i)
  /\ held' \in {held, Purged(i)}
  /\ ts' \in {ts, ts \cup {i}}
  /\ UNCHANGED <<device, boardVars, power, lnb, awake, lost, receiving, streams,
                 stale>>

\* A tuner receives, and lets it out.
Emit(i) ==
  /\ i \in ts \cap awake /\ BridgeOf[i] \in power
  /\ held[i] = "none"
  /\ held' = [held EXCEPT ![i] = "now"]
  /\ UNCHANGED <<device, boardVars, hardware, senders, running, receiving,
                 streams, stale>>

-----------------------------------------------------------------------------
(* Letting go *)

\* Tuner::close, or BoardTuner::drop, be it in a call that is given up on.
LetGo(i) ==
  /\ handle[i] = "held"
  /\ handle' = [handle EXCEPT ![i] = "gone"]
  /\ system' = [system EXCEPT ![i] = "none"]
  /\ UNCHANGED <<device, opened, count, ready, wants, asked, hardware, hubVars>>

\* Mutant: a board goes off with its last tuner, and the other with it.
LastOfBoard(i) == count[BridgeOf[i]] = 1

\* i is the last open tuner of the device.
LastOpen(i) == \A b \in Boards : count[b] = IF b = BridgeOf[i] THEN 1 ELSE 0

\* release(): no error stops it.
Release(i) ==
  /\ handle[i] = "gone"
  /\ Detach(i)
  /\ IF HasLnb(i)
       THEN LnbSet(i, FALSE) \/ LnbFails(i, FALSE)
       ELSE UNCHANGED <<lnb, wants>>
  /\ asked' = asked \ {i}
  /\ count' = [count EXCEPT ![BridgeOf[i]] = @ - 1]
  /\ ready' = Terminated(i, count[BridgeOf[i]] - 1)
  /\ \E still \in IF LastOpen(i) THEN SUBSET Boards ELSE {power} :
       /\ power' = still
       /\ lost' = (lost \/ (LastOpen(i) /\ still # {}) \/ i \in wants')
  /\ \E off \in SUBSET {i} : ts' = Kept(ts \ off, power')
  /\ \E asleep \in SUBSET {i} : awake' = Kept(awake \ asleep, power')
  /\ opened' = opened \ {i}
  /\ handle' = [handle EXCEPT ![i] = "none"]
  /\ UNCHANGED <<device, system, receiving, streams, held, stale>>

-----------------------------------------------------------------------------

\* What the task of a hub does by itself.
Receive(b) ==
  /\ Transfer(b) \/ Leave(b)
  /\ UNCHANGED <<device, boardVars, hardware>>

ReceiveFails(b) == TransferFails(b) /\ UNCHANGED <<device, boardVars, hardware>>

Drop(i) == DropStream(i) /\ UNCHANGED <<device, boardVars, hardware>>

Next ==
  \/ \E i \in Tuners :
       \/ PowerFails(i) \/ OpenTuner(i) \/ OpenFails(i)
       \/ SetLnb(i, TRUE) \/ SetLnb(i, FALSE)
       \/ Tune(i) \/ TuneEnds(i) \/ Stream(i) \/ StreamFails(i) \/ Emit(i)
       \/ Drop(i) \/ LetGo(i) \/ Release(i)
  \/ \E b \in Bridges : Receive(b) \/ ReceiveFails(b)

Spec == Init /\ [][Next]_vars

-----------------------------------------------------------------------------

\* A tuner that is open is powered, initialised and awake, whatever its
\* neighbours went through: opening or closing one of them, or failing to,
\* takes nothing from it (px4.rs 155-273, 328-357; pxmlt.rs 138-160).
OpenIsReady ==
  \A i \in opened : BridgeOf[i] \in power /\ i \in ready \cap awake

\* A device nobody uses is off, after failures to open it too, unless a GPIO
\* could not be written (px4.rs 340-342, 354-356; single.rs 288-291).
IdleIsOff == opened = {} /\ ~lost => power = {}

\* As long as GPIOs can be written, the LNB of a board is powered exactly while
\* a tuner that asked for it is open (board.rs 342-362, 316-324).
LnbAsAsked ==
  ~lost => lnb = {BridgeOf[i] : i \in asked}

\* A hub is running exactly while its task receives, and whoever has a sender
\* is received for, whatever failed in starting and ending (stream.rs 42-106;
\* board.rs 252-274).
RunningReceives ==
  /\ \A b \in Bridges : b \in running <=> receiving[b] = "yes"
  /\ \A i \in senders : BridgeOf[i] \in running

\* A stream carries nothing from before its tuner was tuned (it930x.rs 318:
\* "Drops what the bridge has buffered, before the stream starts."), which the
\* code does not keep: see the README.
StreamIsFresh == stale = {}

=============================================================================
