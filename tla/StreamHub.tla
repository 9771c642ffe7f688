----------------------------- MODULE StreamHub -----------------------------
(***************************************************************************)
(* The TS of a bridge, split among the tuners it carries                   *)
(* (tunelith-driver-px4/src/stream.rs), and what the bridge and its        *)
(* transfers hold of it.  Board calls it under its own lock.               *)
(***************************************************************************)
EXTENDS Naturals, FiniteSets

CONSTANTS
  Tuners,
  Bridges,
  BridgeOf   \* the bridge that carries the TS of a tuner

ASSUME TunersAssumption == IsFiniteSet(Tuners)
ASSUME BridgeAssumption == BridgeOf \in [Tuners -> Bridges]

VARIABLES
  senders,    \* the tuners with a sender, in the hubs of their bridges
  running,    \* the bridges whose hub is running
  receiving,  \* the task of Hub::receive: "no", "yes", or "leaving": it has
              \* ended, and is yet to let go of the endpoint
  streams,    \* the tuners a receiver of which a program holds
  held,       \* what the bridge and its transfers hold of a tuner: nothing,
              \* what it received "now", or some from "before" it was tuned
  stale       \* the tuners whose receiver was given some from before

hubVars == <<senders, running, receiving, streams, held, stale>>

On(b) == {i \in Tuners : BridgeOf[i] = b}

HubTypeOK ==
  /\ senders \subseteq Tuners /\ streams \subseteq Tuners
  /\ stale \subseteq Tuners
  /\ running \subseteq Bridges
  /\ receiving \in [Bridges -> {"no", "yes", "leaving"}]
  /\ held \in [Tuners -> {"none", "now", "before"}]

HubInit ==
  /\ senders = {} /\ running = {} /\ streams = {} /\ stale = {}
  /\ receiving = [b \in Bridges |-> "no"]
  /\ held = [i \in Tuners |-> "none"]

-----------------------------------------------------------------------------

\* Whether Hub::attach asks for the reception to be started.
ToStart(i) == BridgeOf[i] \notin running

\* BoardTuner::stream came to its end: attached, and received for.
Attached(i) ==
  /\ senders' = senders \cup {i}
  /\ streams' = streams \cup {i}
  /\ running' = running \cup {BridgeOf[i]}
  /\ receiving' = IF ToStart(i) THEN [receiving EXCEPT ![BridgeOf[i]] = "yes"]
                  ELSE receiving
  /\ stale' = stale \ {i}

\* Mutant: the hub goes on running in name.
AbortSender(i) ==
  /\ senders' = senders \ {i}
  /\ running' = running \cup {BridgeOf[i]}

\* Hub::abort, after Hub::attach.
Abort(i) ==
  /\ senders' = senders \ {i}
  /\ running' = running \ {BridgeOf[i]}

\* Hub::detach.
Detach(i) ==
  /\ senders' = senders \ {i}
  /\ UNCHANGED running

\* The program drops its receiver.
DropStream(i) ==
  /\ i \in streams
  /\ streams' = streams \ {i}
  /\ stale' = stale \ {i}
  /\ UNCHANGED <<senders, running, receiving, held>>

\* Hub::receive: a transfer completes with what there is.  A sender without a
\* receiver goes as it is met, and the last one with the task.
Transfer(b) ==
  /\ receiving[b] = "yes"
  /\ \E i \in On(b) : held[i] # "none"
  /\ held' = [i \in Tuners |-> IF i \in On(b) THEN "none" ELSE held[i]]
  /\ LET met == {i \in On(b) \cap senders : held[i] # "none"} IN
       /\ senders' = senders \ (met \ streams)
       /\ stale' = stale \cup {i \in met \cap streams : held[i] = "before"}
  /\ IF senders' \cap On(b) = {}
       THEN /\ running' = running \ {b}
            /\ receiving' = [receiving EXCEPT ![b] = "leaving"]
       ELSE UNCHANGED <<running, receiving>>
  /\ UNCHANGED streams

\* Hub::receive: a failed transfer ends every stream.
TransferFails(b) ==
  /\ receiving[b] = "yes"
  /\ senders' = senders \ On(b)
  /\ running' = running \ {b}
  /\ receiving' = [receiving EXCEPT ![b] = "leaving"]
  /\ UNCHANGED <<streams, held, stale>>

\* The queue of the task is dropped, after the lock it held.
Leave(b) ==
  /\ receiving[b] = "leaving"
  /\ receiving' = [receiving EXCEPT ![b] = "no"]
  /\ UNCHANGED <<senders, running, streams, held, stale>>

=============================================================================
