----------------------------- MODULE Tunelithd -----------------------------
(***************************************************************************)
(* tunelithd, the daemon that holds every tuner and lends them to clients  *)
(* (tunelith-cli/src/bin/tunelithd/main.rs): how an acquire request takes  *)
(* or shares a tuner, how the session on it ends, and how the tuner gets   *)
(* back into the pool.                                                     *)
(*                                                                         *)
(* Every acquire request runs in a task of its own (control(), l.530).     *)
(* It creates at most one session and is given at most one stream token,   *)
(* both fresh, so that one set of identities serves for all three: request *)
(* r, the session r started, and the token r was answered with.            *)
(***************************************************************************)

CONSTANTS
  Tuners,      \* the tuners of every device the daemon opened
  Clients,     \* control connections
  Params,      \* what a tuner can be tuned to, valid and normalised
  Receives,    \* <<t, p>>: tuner t receives the system of p
  Requests,    \* acquire requests, and their sessions and stream tokens
  Asks,        \* what requests ask for
  None,        \* no tuner in particular, no session
  Watched,     \* the requests whose client asks for the signal of its stream
  RandomFails  \* whether getrandom::u64() may fail

Ask == [client : Clients, params : Params, tuner : Tuners \cup {None},
        lnb : BOOLEAN]

ASSUME AsksAssumption  == Asks \subseteq Ask /\ Asks # {}
ASSUME NoneAssumption  == None \notin Tuners \cup Requests
ASSUME RandomAssumption == RandomFails \in BOOLEAN

VARIABLES
  \* the task of each request
  ask,          \* the AcquireRequest, once sent
  pc,           \* where the task is
  at,           \* the tuner it is on; the tuner_id of its session
  left,         \* the candidates it has yet to try in this round
  wait,         \* whether it is in the round that waits for closing tuners
  \* State
  busy, closing, sessions, tokens,
  rx,           \* the Receiver of each token's chunks; "queued" in unattached
  \* Session
  subscribers, stop, fan,
  signal,       \* the signal() call on the session's tuner
  \* the client connections
  gone,         \* clients whose control connection has ended
  owned,        \* the streams each client is to be relieved of when it goes
  rel,          \* the release() of each token: "no", "due" or "done"
  ended         \* tokens a StreamEndEvent was sent for

reqVars  == <<ask, pc, at, left, wait>>
poolVars == <<busy, closing, sessions, tokens, rx>>
sessVars == <<subscribers, stop, fan, signal>>
connVars == <<gone, owned, rel, ended>>
vars     == <<reqVars, poolVars, sessVars, connVars>>

(***************************************************************************)
(* "new"      not sent yet          "share"    looks for a session to join *)
(* "reserve"  picks the next tuner  "wait"     waits for a tuner to close  *)
(* "recheck"  woken from that       "start"    opening and tuning          *)
(* "abort"    closing after that failed                                    *)
(* "keep"     has a token, to record with its client                       *)
(* "granted", "busy", "refused", "error": answered.                        *)
(***************************************************************************)
Answered == {"granted", "busy", "refused", "error"}
PC == Answered \cup {"new", "share", "reserve", "wait", "recheck", "start",
                     "abort", "keep"}

(***************************************************************************)
(* "none"     no fan-out task       "run"      hands chunks to clients     *)
(* "idle"     found no client left, about to look again under the lock     *)
(* "ending"   out of its loop       "closing"  clients told, takes tuner   *)
(* "drop"     in Tuner::close       "done"     tuner back in the pool      *)
(***************************************************************************)
Fan == {"none", "run", "idle", "ending", "closing", "drop", "done"}

TypeOK ==
  /\ ask \in [Requests -> Asks]
  /\ pc \in [Requests -> PC]
  /\ at \in [Requests -> Tuners \cup {None}]
  /\ left \in [Requests -> SUBSET Tuners]
  /\ wait \in [Requests -> BOOLEAN]
  /\ busy \subseteq Tuners
  /\ closing \subseteq Tuners
  /\ sessions \subseteq Requests
  /\ tokens \in [Requests -> Requests \cup {None}]
  /\ rx \in [Requests -> {"none", "queued", "attached", "dropped"}]
  /\ subscribers \in [Requests -> SUBSET Requests]
  /\ stop \in [Requests -> BOOLEAN]
  /\ fan \in [Requests -> Fan]
  /\ signal \in [Requests -> {"none", "asked", "held"}]
  /\ gone \subseteq Clients
  /\ owned \in [Clients -> SUBSET Requests]
  /\ rel \in [Requests -> {"no", "due", "done"}]
  /\ ended \subseteq Requests

Init ==
  /\ ask = [r \in Requests |-> CHOOSE a \in Asks : TRUE]
  /\ pc = [r \in Requests |-> "new"]
  /\ at = [r \in Requests |-> None]
  /\ left = [r \in Requests |-> {}]
  /\ wait = [r \in Requests |-> FALSE]
  /\ busy = {} /\ closing = {} /\ sessions = {}
  /\ tokens = [r \in Requests |-> None]
  /\ rx = [r \in Requests |-> "none"]
  /\ subscribers = [r \in Requests |-> {}]
  /\ stop = [r \in Requests |-> FALSE]
  /\ fan = [r \in Requests |-> "none"]
  /\ signal = [r \in Requests |-> "none"]
  /\ gone = {}
  /\ owned = [c \in Clients |-> {}]
  /\ rel = [r \in Requests |-> "no"]
  /\ ended = {}

-----------------------------------------------------------------------------
(* The acquire request *)

\* Request r asks for tuner t, by name or by asking for none.
Wanted(r, t) == ask[r].tuner \in {None, t}

Candidates(r) == {t \in Tuners : <<t, ask[r].params>> \in Receives /\ Wanted(r, t)}

\* Mutant: whatever the tuner asked for by name.
ShareableByParams(r) == {s \in sessions : ask[s].params = ask[r].params}

\* Mutant: whatever the parameters asked for.
ShareableByTuner(r) == {s \in sessions : Wanted(r, at[s])}

\* The sessions r may join.  The code takes the oldest; here it is any.
Shareable(r) ==
  {s \in sessions : ask[s].params = ask[r].params /\ Wanted(r, at[s])}

Goto(r, label) == pc' = [pc EXCEPT ![r] = label]

Send(r) ==
  /\ pc[r] = "new"
  /\ \E a \in Asks : a.client \notin gone /\ ask' = [ask EXCEPT ![r] = a]
  /\ Goto(r, "share")
  /\ UNCHANGED <<at, left, wait, poolVars, sessVars, connVars>>

\* Daemon::subscribe, under the state lock.
Subscribe(r, s) ==
  /\ subscribers' = [subscribers EXCEPT ![s] = @ \cup {r}]
  /\ tokens' = [tokens EXCEPT ![r] = s]
  /\ rx' = [rx EXCEPT ![r] = "queued"]

Share(r) ==
  /\ pc[r] = "share"
  /\ \E s \in Shareable(r) :
       \/ /\ Subscribe(r, s)
          /\ Goto(r, "keep")
       \/ /\ RandomFails
          /\ Goto(r, "error")
          /\ UNCHANGED <<subscribers, tokens, rx>>
  /\ UNCHANGED <<ask, at, left, wait, busy, closing, sessions, stop, fan,
                 signal, connVars>>

ListCandidates(r) ==
  /\ pc[r] = "share"
  /\ Shareable(r) = {}
  /\ left' = [left EXCEPT ![r] = Candidates(r)]
  /\ Goto(r, IF Candidates(r) = {} THEN "refused" ELSE "reserve")
  /\ UNCHANGED <<ask, at, wait, poolVars, sessVars, connVars>>

\* The candidate r tries now: any it has left, or the one it waited for.
Trying(r, t) ==
  \/ pc[r] = "reserve" /\ t \in left[r]
  \/ pc[r] = "recheck" /\ t = at[r]

\* Mutant: the result of busy.insert is ignored.
FreeUnlessClosing(t) == t \notin closing

FreeTuner(t) == t \notin closing \cup busy

Take(r, t) == busy' = busy \cup {t} /\ at' = [at EXCEPT ![r] = t]

\* Daemon::reserve: t is free, and r takes it.
Reserve(r, t) ==
  /\ Trying(r, t)
  /\ FreeTuner(t)
  /\ Take(r, t)
  /\ left' = [left EXCEPT ![r] = @ \ {t}]
  /\ Goto(r, "start")
  /\ UNCHANGED <<ask, wait, closing, sessions, tokens, rx, sessVars, connVars>>

PassOver(r, t) ==
  /\ left' = [left EXCEPT ![r] = @ \ {t}]
  /\ at' = [at EXCEPT ![r] = None]
  /\ Goto(r, "reserve")
  /\ UNCHANGED <<ask, wait, poolVars, sessVars, connVars>>

\* Daemon::reserve: t is not to be had, or not waited for in this round.
Skip(r, t) ==
  /\ Trying(r, t)
  /\ IF t \in closing THEN ~wait[r] ELSE t \in busy
  /\ PassOver(r, t)

\* Daemon::reserve: t is being closed.  The Notified is enabled before the
\* look at `closing`, so that the two are one step.
WaitClosed(r, t) ==
  /\ Trying(r, t)
  /\ t \in closing /\ wait[r]
  /\ at' = [at EXCEPT ![r] = t]
  /\ Goto(r, "wait")
  /\ UNCHANGED <<ask, left, wait, poolVars, sessVars, connVars>>

\* CLOSE_TIMEOUT went by.
Timeout(r) ==
  /\ pc[r] = "wait"
  /\ PassOver(r, at[r])

\* The task is past its loop: the locals of it are gone.
EndLoop(r) ==
  /\ left' = [left EXCEPT ![r] = {}]
  /\ wait' = [wait EXCEPT ![r] = FALSE]

\* Each candidate was tried: once more, and waiting.
NextRound(r) ==
  /\ pc[r] = "reserve" /\ left[r] = {} /\ ~wait[r]
  /\ wait' = [wait EXCEPT ![r] = TRUE]
  /\ left' = [left EXCEPT ![r] = Candidates(r)]
  /\ UNCHANGED <<ask, pc, at, poolVars, sessVars, connVars>>

\* "no free tuner receives ..", "the tuner .. is busy".
GiveUp(r) ==
  /\ pc[r] = "reserve" /\ left[r] = {} /\ wait[r]
  /\ EndLoop(r)
  /\ Goto(r, "busy")
  /\ UNCHANGED <<ask, at, poolVars, sessVars, connVars>>

\* Daemon::start: set_lnb, tune or stream failed, so that the tuner is closed.
Abort(r) ==
  /\ pc[r] = "start"
  /\ Goto(r, "abort")
  /\ UNCHANGED <<ask, at, left, wait, poolVars, sessVars, connVars>>

\* Mutant: the tuner stays marked busy.
LeftBusy(r) == busy

Freed(r) == busy \ {at[r]}

\* open_tuner failed, or what came after it and the tuner is closed again: it
\* is marked free.  A busy device sends r on to the next candidate if it
\* asked for no tuner in particular.
StartFailed(r) ==
  /\ pc[r] \in {"start", "abort"}
  /\ busy' = Freed(r)
  /\ at' = [at EXCEPT ![r] = None]
  /\ \/ Goto(r, "error") /\ EndLoop(r)
     \/ ask[r].tuner = None /\ Goto(r, "reserve") /\ UNCHANGED <<left, wait>>
  /\ UNCHANGED <<ask, closing, sessions, tokens, rx, sessVars, connVars>>

\* The tuner streams.  Its session starts, with r its first client, and the
\* fan-out is spawned, even if subscribe failed.
Publish(r) ==
  /\ pc[r] = "start"
  /\ sessions' = sessions \cup {r}
  /\ fan' = [fan EXCEPT ![r] = "run"]
  /\ \/ Subscribe(r, r) /\ Goto(r, "keep")
     \/ /\ RandomFails
        /\ Goto(r, "error")
        /\ UNCHANGED <<subscribers, tokens, rx>>
  /\ EndLoop(r)
  /\ UNCHANGED <<ask, at, busy, closing, stop, signal, connVars>>

Due(S) == [k \in Requests |-> IF k \in S /\ rel[k] = "no" THEN "due" ELSE rel[k]]

ClientGone(r) == ask[r].client \in gone

\* handle(): the token is recorded with its client, or released if the client
\* went while the tuner was tuning.
Keep(r) ==
  /\ pc[r] = "keep"
  /\ IF ClientGone(r)
       THEN rel' = Due({r}) /\ UNCHANGED owned
       ELSE owned' = [owned EXCEPT ![ask[r].client] = @ \cup {r}] /\ UNCHANGED rel
  /\ Goto(r, "granted")
  /\ UNCHANGED <<ask, at, left, wait, poolVars, sessVars, gone, ended>>

-----------------------------------------------------------------------------
(* The stream of token k *)

\* handle(): a ReleaseRequest of the client that was given k.
ReleaseRequest(k) ==
  /\ pc[k] = "granted" /\ ask[k].client \notin gone
  /\ rel[k] = "no"
  /\ owned' = [owned EXCEPT ![ask[k].client] = @ \ {k}]
  /\ rel' = Due({k})
  /\ UNCHANGED <<reqVars, poolVars, sessVars, gone, ended>>

\* connection(): a data connection takes the chunks of k.
Attach(k) ==
  /\ pc[k] = "granted" /\ rx[k] = "queued"
  /\ rx' = [rx EXCEPT ![k] = "attached"]
  /\ UNCHANGED <<reqVars, busy, closing, sessions, tokens, sessVars, connVars>>

\* data(): the client left its data connection, or the chunks ended.
DataEnds(k) ==
  /\ rx[k] = "attached"
  /\ rx' = [rx EXCEPT ![k] = "dropped"]
  /\ rel' = Due({k})
  /\ UNCHANGED <<reqVars, busy, closing, sessions, tokens, sessVars, gone,
                 owned, ended>>

\* Mutant: the streams of the client are left to their data connections.
OrphansKept(c) == {}

Orphans(c) == owned[c]

\* control(): the control connection of c ended; its streams go with it.
Disconnect(c) ==
  /\ c \notin gone
  /\ gone' = gone \cup {c}
  /\ rel' = Due(Orphans(c))
  /\ owned' = [owned EXCEPT ![c] = {}]
  /\ UNCHANGED <<reqVars, poolVars, sessVars, ended>>

\* The receivers of S that were in `unattached` are dropped.
DropQueued(S) ==
  [k \in Requests |-> IF k \in S /\ rx[k] = "queued" THEN "dropped" ELSE rx[k]]

\* Mutant: the session stays among those to join until its fan-out ends it.
StillJoinable(s, idle) == sessions

Joinable(s, idle) == IF idle THEN sessions \ {s} ELSE sessions

\* Daemon::release.  A second call of it finds no token, so that the calls
\* due for k are one.
Release(k) ==
  /\ rel[k] = "due"
  /\ rel' = [rel EXCEPT ![k] = "done"]
  /\ rx' = DropQueued({k})
  /\ tokens' = [tokens EXCEPT ![k] = None]
  /\ IF tokens[k] = None
       THEN UNCHANGED <<subscribers, sessions, stop>>
       ELSE LET s    == tokens[k]
                idle == subscribers[s] \subseteq {k}
            IN /\ subscribers' = [subscribers EXCEPT ![s] = @ \ {k}]
               /\ sessions' = Joinable(s, idle)
               /\ stop' = [stop EXCEPT ![s] = @ \/ idle]
  /\ UNCHANGED <<reqVars, busy, closing, fan, signal, gone, owned, ended>>

\* Daemon::signal: finds the session, takes its tuner's lock, and asks the
\* tuner, if it is still there.  One call at a time is modelled on a session.
SignalRequest(k) ==
  /\ k \in Watched
  /\ pc[k] = "granted" /\ tokens[k] # None /\ signal[tokens[k]] = "none"
  /\ signal' = [signal EXCEPT ![tokens[k]] = "asked"]
  /\ UNCHANGED <<reqVars, poolVars, subscribers, stop, fan, connVars>>

LockTuner(s) ==
  /\ signal[s] = "asked"
  /\ signal' = [signal EXCEPT ![s] = IF fan[s] \in {"drop", "done"} THEN "none"
                                                                   ELSE "held"]
  /\ UNCHANGED <<reqVars, poolVars, subscribers, stop, fan, connVars>>

\* Mutant: the lock is held for as long as the session lasts.
SignalKept(s) ==
  /\ signal[s] = "held" /\ fan[s] = "done"
  /\ signal' = [signal EXCEPT ![s] = "none"]
  /\ UNCHANGED <<reqVars, poolVars, subscribers, stop, fan, connVars>>

SignalRead(s) ==
  /\ signal[s] = "held"
  /\ signal' = [signal EXCEPT ![s] = "none"]
  /\ UNCHANGED <<reqVars, poolVars, subscribers, stop, fan, connVars>>

-----------------------------------------------------------------------------
(* The fan-out of session s *)

FanTo(s, label) == fan' = [fan EXCEPT ![s] = label]

\* A chunk: the clients that dropped their receiver are let go of.  What the
\* others are sent or lose is the business of module FanOut.
Chunk(s) ==
  /\ fan[s] = "run"
  /\ subscribers' = [subscribers EXCEPT ![s] = {k \in @ : rx[k] # "dropped"}]
  /\ IF subscribers'[s] = {} THEN FanTo(s, "idle") ELSE UNCHANGED fan
  /\ UNCHANGED <<reqVars, poolVars, stop, signal, connVars>>

\* Daemon::close_if_idle.
CloseIfIdle(s) ==
  /\ fan[s] = "idle"
  /\ IF subscribers[s] = {}
       THEN sessions' = sessions \ {s} /\ FanTo(s, "ending")
       ELSE FanTo(s, "run") /\ UNCHANGED sessions
  /\ UNCHANGED <<reqVars, busy, closing, tokens, rx, subscribers, stop, signal,
                 connVars>>

\* select! finds the session stopped.
Stopped(s) ==
  /\ fan[s] = "run" /\ stop[s]
  /\ FanTo(s, "ending")
  /\ UNCHANGED <<reqVars, poolVars, subscribers, stop, signal, connVars>>

\* The stream of the tuner ends, on an error or not.
StreamEnds(s) ==
  /\ fan[s] = "run"
  /\ FanTo(s, "ending")
  /\ UNCHANGED <<reqVars, poolVars, subscribers, stop, signal, connVars>>

\* Mutant: only the clients with a data connection are told.
ToldAttached(s) == {k \in subscribers[s] : rx[k] = "attached"}

Told(s) == subscribers[s]

\* Daemon::end, under the state lock: the clients are told.
End(s) ==
  /\ fan[s] = "ending"
  /\ LET ours == {k \in Requests : tokens[k] = s}
     IN /\ tokens' = [k \in Requests |-> IF k \in ours THEN None ELSE tokens[k]]
        /\ rx' = DropQueued(ours)
  /\ sessions' = sessions \ {s}
  /\ closing' = closing \cup {at[s]}
  /\ ended' = ended \cup Told(s)
  /\ subscribers' = [subscribers EXCEPT ![s] = {}]
  /\ FanTo(s, "closing")
  /\ UNCHANGED <<reqVars, busy, stop, signal, gone, owned, rel>>

Locked(s) == signal[s] = "held"

\* Daemon::end: the tuner is taken, once no signal() holds it.
TakeTuner(s) ==
  /\ fan[s] = "closing" /\ ~Locked(s)
  /\ FanTo(s, "drop")
  /\ UNCHANGED <<reqVars, poolVars, subscribers, stop, signal, connVars>>

\* Mutant: those waiting are not notified.
NotWoken == pc

Woken == [r \in Requests |-> IF pc[r] = "wait" THEN "recheck" ELSE pc[r]]

\* Daemon::end: the tuner is closed, and free; those waiting look again.  The
\* session is gone with that.
Closed(s) ==
  /\ fan[s] = "drop"
  /\ busy' = busy \ {at[s]}
  /\ closing' = closing \ {at[s]}
  /\ pc' = Woken
  /\ FanTo(s, "done")
  /\ at' = [at EXCEPT ![s] = None]
  /\ stop' = [stop EXCEPT ![s] = FALSE]
  /\ UNCHANGED <<ask, left, wait, sessions, tokens, rx, subscribers, signal,
                 connVars>>

-----------------------------------------------------------------------------

RequestStep(r) ==
  \/ Share(r) \/ ListCandidates(r) \/ NextRound(r) \/ GiveUp(r)
  \/ \E t \in Tuners : Reserve(r, t) \/ Skip(r, t) \/ WaitClosed(r, t)
  \/ Abort(r) \/ StartFailed(r) \/ Publish(r) \/ Keep(r)

TokenStep(k) ==
  \/ ReleaseRequest(k) \/ Attach(k) \/ DataEnds(k) \/ SignalRequest(k)

SessionStep(s) ==
  \/ CloseIfIdle(s) \/ Stopped(s) \/ End(s) \/ TakeTuner(s) \/ Closed(s)

Next ==
  \/ \E r \in Requests :
       \/ Send(r) \/ RequestStep(r) \/ Timeout(r)
       \/ TokenStep(r) \/ Release(r) \/ LockTuner(r) \/ SignalRead(r)
       \/ SessionStep(r) \/ Chunk(r) \/ StreamEnds(r)
  \/ \E c \in Clients : Disconnect(c)

(***************************************************************************)
(* The runtime runs every ready task, and drivers return from every call.  *)
(* Clients, chunks, the end of a stream and the timeout owe nothing.       *)
(***************************************************************************)
Fairness ==
  \A r \in Requests :
    /\ WF_vars(RequestStep(r))
    /\ WF_vars(Release(r))
    /\ WF_vars(LockTuner(r)) /\ WF_vars(SignalRead(r))
    /\ WF_vars(SessionStep(r))

Spec == Init /\ [][Next]_vars /\ Fairness

-----------------------------------------------------------------------------
(* Safety *)

\* The session r started has yet to let go of its tuner.
Live(s)    == fan[s] \in {"run", "idle", "ending"}
Closing(s) == fan[s] \in {"closing", "drop"}

\* r reserved its tuner, and has not let go of it.
Holds(r) ==
  pc[r] \in {"start", "abort"} \/ Live(r) \/ Closing(r)

\* No two requests or sessions have a tuner of a device at the same time:
\* from before open_tuner until close returned (l.208-233, 385-392).
OneHolder ==
  \A q, r \in Requests : Holds(q) /\ Holds(r) /\ at[q] = at[r] => q = r

\* `busy` and `closing` are what their comments say (l.59-62): the tuners
\* held, none left behind by a failure, and those a session is closing.
PoolIsExact ==
  /\ busy = {at[r] : r \in {q \in Requests : Holds(q)}}
  /\ closing = {at[s] : s \in {q \in Requests : Closing(q)}}

\* A session a request may join will still serve it or tell it of its end:
\* its fan-out has not been told to stop, nor gone past end().  The same goes
\* for one with clients, each of which has its token (l.340-349, 396-410).
JoinableIsLive ==
  /\ \A s \in sessions : Live(s) /\ ~stop[s]
  /\ \A k \in Requests : tokens[k] # None => Live(tokens[k])
  /\ \A s \in Requests : \A k \in subscribers[s] : tokens[k] = s /\ ~stop[s]

\* A client that was given a stream and keeps it either is among the clients
\* its session serves, or was sent the StreamEndEvent (tunelith.proto: "Sent
\* before tunelithd ends a stream the client has not released").
EndIsTold ==
  \A k \in Requests :
    pc[k] \in {"keep", "granted"} /\ rel[k] = "no" =>
      k \in ended \/ \E s \in Requests : k \in subscribers[s]

\* A client is served the parameters it asked for, by the tuner it named.
ServedAsAsked ==
  \A s \in Requests : \A k \in subscribers[s] :
    ask[s].params = ask[k].params /\ Wanted(k, at[s]) /\ <<at[s], ask[k].params>> \in Receives

\* The streams of a client that went are given up, the one granted while it
\* went included (l.437-446, 538-542).
GoneIsReleased ==
  \A k \in Requests :
    pc[k] = "granted" /\ ask[k].client \in gone => rel[k] # "no"

-----------------------------------------------------------------------------
(* What is promised and the code does not keep: see the README.            *)

LetGo(r) == pc[r] = "abort" \/ stop[r] \/ fan[r] = "ending" \/ Closing(r)

\* A request that may wait passes over a tuner only while someone uses it,
\* never one its last client has left (l.59-61, 205, 247-248).
OnlyUsedArePassedOver ==
  [][\A r \in Requests, t \in Tuners :
       wait[r] /\ t \in busy /\ Skip(r, t) =>
         \E q \in Requests : Holds(q) /\ at[q] = t /\ ~LetGo(q)]_vars

\* A client that asked for the LNB to be powered is on a tuner tuned with the
\* LNB powered (tunelith.proto:114).
LnbIsPowered ==
  \A s \in Requests : \A k \in subscribers[s] : ask[k].lnb => ask[s].lnb

-----------------------------------------------------------------------------
(* Liveness *)

\* Every acquire is answered, without help from the timeout: a task waiting
\* for a tuner to close is woken (l.252-263, 393).
AcquireIsAnswered ==
  \A r \in Requests : (pc[r] = "share") ~> (pc[r] \in Answered)

\* A session its last client released gives its tuner back.
StoppedIsFreed == \A s \in Requests : stop[s] ~> (fan[s] = "done")

\* A client that went is served nothing for ever after.
GoneIsServedNothing ==
  \A k \in Requests :
    (pc[k] # "new" /\ ask[k].client \in gone) ~> [](\A s \in Requests : k \notin subscribers[s])

\* What the daemon promises of its tuners.
Pool == INSTANCE TunerPool WITH
  Streams <- Requests,
  use     <- [t \in Tuners |->
                {<<r, ask[r].params>> : r \in {q \in Requests : Holds(q) /\ at[q] = t}}],
  clients <- [t \in Tuners |->
                {<<k, ask[k].params>> : k \in
                   {j \in Requests : \E s \in Requests : at[s] = t /\ j \in subscribers[s]}}],
  served  <- {k \in Requests : rx[k] # "none"}

PoolSpec == Pool!Spec

=============================================================================
