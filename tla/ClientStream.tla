---------------------------- MODULE ClientStream ----------------------------
(***************************************************************************)
(* A program's connection to tunelithd: the client library                 *)
(* (tunelith/src/lib.rs) and what the daemon does for one client           *)
(* (tunelith-cli/src/bin/tunelithd/main.rs), with the control connection   *)
(* and the data connections between them.                                  *)
(*                                                                         *)
(* A stream k is one call of Client::acquire, the token it is answered     *)
(* with and the Stream it returns.  The unit of data is a chunk.  Who      *)
(* holds which tuner is the business of module Tunelithd; here every       *)
(* stream is a subscriber of a session of its own.                         *)
(***************************************************************************)
EXTENDS Naturals, Sequences, FiniteSets

CONSTANTS
  Streams,
  Backlog,    \* BACKLOG: what the channel of a subscriber holds
  Pipe,       \* what the socket of a data connection holds
  MaxChunks   \* bound: the chunks of each stream

ASSUME SizesAssumption ==
  Backlog \in Nat \ {0} /\ Pipe \in Nat \ {0} /\ MaxChunks \in [Streams -> Nat]

VARIABLES
  \* the program, and the library
  call,      \* where acquire is, and the Stream after it
  pending,   \* the calls in Inner::pending
  drops,     \* the streams in Inner::drops
  lost,      \* the counter drops leads to: Stream::dropped_bytes
  ends,      \* Inner::ends; "none" if the stream is not in it
  parked,    \* whether a read waits for the end to be told
  got,       \* the chunks read
  result,    \* what the read that found the end returned
  reader,    \* whether the reader task of the connection runs
  writer,    \* whether its writer task does
  \* the connections
  up,        \* requests on their way, handled in any order
  down,      \* answers and events on their way
  conn,      \* the data connection of each stream
  pipe,      \* the chunks in it
  \* the daemon
  alive,
  sub,       \* the Subscriber: "on" while its session runs
  answer,    \* whether the answer to the acquire is yet to be sent
  rx,        \* the Receiver: in `unattached`, in data(), or gone
  queue,     \* the chunks in the channel
  missed,    \* Subscriber::dropped
  made,      \* the chunks there were for the stream
  source     \* how the stream of the tuner ended

clientVars ==
  <<call, pending, drops, lost, ends, parked, got, result, reader, writer>>
daemonVars == <<alive, sub, answer, rx, queue, missed, made, source>>
vars == <<clientVars, daemonVars, up, down, conn, pipe>>

(***************************************************************************)
(* call    "idle", "sent": waits for the answer; "answered": which is in   *)
(*         the oneshot; "attaching": has its token, sets its data          *)
(*         connection up; "open": returned a Stream; "failed": returned an *)
(*         error; "gone": given up on before it had its token; "closed":   *)
(*         given up on after that, or the Stream was dropped.              *)
(* ends    "pending", "ended", "failed" on an error, "cut" for the loss of *)
(*         the connection.                                                 *)
(* conn    "none", "asked": the token was sent; "refused", "up"; "eof":    *)
(*         tunelithd closed it; "shut": the program did.                   *)
(***************************************************************************)
TypeOK ==
  /\ call \in [Streams -> {"idle", "sent", "answered", "attaching", "open",
                           "closed", "failed", "gone"}]
  /\ pending \subseteq Streams /\ drops \subseteq Streams
  /\ \A f \in {lost, got, missed, made} :
       DOMAIN f = Streams /\ \A k \in Streams : f[k] \in 0..MaxChunks[k]
  /\ ends \in [Streams -> {"none", "pending", "ended", "failed", "cut"}]
  /\ parked \in [Streams -> BOOLEAN]
  /\ result \in [Streams -> {"no", "eof", "error", "cut"}]
  /\ reader \in BOOLEAN /\ writer \in BOOLEAN
  /\ up \subseteq [op : {"acquire", "release"}, k : Streams]
  /\ \A i \in DOMAIN down :
       down[i] \in [op : {"granted", "refused", "drop", "ended", "failed"},
                    k : Streams, n : 0..MaxChunks[down[i].k]]
  /\ conn \in [Streams -> {"none", "asked", "refused", "up", "eof", "shut"}]
  /\ pipe \in [Streams -> 0..Pipe]
  /\ alive \in BOOLEAN
  /\ sub \in [Streams -> {"none", "on", "off"}]
  /\ answer \in [Streams -> BOOLEAN]
  /\ rx \in [Streams -> {"none", "queued", "attached", "dropped"}]
  /\ queue \in [Streams -> 0..Backlog]
  /\ source \in [Streams -> {"on", "ended", "failed"}]

All(v) == [k \in Streams |-> v]

Init ==
  /\ call = All("idle") /\ pending = {} /\ drops = {} /\ lost = All(0)
  /\ ends = All("none") /\ parked = All(FALSE) /\ got = All(0)
  /\ result = All("no") /\ reader = TRUE /\ writer = TRUE
  /\ up = {} /\ down = <<>> /\ conn = All("none") /\ pipe = All(0)
  /\ alive = TRUE /\ sub = All("none") /\ answer = All(FALSE)
  /\ rx = All("none") /\ queue = All(0) /\ missed = All(0) /\ made = All(0)
  /\ source = All("on")

Msg(op, k, n) == [op |-> op, k |-> k, n |-> n]

-----------------------------------------------------------------------------
(* The program *)

\* Client::call, of an AcquireRequest.
Call(k) ==
  /\ call[k] = "idle"
  /\ pending' = pending \cup {k}
  /\ IF writer
       THEN /\ up' = up \cup {[op |-> "acquire", k |-> k]}
            /\ call' = [call EXCEPT ![k] = "sent"]
       ELSE UNCHANGED up /\ call' = [call EXCEPT ![k] = "failed"]
  /\ UNCHANGED <<drops, lost, ends, parked, got, result, reader, writer, down,
                 conn, pipe, daemonVars>>

\* acquire has its token: from now on tunelithd may report on the stream.
\* Its data connection is refused if there is no tunelithd any more.
Take(k) ==
  /\ call[k] = "answered"
  /\ call' = [call EXCEPT ![k] = "attaching"]
  /\ drops' = drops \cup {k}
  /\ ends' = [ends EXCEPT ![k] = "pending"]
  /\ conn' = [conn EXCEPT ![k] = IF alive THEN "asked" ELSE "refused"]
  /\ UNCHANGED <<pending, lost, parked, got, result, reader, writer, up, down,
                 pipe, daemonVars>>

Open(k) ==
  /\ call[k] = "attaching" /\ conn[k] \in {"up", "eof"}
  /\ call' = [call EXCEPT ![k] = "open"]
  /\ UNCHANGED <<pending, drops, lost, ends, parked, got, result, reader,
                 writer, up, down, conn, pipe, daemonVars>>

\* Mutant: the entries of the stream go, and nothing else.
OnlyForget(k) ==
  /\ drops' = drops \ {k}
  /\ ends' = [ends EXCEPT ![k] = "none"]
  /\ UNCHANGED up

\* Inner::release: nobody waits for the answer.
InnerRelease(k) ==
  /\ drops' = drops \ {k}
  /\ ends' = [ends EXCEPT ![k] = "none"]
  /\ up' = IF writer THEN up \cup {[op |-> "release", k |-> k]} ELSE up

\* Held::drop and Stream::drop: the stream is released, its data connection
\* closed.
LetGo(k, label) ==
  /\ call' = [call EXCEPT ![k] = label]
  /\ InnerRelease(k)
  /\ conn' = [conn EXCEPT ![k] = "shut"]
  /\ pipe' = [pipe EXCEPT ![k] = 0]
  /\ parked' = [parked EXCEPT ![k] = FALSE]
  /\ UNCHANGED <<pending, lost, got, result, reader, writer, down, daemonVars>>

AttachFails(k) ==
  /\ call[k] = "attaching" /\ conn[k] = "refused"
  /\ LetGo(k, "failed")

DropStream(k) ==
  /\ call[k] = "open"
  /\ LetGo(k, "closed")

\* The future of acquire is dropped.
GiveUp(k) ==
  \/ /\ call[k] \in {"sent", "answered"}
     /\ call' = [call EXCEPT ![k] = "gone"]
     /\ UNCHANGED <<pending, drops, lost, ends, parked, got, result, reader,
                    writer, up, down, conn, pipe, daemonVars>>
  \/ call[k] = "attaching" /\ LetGo(k, "closed")

\* Stream::poll_read finds data.
Read(k) ==
  /\ call[k] = "open" /\ result[k] = "no" /\ pipe[k] > 0
  /\ pipe' = [pipe EXCEPT ![k] = @ - 1]
  /\ got' = [got EXCEPT ![k] = @ + 1]
  /\ UNCHANGED <<call, pending, drops, lost, ends, parked, result, reader,
                 writer, up, down, conn, daemonVars>>

\* Mutant: the error of the end is not looked at.
EndUntold(k) == "eof"

Result(k) ==
  CASE ends[k] = "failed" -> "error"
    [] ends[k] = "cut" -> "cut"
    [] OTHER -> "eof"

\* Stream::poll_read finds the end of the data, and waits to be told how the
\* stream ended.
ReadEnd(k) ==
  /\ call[k] = "open" /\ result[k] = "no" /\ ~parked[k]
  /\ conn[k] = "eof" /\ pipe[k] = 0
  /\ IF ends[k] = "pending"
       THEN parked' = [parked EXCEPT ![k] = TRUE] /\ UNCHANGED result
       ELSE result' = [result EXCEPT ![k] = Result(k)] /\ UNCHANGED parked
  /\ UNCHANGED <<call, pending, drops, lost, ends, got, reader, writer, up,
                 down, conn, pipe, daemonVars>>

-----------------------------------------------------------------------------
(* The reader and the writer task of the control connection *)

\* Mutant: the read waiting for the end is not woken.
Unwoken(S) == parked

\* Inner::end wakes the reads waiting for the end of the streams of S.
Wake(S) == [k \in Streams |-> parked[k] /\ ~(k \in S /\ ends[k] = "pending")]

\* Inner::end.
Ended(S, how) ==
  [k \in Streams |-> IF k \in S /\ ends[k] = "pending" THEN how ELSE ends[k]]

\* The answer to an acquire: handed to the call, or released if it was given
\* up on.
Granted(k) ==
  IF k \in pending /\ call[k] = "gone"
    THEN /\ pending' = pending \ {k}
         /\ InnerRelease(k)
         /\ UNCHANGED call
    ELSE /\ pending' = pending \ {k}
         /\ call' = [call EXCEPT ![k] = IF k \in pending THEN "answered" ELSE @]
         /\ UNCHANGED <<drops, ends, up>>

Refused(k) ==
  /\ pending' = pending \ {k}
  /\ call' = [call EXCEPT ![k] = IF @ = "sent" THEN "failed" ELSE @]
  /\ UNCHANGED <<drops, ends, up>>

\* Mutant: the loss is taken for what is lost in all.
Reported(k, n) == [lost EXCEPT ![k] = n]

AddLost(k, n) == [lost EXCEPT ![k] = @ + n]

\* A message of tunelithd.
Deliver ==
  /\ reader /\ down # <<>>
  /\ down' = Tail(down)
  /\ LET m == Head(down) IN
       \/ /\ m.op = "granted" /\ Granted(m.k)
          /\ UNCHANGED <<lost, parked>>
       \/ /\ m.op = "refused" /\ Refused(m.k)
          /\ UNCHANGED <<lost, parked>>
       \/ /\ m.op = "drop"
          /\ lost' = IF m.k \in drops THEN AddLost(m.k, m.n) ELSE lost
          /\ UNCHANGED <<call, pending, drops, ends, parked, up>>
       \/ /\ m.op \in {"ended", "failed"}
          /\ ends' = Ended({m.k}, m.op)
          /\ parked' = Wake({m.k})
          /\ UNCHANGED <<call, pending, drops, lost, up>>
  /\ UNCHANGED <<got, result, reader, writer, conn, pipe, daemonVars>>

\* Mutant: the calls left waiting are not failed.
StillWaiting == call

\* The calls left waiting fail, with the senders of their answers dropped.
CallsFailed ==
  [k \in Streams |->
     IF k \in pending /\ call[k] = "sent" THEN "failed" ELSE call[k]]

\* The connection is lost: the calls and the streams left waiting are failed.
ReaderEnds ==
  /\ reader /\ ~alive /\ down = <<>>
  /\ reader' = FALSE
  /\ call' = CallsFailed
  /\ pending' = {}
  /\ ends' = Ended(Streams, "cut")
  /\ parked' = Wake(Streams)
  /\ UNCHANGED <<drops, lost, got, result, writer, up, down, conn, pipe,
                 daemonVars>>

\* A write fails, which is how the writer learns of the loss.
WriterEnds ==
  /\ writer /\ ~alive /\ up # {}
  /\ writer' = FALSE
  /\ up' = {}
  /\ UNCHANGED <<call, pending, drops, lost, ends, parked, got, result, reader,
                 down, conn, pipe, daemonVars>>

-----------------------------------------------------------------------------
(* tunelithd *)

\* Daemon::acquire, to the point where it subscribed: the session runs, and
\* the answer is yet to be sent.
Subscribe(k) ==
  /\ alive /\ [op |-> "acquire", k |-> k] \in up
  /\ up' = up \ {[op |-> "acquire", k |-> k]}
  /\ sub' = [sub EXCEPT ![k] = "on"]
  /\ answer' = [answer EXCEPT ![k] = TRUE]
  /\ rx' = [rx EXCEPT ![k] = "queued"]
  /\ UNCHANGED <<clientVars, alive, queue, missed, made, source, down, conn,
                 pipe>>

Refuse(k) ==
  /\ alive /\ [op |-> "acquire", k |-> k] \in up
  /\ up' = up \ {[op |-> "acquire", k |-> k]}
  /\ down' = Append(down, Msg("refused", k, 0))
  /\ UNCHANGED <<clientVars, daemonVars, conn, pipe>>

Answer(k) ==
  /\ alive /\ answer[k]
  /\ answer' = [answer EXCEPT ![k] = FALSE]
  /\ down' = Append(down, Msg("granted", k, 0))
  /\ UNCHANGED <<clientVars, alive, sub, rx, queue, missed, made, source, up,
                 conn, pipe>>

ResetCount(k) == [missed EXCEPT ![k] = 0]

\* flush_drops: the events it sends.
Flush(k) == IF missed[k] > 0 THEN <<Msg("drop", k, missed[k])>> ELSE <<>>

\* try_send finds room in the channel.
Room(k) == queue[k] < Backlog

\* A chunk, in fan_out: sent, dropped, or for a client that has gone.
Chunk(k) ==
  /\ alive /\ sub[k] = "on" /\ made[k] < MaxChunks[k]
  /\ \/ /\ rx[k] = "dropped"
        /\ sub' = [sub EXCEPT ![k] = "off"]
        /\ UNCHANGED <<queue, missed, made, down>>
     \/ /\ rx[k] # "dropped" /\ Room(k)
        /\ made' = [made EXCEPT ![k] = @ + 1]
        /\ queue' = [queue EXCEPT ![k] = @ + 1]
        /\ down' = down \o Flush(k)
        /\ missed' = ResetCount(k)
        /\ UNCHANGED sub
     \/ /\ rx[k] # "dropped" /\ ~Room(k)
        /\ made' = [made EXCEPT ![k] = @ + 1]
        /\ missed' = [missed EXCEPT ![k] = @ + 1]
        /\ UNCHANGED <<sub, queue, down>>
  /\ UNCHANGED <<clientVars, alive, answer, rx, source, up, conn, pipe>>

\* Mutant: the end is told before what was lost.
EndFirst(k, how) == <<Msg(how, k, 0)>> \o Flush(k)

Farewell(k, how) == Flush(k) \o <<Msg(how, k, 0)>>

\* The receiver in `unattached` is dropped.
RxUnattached(k) == IF rx[k] = "queued" THEN "dropped" ELSE rx[k]

\* Daemon::end: the stream of the tuner ended, on an error or not.
SourceEnds(k) ==
  /\ alive /\ sub[k] = "on"
  /\ \E how \in {"ended", "failed"} :
       /\ source' = [source EXCEPT ![k] = how]
       /\ down' = down \o Farewell(k, how)
  /\ missed' = [missed EXCEPT ![k] = 0]
  /\ sub' = [sub EXCEPT ![k] = "off"]
  /\ rx' = [rx EXCEPT ![k] = RxUnattached(k)]
  /\ queue' = [queue EXCEPT ![k] = IF rx'[k] = "dropped" THEN 0 ELSE @]
  /\ UNCHANGED <<clientVars, alive, answer, made, up, conn, pipe>>

\* Daemon::release.
HandleRelease(k) ==
  /\ alive /\ [op |-> "release", k |-> k] \in up
  /\ up' = up \ {[op |-> "release", k |-> k]}
  /\ sub' = [sub EXCEPT ![k] = "off"]
  /\ rx' = [rx EXCEPT ![k] = RxUnattached(k)]
  /\ queue' = [queue EXCEPT ![k] = IF rx'[k] = "dropped" THEN 0 ELSE @]
  /\ UNCHANGED <<clientVars, alive, answer, missed, made, source, down, conn,
                 pipe>>

\* connection(): the data connection that shows the token of k.
Attach(k) ==
  /\ alive /\ conn[k] = "asked"
  /\ IF rx[k] = "queued"
       THEN /\ rx' = [rx EXCEPT ![k] = "attached"]
            /\ conn' = [conn EXCEPT ![k] = "up"]
       ELSE UNCHANGED rx /\ conn' = [conn EXCEPT ![k] = "refused"]
  /\ UNCHANGED <<clientVars, alive, sub, answer, queue, missed, made, source,
                 up, down, pipe>>

\* The program closed its data connection, and the token it sent is read only
\* now.
LateAttach(k) ==
  /\ alive /\ conn[k] = "shut" /\ rx[k] = "queued"
  /\ rx' = [rx EXCEPT ![k] = "attached"]
  /\ UNCHANGED <<clientVars, alive, sub, answer, queue, missed, made, source,
                 up, down, conn, pipe>>

\* data(): a chunk is written.
Pump(k) ==
  /\ alive /\ rx[k] = "attached" /\ conn[k] = "up"
  /\ queue[k] > 0 /\ pipe[k] < Pipe
  /\ queue' = [queue EXCEPT ![k] = @ - 1]
  /\ pipe' = [pipe EXCEPT ![k] = @ + 1]
  /\ UNCHANGED <<clientVars, alive, sub, answer, rx, missed, made, source, up,
                 down, conn>>

Drained(k) == sub[k] = "off" /\ queue[k] = 0

\* data() is over, as the channel is or the program closed the connection;
\* the stream is released.
DataEnds(k) ==
  /\ alive /\ rx[k] = "attached"
  /\ \/ /\ conn[k] = "up" /\ Drained(k)
        /\ conn' = [conn EXCEPT ![k] = "eof"]
     \/ conn[k] = "shut" /\ UNCHANGED conn
  /\ rx' = [rx EXCEPT ![k] = "dropped"]
  /\ sub' = [sub EXCEPT ![k] = "off"]
  /\ queue' = [queue EXCEPT ![k] = 0]
  /\ UNCHANGED <<clientVars, alive, answer, missed, made, source, up, down,
                 pipe>>

\* tunelithd ends.  Of what it was sent and what it sent some is lost.
Crash ==
  /\ alive
  /\ alive' = FALSE
  /\ up' \in SUBSET up
  /\ \E n \in 0..Len(down) : down' = SubSeq(down, 1, n)
  /\ conn' = [k \in Streams |-> CASE conn[k] = "asked" -> "refused"
                                  [] conn[k] = "up" -> "eof"
                                  [] OTHER -> conn[k]]
  /\ sub' = [k \in Streams |-> IF sub[k] = "on" THEN "off" ELSE sub[k]]
  /\ answer' = All(FALSE)
  /\ rx' = [k \in Streams |-> IF rx[k] = "none" THEN "none" ELSE "dropped"]
  /\ UNCHANGED <<clientVars, queue, missed, made, source, pipe>>

-----------------------------------------------------------------------------

ProgramStep(k) == Take(k) \/ Open(k) \/ AttachFails(k) \/ ReadEnd(k)

DaemonStep(k) ==
  \/ Subscribe(k) \/ Refuse(k) \/ Answer(k) \/ HandleRelease(k) \/ Attach(k)
  \/ Pump(k) \/ DataEnds(k)

TaskStep == Deliver \/ ReaderEnds \/ WriterEnds

Next ==
  \/ \E k \in Streams :
       \/ Call(k) \/ GiveUp(k) \/ DropStream(k) \/ Read(k)
       \/ ProgramStep(k) \/ DaemonStep(k) \/ LateAttach(k)
       \/ Chunk(k) \/ SourceEnds(k)
  \/ TaskStep \/ Crash

(***************************************************************************)
(* The runtimes run their tasks, and a future is polled when it can go on. *)
(* Nothing is assumed of what a program does with its stream, of chunks,   *)
(* of the end of their source, or of a token reaching tunelithd after its  *)
(* connection was closed.                                                  *)
(***************************************************************************)
Fairness ==
  /\ WF_vars(Deliver) /\ WF_vars(ReaderEnds) /\ WF_vars(WriterEnds)
  /\ \A k \in Streams : WF_vars(ProgramStep(k)) /\ WF_vars(DaemonStep(k))

Spec == Init /\ [][Next]_vars /\ Fairness

-----------------------------------------------------------------------------
(* Safety *)

\* The chunks of k that the messages of q report lost, each as the place of
\* its message and its number in it.
Reports(q, k) ==
  UNION {{i} \X (1 .. q[i].n) : i \in {j \in DOMAIN q : q[j].op = "drop" /\ q[j].k = k}}

\* What tunelithd has reported of the chunks k lost and the library has yet to
\* be told.
InFlight(k) == Cardinality(Reports(down, k))

\* No chunk of a stream with a data connection goes missing uncounted, and none
\* is counted twice: each was read, is on its way, or is reported as dropped
\* (main.rs 316-328, 547-558; lib.rs 217-221).
Accounted ==
  \A k \in Streams :
    alive /\ conn[k] \in {"up", "eof"} =>
      made[k] = got[k] + pipe[k] + queue[k] + missed[k] + InFlight(k) + lost[k]

\* A read finds the end of a stream only if there is one, and fails if and only
\* if it failed: the end of the data alone tells nothing (lib.rs 438-465).
EndIsTrue ==
  \A k \in Streams :
    /\ result[k] = "eof"   => source[k] = "ended"
    /\ result[k] = "error" => source[k] = "failed"
    /\ result[k] = "cut"   => ~alive

\* The stream of a token that was granted belongs to someone: the answer is on
\* its way, the program has it, or it is being released (lib.rs 233-237,
\* "nobody is to release the stream but us").
NoStreamForgotten ==
  \A k \in Streams :
    alive /\ sub[k] = "on" =>
      \/ answer[k] \/ \E i \in DOMAIN down : down[i] = Msg("granted", k, 0)
      \/ call[k] \in {"answered", "attaching", "open"}
      \/ [op |-> "release", k |-> k] \in up

-----------------------------------------------------------------------------
(* Liveness *)

\* A call made before the connection was lost is answered or fails (lib.rs 241).
CallIsAnswered ==
  \A k \in Streams : (call[k] = "sent" /\ reader) ~> (call[k] # "sent")

\* Every call is answered or fails (lib.rs 241), which the code does not keep:
\* see the README.
EveryCallIsAnswered ==
  \A k \in Streams : (call[k] = "sent") ~> (call[k] # "sent")

\* A read that waits for the end to be told is told (lib.rs 82-89, 454-462).
EndIsLearned == \A k \in Streams : parked[k] ~> ~parked[k]

\* A program that lets go of a stream, before its data connection is up too, has
\* left it: tunelithd serves it no more (lib.rs 65-75, 385-391, 468-472).
LetGoIsReleased ==
  \A k \in Streams : (call[k] \in {"closed", "failed"}) ~> (sub[k] # "on")

\* What the library promises of a stream.
Stream == INSTANCE LossyStream WITH over <- result

StreamSpec == Stream!Spec

=============================================================================
