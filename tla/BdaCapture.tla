----------------------------- MODULE BdaCapture -----------------------------
(***************************************************************************)
(* What a graph of the Windows driver receives: the reads that the device  *)
(* fills (ks::Reader of tunelith-core/src/bda/ks.rs), the thread that      *)
(* takes their frames to where they go (SinkState of bda/mod.rs), the      *)
(* streams, a tune underway, the graph being stopped and the device        *)
(* failing.  A frame is the number of the tune it was received in.         *)
(***************************************************************************)
EXTENDS Naturals, Sequences, FiniteSets

CONSTANTS
  InFlight,   \* READS_IN_FLIGHT
  Backlog,    \* the frames a stream may fall behind by
  Round,      \* the frames the device gives out of its buffers after a tune
  Margin,     \* those received while a tune is sent down, at most
  MaxTunes, MaxStreams, MaxFrames  \* bounds

ASSUME CaptureAssumption ==
  /\ InFlight \in Nat \ {0} /\ Backlog \in Nat \ {0}
  /\ Round \in Nat /\ Margin \in Nat
  /\ MaxTunes \in Nat /\ MaxStreams \in Nat /\ MaxFrames \in Nat

\* Mutant: what the device keeps, with nothing for the time a tune takes.
RoundOnly == Round

\* Quirks::stale_bytes, in frames.
Stale == Round + Margin

VARIABLES
  \* the thread, and its Reader
  pc,      \* "new", "next", "sink", "wait" or "gone"
  reads,   \* the reads whose buffers it has, the oldest first
  read,    \* of each: "idle", "held" by the device, "full" or "failed"
  got,     \* and the frame it was filled with
  frame,   \* what Reader::next returned, [ok, of]
  \* Graph::sink
  sink,    \* [tx, stale, stopping, failure, ended]
  \* the streams
  chan,    \* the frames each has yet to take
  stream,  \* "none", "open", "dropped", or how it ended: "clean", "error"
  told,    \* the tune each was asked for in
  first,   \* whether it has yet to leave its first frame out
  \* the holder
  graph,   \* "running", "stopping" or "stopped"
  tune,    \* "none", "sending", "locking" or "tuned"
  tunes,   \* how many came into force
  \* the device
  left,    \* the stale frames it has yet to give
  was,     \* of which tune they are
  broken,
  received, \* the frames so far
  early,   \* those since the tune began that were received before it
  fresh    \* whether no stream gave out a frame of before its tune

thread == <<pc, reads, frame>>
taking == <<chan, stream, told, first, fresh>>
holder == <<graph, tune, tunes>>
device == <<left, was, broken, received>>
vars   == <<thread, read, got, sink, taking, holder, device, early>>

Reads   == 1 .. InFlight
Streams == 1 .. MaxStreams

Init ==
  /\ pc = "new" /\ reads = <<>> /\ frame = [ok |-> FALSE, of |-> 0]
  /\ read = [r \in Reads |-> "idle"] /\ got = [r \in Reads |-> 0]
  /\ sink = [tx |-> 0, stale |-> 0, stopping |-> FALSE, failure |-> FALSE, ended |-> FALSE]
  /\ chan = [s \in Streams |-> <<>>] /\ stream = [s \in Streams |-> "none"]
  /\ told = [s \in Streams |-> 0] /\ first = [s \in Streams |-> TRUE] /\ fresh = TRUE
  /\ graph = "running" /\ tune = "none" /\ tunes = 0
  /\ left = 0 /\ was = 0 /\ broken = FALSE /\ received = 0 /\ early = 0

-----------------------------------------------------------------------------
(* The thread.                                                             *)

\* A read is the device's until it has filled or failed it.
Sent(r) == [read EXCEPT ![r] = "held"]

\* Reader::new: each read is the reader's once it is in flight.  One that
\* cannot be sent ends it, and Graph::build with it.
Submit ==
  /\ pc = "new"
  /\ LET r == Len(reads) + 1 IN
       \/ /\ r \in Reads
          /\ reads' = Append(reads, r) /\ read' = Sent(r)
          /\ UNCHANGED <<pc, holder>>
       \/ /\ r \in Reads
          /\ pc' = "wait" /\ graph' = "stopped"
          /\ UNCHANGED <<reads, read, tune, tunes>>
       \/ /\ r \notin Reads
          /\ pc' = "next" /\ UNCHANGED <<reads, read, holder>>
  /\ UNCHANGED <<frame, got, sink, taking, device, early>>

\* Reader::next: the oldest read, once the device is through with it, is sent
\* again; where it cannot be, it goes, the device not having it.
NextRead ==
  /\ pc = "next" /\ reads # <<>> /\ read[reads[1]] \in {"full", "failed"}
  /\ LET r == reads[1] IN
       \/ /\ read[r] = "full"
          /\ frame' = [ok |-> TRUE, of |-> got[r]]
          /\ reads' = Append(Tail(reads), r) /\ read' = Sent(r)
       \/ /\ read[r] = "full" /\ (broken \/ graph = "stopped")
          /\ frame' = [ok |-> FALSE, of |-> 0]
          /\ reads' = Tail(reads) /\ read' = [read EXCEPT ![r] = "idle"]
       \/ /\ read[r] = "failed"
          /\ frame' = [ok |-> FALSE, of |-> 0]
          /\ reads' = Append(Tail(reads), r) /\ UNCHANGED read
  /\ pc' = "sink"
  /\ UNCHANGED <<got, sink, taking, holder, device, early>>

\* A frame, under the lock of the sink.
OnFrame ==
  /\ pc = "sink" /\ frame.ok
  /\ pc' = "next"
  /\ LET s == sink.tx IN
       \/ /\ sink.stale > 0
          /\ sink' = [sink EXCEPT !.stale = @ - 1] /\ UNCHANGED chan
       \/ /\ sink.stale = 0
          /\ IF s # 0 /\ stream[s] = "open" /\ Len(chan[s]) <= Backlog
             THEN chan' = [chan EXCEPT ![s] = Append(@, frame.of)]
             ELSE UNCHANGED chan
          /\ sink' = IF s # 0 /\ stream[s] # "open" THEN [sink EXCEPT !.tx = 0] ELSE sink
  /\ UNCHANGED <<reads, frame, read, got, stream, told, first, fresh, holder, device, early>>

\* Mutant: the thread goes on after a failure.
GoesOn == "next"

\* The loop ends, and with it the reader, which cancels its reads.
Breaks == "wait"

OnError ==
  /\ pc = "sink" /\ ~frame.ok
  /\ pc' = Breaks
  /\ sink' = [sink EXCEPT !.failure = @ \/ ~sink.stopping, !.tx = 0, !.ended = TRUE]
  /\ UNCHANGED <<reads, frame, read, got, taking, holder, device, early>>

\* Mutant: the reader does not wait for what it cancels.
LetGoAny(r) == TRUE

LetGo(r) == read[r] # "held"

\* Drop of the reader: its buffers go once the device has let go of all.
DropReader ==
  /\ pc = "wait" /\ \A i \in DOMAIN reads : LetGo(reads[i])
  /\ pc' = "gone" /\ reads' = <<>>
  /\ UNCHANGED <<frame, read, got, sink, taking, holder, device, early>>

-----------------------------------------------------------------------------
(* The device.                                                             *)

\* It fills the oldest read it has, of which a tune waits for few.
Fill ==
  /\ ~broken /\ graph # "stopped" /\ received < MaxFrames
  /\ tune = "sending" => early < Margin
  /\ \E i \in DOMAIN reads :
       /\ read[reads[i]] = "held" /\ \A j \in 1 .. i - 1 : read[reads[j]] # "held"
       /\ read' = [read EXCEPT ![reads[i]] = "full"]
       /\ got'  = [got EXCEPT ![reads[i]] = IF left > 0 THEN was ELSE tunes]
  /\ received' = received + 1
  /\ left' = IF left > 0 THEN left - 1 ELSE 0
  /\ early' = IF tune = "sending" THEN early + 1 ELSE early
  /\ UNCHANGED <<thread, sink, taking, holder, was, broken>>

\* It fails a read, stopped, broken, or as the read is cancelled.
Fails(r) ==
  /\ broken \/ graph = "stopped" \/ pc = "wait"
  /\ read[r] = "held" /\ read' = [read EXCEPT ![r] = "failed"]
  /\ UNCHANGED <<thread, got, sink, taking, holder, device, early>>

Break ==
  /\ ~broken /\ broken' = TRUE
  /\ UNCHANGED <<thread, read, got, sink, taking, holder, left, was, received, early>>

-----------------------------------------------------------------------------
(* The holder of the tuner.                                                *)

\* The frames on their way to the sink.
Coming ==
  Cardinality({r \in Reads : read[r] = "full"}) + (IF pc = "sink" /\ frame.ok THEN 1 ELSE 0)

\* Graph::tune, begun; and its changes committed, or not.
Tune ==
  /\ pc \notin {"new", "gone"} /\ graph = "running" /\ tune \in {"none", "tuned"}
  /\ tunes < MaxTunes /\ Coming <= Margin
  /\ tune' = "sending" /\ early' = Coming
  /\ sink' = [sink EXCEPT !.stale = Stale]
  /\ UNCHANGED <<thread, read, got, taking, graph, tunes, device>>

Commit ==
  /\ tune = "sending"
  /\ \/ /\ tune' = "locking" /\ tunes' = tunes + 1
        /\ was' = tunes /\ left' \in 0 .. Round
     \/ tune' = "none" /\ UNCHANGED <<tunes, was, left>>
  /\ UNCHANGED <<thread, read, got, sink, taking, graph, broken, received, early>>

Locked ==
  /\ tune = "locking" /\ tune' \in {"tuned", "none"}
  /\ UNCHANGED <<thread, read, got, sink, taking, graph, tunes, device, early>>

\* Mutant: a stream is given out though nothing will come.
CanStreamEver == TRUE

CanStream == ~sink.ended

\* stream: the next one, the holder having let go of those before; a failure
\* is told instead.
OpenStream ==
  /\ tune = "tuned" /\ \A s \in Streams : stream[s] # "open"
  /\ \/ sink.failure /\ sink' = [sink EXCEPT !.failure = FALSE] /\ UNCHANGED <<stream, told>>
     \/ /\ ~sink.failure /\ CanStream
        /\ \E s \in Streams :
             /\ stream[s] = "none" /\ \A t \in 1 .. s - 1 : stream[t] # "none"
             /\ sink' = [sink EXCEPT !.tx = s]
             /\ stream' = [stream EXCEPT ![s] = "open"] /\ told' = [told EXCEPT ![s] = tunes]
  /\ UNCHANGED <<thread, read, got, chan, first, fresh, holder, device, early>>

\* The stream gives a frame out, but for its first.
Take(s) ==
  /\ stream[s] = "open" /\ chan[s] # <<>>
  /\ chan' = [chan EXCEPT ![s] = Tail(@)]
  /\ first' = [first EXCEPT ![s] = FALSE]
  /\ fresh' = (fresh /\ (first[s] \/ Head(chan[s]) >= told[s]))
  /\ UNCHANGED <<thread, read, got, sink, stream, told, holder, device, early>>

\* It ends once nothing can send to it, telling the failure if there is one.
EndStream(s) ==
  /\ stream[s] = "open" /\ chan[s] = <<>> /\ sink.tx # s
  /\ stream' = [stream EXCEPT ![s] = IF sink.failure THEN "error" ELSE "clean"]
  /\ sink' = [sink EXCEPT !.failure = FALSE]
  /\ UNCHANGED <<thread, read, got, chan, told, first, fresh, holder, device, early>>

DropStream(s) ==
  /\ stream[s] = "open"
  /\ stream' = [stream EXCEPT ![s] = "dropped"] /\ chan' = [chan EXCEPT ![s] = <<>>]
  /\ UNCHANGED <<thread, read, got, sink, told, first, fresh, holder, device, early>>

\* Drop of the graph: the sink knows before the pins stop.
Stopping ==
  /\ pc # "new" /\ graph = "running" /\ tune \in {"none", "tuned"}
  /\ graph' = "stopping" /\ tune' = "none"
  /\ sink' = [sink EXCEPT !.stopping = TRUE]
  /\ UNCHANGED <<thread, read, got, taking, tunes, device, early>>

Stop ==
  /\ graph = "stopping" /\ graph' = "stopped"
  /\ UNCHANGED <<thread, read, got, sink, taking, tune, tunes, device, early>>

ThreadRuns == Submit \/ NextRead \/ OnFrame \/ OnError \/ DropReader

Next ==
  \/ ThreadRuns \/ Fill \/ Break \/ Tune \/ Commit \/ Locked \/ OpenStream \/ Stopping \/ Stop
  \/ \E r \in Reads : Fails(r)
  \/ \E s \in Streams : Take(s) \/ EndStream(s) \/ DropStream(s)

\* The thread runs, and a device that cannot fill its reads gives them back.
Fairness == WF_vars(ThreadRuns) /\ \A r \in Reads : WF_vars(Fails(r))

Spec == Init /\ [][Next]_vars /\ Fairness

-----------------------------------------------------------------------------
(* Properties.                                                             *)

\* Nothing received before the tune is given out by a stream asked for after
\* it, though the reads in flight and the buffers of the device still hold
\* some as it ends (mod.rs:75, 512), as long as the slack in stale_bytes
\* covers what comes while the tune is sent down.
StreamIsFresh == fresh

\* However the reads ending races the stream being asked for or read, and
\* the pins being stopped: no stream is left waiting for frames of a thread
\* that is gone (mod.rs:762), one ends in silence only if stopped on purpose,
\* and with an error only if the device failed (mod.rs:502, 778).
EndIsTold ==
  /\ sink.ended => sink.tx = 0
  /\ \A s \in Streams : /\ stream[s] = "clean" => sink.stopping
                        /\ stream[s] = "error" => broken

\* The device never has a read whose buffers are gone, also where the reader
\* could not start all of its reads, or could not send one again (ks.rs:539,
\* 589, 617).
BuffersOutlive ==
  \A r \in Reads : read[r] = "held" => \E i \in DOMAIN reads : reads[i] = r

\* The thread, and the pin it holds, go once the graph is stopped or the
\* device fails, whatever read it waits for (ks.rs:604, 617).
ReaderEnds == (broken \/ graph = "stopped") ~> pc = "gone"

=============================================================================
