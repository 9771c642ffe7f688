-------------------------- MODULE BdaCaptureProofs --------------------------
(***************************************************************************)
(* What is proved of BdaCapture for any number of reads, tunes and         *)
(* streams, and any buffer of the device: that no stream gives out what    *)
(* was received before its tune, that the end of each is told, and that    *)
(* buffers outlive the reads into them.                                    *)
(***************************************************************************)
EXTENDS BdaCapture, FiniteSetTheorems, TLAPS

Sinks ==
  [tx : 0 .. MaxStreams, stale : Nat, stopping : BOOLEAN, failure : BOOLEAN, ended : BOOLEAN]

TypeOK ==
  /\ pc \in {"new", "next", "sink", "wait", "gone"} /\ reads \in Seq(Reads)
  /\ read \in [Reads -> {"idle", "held", "full", "failed"}] /\ got \in [Reads -> Nat]
  /\ frame \in [ok : BOOLEAN, of : Nat]
  /\ sink \in Sinks
  /\ chan \in [Streams -> Seq(Nat)]
  /\ stream \in [Streams -> {"none", "open", "dropped", "clean", "error"}]
  /\ told \in [Streams -> Nat] /\ first \in [Streams -> BOOLEAN]
  /\ graph \in {"running", "stopping", "stopped"}
  /\ tune \in {"none", "sending", "locking", "tuned"} /\ tunes \in Nat
  /\ left \in Nat /\ was \in Nat /\ broken \in BOOLEAN /\ early \in Nat

-----------------------------------------------------------------------------
(* Sequences.                                                              *)

LEMMA Longer ==
  ASSUME NEW S, NEW q \in Seq(S), NEW r \in S
  PROVE  /\ Append(q, r) \in Seq(S)
         /\ DOMAIN Append(q, r) = 1 .. Len(q) + 1
         /\ \A i \in DOMAIN q : Append(q, r)[i] = q[i]
         /\ Append(q, r)[Len(q) + 1] = r
         /\ DOMAIN q = 1 .. Len(q) /\ Len(q) \in Nat
  OBVIOUS

LEMMA Shorter ==
  ASSUME NEW S, NEW q \in Seq(S), q # <<>>
  PROVE  /\ Tail(q) \in Seq(S)
         /\ Len(q) \in Nat \ {0} /\ DOMAIN q = 1 .. Len(q) /\ q[1] \in S
         /\ DOMAIN Tail(q) = 1 .. Len(q) - 1 /\ Len(Tail(q)) = Len(q) - 1
         /\ \A i \in DOMAIN Tail(q) : Tail(q)[i] = q[i + 1]
  OBVIOUS

LEMMA TurnedOver ==
  ASSUME NEW S, NEW q \in Seq(S), q # <<>>, NEW r \in S
  PROVE  /\ Append(Tail(q), r) \in Seq(S)
         /\ DOMAIN Append(Tail(q), r) = DOMAIN q /\ Len(q) \in DOMAIN q
         /\ \A i \in DOMAIN q : i # Len(q) => i + 1 \in DOMAIN q /\ Append(Tail(q), r)[i] = q[i + 1]
         /\ Append(Tail(q), r)[Len(q)] = r
<1>1. Tail(q) \in Seq(S) /\ Len(Tail(q)) = Len(q) - 1 /\ Len(q) \in Nat \ {0} /\ DOMAIN q = 1 .. Len(q)
  BY Shorter
<1> QED
  BY <1>1, Shorter, Longer

-----------------------------------------------------------------------------
(* Frames on their way to the sink, counted.                               *)

Full      == {r \in Reads : read[r] = "full"}
FullOf(n) == {r \in Full : got[r] < n}

InSink == pc = "sink" /\ frame.ok

LEMMA Countable ==
  ASSUME NEW S \in SUBSET Reads
  PROVE  IsFiniteSet(S) /\ Cardinality(S) \in Nat
<1>1. IsFiniteSet(Reads)
  BY CaptureAssumption, FS_Interval DEF Reads
<1> QED
  BY <1>1, FS_Subset, FS_CardinalityType

LEMMA ComingIsNat == Coming \in Nat
<1>1. {r \in Reads : read[r] = "full"} \in SUBSET Reads
  OBVIOUS
<1> QED
  BY <1>1, Countable DEF Coming

-----------------------------------------------------------------------------
(* Types                                                                   *)

\* What is set in the sink leaves it one.
LEMMA SinkSet ==
  ASSUME NEW s \in Sinks
  PROVE  /\ \A x \in 0 .. MaxStreams : [s EXCEPT !.tx = x] \in Sinks
         /\ \A n \in Nat : [s EXCEPT !.stale = n] \in Sinks
         /\ [s EXCEPT !.stopping = TRUE] \in Sinks
         /\ [s EXCEPT !.failure = FALSE] \in Sinks
  BY DEF Sinks

LEMMA SinkEnded ==
  ASSUME NEW s \in Sinks, NEW b \in BOOLEAN
  PROVE  LET e == [s EXCEPT !.failure = b, !.tx = 0, !.ended = TRUE]
         IN  /\ e \in Sinks /\ e.failure = b /\ e.tx = 0 /\ e.ended
             /\ e.stale = s.stale /\ e.stopping = s.stopping
<1>1. 0 \in 0 .. MaxStreams
  BY CaptureAssumption
<1> QED
  BY <1>1 DEF Sinks

LEMMA TypesInit == Init => TypeOK
<1> HAVE Init
<1>1. sink \in Sinks
  BY CaptureAssumption DEF Init, Sinks
<1>2. chan \in [Streams -> Seq(Nat)] /\ reads \in Seq(Reads)
  BY DEF Init
<1>3. frame \in [ok : BOOLEAN, of : Nat]
  BY DEF Init
<1> QED
  BY <1>1, <1>2, <1>3 DEF Init, TypeOK

LEMMA TypesNext ==
  ASSUME TypeOK, [Next]_vars
  PROVE  TypeOK'
<1> USE CaptureAssumption
<1>1. CASE Submit
  <2>1. Len(reads) + 1 \in Reads => Append(reads, Len(reads) + 1) \in Seq(Reads)
    BY Longer DEF TypeOK, thread, taking, holder, device
  <2> QED
    BY <1>1, <2>1 DEF Submit, Sent, TypeOK, thread, taking, holder, device
<1>2. CASE NextRead
  <2>1. /\ reads[1] \in Reads /\ Tail(reads) \in Seq(Reads)
        /\ Append(Tail(reads), reads[1]) \in Seq(Reads)
    BY <1>2, Shorter, TurnedOver DEF NextRead, TypeOK, thread, taking, holder, device
  <2>2. frame' \in [ok : BOOLEAN, of : Nat]
    <3>1. got[reads[1]] \in Nat
      BY <2>1 DEF TypeOK
    <3>2. frame' = [ok |-> TRUE, of |-> got[reads[1]]] \/ frame' = [ok |-> FALSE, of |-> 0]
      BY <1>2 DEF NextRead
    <3>3. CASE frame' = [ok |-> TRUE, of |-> got[reads[1]]]
      BY <3>1, <3>3
    <3>4. CASE frame' = [ok |-> FALSE, of |-> 0]
      BY <3>4
    <3> QED
      BY <3>2, <3>3, <3>4
  <2>3. read' \in [Reads -> {"idle", "held", "full", "failed"}]
    BY <1>2, <2>1 DEF NextRead, TypeOK, Sent
  <2> QED
    BY <1>2, <2>1, <2>2, <2>3 DEF NextRead, TypeOK, thread, taking, holder, device
<1>3. CASE OnFrame
  <2>1. \A s \in Streams : Append(chan[s], frame.of) \in Seq(Nat)
    BY Longer DEF TypeOK, thread, taking, holder, device
  <2>2. /\ sink \in Sinks /\ sink.tx \in 0 .. MaxStreams /\ sink.stale \in Nat
        /\ 0 \in 0 .. MaxStreams /\ frame.of \in Nat
    BY DEF TypeOK, Sinks
  <2>3. sink' \in Sinks
    <3>1. sink.stale > 0 => sink.stale - 1 \in Nat
      BY <2>2
    <3>2. \/ sink.stale > 0 /\ sink' = [sink EXCEPT !.stale = sink.stale - 1]
          \/ sink' = [sink EXCEPT !.tx = 0] \/ sink' = sink
      BY <1>3 DEF OnFrame
    <3> QED
      BY <2>2, <3>1, <3>2, SinkSet
  <2>4. chan' \in [Streams -> Seq(Nat)]
    <3>1. chan' = chan \/ chan' = [chan EXCEPT ![sink.tx] = Append(chan[sink.tx], frame.of)]
      BY <1>3 DEF OnFrame
    <3>2. chan \in [Streams -> Seq(Nat)]
      BY DEF TypeOK
    <3> QED
      BY <3>1, <3>2, <2>1
  <2> QED
    BY <1>3, <2>3, <2>4 DEF OnFrame, TypeOK, thread, taking, holder, device
<1>4. CASE OnError
  <2>1. sink \in Sinks /\ (sink.failure \/ ~sink.stopping) \in BOOLEAN
    BY DEF TypeOK, Sinks
  <2>2. sink' \in Sinks
    BY <1>4, <2>1, SinkEnded DEF OnError
  <2> QED
    BY <1>4, <2>2 DEF OnError, Breaks, TypeOK, thread, taking, holder, device
<1>5. CASE DropReader
  BY <1>5 DEF DropReader, TypeOK, thread, taking, holder, device
<1>6. CASE Fill
  BY <1>6 DEF Fill, TypeOK, thread, taking, holder, device
<1>7. CASE \E r \in Reads : Fails(r)
  BY <1>7 DEF Fails, TypeOK, thread, taking, holder, device
<1>8. CASE Break
  BY <1>8 DEF Break, TypeOK, thread, taking, holder, device
<1>9. CASE Tune
  <2>1. Stale \in Nat
    BY DEF Stale
  <2>2. sink' \in Sinks
    BY <1>9, <2>1, SinkSet DEF Tune, TypeOK
  <2> QED
    BY <1>9, <2>2, ComingIsNat DEF Tune, TypeOK, thread, taking, holder, device
<1>10. CASE Commit
  BY <1>10 DEF Commit, TypeOK, thread, taking, holder, device
<1>11. CASE Locked
  BY <1>11 DEF Locked, TypeOK, thread, taking, holder, device
<1>12. CASE OpenStream
  <2>1. \A s \in Streams : s \in 0 .. MaxStreams
    BY DEF Streams
  <2>2. sink' \in Sinks
    <3>1. \/ sink' = [sink EXCEPT !.failure = FALSE]
          \/ \E s \in Streams : sink' = [sink EXCEPT !.tx = s]
      BY <1>12 DEF OpenStream
    <3>2. sink \in Sinks
      BY DEF TypeOK
    <3> QED
      BY <2>1, <3>1, <3>2, SinkSet
  <2>3. stream' \in [Streams -> {"none", "open", "dropped", "clean", "error"}] /\ told' \in [Streams -> Nat]
    <3>1. \/ stream' = stream /\ told' = told
          \/ \E s \in Streams : /\ stream' = [stream EXCEPT ![s] = "open"]
                                /\ told' = [told EXCEPT ![s] = tunes]
      BY <1>12 DEF OpenStream
    <3> QED
      BY <3>1 DEF TypeOK
  <2> QED
    BY <1>12, <2>2, <2>3 DEF OpenStream, TypeOK, thread, taking, holder, device
<1>13. CASE \E s \in Streams : Take(s)
  BY <1>13, Shorter DEF Take, TypeOK, thread, taking, holder, device
<1>14. CASE \E s \in Streams : EndStream(s)
  <2>1. sink' \in Sinks
    BY <1>14, SinkSet DEF EndStream, TypeOK
  <2> QED
    BY <1>14, <2>1 DEF EndStream, TypeOK, thread, taking, holder, device
<1>15. CASE \E s \in Streams : DropStream(s)
  BY <1>15 DEF DropStream, TypeOK, thread, taking, holder, device
<1>16. CASE Stopping
  <2>1. sink' \in Sinks
    BY <1>16, SinkSet DEF Stopping, TypeOK
  <2> QED
    BY <1>16, <2>1 DEF Stopping, TypeOK, thread, taking, holder, device
<1>17. CASE Stop
  BY <1>17 DEF Stop, TypeOK, thread, taking, holder, device
<1>18. CASE UNCHANGED vars
  BY <1>18 DEF vars, TypeOK, thread, taking, holder, device
<1> QED
  BY <1>1, <1>2, <1>3, <1>4, <1>5, <1>6, <1>7, <1>8, <1>9, <1>10, <1>11, <1>12, <1>13, <1>14,
     <1>15, <1>16, <1>17, <1>18 DEF Next, ThreadRuns

-----------------------------------------------------------------------------
(* The buffers                                                             *)

\* A read has its place with the reader as long as there is something in its
\* buffer, and the buffer as long as the device may write into it.
Placed ==
  /\ pc = "new" => \A i \in DOMAIN reads : reads[i] = i
  /\ \A i, j \in DOMAIN reads : reads[i] = reads[j] => i = j
  /\ BuffersOutlive
  /\ pc # "gone" => \A r \in Reads : read[r] = "full" => \E i \in DOMAIN reads : reads[i] = r

LEMMA PlacedInit == Init => Placed
  BY DEF Init, Placed, BuffersOutlive

\* Turning the oldest read over leaves all where there is a place for each.
LEMMA NextReadPlaced ==
  ASSUME TypeOK, Placed, NextRead
  PROVE  Placed'
<1> DEFINE n == Len(reads)
           r == reads[1]
<1>1. /\ reads # <<>> /\ n \in Nat \ {0} /\ DOMAIN reads = 1 .. n /\ r \in Reads
      /\ Tail(reads) \in Seq(Reads) /\ DOMAIN Tail(reads) = 1 .. n - 1
      /\ \A i \in 1 .. n - 1 : Tail(reads)[i] = reads[i + 1]
  BY Shorter DEF NextRead, TypeOK
<1>2. CASE reads' = Append(Tail(reads), r)
  <2>1. /\ DOMAIN reads' = 1 .. n /\ reads'[n] = r
        /\ \A i \in 1 .. n - 1 : reads'[i] = reads[i + 1]
    BY <1>1, <1>2, TurnedOver
  <2>2. \A q \in Reads : (\E i \in DOMAIN reads : reads[i] = q) => \E i \in DOMAIN reads' : reads'[i] = q
    <3> TAKE q \in Reads
    <3> HAVE \E i \in DOMAIN reads : reads[i] = q
    <3>1. PICK i \in 1 .. n : reads[i] = q
      BY <1>1
    <3>2. CASE i = 1
      BY <2>1, <3>1, <3>2, <1>1
    <3>3. CASE i # 1
      <4>1. i - 1 \in 1 .. n - 1 /\ i - 1 \in DOMAIN reads' /\ reads'[i - 1] = reads[(i - 1) + 1]
        BY <2>1, <3>3, <1>1
      <4> QED
        BY <4>1, <3>1
    <3> QED
      BY <3>2, <3>3
  <2>3. \A i, j \in DOMAIN reads' : reads'[i] = reads'[j] => i = j
    <3> TAKE i, j \in DOMAIN reads'
    <3>1. CASE i = n /\ j = n
      BY <3>1
    <3>2. CASE i # n /\ j # n
      BY <3>2, <2>1, <1>1 DEF Placed
    <3>3. CASE i = n /\ j # n
      BY <3>3, <2>1, <1>1 DEF Placed
    <3>4. CASE i # n /\ j = n
      BY <3>4, <2>1, <1>1 DEF Placed
    <3> QED
      BY <3>1, <3>2, <3>3, <3>4
  <2>4. \A q \in Reads : read'[q] = read[q] \/ (q = r /\ read'[q] = "held")
    <3>1. Tail(reads) # reads' /\ reads' # Tail(reads)
      <4>1. Len(Tail(reads)) = n - 1 /\ Len(reads') = n
        BY <1>1, <1>2, Shorter, TurnedOver DEF TypeOK
      <4> QED
        BY <4>1, <1>1
    <3> QED
      BY <1>1, <1>2, <3>1 DEF NextRead, TypeOK, Sent
  <2> QED
    BY <2>1, <2>2, <2>3, <2>4, <1>1 DEF NextRead, Placed, BuffersOutlive
<1>3. CASE reads' = Tail(reads) /\ read' = [read EXCEPT ![r] = "idle"]
  <2>1. \A q \in Reads \ {r} : (\E i \in DOMAIN reads : reads[i] = q) => \E i \in DOMAIN reads' : reads'[i] = q
    <3> TAKE q \in Reads \ {r}
    <3> HAVE \E i \in DOMAIN reads : reads[i] = q
    <3>1. PICK i \in 2 .. n : reads[i] = q
      BY <1>1
    <3>2. i - 1 \in 1 .. n - 1 /\ reads'[i - 1] = reads[(i - 1) + 1] /\ i - 1 \in DOMAIN reads'
      BY <1>1, <1>3
    <3> QED
      BY <3>1, <3>2
  <2>2. \A i, j \in DOMAIN reads' : reads'[i] = reads'[j] => i = j
    BY <1>1, <1>3 DEF Placed
  <2>3. \A q \in Reads : read'[q] = IF q = r THEN "idle" ELSE read[q]
    BY <1>3 DEF TypeOK
  <2> QED
    BY <2>1, <2>2, <2>3, <1>1 DEF NextRead, Placed, BuffersOutlive
<1> QED
  BY <1>2, <1>3 DEF NextRead

LEMMA SubmitPlaced ==
  ASSUME TypeOK, Placed, Submit
  PROVE  Placed'
<1>1. CASE reads' = Append(reads, Len(reads) + 1) /\ read' = Sent(Len(reads) + 1) /\ pc' = pc
  <2> DEFINE n == Len(reads) + 1
  <2>0. n \in Reads
    BY <1>1, Longer DEF Submit, TypeOK, Reads
  <2>1. /\ DOMAIN reads' = 1 .. n /\ reads'[n] = n /\ Len(reads) \in Nat
        /\ DOMAIN reads = 1 .. Len(reads) /\ \A i \in DOMAIN reads : reads'[i] = reads[i]
    BY <1>1, <2>0, Longer DEF TypeOK
  <2>2. \A i \in 1 .. n : reads'[i] = i
    BY <2>1 DEF Submit, Placed
  <2>3. \A q \in Reads : read'[q] = IF q = n THEN "held" ELSE read[q]
    BY <1>1 DEF Sent, TypeOK
  <2>4. \A q \in Reads : (\E i \in DOMAIN reads : reads[i] = q) => \E i \in DOMAIN reads' : reads'[i] = q
    BY <2>1
  <2>5. BuffersOutlive'
    BY <2>1, <2>3, <2>4 DEF Placed, BuffersOutlive
  <2>6. \A r \in Reads : read'[r] = "full" => \E i \in DOMAIN reads' : reads'[i] = r
    BY <2>1, <2>3, <2>4 DEF Placed, Submit
  <2> QED
    BY <1>1, <2>1, <2>2, <2>5, <2>6 DEF Placed
<1>2. CASE UNCHANGED <<reads, read>> /\ pc' # "new" /\ pc' # "gone"
  BY <1>2 DEF Placed, BuffersOutlive, Submit
<1> QED
  BY <1>1, <1>2 DEF Submit

LEMMA PlacedNext ==
  ASSUME TypeOK, Placed, [Next]_vars
  PROVE  Placed'
<1>1. CASE Submit
  BY <1>1, SubmitPlaced
<1>2. CASE NextRead
  BY <1>2, NextReadPlaced
<1>3. CASE DropReader
  BY <1>3 DEF DropReader, LetGo, Placed, BuffersOutlive
<1>4. CASE Fill
  BY <1>4 DEF Fill, Placed, BuffersOutlive, TypeOK, thread
<1>5. CASE \E r \in Reads : Fails(r)
  BY <1>5 DEF Fails, Placed, BuffersOutlive, TypeOK, thread
<1>6. CASE UNCHANGED <<reads, read>> /\ (pc' = pc \/ pc' \notin {"new", "gone"}) /\ (pc = "gone" => pc' = "gone")
  BY <1>6 DEF Placed, BuffersOutlive
<1>7. CASE OnFrame \/ OnError
  BY <1>7, <1>6 DEF OnFrame, OnError, Breaks
<1>8. CASE \/ Break \/ Tune \/ Commit \/ Locked \/ OpenStream \/ Stopping \/ Stop
           \/ \E s \in Streams : Take(s) \/ EndStream(s) \/ DropStream(s)
           \/ UNCHANGED vars
  BY <1>8, <1>6 DEF Break, Tune, Commit, Locked, OpenStream, Stopping, Stop, Take, EndStream,
                    DropStream, vars, thread
<1> QED
  BY <1>1, <1>2, <1>3, <1>4, <1>5, <1>7, <1>8 DEF Next, ThreadRuns

-----------------------------------------------------------------------------
(* The end of a stream                                                     *)

Runs == pc \in {"new", "next", "sink"}

\* The thread does not end by itself, and what it tells of its end stays with
\* the sink until the stream there is has been told.
ToldInv ==
  /\ graph = "stopping" => sink.stopping
  /\ Runs /\ graph = "stopped" => sink.stopping
  /\ Runs /\ (\E r \in Reads : read[r] = "failed") => broken \/ graph = "stopped"
  /\ pc = "sink" /\ ~frame.ok => broken \/ graph = "stopped"
  /\ sink.failure => broken
  /\ Runs => ~sink.ended
  /\ \A s \in Streams : stream[s] = "open" =>
       /\ sink.tx = s \/ sink.ended
       /\ sink.ended => sink.stopping \/ sink.failure
  /\ \A s, t \in Streams : stream[s] = "open" /\ stream[t] = "open" => s = t
  /\ EndIsTold

LEMMA ToldInit == Init => ToldInv
  BY DEF Init, ToldInv, EndIsTold, Runs

\* What a step leaves alone.
LEMMA ToldKept ==
  ASSUME ToldInv, sink' = sink, stream' = stream, graph' = graph, broken => broken',
         Runs' => Runs /\ \A r \in Reads : read'[r] = "failed" => broken' \/ graph = "stopped",
         pc' = "sink" /\ ~frame.ok' => broken' \/ graph = "stopped"
  PROVE  ToldInv'
  BY DEF ToldInv, EndIsTold

LEMMA ToldNext ==
  ASSUME TypeOK, ToldInv, [Next]_vars
  PROVE  ToldInv'
<1>0. /\ sink \in Sinks /\ sink' \in Sinks
      /\ stream \in [Streams -> {"none", "open", "dropped", "clean", "error"}]
  BY TypesNext DEF TypeOK
<1>1. CASE Submit
  <2>1. CASE pc' = pc
    BY <1>1, <2>1 DEF Submit, Sent, ToldInv, EndIsTold, Runs, holder, taking, device, TypeOK
  <2>2. CASE pc' = "wait"
    BY <1>1, <2>2 DEF Submit, Sent, ToldInv, EndIsTold, Runs, holder, taking, device, TypeOK
  <2>3. CASE pc' = "next"
    BY <1>1, <2>3 DEF Submit, Sent, ToldInv, EndIsTold, Runs, holder, taking, device, TypeOK
  <2> QED
    BY <1>1, <2>1, <2>2, <2>3 DEF Submit
<1>2. CASE NextRead
  <2>1. reads[1] \in Reads
    BY <1>2, Shorter DEF NextRead, TypeOK
  <2>2. \A r \in Reads : read'[r] = "failed" => read[r] = "failed"
    BY <1>2, <2>1 DEF NextRead, Sent, TypeOK
  <2>3. ~frame.ok' => read[reads[1]] = "failed" \/ broken \/ graph = "stopped"
    BY <1>2 DEF NextRead
  <2> QED
    BY <1>2, <2>1, <2>2, <2>3, ToldKept DEF NextRead, ToldInv, Runs, holder, taking, device
<1>3. CASE OnFrame
  <2>1. /\ sink'.stopping = sink.stopping /\ sink'.failure = sink.failure
        /\ sink'.ended = sink.ended
        /\ sink'.tx = sink.tx
           \/ (sink'.tx = 0 /\ sink.tx # 0 /\ stream[sink.tx] # "open")
    BY <1>3, <1>0 DEF OnFrame, Sinks
  <2> QED
    BY <1>3, <2>1 DEF OnFrame, ToldInv, EndIsTold, Runs, holder, device, TypeOK
<1>4. CASE OnError
  <2>1. /\ sink'.ended /\ sink'.tx = 0 /\ sink'.stopping = sink.stopping
        /\ sink'.failure = (sink.failure \/ ~sink.stopping)
    BY <1>4, <1>0, SinkEnded DEF OnError, Sinks
  <2> QED
    BY <1>4, <2>1 DEF OnError, Breaks, ToldInv, EndIsTold, Runs, holder, device, taking, TypeOK
<1>5. CASE DropReader
  BY <1>5, ToldKept DEF DropReader, Runs, holder, device, taking
<1>6. CASE Fill
  BY <1>6, ToldKept DEF Fill, ToldInv, Runs, thread, holder, taking, TypeOK
<1>7. CASE \E r \in Reads : Fails(r)
  BY <1>7, ToldKept DEF Fails, ToldInv, Runs, thread, holder, taking, device, TypeOK
<1>8. CASE Break
  BY <1>8, ToldKept DEF Break, ToldInv, Runs, thread, holder, taking, TypeOK
<1>9. CASE Tune
  <2>1. /\ sink'.stopping = sink.stopping /\ sink'.failure = sink.failure
        /\ sink'.ended = sink.ended /\ sink'.tx = sink.tx
    BY <1>9, <1>0 DEF Tune, Sinks
  <2> QED
    BY <1>9, <2>1 DEF Tune, ToldInv, EndIsTold, Runs, thread, taking, device
<1>10. CASE Commit
  BY <1>10, ToldKept DEF Commit, ToldInv, Runs, thread, taking
<1>11. CASE Locked
  BY <1>11, ToldKept DEF Locked, ToldInv, Runs, thread, taking, device
<1>12. CASE OpenStream
  <2>1. CASE sink.failure /\ sink' = [sink EXCEPT !.failure = FALSE] /\ UNCHANGED stream
    <3>1. /\ sink'.stopping = sink.stopping /\ sink'.failure = FALSE
          /\ sink'.ended = sink.ended /\ sink'.tx = sink.tx
      BY <2>1, <1>0 DEF Sinks
    <3> QED
      BY <1>12, <2>1, <3>1 DEF OpenStream, ToldInv, EndIsTold, Runs, thread, holder, device
  <2>2. CASE \E s \in Streams : /\ sink' = [sink EXCEPT !.tx = s] /\ CanStream
                                /\ stream' = [stream EXCEPT ![s] = "open"]
    <3>1. PICK s \in Streams : /\ sink' = [sink EXCEPT !.tx = s] /\ CanStream
                               /\ stream' = [stream EXCEPT ![s] = "open"]
      BY <2>2
    <3>2. /\ sink'.stopping = sink.stopping /\ sink'.failure = sink.failure
          /\ sink'.ended = sink.ended /\ sink'.tx = s /\ ~sink.ended
      BY <3>1, <1>0 DEF Sinks, CanStream
    <3>3. \A t \in Streams : stream'[t] = IF t = s THEN "open" ELSE stream[t]
      BY <3>1, <1>0
    <3> QED
      BY <1>12, <3>2, <3>3 DEF OpenStream, ToldInv, EndIsTold, Runs, thread, holder, device
  <2> QED
    BY <1>12, <2>1, <2>2 DEF OpenStream
<1>13. CASE \E s \in Streams : Take(s)
  BY <1>13, ToldKept DEF Take, ToldInv, Runs, thread, holder, device
<1>14. CASE \E s \in Streams : EndStream(s)
  <2>1. PICK s \in Streams : EndStream(s)
    BY <1>14
  <2>2. /\ sink'.stopping = sink.stopping /\ sink'.failure = FALSE
        /\ sink'.ended = sink.ended /\ sink'.tx = sink.tx
    BY <2>1, <1>0 DEF EndStream, Sinks
  <2>3. \A t \in Streams : stream'[t] = IF t # s THEN stream[t]
                                        ELSE IF sink.failure THEN "error" ELSE "clean"
    BY <2>1, <1>0 DEF EndStream
  <2>4. sink.ended /\ (sink.stopping \/ sink.failure) /\ stream[s] = "open"
    BY <2>1 DEF EndStream, ToldInv
  <2> QED
    BY <2>1, <2>2, <2>3, <2>4 DEF EndStream, ToldInv, EndIsTold, Runs, thread, holder, device
<1>15. CASE \E s \in Streams : DropStream(s)
  <2>1. PICK s \in Streams : DropStream(s)
    BY <1>15
  <2>2. \A t \in Streams : stream'[t] = IF t = s THEN "dropped" ELSE stream[t]
    BY <2>1, <1>0 DEF DropStream
  <2> QED
    BY <2>1, <2>2 DEF DropStream, ToldInv, EndIsTold, Runs, thread, holder, device
<1>16. CASE Stopping
  <2>1. /\ sink'.stopping /\ sink'.failure = sink.failure
        /\ sink'.ended = sink.ended /\ sink'.tx = sink.tx
    BY <1>16, <1>0 DEF Stopping, Sinks
  <2> QED
    BY <1>16, <2>1 DEF Stopping, ToldInv, EndIsTold, Runs, thread, taking, device
<1>17. CASE Stop
  BY <1>17 DEF Stop, ToldInv, EndIsTold, Runs, thread, taking, device
<1>18. CASE UNCHANGED vars
  BY <1>18, ToldKept DEF vars, ToldInv, Runs, thread, taking, holder, device
<1> QED
  BY <1>1, <1>2, <1>3, <1>4, <1>5, <1>6, <1>7, <1>8, <1>9, <1>10, <1>11, <1>12, <1>13, <1>14,
     <1>15, <1>16, <1>17, <1>18 DEF Next, ThreadRuns

-----------------------------------------------------------------------------
(* The order of frames                                                     *)

\* What the device fills the next read with.
Brings == IF left > 0 THEN was ELSE tunes

\* Frames come in the order of the tunes they are of.
InOrder ==
  /\ was <= tunes /\ (left > 0 => was < tunes)
  /\ \A r \in Full : got[r] <= Brings
  /\ InSink => frame.of <= Brings /\ \A r \in Full : frame.of <= got[r]
  /\ \A i, j \in DOMAIN reads : i < j /\ reads[j] \in Full =>
       /\ read[reads[i]] # "held"
       /\ reads[i] \in Full => got[reads[i]] <= got[reads[j]]

LEMMA InOrderInit == Init => InOrder
  BY DEF Init, InOrder, Full, InSink

\* What a step leaves alone.
LEMMA InOrderKept ==
  ASSUME InOrder, UNCHANGED <<reads, read, got, left, was, tunes>>,
         InSink' => InSink /\ frame' = frame
  PROVE  InOrder'
  BY DEF InOrder, Full, Brings

LEMMA NextReadInOrder ==
  ASSUME TypeOK, Placed, InOrder, NextRead
  PROVE  InOrder'
<1> DEFINE n == Len(reads)
           r == reads[1]
<1>1. /\ reads # <<>> /\ n \in Nat \ {0} /\ DOMAIN reads = 1 .. n /\ r \in Reads
      /\ Tail(reads) \in Seq(Reads) /\ DOMAIN Tail(reads) = 1 .. n - 1
      /\ \A i \in 1 .. n - 1 : Tail(reads)[i] = reads[i + 1]
  BY Shorter DEF NextRead, TypeOK
<1>2. /\ \A i \in 1 .. n : reads[i] \in Reads
      /\ \A i \in 2 .. n : reads[i] # r
  <2>1. \A i \in 2 .. n : i \in DOMAIN reads /\ 1 \in DOMAIN reads /\ i # 1
    BY <1>1
  <2> QED
    <3>1. \A i \in 2 .. n : reads[i] # r
      BY <2>1 DEF Placed
    <3>2. \A i \in 1 .. n : reads[i] \in Reads
      BY <1>1 DEF TypeOK
    <3> QED
      BY <3>1, <3>2
<1>3. \A q \in Reads \ {r} : read'[q] = read[q]
  BY <1>1 DEF NextRead, Sent, TypeOK
<1>4. got' = got /\ left' = left /\ was' = was /\ tunes' = tunes /\ pc' = "sink"
  BY DEF NextRead, holder, device
<1>5. r \notin Full' /\ Full' = Full \ {r}
  <2>1. read'[r] # "full"
    BY <1>1 DEF NextRead, Sent, TypeOK
  <2> QED
    BY <2>1, <1>3 DEF Full
<1>6. frame'.ok => r \in Full /\ frame'.of = got[r]
  BY <1>1 DEF NextRead, Full
<1>7. \A q \in Full' : r \in Full => got[r] <= got[q]
  <2> TAKE q \in Full'
  <2> HAVE r \in Full
  <2>1. PICK j \in 1 .. n : reads[j] = q
    BY <1>1, <1>5 DEF Placed, NextRead, Full
  <2>2. 1 < j /\ reads[j] \in Full /\ 1 \in DOMAIN reads
    BY <2>1, <1>1, <1>5
  <2> QED
    BY <2>1, <2>2, <1>1 DEF InOrder
<1>8. \A i, j \in DOMAIN reads' : i < j /\ reads'[j] \in Full' =>
        /\ read'[reads'[i]] # "held"
        /\ reads'[i] \in Full' => got[reads'[i]] <= got[reads'[j]]
  <2> TAKE i, j \in DOMAIN reads'
  <2> HAVE i < j /\ reads'[j] \in Full'
  <2>1. /\ i \in 1 .. n - 1 /\ j \in 1 .. n - 1
        /\ reads'[i] = reads[i + 1] /\ reads'[j] = reads[j + 1]
    <3>1. CASE reads' = Append(Tail(reads), r)
      <4>1. /\ DOMAIN reads' = 1 .. n /\ reads'[n] = r
            /\ \A k \in 1 .. n - 1 : reads'[k] = reads[k + 1]
        BY <1>1, <3>1, TurnedOver
      <4> QED
        BY <4>1, <1>1, <1>5
    <3>2. CASE reads' = Tail(reads)
      BY <1>1, <3>2
    <3> QED
      BY <3>1, <3>2 DEF NextRead
  <2>2. /\ i + 1 \in 2 .. n /\ j + 1 \in 2 .. n /\ i + 1 < j + 1
        /\ reads[i + 1] \in Reads \ {r} /\ reads[j + 1] \in Reads \ {r}
    BY <2>1, <1>1, <1>2
  <2>3. reads[j + 1] \in Full
    BY <2>1, <1>5
  <2>4. /\ read[reads[i + 1]] # "held"
        /\ reads[i + 1] \in Full => got[reads[i + 1]] <= got[reads[j + 1]]
    BY <2>2, <2>3, <1>1 DEF InOrder
  <2> QED
    BY <2>1, <2>2, <2>4, <1>3, <1>5
<1>9. \A q \in Full : got[q] <= Brings
  BY DEF InOrder
<1> QED
  BY <1>4, <1>5, <1>6, <1>7, <1>8, <1>9 DEF InOrder, Brings, InSink

LEMMA SubmitInOrder ==
  ASSUME TypeOK, Placed, InOrder, Submit
  PROVE  InOrder'
<1>0. ~InSink' /\ got' = got /\ left' = left /\ was' = was /\ tunes' = tunes
  BY DEF Submit, InSink, holder, device
<1>1. CASE reads' = Append(reads, Len(reads) + 1) /\ read' = Sent(Len(reads) + 1)
  <2> DEFINE n == Len(reads) + 1
  <2>0. n \in Reads
    BY <1>1, Longer DEF Submit, TypeOK, Reads
  <2>1. /\ DOMAIN reads' = 1 .. n /\ reads'[n] = n /\ Len(reads) \in Nat
        /\ DOMAIN reads = 1 .. Len(reads) /\ \A i \in DOMAIN reads : reads'[i] = reads[i]
    BY <1>1, <2>0, Longer DEF TypeOK
  <2>2. \A i \in DOMAIN reads : reads[i] = i
    BY DEF Submit, Placed
  <2>3. \A q \in Reads : read'[q] = IF q = n THEN "held" ELSE read[q]
    BY <1>1 DEF Sent, TypeOK
  <2>4. n \notin Full /\ Full' = Full
    <3>1. read[n] # "full"
      BY <2>0, <2>1, <2>2 DEF Placed, Submit
    <3> QED
      BY <3>1, <2>0, <2>3 DEF Full
  <2>5. \A i \in 1 .. Len(reads) : reads'[i] \in Reads /\ reads'[i] # n
    <3> TAKE i \in 1 .. Len(reads)
    <3>1. i \in DOMAIN reads /\ reads[i] \in Reads /\ i # n
      BY <2>1 DEF TypeOK
    <3> QED
      BY <3>1, <2>1, <2>2
  <2>6. \A i, j \in DOMAIN reads' : i < j /\ reads'[j] \in Full' =>
          /\ read'[reads'[i]] # "held"
          /\ reads'[i] \in Full' => got[reads'[i]] <= got[reads'[j]]
    <3> TAKE i, j \in DOMAIN reads'
    <3> HAVE i < j /\ reads'[j] \in Full'
    <3>1. i \in DOMAIN reads /\ j \in DOMAIN reads /\ reads'[i] = reads[i] /\ reads'[j] = reads[j]
      BY <2>1, <2>4
    <3>2. read'[reads'[i]] = read[reads[i]]
      BY <3>1, <2>1, <2>3, <2>5
    <3> QED
      BY <3>1, <3>2, <2>4 DEF InOrder
  <2> QED
    BY <2>4, <2>6, <1>0 DEF InOrder, Brings
<1>2. CASE UNCHANGED <<reads, read>>
  BY <1>0, <1>2 DEF InOrder, Full, Brings
<1> QED
  BY <1>1, <1>2 DEF Submit

LEMMA FillInOrder ==
  ASSUME TypeOK, Placed, InOrder, Fill
  PROVE  InOrder'
<1>1. PICK k \in DOMAIN reads :
        /\ read[reads[k]] = "held" /\ \A j \in 1 .. k - 1 : read[reads[j]] # "held"
        /\ read' = [read EXCEPT ![reads[k]] = "full"]
        /\ got'  = [got EXCEPT ![reads[k]] = Brings]
  BY DEF Fill, Brings
<1> DEFINE r == reads[k]
<1>2. /\ \A i \in DOMAIN reads : reads[i] \in Reads
      /\ DOMAIN reads = 1 .. Len(reads) /\ Len(reads) \in Nat
      /\ reads' = reads /\ pc' = pc /\ frame' = frame /\ was' = was /\ tunes' = tunes
      /\ Brings \in Nat /\ Brings' \in Nat /\ Brings <= Brings'
      /\ left' \in Nat /\ (left' > 0 => left > 0)
  BY DEF Fill, TypeOK, thread, holder, Brings, InOrder
<1>3. Full' = Full \cup {r} /\ r \notin Full
  BY <1>1, <1>2 DEF Full, TypeOK
<1>4. \A q \in Reads : got'[q] = IF q = r THEN Brings ELSE got[q]
  BY <1>1 DEF TypeOK
<1>5. \A q \in Reads : got[q] \in Nat
  BY DEF TypeOK
<1>6. Full \in SUBSET Reads /\ r \in Reads
  BY <1>2 DEF Full
<1>7. \A q \in Full' : got'[q] <= Brings'
  BY <1>2, <1>3, <1>4, <1>5, <1>6 DEF InOrder
<1>8. InSink' => frame'.of <= Brings' /\ \A q \in Full' : frame'.of <= got'[q]
  <2> HAVE InSink'
  <2>1. InSink /\ frame.of \in Nat
    BY <1>2 DEF InSink, TypeOK
  <2> QED
    BY <2>1, <1>2, <1>3, <1>4, <1>6 DEF InOrder
<1>9. \A i, j \in DOMAIN reads' : i < j /\ reads'[j] \in Full' =>
        /\ read'[reads'[i]] # "held"
        /\ reads'[i] \in Full' => got'[reads'[i]] <= got'[reads'[j]]
  <2> TAKE i, j \in DOMAIN reads'
  <2> HAVE i < j /\ reads'[j] \in Full'
  <2>1. CASE j = k
    <3>1. read[reads[i]] # "held" /\ reads[i] # r
      BY <2>1, <1>1, <1>2
    <3>2. reads[i] \in Full => got[reads[i]] <= Brings
      BY DEF InOrder
    <3>3. read'[reads[i]] = read[reads[i]] /\ got'[reads[i]] = got[reads[i]] /\ got'[r] = Brings
      BY <3>1, <1>1, <1>2, <1>4 DEF TypeOK
    <3> QED
      BY <2>1, <3>1, <3>2, <3>3, <1>2, <1>3
  <2>2. CASE j # k
    <3>1. reads[j] # r /\ reads[j] \in Full
      BY <2>2, <1>2, <1>3 DEF Placed
    <3>2. read[reads[i]] # "held"
      BY <3>1, <1>2 DEF InOrder
    <3>3. reads[i] # r
      BY <3>2, <1>1
    <3> QED
      BY <3>1, <3>2, <3>3, <1>1, <1>2, <1>3, <1>4 DEF InOrder, TypeOK
  <2> QED
    BY <2>1, <2>2
<1> QED
  BY <1>2, <1>7, <1>8, <1>9 DEF InOrder

LEMMA InOrderNext ==
  ASSUME TypeOK, Placed, InOrder, [Next]_vars
  PROVE  InOrder'
<1>1. CASE Submit
  BY <1>1, SubmitInOrder
<1>2. CASE NextRead
  BY <1>2, NextReadInOrder
<1>3. CASE DropReader
  BY <1>3 DEF DropReader, InOrder, Full, InSink, Brings, holder, device
<1>4. CASE Fill
  BY <1>4, FillInOrder
<1>5. CASE \E r \in Reads : Fails(r)
  <2>1. PICK r \in Reads : Fails(r)
    BY <1>5
  <2>2. \A q \in Reads : read'[q] = IF q = r THEN "failed" ELSE read[q]
    BY <2>1 DEF Fails, TypeOK
  <2>3. Full' = Full /\ \A i \in DOMAIN reads : reads[i] \in Reads
    BY <2>1, <2>2 DEF Fails, Full, TypeOK
  <2> QED
    BY <2>1, <2>2, <2>3 DEF Fails, InOrder, InSink, Brings, thread, holder, device
<1>6. CASE Commit
  <2>1. CASE tunes' = tunes /\ was' = was /\ left' = left
    BY <1>6, <2>1, InOrderKept DEF Commit, thread, InSink
  <2>2. CASE tunes' = tunes + 1 /\ was' = tunes
    <3>1. Brings \in Nat /\ Brings <= tunes /\ Brings' \in Nat /\ tunes <= Brings' /\ was' < tunes'
      BY <2>2, <1>6, CaptureAssumption DEF Brings, InOrder, TypeOK, Commit
    <3>2. \A r \in Full : got[r] \in Nat /\ got[r] <= Brings'
      BY <3>1 DEF InOrder, Full, TypeOK
    <3>3. InSink => frame.of \in Nat /\ frame.of <= Brings'
      BY <3>1 DEF InOrder, TypeOK
    <3> QED
      BY <1>6, <3>1, <3>2, <3>3 DEF Commit, InOrder, Full, InSink, thread, TypeOK
  <2> QED
    BY <1>6, <2>1, <2>2 DEF Commit
<1>7. CASE OnFrame \/ OnError
  BY <1>7, InOrderKept DEF OnFrame, OnError, Breaks, InSink, holder, device
<1>8. CASE \/ Break \/ Tune \/ Locked \/ OpenStream \/ Stopping \/ Stop
           \/ \E s \in Streams : Take(s) \/ EndStream(s) \/ DropStream(s)
           \/ UNCHANGED vars
  BY <1>8, InOrderKept DEF Break, Tune, Locked, OpenStream, Stopping, Stop, Take, EndStream,
                    DropStream, vars, thread, holder, device, InSink
<1> QED
  BY <1>1, <1>2, <1>3, <1>4, <1>5, <1>6, <1>7, <1>8 DEF Next, ThreadRuns

-----------------------------------------------------------------------------
(* What is stale                                                           *)

\* The frames of before the tune numbered n that have yet to come to the sink.
Seen(n) == IF InSink /\ frame.of < n THEN 1 ELSE 0
Yet(n)  == IF was < n THEN left ELSE 0
Old(n)  == Cardinality(FullOf(n)) + Seen(n) + Yet(n)

\* No more of them come than the sink is to leave out: of before the tune in
\* force, or, while one is sent down, of all that came so far and may yet;
\* and so of before the tune a stream was asked for in.
FreshInv ==
  /\ sink.stale <= Stale
  /\ tune = "sending" => early <= Margin /\ Coming + Stale <= sink.stale + early
  /\ tune \in {"locking", "tuned"} => Old(tunes) <= sink.stale
  /\ \A s \in Streams :
       /\ told[s] <= tunes
       /\ stream[s] = "none" => chan[s] = <<>>
       /\ stream[s] = "open" => /\ Old(told[s]) <= sink.stale
                                /\ \A i \in DOMAIN chan[s] : told[s] <= chan[s][i]
  /\ StreamIsFresh

LEMMA Counts ==
  ASSUME TypeOK
  PROVE  /\ Full \in SUBSET Reads /\ Cardinality(Full) \in Nat
         /\ \A n \in Nat : /\ FullOf(n) \in SUBSET Full /\ Cardinality(FullOf(n)) \in Nat
                           /\ Seen(n) \in 0 .. 1 /\ Yet(n) \in Nat /\ Old(n) \in Nat
<1>1. Full \in SUBSET Reads /\ \A n \in Nat : FullOf(n) \in SUBSET Full
  BY DEF Full, FullOf
<1>2. \A n \in Nat : FullOf(n) \in SUBSET Reads
  BY <1>1
<1>3. Cardinality(Full) \in Nat /\ \A n \in Nat : Cardinality(FullOf(n)) \in Nat
  BY <1>1, <1>2, Countable
<1>4. \A n \in Nat : Seen(n) \in 0 .. 1
  BY DEF Seen
<1>5. \A n \in Nat : Yet(n) \in Nat
  BY DEF Yet, TypeOK
<1> QED
  BY <1>1, <1>3, <1>4, <1>5 DEF Old

\* The same of the state that a step leads to.
LEMMA CountsThen ==
  ASSUME TypeOK'
  PROVE  /\ Coming' \in Nat
         /\ \A n \in Nat : /\ Cardinality(FullOf(n)') \in Nat
                           /\ Seen(n)' \in 0 .. 1 /\ Yet(n)' \in Nat /\ Old(n)' \in Nat
<1>1. Full' \in SUBSET Reads /\ \A n \in Nat : FullOf(n)' \in SUBSET Reads
  BY DEF Full, FullOf
<1>2. Cardinality(Full') \in Nat /\ \A n \in Nat : Cardinality(FullOf(n)') \in Nat
  BY <1>1, Countable
<1>3. \A n \in Nat : Seen(n)' \in 0 .. 1
  BY DEF Seen
<1>4. \A n \in Nat : Yet(n)' \in Nat
  BY DEF Yet, TypeOK
<1>5. Coming' = Cardinality(Full') + (IF InSink' THEN 1 ELSE 0)
  BY DEF Coming, Full, InSink
<1> QED
  BY <1>2, <1>3, <1>4, <1>5 DEF Old

\* What is counted of the tune in force, or of a stream's, after a step.
LEMMA OldThen ==
  /\ \A n : n = tunes' => (Old(tunes))' = Old(n)'
  /\ \A s, n : n = told'[s] => (Old(told[s]))' = Old(n)'
  BY DEF Old, FullOf, Seen, Yet

LEMMA FreshInit == Init => FreshInv
<1> HAVE Init
<1>1. sink.stale = 0 /\ tune = "none" /\ Stale \in Nat
  BY CaptureAssumption DEF Init, Stale
<1> QED
  BY <1>1 DEF Init, FreshInv, StreamIsFresh

\* A step that takes no frame on or off its way.
LEMMA CountsKept ==
  ASSUME TypeOK, TypeOK', UNCHANGED <<got, left, was>>, Full' = Full,
         InSink' => InSink /\ frame' = frame
  PROVE  /\ Coming' <= Coming
         /\ \A n \in Nat : Old(n)' <= Old(n)
<1>1. \A n \in Nat : FullOf(n)' = FullOf(n)
  BY DEF FullOf
<1>2. Coming = Cardinality(Full) + (IF InSink THEN 1 ELSE 0)
      /\ Coming' = Cardinality(Full) + (IF InSink' THEN 1 ELSE 0)
  BY DEF Coming, Full, InSink
<1>3. Coming' <= Coming
  BY <1>2, Counts
<1>4. ASSUME NEW n \in Nat PROVE Old(n)' <= Old(n)
  <2>1. Cardinality(FullOf(n)') = Cardinality(FullOf(n)) /\ Cardinality(FullOf(n)) \in Nat
    BY <1>1, Counts
  <2>2. Seen(n)' <= Seen(n) /\ Yet(n)' = Yet(n)
    BY DEF Seen, Yet
  <2>8. /\ Cardinality(FullOf(n)) \in Nat /\ Seen(n) \in 0 .. 1 /\ Yet(n) \in Nat
         /\ Cardinality(FullOf(n)') \in Nat /\ Seen(n)' \in 0 .. 1 /\ Yet(n)' \in Nat
    BY Counts, CountsThen
  <2> QED
    BY <2>1, <2>2, <2>8 DEF Old
<1> QED
  BY <1>3, <1>4

LEMMA NextReadCounts ==
  ASSUME TypeOK, TypeOK', NextRead
  PROVE  /\ Coming' <= Coming
         /\ \A n \in Nat : Old(n)' <= Old(n)
<1> DEFINE r == reads[1]
<1>1. /\ r \in Reads /\ ~InSink /\ got' = got /\ left' = left /\ was' = was
      /\ r \notin Full'
      /\ \A q \in Reads \ {r} : read'[q] = read[q]
  BY Shorter DEF NextRead, Sent, TypeOK, device, Full, InSink
<1>2. Full' = Full \ {r} /\ Full \in SUBSET Reads /\ Cardinality(Full) \in Nat
  BY <1>1, Counts DEF Full
<1>3. InSink' => r \in Full /\ frame'.of = got[r]
  BY <1>1 DEF NextRead, InSink, Full
<1>4. Cardinality(Full') = IF r \in Full THEN Cardinality(Full) - 1 ELSE Cardinality(Full)
  BY <1>2, Countable, FS_RemoveElement
<1>5. /\ Coming = Cardinality(Full) + (IF InSink THEN 1 ELSE 0)
      /\ Coming' = Cardinality(Full') + (IF InSink' THEN 1 ELSE 0)
  BY DEF Coming, Full, InSink
<1>6. Coming' <= Coming
  BY <1>1, <1>2, <1>3, <1>4, <1>5
<1>7. ASSUME NEW n \in Nat PROVE Old(n)' <= Old(n)
  <2>1. FullOf(n)' = FullOf(n) \ {r} /\ FullOf(n) \in SUBSET Reads
    BY <1>1, <1>2 DEF FullOf
  <2>2. /\ Cardinality(FullOf(n)') = IF r \in FullOf(n) THEN Cardinality(FullOf(n)) - 1
                                     ELSE Cardinality(FullOf(n))
        /\ Cardinality(FullOf(n)) \in Nat
    BY <2>1, Countable, FS_RemoveElement
  <2>3. (InSink /\ frame.of < n)' => r \in FullOf(n)
    BY <1>3 DEF FullOf
  <2>4. /\ Yet(n)' = Yet(n) /\ Seen(n) = 0
        /\ Seen(n)' = 0 \/ (Seen(n)' = 1 /\ r \in FullOf(n))
    BY <2>3, <1>1 DEF Seen, Yet
  <2>8. /\ Cardinality(FullOf(n)) \in Nat /\ Seen(n) \in 0 .. 1 /\ Yet(n) \in Nat
         /\ Cardinality(FullOf(n)') \in Nat /\ Seen(n)' \in 0 .. 1 /\ Yet(n)' \in Nat
    BY Counts, CountsThen
  <2> QED
    BY <2>2, <2>4, <2>8 DEF Old
<1> QED
  BY <1>6, <1>7

LEMMA FillCounts ==
  ASSUME TypeOK, TypeOK', InOrder, Fill
  PROVE  /\ Coming' <= Coming + 1
         /\ \A n \in Nat : n <= tunes => Old(n)' <= Old(n)
<1>1. PICK k \in DOMAIN reads :
        /\ read[reads[k]] = "held"
        /\ read' = [read EXCEPT ![reads[k]] = "full"]
        /\ got'  = [got EXCEPT ![reads[k]] = Brings]
  BY DEF Fill, Brings
<1> DEFINE r == reads[k]
<1>2. /\ r \in Reads /\ r \notin Full /\ (InSink' <=> InSink) /\ frame' = frame /\ was' = was
      /\ left' = IF left > 0 THEN left - 1 ELSE 0
  BY <1>1 DEF Fill, Full, InSink, TypeOK, thread
<1>3. Full' = Full \cup {r} /\ Full \in SUBSET Reads /\ Cardinality(Full) \in Nat
  <2>1. \A q \in Reads : read'[q] = IF q = r THEN "full" ELSE read[q]
    BY <1>1, <1>2 DEF TypeOK
  <2> QED
    BY <2>1, <1>2, Counts DEF Full
<1>4. Cardinality(Full') = Cardinality(Full) + 1
  BY <1>2, <1>3, Countable, FS_AddElement
<1>5. /\ Coming = Cardinality(Full) + (IF InSink THEN 1 ELSE 0)
      /\ Coming' = Cardinality(Full') + (IF InSink' THEN 1 ELSE 0)
  BY DEF Coming, Full, InSink
<1>6. Coming' <= Coming + 1
  BY <1>2, <1>3, <1>4, <1>5
<1>7. ASSUME NEW n \in Nat, n <= tunes PROVE Old(n)' <= Old(n)
  <2>0. \A q \in Full : q \in Reads /\ q # r /\ got'[q] = got[q]
    BY <1>1, <1>2, <1>3 DEF TypeOK
  <2>1. FullOf(n) \in SUBSET Reads /\ r \notin FullOf(n) /\ Cardinality(FullOf(n)) \in Nat
    BY <1>2, <1>3, Counts DEF FullOf
  <2>2. got'[r] = Brings
    BY <1>1, <1>2 DEF TypeOK
  <2>3. CASE Brings < n
    <3>1. left > 0 /\ was < n
      BY <2>3, <1>7 DEF Brings, TypeOK
    <3>2. FullOf(n)' = FullOf(n) \cup {r}
      BY <1>3, <2>0, <2>2, <2>3 DEF FullOf
    <3>3. Cardinality(FullOf(n)') = Cardinality(FullOf(n)) + 1
      BY <3>2, <2>1, Countable, FS_AddElement
    <3>4. Seen(n)' = Seen(n) /\ Yet(n)' + 1 = Yet(n)
      BY <3>1, <1>2 DEF Seen, Yet, TypeOK
    <3>8. /\ Cardinality(FullOf(n)) \in Nat /\ Seen(n) \in 0 .. 1 /\ Yet(n) \in Nat
           /\ Cardinality(FullOf(n)') \in Nat /\ Seen(n)' \in 0 .. 1 /\ Yet(n)' \in Nat
      BY Counts, CountsThen
    <3> QED
      BY <3>3, <3>4, <2>1, <3>8 DEF Old
  <2>4. CASE ~(Brings < n)
    <3>1. FullOf(n)' = FullOf(n)
      BY <1>3, <2>0, <2>2, <2>4 DEF FullOf
    <3>2. Cardinality(FullOf(n)') = Cardinality(FullOf(n))
      BY <3>1
    <3>3. Seen(n)' = Seen(n) /\ Yet(n)' <= Yet(n)
      BY <1>2 DEF Seen, Yet, TypeOK
    <3>8. /\ Cardinality(FullOf(n)) \in Nat /\ Seen(n) \in 0 .. 1 /\ Yet(n) \in Nat
           /\ Cardinality(FullOf(n)') \in Nat /\ Seen(n)' \in 0 .. 1 /\ Yet(n)' \in Nat
      BY Counts, CountsThen
    <3> QED
      BY <3>2, <3>3, <2>1, <3>8 DEF Old
  <2> QED
    BY <2>3, <2>4
<1> QED
  BY <1>6, <1>7

\* The frame that is taken from its way, and if it is of now all behind are.
LEMMA OnFrameCounts ==
  ASSUME TypeOK, TypeOK', InOrder, OnFrame
  PROVE  /\ Coming' + 1 = Coming
         /\ \A n \in Nat : IF frame.of < n THEN Old(n)' + 1 = Old(n)
                           ELSE Old(n)' = 0 /\ Old(n) = 0
<1>1. /\ InSink /\ ~InSink' /\ UNCHANGED <<read, got, left, was>>
  BY DEF OnFrame, InSink, device
<1>2. Full' = Full /\ Cardinality(Full) \in Nat
  BY <1>1, Counts DEF Full
<1>3. /\ Coming = Cardinality(Full) + (IF InSink THEN 1 ELSE 0)
      /\ Coming' = Cardinality(Full') + (IF InSink' THEN 1 ELSE 0)
  BY DEF Coming, Full, InSink
<1>4. Coming' + 1 = Coming
  BY <1>1, <1>2, <1>3
<1>5. ASSUME NEW n \in Nat
      PROVE  IF frame.of < n THEN Old(n)' + 1 = Old(n) ELSE Old(n)' = 0 /\ Old(n) = 0
  <2>1. FullOf(n)' = FullOf(n) /\ Cardinality(FullOf(n)) \in Nat
    BY <1>1, <1>2, Counts DEF FullOf
  <2>2. Cardinality(FullOf(n)') = Cardinality(FullOf(n))
    BY <2>1
  <2>3. CASE frame.of < n
    <3>1. Seen(n) = 1 /\ Seen(n)' = 0 /\ Yet(n)' = Yet(n)
      BY <2>3, <1>1 DEF Seen, Yet
    <3>8. /\ Cardinality(FullOf(n)) \in Nat /\ Seen(n) \in 0 .. 1 /\ Yet(n) \in Nat
           /\ Cardinality(FullOf(n)') \in Nat /\ Seen(n)' \in 0 .. 1 /\ Yet(n)' \in Nat
      BY Counts, CountsThen
    <3> QED
      BY <2>1, <2>2, <2>3, <3>1, <3>8 DEF Old
  <2>4. CASE ~(frame.of < n)
    <3>1. frame.of \in Nat /\ n <= frame.of /\ frame.of <= Brings
      BY <2>4, <1>1 DEF InOrder, TypeOK
    <3>2. \A q \in Full : got[q] \in Nat /\ frame.of <= got[q]
      BY <1>1 DEF InOrder, TypeOK, Full
    <3>3. FullOf(n) = {}
      BY <3>1, <3>2 DEF FullOf
    <3>4. Cardinality(FullOf(n)) = 0
      BY <3>3, FS_EmptySet
    <3>5. left > 0 => ~(was < n)
      BY <3>1 DEF Brings, TypeOK
    <3>6. Seen(n) = 0 /\ Seen(n)' = 0 /\ Yet(n) = 0 /\ Yet(n)' = 0
      BY <2>4, <3>5, <1>1 DEF Seen, Yet, TypeOK
    <3> QED
      BY <2>2, <2>4, <3>4, <3>6 DEF Old
  <2> QED
    BY <2>3, <2>4
<1> QED
  BY <1>4, <1>5

\* What a step leaves alone, or brings down.
LEMMA FreshKept ==
  ASSUME TypeOK, TypeOK', FreshInv,
         UNCHANGED <<tunes, told, stream, chan, fresh>>,
         sink'.stale = sink.stale, early' = early,
         tune' = "sending" => tune = "sending",
         tune' \in {"locking", "tuned"} => tune \in {"locking", "tuned"},
         tune' = "sending" => Coming' <= Coming,
         \A n \in Nat : n <= tunes => Old(n)' <= Old(n)
  PROVE  FreshInv'
<1>1. /\ Stale \in Nat /\ sink.stale \in Nat /\ early \in Nat /\ tunes \in Nat
      /\ Coming \in Nat /\ Coming' \in Nat /\ told \in [Streams -> Nat]
  BY CaptureAssumption, ComingIsNat, CountsThen DEF Stale, TypeOK, Sinks
<1>2. \A n \in Nat : n <= tunes => Old(n) \in Nat /\ Old(n)' \in Nat /\ Old(n)' <= Old(n)
  BY Counts, CountsThen
<1>3. \A n \in Nat : n <= tunes /\ Old(n) <= sink.stale => Old(n)' <= sink'.stale
  BY <1>1, <1>2
<1>4. tune' = "sending" => early' <= Margin /\ Coming' + Stale <= sink'.stale + early'
  BY <1>1 DEF FreshInv
<1>5. tune' \in {"locking", "tuned"} => (Old(tunes) <= sink.stale)'
  BY <1>1, <1>3 DEF FreshInv, Old, FullOf, Seen, Yet
<1>6. ASSUME NEW s \in Streams
      PROVE  /\ told[s]' <= tunes'
             /\ stream'[s] = "none" => chan'[s] = <<>>
             /\ stream'[s] = "open" => /\ (Old(told[s]) <= sink.stale)'
                                       /\ \A i \in DOMAIN chan'[s] : told'[s] <= chan'[s][i]
  BY <1>1, <1>3 DEF FreshInv, Old, FullOf, Seen, Yet
<1> QED
  BY <1>1, <1>4, <1>5, <1>6 DEF FreshInv, Stale, StreamIsFresh

\* A frame is left out while there are stale ones to come, and else is of now.
LEMMA OnFrameFresh ==
  ASSUME TypeOK, TypeOK', InOrder, FreshInv, OnFrame
  PROVE  FreshInv'
<1>0. /\ Stale \in Nat /\ sink.stale \in Nat /\ early \in Nat /\ tunes \in Nat
      /\ Coming \in Nat /\ Coming' \in Nat /\ told \in [Streams -> Nat] /\ sink \in Sinks
      /\ frame.of \in Nat
  BY CaptureAssumption, ComingIsNat, CountsThen DEF Stale, TypeOK, Sinks
<1>1. /\ tune' = tune /\ tunes' = tunes /\ early' = early /\ told' = told /\ stream' = stream
      /\ fresh' = fresh
  BY DEF OnFrame, holder, device
<1>5. Coming = Coming' + 1 /\ Coming' \in Nat /\ Coming \in Nat /\ 1 <= Coming
  <2>1. Coming = Coming' + 1 /\ Coming' \in Nat /\ Coming \in Nat
    BY OnFrameCounts, CountsThen, ComingIsNat
  <2>2. \A a, b \in Nat : a = b + 1 => 1 <= a
    OBVIOUS
  <2> QED
    BY <2>1, <2>2
<1>2. \A n \in Nat : /\ Old(n) \in Nat /\ Old(n)' \in Nat
                     /\ IF frame.of < n THEN Old(n)' + 1 = Old(n)
                        ELSE Old(n)' = 0 /\ Old(n) = 0
  BY OnFrameCounts, Counts, CountsThen
<1>3. CASE sink.stale > 0
  <2>1. sink'.stale = sink.stale - 1 /\ chan' = chan
    BY <1>3, <1>0 DEF OnFrame, Sinks
  <2>2. \A n \in Nat : Old(n) <= sink.stale => Old(n)' <= sink'.stale
    BY <2>1, <1>0, <1>2, <1>3
  <2>3. tune' = "sending" => early' <= Margin /\ Coming' + Stale <= sink'.stale + early'
    <3> HAVE tune' = "sending"
    <3>1. early <= Margin /\ Coming + Stale <= sink.stale + early
      BY <1>1 DEF FreshInv
    <3>2. Coming = Coming' + 1 /\ sink.stale = sink'.stale + 1 /\ sink'.stale \in Nat
      BY <2>1, <1>0, <1>5, <1>3
    <3> QED
      BY <3>1, <3>2, <1>0, <1>1
  <2>4. tune' \in {"locking", "tuned"} => (Old(tunes) <= sink.stale)'
    BY <2>2, <1>0, <1>1, OldThen DEF FreshInv
  <2>5. ASSUME NEW s \in Streams
        PROVE  /\ told[s]' <= tunes'
               /\ stream'[s] = "none" => chan'[s] = <<>>
               /\ stream'[s] = "open" => /\ (Old(told[s]) <= sink.stale)'
                                         /\ \A i \in DOMAIN chan'[s] : told'[s] <= chan'[s][i]
    <3>1. told[s] <= tunes /\ told[s] \in Nat
      BY <1>0 DEF FreshInv
    <3>2. stream[s] = "open" => (Old(told[s]) <= sink.stale)'
      BY <2>2, <3>1, <1>1, OldThen DEF FreshInv
    <3> QED
      BY <2>1, <3>1, <3>2, <1>1 DEF FreshInv
  <2> QED
    BY <2>1, <2>3, <2>4, <2>5, <1>0, <1>1 DEF FreshInv, Stale, StreamIsFresh
<1>4. CASE sink.stale = 0
  <2>1. sink'.stale = 0
    BY <1>4, <1>0 DEF OnFrame, Sinks
  <2>2. \A n \in Nat : Old(n) <= sink.stale => n <= frame.of /\ Old(n)' <= sink'.stale
    BY <2>1, <1>0, <1>2, <1>4
  <2>3. ~(tune = "sending")
    <3>1. Margin \in Nat /\ Round \in Nat /\ Stale = Round + Margin
      BY CaptureAssumption DEF Stale
    <3>2. tune = "sending" => early <= Margin /\ Coming + Stale <= early
      BY <1>0, <1>4 DEF FreshInv
    <3>3. \A a, b, c, d, e \in Nat : a = c + d /\ 1 <= b /\ b + a <= e => ~(e <= d)
      OBVIOUS
    <3> QED
      BY <3>1, <3>2, <3>3, <1>5, <1>0
  <2>4. tune' \in {"locking", "tuned"} => (Old(tunes) <= sink.stale)'
    BY <2>2, <1>0, <1>1, OldThen DEF FreshInv
  <2>5. ASSUME NEW s \in Streams
        PROVE  /\ told[s]' <= tunes'
               /\ stream'[s] = "none" => chan'[s] = <<>>
               /\ stream'[s] = "open" => /\ (Old(told[s]) <= sink.stale)'
                                         /\ \A i \in DOMAIN chan'[s] : told'[s] <= chan'[s][i]
    <3>1. told[s] <= tunes /\ told[s] \in Nat /\ chan[s] \in Seq(Nat)
      BY <1>0 DEF FreshInv, TypeOK
    <3>2. stream[s] = "open" => told[s] <= frame.of /\ (Old(told[s]) <= sink.stale)'
      BY <2>2, <3>1, <1>1, OldThen DEF FreshInv
    <3>3. CASE chan'[s] = chan[s]
      BY <3>1, <3>2, <3>3, <1>1 DEF FreshInv
    <3>4. CASE chan'[s] = Append(chan[s], frame.of) /\ stream[s] = "open"
      BY <3>1, <3>2, <3>4, <1>0, <1>1, Longer DEF FreshInv
    <3>5. \/ chan' = chan
          \/ /\ chan' = [chan EXCEPT ![sink.tx] = Append(chan[sink.tx], frame.of)]
             /\ stream[sink.tx] = "open"
      BY <1>4 DEF OnFrame
    <3>6. chan'[s] = chan[s] \/ (chan'[s] = Append(chan[s], frame.of) /\ stream[s] = "open")
      <4>1. CASE chan' = chan
        BY <4>1
      <4>2. CASE /\ chan' = [chan EXCEPT ![sink.tx] = Append(chan[sink.tx], frame.of)]
                 /\ stream[sink.tx] = "open"
        <5>1. chan \in [Streams -> Seq(Nat)]
          BY DEF TypeOK
        <5>2. CASE s = sink.tx
          BY <4>2, <5>1, <5>2
        <5>3. CASE s # sink.tx
          BY <4>2, <5>1, <5>3
        <5> QED
          BY <5>2, <5>3
      <4> QED
        BY <3>5, <4>1, <4>2
    <3> QED
      BY <3>3, <3>4, <3>6
  <2> QED
    BY <2>1, <2>3, <2>4, <2>5, <1>0, <1>1 DEF FreshInv, Stale, StreamIsFresh
<1> QED
  BY <1>0, <1>3, <1>4

\* While a tune is sent down all that came is counted, and as it comes into
\* force that is of before it, with what the device has buffered.
LEMMA CommitFresh ==
  ASSUME TypeOK, TypeOK', InOrder, FreshInv, Commit
  PROVE  FreshInv'
<1>0. /\ Stale \in Nat /\ sink.stale \in Nat /\ early \in Nat /\ tunes \in Nat
      /\ Coming \in Nat /\ Margin \in Nat /\ Round \in Nat /\ Stale = Round + Margin
      /\ told \in [Streams -> Nat]
  BY CaptureAssumption, ComingIsNat DEF Stale, TypeOK, Sinks
<1>1. /\ sink' = sink /\ early' = early /\ UNCHANGED <<read, got, chan, stream, told, fresh>>
      /\ Full' = Full /\ (InSink' <=> InSink) /\ frame' = frame
  BY DEF Commit, thread, taking, Full, InSink
<1>2. Coming' = Coming
  BY <1>1 DEF Coming, InSink
<1>3. CASE tune' = "none" /\ UNCHANGED <<tunes, was, left>>
  <2>1. Coming' <= Coming /\ \A n \in Nat : Old(n)' <= Old(n)
    BY <1>1, <1>3, CountsKept
  <2> QED
    BY <2>1, <1>1, <1>3, FreshKept
<1>4. CASE tune' = "locking" /\ tunes' = tunes + 1 /\ was' = tunes /\ left' \in 0 .. Round
  <2>1. Coming + Round <= sink.stale
    BY <1>0 DEF FreshInv, Commit
  <2>2. ASSUME NEW n \in Nat PROVE Old(n)' <= sink.stale
    <3>1. FullOf(n)' \in SUBSET Full /\ Full \in SUBSET Reads /\ Cardinality(Full) \in Nat
      BY <1>1, Counts DEF FullOf
    <3>2. Cardinality(FullOf(n)') <= Cardinality(Full)
      BY <3>1, Countable, FS_Subset
    <3>3. Cardinality(FullOf(n)') \in Nat /\ Seen(n)' \in 0 .. 1 /\ Yet(n)' \in Nat
      BY CountsThen
    <3>4. Seen(n)' <= (IF InSink THEN 1 ELSE 0) /\ Yet(n)' <= Round
      BY <1>0, <1>1, <1>4 DEF Seen, Yet
    <3>5. Coming = Cardinality(Full) + (IF InSink THEN 1 ELSE 0)
      BY DEF Coming, Full, InSink
    <3> QED
      BY <2>1, <3>1, <3>2, <3>3, <3>4, <3>5, <1>0 DEF Old
  <2>3. ASSUME NEW n \in Nat, n <= tunes, Old(n) <= sink.stale
        PROVE  Old(n)' <= sink.stale
    <3>1. FullOf(n)' = FullOf(n) /\ Seen(n)' = Seen(n)
      BY <1>1 DEF FullOf, Seen
    <3>2. Yet(n)' = 0
      BY <1>0, <1>4, <2>3 DEF Yet
    <3>3. Cardinality(FullOf(n)') = Cardinality(FullOf(n))
      BY <3>1
    <3>4. Cardinality(FullOf(n)) \in Nat /\ Seen(n) \in 0 .. 1 /\ Yet(n) \in Nat
      BY Counts
    <3>5. Old(n)' = Cardinality(FullOf(n)) + Seen(n) + 0
      BY <3>1, <3>2, <3>3 DEF Old
    <3>6. Old(n) = Cardinality(FullOf(n)) + Seen(n) + Yet(n)
      BY DEF Old
    <3> QED
      BY <3>4, <3>5, <3>6, <2>3, <1>0
  <2>4. ASSUME NEW s \in Streams
        PROVE  /\ told[s]' <= tunes'
               /\ stream'[s] = "none" => chan'[s] = <<>>
               /\ stream'[s] = "open" => /\ (Old(told[s]) <= sink.stale)'
                                         /\ \A i \in DOMAIN chan'[s] : told'[s] <= chan'[s][i]
    <3>1. told[s] <= tunes /\ told[s] \in Nat /\ told' = told
      BY <1>0, <1>1 DEF FreshInv
    <3>2. stream[s] = "open" => Old(told[s])' <= sink.stale
      BY <2>3, <3>1, <1>1, OldThen DEF FreshInv
    <3> QED
      BY <3>1, <3>2, <1>0, <1>1, <1>4 DEF FreshInv
  <2>5. (Old(tunes) <= sink.stale)'
    BY <2>2, <1>0, <1>1, <1>4, OldThen
  <2> QED
    BY <2>4, <2>5, <1>0, <1>1, <1>4 DEF FreshInv, Stale, StreamIsFresh
<1> QED
  BY <1>3, <1>4 DEF Commit

\* What comes while a tune is sent down is counted.
LEMMA FillFresh ==
  ASSUME TypeOK, TypeOK', InOrder, FreshInv, Fill
  PROVE  FreshInv'
<1>1. Coming' <= Coming + 1 /\ \A n \in Nat : n <= tunes => Old(n)' <= Old(n)
  BY FillCounts
<1>2. /\ sink' = sink /\ tune' = tune /\ tunes' = tunes
      /\ UNCHANGED <<told, stream, chan, fresh>>
  BY DEF Fill, taking, holder
<1>3. CASE tune = "sending"
  <2>0. /\ Stale \in Nat /\ sink.stale \in Nat /\ early \in Nat /\ tunes \in Nat
        /\ Coming \in Nat /\ Coming' \in Nat /\ told \in [Streams -> Nat] /\ Margin \in Nat
    BY CaptureAssumption, ComingIsNat, CountsThen DEF Stale, TypeOK, Sinks
  <2>1. early' = early + 1 /\ early < Margin
    BY <1>3 DEF Fill
  <2>2. early <= Margin /\ Coming + Stale <= sink.stale + early
    BY <1>3 DEF FreshInv
  <2>3. early' <= Margin /\ Coming' + Stale <= sink'.stale + early'
    BY <2>0, <2>1, <2>2, <1>1, <1>2
  <2>4. ASSUME NEW s \in Streams
        PROVE  /\ told[s]' <= tunes'
               /\ stream'[s] = "none" => chan'[s] = <<>>
               /\ stream'[s] = "open" => /\ (Old(told[s]) <= sink.stale)'
                                         /\ \A i \in DOMAIN chan'[s] : told'[s] <= chan'[s][i]
    <3>1. told[s] <= tunes /\ told[s] \in Nat
      BY <2>0 DEF FreshInv
    <3>3. \A n \in Nat : Old(n) \in Nat /\ Old(n)' \in Nat
      BY Counts, CountsThen
    <3>4. \A n \in Nat : n <= tunes /\ Old(n) <= sink.stale => Old(n)' <= sink.stale
      BY <3>3, <1>1, <2>0
    <3>5. stream[s] = "open" => (Old(told[s]) <= sink.stale)'
      BY <3>1, <3>4, <1>2, OldThen DEF FreshInv
    <3> QED
      BY <3>1, <3>5, <1>2 DEF FreshInv
  <2> QED
    BY <2>0, <2>3, <2>4, <1>2, <1>3 DEF FreshInv, Stale, StreamIsFresh
<1>4. CASE tune # "sending"
  <2>1. early' = early
    BY <1>4 DEF Fill
  <2> QED
    BY <2>1, <1>1, <1>2, <1>4, FreshKept
<1> QED
  BY <1>3, <1>4

\* A tune that begins finds no more on its way than the slack.
LEMMA TuneFresh ==
  ASSUME TypeOK, TypeOK', FreshInv, Tune
  PROVE  FreshInv'
<1>0. /\ Stale \in Nat /\ sink.stale \in Nat /\ tunes \in Nat /\ sink.stale <= Stale
      /\ Coming \in Nat /\ told \in [Streams -> Nat] /\ Margin \in Nat
  BY CaptureAssumption, ComingIsNat DEF Stale, TypeOK, Sinks, FreshInv
<1>1. /\ tune' = "sending" /\ early' = Coming /\ Coming <= Margin /\ tunes' = tunes
      /\ UNCHANGED <<thread, read, got, left, was, told, stream, chan, fresh>>
  BY DEF Tune, taking, device
<1>2. sink'.stale = Stale
  BY <1>0 DEF Tune, TypeOK, Sinks
<1>3. Coming' = Coming /\ \A n \in Nat : Old(n)' = Old(n) /\ Old(n) \in Nat
  BY <1>1, Counts DEF Coming, Old, FullOf, Full, Seen, Yet, InSink, thread
<1>4. ASSUME NEW s \in Streams
      PROVE  /\ told[s]' <= tunes'
             /\ stream'[s] = "none" => chan'[s] = <<>>
             /\ stream'[s] = "open" => /\ (Old(told[s]) <= sink.stale)'
                                       /\ \A i \in DOMAIN chan'[s] : told'[s] <= chan'[s][i]
  <2>1. told[s] <= tunes /\ told[s] \in Nat /\ told' = told
    BY <1>0, <1>1 DEF FreshInv
  <2>2. \A n \in Nat : Old(n) <= sink.stale => Old(n)' <= sink'.stale
    BY <1>0, <1>2, <1>3
  <2>3. stream[s] = "open" => (Old(told[s]) <= sink.stale)'
    BY <2>1, <2>2, OldThen DEF FreshInv
  <2> QED
    BY <2>1, <2>3, <1>1 DEF FreshInv
<1>5. early' <= Margin /\ Coming' + Stale <= sink'.stale + early'
  BY <1>0, <1>1, <1>2, <1>3
<1>6. sink'.stale <= Stale'
  BY <1>0, <1>2 DEF Stale
<1> QED
  BY <1>1, <1>4, <1>5, <1>6 DEF FreshInv, Stale, StreamIsFresh

\* What a stream does takes no frame on or off its way to the sink.
LEMMA StreamsFresh ==
  ASSUME TypeOK, TypeOK', FreshInv,
         UNCHANGED <<thread, read, got, holder, device, early>>,
         sink'.stale = sink.stale, fresh',
         \A s \in Streams :
           /\ told'[s] <= tunes
           /\ stream'[s] = "none" => chan'[s] = <<>>
           /\ stream'[s] = "open" => /\ Old(told'[s]) <= sink.stale
                                     /\ \A i \in DOMAIN chan'[s] : told'[s] <= chan'[s][i]
  PROVE  FreshInv'
<1>1. tunes' = tunes /\ tune' = tune /\ Coming' = Coming /\ \A n : Old(n)' = Old(n)
  BY DEF Coming, Old, FullOf, Full, Seen, Yet, InSink, thread, holder, device
<1>2. /\ Old(tunes)' = Old(tunes)
      /\ \A s \in Streams : (Old(told[s]))' = Old(told'[s])
  BY <1>1, OldThen
<1> QED
  BY <1>1, <1>2 DEF FreshInv, Stale, StreamIsFresh

LEMMA OpenStreamFresh ==
  ASSUME TypeOK, TypeOK', FreshInv, OpenStream
  PROVE  FreshInv'
<1>1. /\ UNCHANGED <<thread, read, got, holder, device, early, chan, fresh>>
      /\ sink'.stale = sink.stale
  BY DEF OpenStream, TypeOK, Sinks
<1>2. fresh' /\ tunes \in Nat /\ tunes <= tunes
  BY <1>1 DEF FreshInv, StreamIsFresh, TypeOK
<1>3. CASE UNCHANGED <<stream, told>>
  BY <1>1, <1>2, <1>3, StreamsFresh DEF FreshInv
<1>4. CASE \E s \in Streams : /\ stream[s] = "none"
                              /\ stream' = [stream EXCEPT ![s] = "open"]
                              /\ told' = [told EXCEPT ![s] = tunes]
  <2>1. PICK s \in Streams : /\ stream[s] = "none"
                             /\ stream' = [stream EXCEPT ![s] = "open"]
                             /\ told' = [told EXCEPT ![s] = tunes]
    BY <1>4
  <2>2. /\ stream'[s] = "open" /\ told'[s] = tunes /\ chan'[s] = <<>>
        /\ \A t \in Streams \ {s} : stream'[t] = stream[t] /\ told'[t] = told[t]
    BY <2>1, <1>1 DEF TypeOK, FreshInv
  <2>3. Old(tunes) <= sink.stale
    BY DEF OpenStream, FreshInv
  <2>4. DOMAIN chan'[s] = {}
    BY <2>2
  <2>5. \A t \in Streams :
          /\ told'[t] <= tunes
          /\ stream'[t] = "none" => chan'[t] = <<>>
          /\ stream'[t] = "open" => /\ Old(told'[t]) <= sink.stale
                                    /\ \A i \in DOMAIN chan'[t] : told'[t] <= chan'[t][i]
    <3> TAKE t \in Streams
    <3>1. CASE t = s
      BY <3>1, <2>2, <2>3, <2>4, <1>2
    <3>2. CASE t # s
      BY <3>2, <2>2, <1>1 DEF FreshInv
    <3> QED
      BY <3>1, <3>2
  <2> QED
    BY <2>5, <1>1, <1>2, StreamsFresh
<1> QED
  BY <1>3, <1>4 DEF OpenStream

LEMMA TakeFresh ==
  ASSUME TypeOK, TypeOK', FreshInv, NEW s \in Streams, Take(s)
  PROVE  FreshInv'
<1>1. UNCHANGED <<thread, read, got, holder, device, early, sink, stream, told>>
  BY DEF Take
<1>2. chan[s] \in Seq(Nat) /\ chan[s] # <<>> /\ told[s] \in Nat /\ stream[s] = "open"
  BY DEF Take, TypeOK
<1>3. \A i \in DOMAIN chan[s] : told[s] <= chan[s][i]
  BY <1>2 DEF FreshInv
<1>4. Head(chan[s]) >= told[s]
  <2>1. 1 \in DOMAIN chan[s] /\ Head(chan[s]) = chan[s][1] /\ chan[s][1] \in Nat
    BY <1>2, Shorter
  <2> QED
    BY <2>1, <1>2, <1>3
<1>5. fresh'
  BY <1>4 DEF Take, FreshInv, StreamIsFresh
<1>6. /\ chan'[s] = Tail(chan[s])
      /\ \A t \in Streams \ {s} : chan'[t] = chan[t]
  BY DEF Take, TypeOK
<1>7. \A i \in DOMAIN chan'[s] : told[s] <= chan'[s][i]
  <2>1. /\ Len(chan[s]) \in Nat \ {0} /\ DOMAIN chan[s] = 1 .. Len(chan[s])
        /\ DOMAIN Tail(chan[s]) = 1 .. Len(chan[s]) - 1
        /\ \A i \in DOMAIN Tail(chan[s]) : Tail(chan[s])[i] = chan[s][i + 1]
    BY <1>2, Shorter
  <2>2. \A i \in DOMAIN Tail(chan[s]) : i + 1 \in DOMAIN chan[s]
    BY <2>1
  <2> QED
    BY <2>1, <2>2, <1>3, <1>6
<1>8. \A t \in Streams :
        /\ told'[t] <= tunes
        /\ stream'[t] = "none" => chan'[t] = <<>>
        /\ stream'[t] = "open" => /\ Old(told'[t]) <= sink.stale
                                  /\ \A i \in DOMAIN chan'[t] : told'[t] <= chan'[t][i]
  <2> TAKE t \in Streams
  <2>1. CASE t = s
    BY <2>1, <1>1, <1>2, <1>7 DEF FreshInv
  <2>2. CASE t # s
    BY <2>2, <1>1, <1>6 DEF FreshInv
  <2> QED
    BY <2>1, <2>2
<1> QED
  BY <1>1, <1>5, <1>8, StreamsFresh

LEMMA LeaveFresh ==
  ASSUME TypeOK, TypeOK', FreshInv, NEW s \in Streams, EndStream(s) \/ DropStream(s)
  PROVE  FreshInv'
<1>1. /\ UNCHANGED <<thread, read, got, holder, device, early, told, fresh>>
      /\ sink'.stale = sink.stale
  BY DEF EndStream, DropStream, TypeOK, Sinks
<1>2. \A t \in Streams : /\ t = s => stream'[t] \notin {"none", "open"}
                         /\ t # s => stream'[t] = stream[t] /\ chan'[t] = chan[t]
  BY DEF EndStream, DropStream, TypeOK
<1>3. fresh'
  BY <1>1 DEF FreshInv, StreamIsFresh
<1>4. \A t \in Streams :
        /\ told'[t] <= tunes
        /\ stream'[t] = "none" => chan'[t] = <<>>
        /\ stream'[t] = "open" => /\ Old(told'[t]) <= sink.stale
                                  /\ \A i \in DOMAIN chan'[t] : told'[t] <= chan'[t][i]
  BY <1>1, <1>2 DEF FreshInv
<1> QED
  BY <1>1, <1>3, <1>4, StreamsFresh

LEMMA FreshNext ==
  ASSUME TypeOK, TypeOK', Placed, InOrder, FreshInv, [Next]_vars
  PROVE  FreshInv'
<1>1. CASE NextRead
  <2>1. Coming' <= Coming /\ \A n \in Nat : Old(n)' <= Old(n)
    BY <1>1, NextReadCounts
  <2> QED
    BY <1>1, <2>1, FreshKept DEF NextRead, taking, holder
<1>2. CASE Submit
  <2>1. ~InSink' /\ UNCHANGED <<got, left, was>> /\ Full' = Full
    <3>1. CASE read' = read
      BY <1>2, <3>1 DEF Submit, InSink, device, Full
    <3>2. CASE /\ Len(reads) + 1 \in Reads
               /\ read' = Sent(Len(reads) + 1)
      <4>1. read[Len(reads) + 1] # "full"
        BY <1>2, <3>2, Longer DEF Placed, Submit, TypeOK
      <4> QED
        BY <1>2, <3>2, <4>1 DEF Submit, Sent, InSink, device, Full, TypeOK
    <3> QED
      BY <1>2, <3>1, <3>2 DEF Submit
  <2>2. Coming' <= Coming /\ \A n \in Nat : Old(n)' <= Old(n)
    BY <2>1, CountsKept
  <2> QED
    BY <1>2, <2>2, FreshKept DEF Submit, taking, holder
<1>3. CASE OnFrame
  BY <1>3, OnFrameFresh
<1>4. CASE Fill
  BY <1>4, FillFresh
<1>5. CASE Tune
  BY <1>5, TuneFresh
<1>6. CASE Commit
  BY <1>6, CommitFresh
<1>7. CASE OpenStream
  BY <1>7, OpenStreamFresh
<1>8. CASE \E s \in Streams : Take(s) \/ EndStream(s) \/ DropStream(s)
  BY <1>8, TakeFresh, LeaveFresh
<1>9. CASE \E r \in Reads : Fails(r)
  <2>1. PICK r \in Reads : Fails(r)
    BY <1>9
  <2>2. Full' = Full
    BY <2>1 DEF Fails, Full, TypeOK
  <2>3. Coming' <= Coming /\ \A n \in Nat : Old(n)' <= Old(n)
    BY <2>1, <2>2, CountsKept DEF Fails, thread, device, InSink
  <2> QED
    BY <2>1, <2>3, FreshKept DEF Fails, taking, holder
<1>10. CASE OnError \/ DropReader \/ Break \/ Locked \/ Stopping \/ Stop \/ UNCHANGED vars
  <2>1. Full' = Full /\ UNCHANGED <<got, left, was>> /\ (InSink' => InSink /\ frame' = frame)
    BY <1>10 DEF OnError, Breaks, DropReader, Break, Locked, Stopping, Stop, vars, thread, device,
                 Full, InSink
  <2>2. Coming' <= Coming /\ \A n \in Nat : Old(n)' <= Old(n)
    BY <2>1, CountsKept
  <2>3. sink'.stale = sink.stale
    <3>1. CASE OnError
      BY <3>1, SinkEnded DEF OnError, TypeOK, Sinks
    <3>2. CASE Stopping
      BY <3>2 DEF Stopping, TypeOK, Sinks
    <3>3. CASE DropReader \/ Break \/ Locked \/ Stop \/ UNCHANGED vars
      BY <3>3 DEF DropReader, Break, Locked, Stop, vars
    <3> QED
      BY <1>10, <3>1, <3>2, <3>3
  <2>4. /\ UNCHANGED <<tunes, told, stream, chan, fresh, early>>
        /\ tune' = "sending" => tune = "sending"
        /\ tune' \in {"locking", "tuned"} => tune \in {"locking", "tuned"}
    BY <1>10 DEF OnError, DropReader, Break, Locked, Stopping, Stop, vars, taking, holder
  <2> QED
    BY <2>2, <2>3, <2>4, FreshKept
<1> QED
  BY <1>1, <1>2, <1>3, <1>4, <1>5, <1>6, <1>7, <1>8, <1>9, <1>10 DEF Next, ThreadRuns

-----------------------------------------------------------------------------
(* The invariant                                                           *)

IInv == TypeOK /\ Placed /\ ToldInv /\ InOrder /\ FreshInv

\* The inductive invariant holds: frames come in the order of the tunes, and
\* the stale ones on their way, with those the device has buffered, never
\* exceed what the sink is to leave out (mod.rs:75, 512).
THEOREM InvHolds == Spec => []IInv
<1>1. Init => IInv
  BY TypesInit, PlacedInit, ToldInit, InOrderInit, FreshInit DEF IInv
<1>2. IInv /\ [Next]_vars => IInv'
  <2> SUFFICES ASSUME IInv, [Next]_vars
               PROVE  IInv'
    OBVIOUS
  <2>1. TypeOK' /\ Placed' /\ ToldInv' /\ InOrder'
    BY TypesNext, PlacedNext, ToldNext, InOrderNext DEF IInv
  <2>2. FreshInv'
    BY <2>1, FreshNext DEF IInv
  <2> QED
    BY <2>1, <2>2 DEF IInv
<1> QED
  BY <1>1, <1>2, PTL DEF Spec

\* However much the device buffers and however many reads are in flight, no
\* stream gives out a frame of before the tune it was asked for in, but the one
\* it leaves out anyway (mod.rs:75).
THEOREM StreamIsFreshHolds == Spec => []StreamIsFresh
  BY InvHolds, PTL DEF IInv, FreshInv

\* However the end of the thread races a stream being asked for, read, or let
\* go, none waits for a thread that is gone, and each ends with an error only
\* if the device failed and in silence only if stopped (mod.rs:502, 762, 778).
THEOREM EndIsToldHolds == Spec => []EndIsTold
<1>1. IInv => EndIsTold
  BY DEF IInv, ToldInv
<1> QED
  BY <1>1, InvHolds, PTL

\* However many reads there are, and whichever cannot be sent or is given back,
\* the device has none whose buffers are gone (ks.rs:539, 589, 617).
THEOREM BuffersOutliveHolds == Spec => []BuffersOutlive
  BY InvHolds, PTL DEF IInv, Placed

=============================================================================
