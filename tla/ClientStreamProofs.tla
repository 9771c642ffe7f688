------------------------- MODULE ClientStreamProofs -------------------------
(***************************************************************************)
(* What is proved of ClientStream for any number of streams and any sizes  *)
(* of the channel, the socket and the data: that a read finds the end of a *)
(* stream only if there is one, and fails if and only if it failed; that   *)
(* every chunk is read, on its way or counted; and that a stream is what   *)
(* LossyStream promises.                                                   *)
(***************************************************************************)
EXTENDS ClientStream, FiniteSetTheorems, FunctionTheorems, TLAPS

Msgs == [op : {"granted", "refused", "drop", "ended", "failed"}, k : Streams, n : Nat]
Asks == [op : {"acquire", "release"}, k : Streams]

\* The types of what the end of a stream depends on.
Types ==
  /\ call \in [Streams -> {"idle", "sent", "answered", "attaching", "open",
                           "closed", "failed", "gone"}]
  /\ pending \in SUBSET Streams
  /\ ends \in [Streams -> {"none", "pending", "ended", "failed", "cut"}]
  /\ result \in [Streams -> {"no", "eof", "error", "cut"}]
  /\ up \in SUBSET Asks /\ down \in Seq(Msgs)
  /\ alive \in BOOLEAN
  /\ sub \in [Streams -> {"none", "on", "off"}]
  /\ missed \in [Streams -> Nat]
  /\ source \in [Streams -> {"on", "ended", "failed"}]

-----------------------------------------------------------------------------
(* Messages on their way                                                   *)

In(q) == {q[i] : i \in DOMAIN q}

LEMMA InAll ==
  ASSUME NEW S, NEW q \in Seq(S)
  PROVE  In(q) \subseteq S
<1>1. \A i \in DOMAIN q : q[i] \in S
  OBVIOUS
<1> QED
  BY <1>1 DEF In

LEMMA InAppend ==
  ASSUME NEW S, NEW q \in Seq(S), NEW m \in S
  PROVE  Append(q, m) \in Seq(S) /\ In(Append(q, m)) = In(q) \cup {m}
<1>1. /\ Append(q, m) \in Seq(S) /\ DOMAIN q = 1 .. Len(q) /\ Len(q) \in Nat
      /\ DOMAIN Append(q, m) = 1 .. Len(q) + 1
      /\ \A i \in DOMAIN q : Append(q, m)[i] = q[i]
      /\ Append(q, m)[Len(q) + 1] = m
  OBVIOUS
<1> QED
  BY <1>1 DEF In

LEMMA InTail ==
  ASSUME NEW S, NEW q \in Seq(S), q # <<>>
  PROVE  /\ Tail(q) \in Seq(S) /\ In(Tail(q)) \subseteq In(q)
         /\ Head(q) \in S /\ Head(q) \in In(q)
<1>1. /\ Len(q) \in Nat \ {0} /\ DOMAIN q = 1 .. Len(q) /\ Head(q) = q[1] /\ q[1] \in S
      /\ Tail(q) \in Seq(S) /\ DOMAIN Tail(q) = 1 .. Len(q) - 1
      /\ \A i \in DOMAIN Tail(q) : Tail(q)[i] = q[i + 1]
  OBVIOUS
<1>2. \A i \in DOMAIN Tail(q) : i + 1 \in DOMAIN q
  BY <1>1
<1>3. 1 \in DOMAIN q
  BY <1>1
<1> QED
  BY <1>1, <1>2, <1>3 DEF In

LEMMA InConcat ==
  ASSUME NEW S, NEW p \in Seq(S), NEW q \in Seq(S)
  PROVE  p \o q \in Seq(S) /\ In(p \o q) \subseteq In(p) \cup In(q)
<1>1. /\ p \o q \in Seq(S) /\ Len(p) \in Nat /\ Len(q) \in Nat
      /\ DOMAIN p = 1 .. Len(p) /\ DOMAIN q = 1 .. Len(q)
      /\ DOMAIN (p \o q) = 1 .. Len(p) + Len(q)
  OBVIOUS
<1>2. \A i \in DOMAIN (p \o q) :
        (p \o q)[i] = IF i <= Len(p) THEN p[i] ELSE q[i - Len(p)]
  OBVIOUS
<1>3. ASSUME NEW i \in DOMAIN (p \o q) PROVE (p \o q)[i] \in In(p) \cup In(q)
  <2>1. CASE i <= Len(p)
    <3>1. i \in DOMAIN p
      BY <2>1, <1>1
    <3> QED
      BY <3>1, <2>1, <1>2 DEF In
  <2>2. CASE ~(i <= Len(p))
    <3>1. i - Len(p) \in DOMAIN q
      BY <2>2, <1>1
    <3> QED
      BY <3>1, <2>2, <1>2 DEF In
  <2> QED
    BY <2>1, <2>2
<1> QED
  BY <1>1, <1>3 DEF In

LEMMA InFirst ==
  ASSUME NEW S, NEW q \in Seq(S), NEW n \in 0 .. Len(q)
  PROVE  SubSeq(q, 1, n) \in Seq(S) /\ In(SubSeq(q, 1, n)) \subseteq In(q)
<1>1. /\ SubSeq(q, 1, n) \in Seq(S) /\ Len(q) \in Nat /\ DOMAIN q = 1 .. Len(q)
      /\ DOMAIN SubSeq(q, 1, n) = 1 .. n
      /\ \A i \in 1 .. n : SubSeq(q, 1, n)[i] = q[i]
  OBVIOUS
<1>2. \A i \in 1 .. n : i \in DOMAIN q
  BY <1>1
<1> QED
  BY <1>1, <1>2 DEF In

\* What tells of the end is behind what tells of the loss.
LEMMA Told ==
  ASSUME Types, NEW k \in Streams
  PROVE  /\ Flush(k) \in Seq(Msgs) /\ \A m \in In(Flush(k)) : m.op = "drop"
         /\ \A how \in {"ended", "failed"} :
              /\ Farewell(k, how) \in Seq(Msgs)
              /\ \A m \in In(Farewell(k, how)) :
                   m.op = "drop" \/ (m.op = how /\ m.k = k)
<1>1. /\ \A n \in Nat : Msg("drop", k, n) \in Msgs
      /\ \A how \in {"ended", "failed"} : Msg(how, k, 0) \in Msgs
  BY DEF Msg, Msgs
<1>2. \A m \in Msgs : <<m>> \in Seq(Msgs) /\ In(<<m>>) = {m}
  BY DEF In
<1>3. <<>> \in Seq(Msgs) /\ In(<<>>) = {}
  BY DEF In
<1>4. missed[k] \in Nat
  BY DEF Types
<1>5. Flush(k) \in Seq(Msgs) /\ \A m \in In(Flush(k)) : m.op = "drop"
  <2>1. CASE missed[k] > 0
    <3>1. Flush(k) = <<Msg("drop", k, missed[k])>> /\ Msg("drop", k, missed[k]).op = "drop"
      BY <2>1 DEF Flush, Msg
    <3> QED
      BY <3>1, <1>1, <1>2, <1>4
  <2>2. CASE ~(missed[k] > 0)
    <3>1. Flush(k) = <<>>
      BY <2>2 DEF Flush
    <3> QED
      BY <3>1, <1>3
  <2> QED
    BY <2>1, <2>2
<1>6. ASSUME NEW how \in {"ended", "failed"}
      PROVE  /\ Farewell(k, how) \in Seq(Msgs)
             /\ \A m \in In(Farewell(k, how)) : m.op = "drop" \/ (m.op = how /\ m.k = k)
  <2>1. Msg(how, k, 0) \in Msgs /\ Msg(how, k, 0).op = how /\ Msg(how, k, 0).k = k
    BY <1>1 DEF Msg
  <2>2. <<Msg(how, k, 0)>> \in Seq(Msgs) /\ In(<<Msg(how, k, 0)>>) = {Msg(how, k, 0)}
    BY <2>1, <1>2
  <2>3. /\ Farewell(k, how) \in Seq(Msgs)
        /\ In(Farewell(k, how)) \subseteq In(Flush(k)) \cup {Msg(how, k, 0)}
    BY <2>2, <1>5, InConcat DEF Farewell
  <2> QED
    BY <2>1, <2>3, <1>5
<1> QED
  BY <1>5, <1>6

-----------------------------------------------------------------------------
(* Types                                                                   *)

LEMMA TypesInit == Init => Types
  BY DEF Init, Types, All

LEMMA InnerReleaseTypes ==
  ASSUME Types, NEW k \in Streams, InnerRelease(k)
  PROVE  /\ ends' \in [Streams -> {"none", "pending", "ended", "failed", "cut"}]
         /\ up' \in SUBSET Asks
  BY DEF InnerRelease, Types, Asks

LEMMA ProgramTypes ==
  ASSUME Types, NEW k \in Streams,
         \/ Call(k) \/ Take(k) \/ Open(k) \/ AttachFails(k) \/ DropStream(k) \/ GiveUp(k)
         \/ Read(k) \/ ReadEnd(k)
  PROVE  Types'
<1>1. CASE Call(k)
  <2>1. [op |-> "acquire", k |-> k] \in Asks
    BY DEF Asks
  <2>2. up' \in SUBSET Asks /\ pending' \in SUBSET Streams
    BY <1>1, <2>1 DEF Call, Types
  <2>3. call' \in [Streams -> {"idle", "sent", "answered", "attaching", "open",
                               "closed", "failed", "gone"}]
    <3>1. \E x \in {"sent", "failed"} : call' = [call EXCEPT ![k] = x]
      BY <1>1 DEF Call
    <3> QED
      BY <3>1 DEF Types
  <2> QED
    BY <1>1, <2>2, <2>3 DEF Call, Types, daemonVars
<1>2. CASE Take(k) \/ Open(k) \/ Read(k)
  BY <1>2 DEF Take, Open, Read, Types, daemonVars
<1>3. CASE ReadEnd(k)
  <2>1. Result(k) \in {"eof", "error", "cut"}
    BY DEF Result
  <2> QED
    BY <1>3, <2>1 DEF ReadEnd, Types, daemonVars
<1>4. CASE \E label \in {"closed", "failed"} : LetGo(k, label)
  BY <1>4, InnerReleaseTypes DEF LetGo, Types, daemonVars
<1>5. CASE GiveUp(k)
  BY <1>5, <1>4 DEF GiveUp, Types, daemonVars
<1> QED
  BY <1>1, <1>2, <1>3, <1>4, <1>5 DEF AttachFails, DropStream

LEMMA EndedTypes ==
  ASSUME Types, NEW S \in SUBSET Streams, NEW how \in {"ended", "failed", "cut"}
  PROVE  Ended(S, how) \in [Streams -> {"none", "pending", "ended", "failed", "cut"}]
  BY DEF Types, Ended

LEMMA TaskTypes ==
  ASSUME Types, Deliver \/ ReaderEnds \/ WriterEnds
  PROVE  Types'
<1>1. CASE Deliver
  <2> DEFINE m == Head(down)
  <2>1. down' \in Seq(Msgs) /\ m \in Msgs /\ m.k \in Streams
    <3>1. down \in Seq(Msgs) /\ down # <<>> /\ down' = Tail(down)
      BY <1>1 DEF Deliver, Types
    <3>2. down' \in Seq(Msgs) /\ m \in Msgs
      BY <3>1, InTail
    <3> QED
      BY <3>2 DEF Msgs
  <2>2. /\ result' = result /\ alive' = alive /\ sub' = sub /\ missed' = missed
        /\ source' = source
    BY <1>1 DEF Deliver, daemonVars
  <2>3. CASE m.op = "granted" /\ Granted(m.k)
    <3>1. CASE InnerRelease(m.k) /\ pending' = pending \ {m.k} /\ UNCHANGED call
      BY <3>1, <2>1, <2>2, InnerReleaseTypes DEF Types
    <3>2. CASE /\ pending' = pending \ {m.k} /\ UNCHANGED <<ends, up>>
               /\ call' = [call EXCEPT ![m.k] = IF m.k \in pending THEN "answered" ELSE @]
      BY <3>2, <2>1, <2>2 DEF Types
    <3> QED
      BY <2>3, <3>1, <3>2 DEF Granted
  <2>4. CASE m.op = "refused" /\ Refused(m.k)
    BY <2>1, <2>2, <2>4 DEF Refused, Types
  <2>5. CASE m.op = "drop" /\ UNCHANGED <<call, pending, ends, up>>
    BY <2>1, <2>2, <2>5 DEF Types
  <2>6. CASE /\ m.op \in {"ended", "failed"} /\ ends' = Ended({m.k}, m.op)
             /\ UNCHANGED <<call, pending, up>>
    BY <2>1, <2>2, <2>6, EndedTypes DEF Types
  <2> QED
    BY <1>1, <2>3, <2>4, <2>5, <2>6 DEF Deliver
<1>2. CASE ReaderEnds
  BY <1>2, EndedTypes DEF ReaderEnds, CallsFailed, Types, daemonVars
<1>3. CASE WriterEnds
  BY <1>3 DEF WriterEnds, Types, daemonVars
<1> QED
  BY <1>1, <1>2, <1>3

LEMMA DaemonTypes ==
  ASSUME Types, NEW k \in Streams, DaemonStep(k) \/ LateAttach(k) \/ Chunk(k) \/ SourceEnds(k)
  PROVE  Types'
<1>1. CASE Refuse(k) \/ Answer(k)
  <2>1. Msg("refused", k, 0) \in Msgs /\ Msg("granted", k, 0) \in Msgs
    BY DEF Msg, Msgs
  <2>2. down' \in Seq(Msgs)
    <3>1. down \in Seq(Msgs) /\ \/ down' = Append(down, Msg("refused", k, 0))
                                \/ down' = Append(down, Msg("granted", k, 0))
      BY <1>1 DEF Refuse, Answer, Types
    <3> QED
      BY <3>1, <2>1, InAppend
  <2> QED
    BY <1>1, <2>2 DEF Refuse, Answer, Types, clientVars, daemonVars
<1>2. CASE Subscribe(k) \/ HandleRelease(k) \/ Attach(k) \/ Pump(k) \/ DataEnds(k) \/ LateAttach(k)
  BY <1>2 DEF Subscribe, HandleRelease, Attach, Pump, DataEnds, LateAttach, Types, clientVars
<1>3. CASE Chunk(k)
  <2>1. down \o Flush(k) \in Seq(Msgs)
    BY Told, InConcat DEF Types
  <2>2. down' \in Seq(Msgs)
    BY <1>3, <2>1 DEF Chunk, Types
  <2>3. missed' \in [Streams -> Nat]
    <3>1. \E n \in Nat : missed' = missed \/ missed' = [missed EXCEPT ![k] = n]
      <4>1. missed[k] + 1 \in Nat /\ 0 \in Nat
        BY DEF Types
      <4> QED
        BY <1>3, <4>1 DEF Chunk, ResetCount
    <3> QED
      BY <3>1 DEF Types
  <2>4. sub' \in [Streams -> {"none", "on", "off"}]
    <3>1. sub' = sub \/ sub' = [sub EXCEPT ![k] = "off"]
      BY <1>3 DEF Chunk
    <3> QED
      BY <3>1 DEF Types
  <2> QED
    BY <1>3, <2>2, <2>3, <2>4 DEF Chunk, Types, clientVars
<1>4. CASE SourceEnds(k)
  <2>1. \A how \in {"ended", "failed"} : down \o Farewell(k, how) \in Seq(Msgs)
    BY Told, InConcat DEF Types
  <2> QED
    BY <1>4, <2>1 DEF SourceEnds, Types, clientVars
<1> QED
  BY <1>1, <1>2, <1>3, <1>4 DEF DaemonStep

LEMMA TypesNext ==
  ASSUME Types, [Next]_vars
  PROVE  Types'
<1>1. CASE Crash
  <2>1. down' \in Seq(Msgs)
    BY <1>1, InFirst DEF Crash, Types
  <2> QED
    BY <1>1, <2>1 DEF Crash, Types, clientVars
<1>2. CASE UNCHANGED vars
  BY <1>2 DEF vars, clientVars, daemonVars, Types
<1> QED
  BY <1>1, <1>2, ProgramTypes, TaskTypes, DaemonTypes DEF Next, ProgramStep, TaskStep

-----------------------------------------------------------------------------
(* The end                                                                 *)

Asked(k) == [op |-> "acquire", k |-> k] \in up

\* The session of a stream is started once, and its source ends in it once:
\* what tells of that, on its way or there, tells of how it did.
EndInv ==
  /\ \A k \in Streams :
       /\ call[k] = "idle" => k \notin pending /\ ~Asked(k)
       /\ call[k] = "idle" \/ Asked(k) => source[k] = "on" /\ sub[k] # "on"
       /\ sub[k] = "on" => source[k] = "on"
       /\ call[k] \in {"attaching", "open"} => ends[k] # "none"
       /\ ends[k] \in {"ended", "failed"} => source[k] = ends[k]
       /\ ends[k] = "cut" => ~alive
  /\ \A m \in In(down) : m.op \in {"ended", "failed"} => source[m.k] = m.op
  /\ EndIsTrue

LEMMA EndInit == Init => EndInv
  BY DEF Init, EndInv, EndIsTrue, All, Asked, In

\* What a step leaves alone, or has less of.
LEMMA EndKept ==
  ASSUME Types, EndInv, UNCHANGED <<source, result>>,
         alive' => alive,
         \A k \in Streams :
           /\ call'[k] = "idle" => call[k] = "idle" /\ (k \in pending' => k \in pending)
           /\ Asked(k)' => Asked(k)
           /\ sub'[k] = "on" => sub[k] = "on"
           /\ call'[k] \in {"attaching", "open"} => ends'[k] # "none"
           /\ ends'[k] = ends[k] \/ ends'[k] \in {"none", "pending"},
         \A m \in In(down)' : m.op \in {"ended", "failed"} => m \in In(down)
  PROVE  EndInv'
<1>1. \A m \in In(down)' : m.op \in {"ended", "failed"} => source'[m.k] = m.op
  BY DEF EndInv
<1>2. EndIsTrue'
  BY DEF EndInv, EndIsTrue
<1>3. \A k \in Streams :
        /\ call'[k] = "idle" => k \notin pending' /\ ~Asked(k)'
        /\ call'[k] = "idle" \/ Asked(k)' => source'[k] = "on" /\ sub'[k] # "on"
        /\ sub'[k] = "on" => source'[k] = "on"
  BY DEF EndInv
<1>4. \A k \in Streams :
        /\ call'[k] \in {"attaching", "open"} => ends'[k] # "none"
        /\ ends'[k] \in {"ended", "failed"} => source'[k] = ends'[k]
        /\ ends'[k] = "cut" => ~alive'
  BY DEF EndInv
<1> QED
  BY <1>1, <1>2, <1>3, <1>4 DEF EndInv

LEMMA InnerReleaseEnd ==
  ASSUME Types, NEW k \in Streams, InnerRelease(k)
  PROVE  /\ \A j \in Streams : Asked(j)' => Asked(j)
         /\ \A j \in Streams : ends'[j] = IF j = k THEN "none" ELSE ends[j]
<1>1. ends' = [ends EXCEPT ![k] = "none"] /\ up' \subseteq up \cup {[op |-> "release", k |-> k]}
  BY DEF InnerRelease
<1>2. \A j \in Streams : [op |-> "acquire", k |-> j] # [op |-> "release", k |-> k]
  OBVIOUS
<1> QED
  BY <1>1, <1>2 DEF Types, Asked

LEMMA ProgramEnd ==
  ASSUME Types, Types', EndInv, NEW k \in Streams,
         \/ Call(k) \/ Take(k) \/ Open(k) \/ AttachFails(k) \/ DropStream(k) \/ GiveUp(k)
         \/ Read(k) \/ ReadEnd(k)
  PROVE  EndInv'
<1>1. CASE Call(k)
  <2>1. /\ UNCHANGED <<source, sub, alive, result, ends, down>>
        /\ call[k] = "idle" /\ call'[k] \in {"sent", "failed"}
        /\ \A j \in Streams \ {k} : call'[j] = call[j]
        /\ pending' = pending \cup {k}
    BY <1>1 DEF Call, Types, daemonVars
  <2>2. \A j \in Streams \ {k} : Asked(j)' => Asked(j)
    <3>1. up' \subseteq up \cup {[op |-> "acquire", k |-> k]}
      BY <1>1 DEF Call
    <3>2. \A j \in Streams \ {k} : [op |-> "acquire", k |-> j] # [op |-> "acquire", k |-> k]
      OBVIOUS
    <3> QED
      BY <3>1, <3>2 DEF Asked
  <2>3. \A j \in Streams :
          /\ call'[j] = "idle" => j \notin pending' /\ ~Asked(j)'
          /\ call'[j] = "idle" \/ Asked(j)' => source'[j] = "on" /\ sub'[j] # "on"
    BY <2>1, <2>2 DEF EndInv
  <2> QED
    BY <2>1, <2>3 DEF EndInv, EndIsTrue
<1>2. CASE Take(k)
  <2>1. /\ UNCHANGED <<source, sub, alive, result, down, up, pending>>
        /\ call' = [call EXCEPT ![k] = "attaching"] /\ ends' = [ends EXCEPT ![k] = "pending"]
    BY <1>2 DEF Take, daemonVars
  <2>2. \A j \in Streams :
          /\ call'[j] = IF j = k THEN "attaching" ELSE call[j]
          /\ ends'[j] = IF j = k THEN "pending" ELSE ends[j]
    BY <2>1 DEF Types
  <2> QED
    BY <2>1, <2>2, EndKept DEF EndInv, Asked
<1>3. CASE Open(k)
  <2>1. /\ UNCHANGED <<source, sub, alive, result, down, up, pending, ends>>
        /\ call[k] = "attaching" /\ call' = [call EXCEPT ![k] = "open"]
    BY <1>3 DEF Open, daemonVars
  <2>2. \A j \in Streams : call'[j] = IF j = k THEN "open" ELSE call[j]
    BY <2>1 DEF Types
  <2> QED
    BY <2>1, <2>2, EndKept DEF EndInv, Asked
<1>4. CASE Read(k)
  BY <1>4, EndKept DEF Read, EndInv, Asked, daemonVars
<1>5. CASE \E label \in {"closed", "failed"} : LetGo(k, label)
  <2>1. /\ UNCHANGED <<source, sub, alive, result, down, pending>>
        /\ InnerRelease(k)
        /\ \A j \in Streams : IF j = k THEN call'[j] \in {"closed", "failed"} ELSE call'[j] = call[j]
    BY <1>5 DEF LetGo, Types, daemonVars
  <2> QED
    BY <2>1, InnerReleaseEnd, EndKept DEF EndInv
<1>6. CASE GiveUp(k)
  <2>1. CASE /\ call' = [call EXCEPT ![k] = "gone"]
             /\ UNCHANGED <<source, sub, alive, result, down, up, pending, ends>>
    <3>1. \A j \in Streams : call'[j] = IF j = k THEN "gone" ELSE call[j]
      BY <2>1 DEF Types
    <3> QED
      BY <2>1, <3>1, EndKept DEF EndInv, Asked
  <2> QED
    BY <1>6, <1>5, <2>1 DEF GiveUp, daemonVars
<1>7. CASE ReadEnd(k)
  <2>1. /\ UNCHANGED <<source, sub, alive, down, up, pending, ends, call>>
        /\ call[k] = "open" /\ result[k] = "no"
    BY <1>7 DEF ReadEnd, daemonVars
  <2>2. CASE result' = result
    BY <2>1, <2>2, EndKept DEF EndInv, Asked
  <2>3. CASE ends[k] # "pending" /\ result' = [result EXCEPT ![k] = Result(k)]
    <3>1. ends[k] \in {"ended", "failed", "cut"}
      BY <2>1, <2>3 DEF EndInv, Types
    <3>2. /\ Result(k) = "eof" => source[k] = "ended"
          /\ Result(k) = "error" => source[k] = "failed"
          /\ Result(k) = "cut" => ~alive
      BY <3>1 DEF Result, EndInv
    <3>3. \A j \in Streams : result'[j] = IF j = k THEN Result(k) ELSE result[j]
      BY <2>3 DEF Types
    <3>4. EndIsTrue'
      BY <2>1, <3>2, <3>3 DEF EndInv, EndIsTrue
    <3> QED
      BY <2>1, <3>4 DEF EndInv, Asked
  <2> QED
    BY <1>7, <2>2, <2>3 DEF ReadEnd
<1> QED
  BY <1>1, <1>2, <1>3, <1>4, <1>5, <1>6, <1>7 DEF AttachFails, DropStream

LEMMA TaskEnd ==
  ASSUME Types, Types', EndInv, Deliver \/ ReaderEnds \/ WriterEnds
  PROVE  EndInv'
<1>1. CASE Deliver
  <2> DEFINE m == Head(down)
  <2>1. m \in Msgs /\ m.k \in Streams /\ m \in In(down) /\ In(down)' \subseteq In(down)
    <3>1. down \in Seq(Msgs) /\ down # <<>> /\ down' = Tail(down)
      BY <1>1 DEF Deliver, Types
    <3>2. m \in Msgs /\ m \in In(down) /\ In(Tail(down)) \subseteq In(down)
      BY <3>1, InTail
    <3> QED
      BY <3>1, <3>2 DEF Msgs, In
  <2>2. UNCHANGED <<result, alive, sub, source>>
    BY <1>1 DEF Deliver, daemonVars
  <2>3. CASE m.op = "granted" /\ Granted(m.k)
    <3>1. CASE InnerRelease(m.k) /\ pending' = pending \ {m.k} /\ call' = call /\ call[m.k] = "gone"
      BY <3>1, <2>1, <2>2, InnerReleaseEnd, EndKept DEF EndInv
    <3>2. CASE /\ pending' = pending \ {m.k} /\ UNCHANGED <<ends, up>>
               /\ call' = [call EXCEPT ![m.k] = IF m.k \in pending THEN "answered" ELSE call[m.k]]
      <4>1. \A j \in Streams : call'[j] = call[j] \/ call'[j] = "answered"
        BY <3>2, <2>1 DEF Types
      <4> QED
        BY <3>2, <4>1, <2>1, <2>2, EndKept DEF EndInv, Asked
    <3> QED
      BY <2>3, <3>1, <3>2 DEF Granted
  <2>4. CASE m.op = "refused" /\ Refused(m.k)
    <3>1. \A j \in Streams : call'[j] = call[j] \/ call'[j] = "failed"
      BY <2>1, <2>4 DEF Refused, Types
    <3> QED
      BY <3>1, <2>1, <2>2, <2>4, EndKept DEF Refused, EndInv, Asked
  <2>5. CASE m.op = "drop" /\ UNCHANGED <<call, pending, ends, up>>
    BY <2>1, <2>2, <2>5, EndKept DEF EndInv, Asked
  <2>6. CASE /\ m.op \in {"ended", "failed"} /\ ends' = Ended({m.k}, m.op)
             /\ UNCHANGED <<call, pending, up>>
    <3>1. source[m.k] = m.op
      BY <2>1, <2>6 DEF EndInv
    <3>2. \A j \in Streams :
            ends'[j] = ends[j] \/ (j = m.k /\ ends'[j] = m.op /\ ends[j] = "pending")
      BY <2>6 DEF Ended
    <3>3. \A j \in Streams :
            /\ call'[j] \in {"attaching", "open"} => ends'[j] # "none"
            /\ ends'[j] \in {"ended", "failed"} => source'[j] = ends'[j]
            /\ ends'[j] = "cut" => ~alive'
      BY <2>2, <2>6, <3>1, <3>2 DEF EndInv
    <3>4. EndIsTrue'
      BY <2>2 DEF EndInv, EndIsTrue
    <3> QED
      BY <2>1, <2>2, <2>6, <3>3, <3>4 DEF EndInv, Asked
  <2> QED
    BY <1>1, <2>3, <2>4, <2>5, <2>6 DEF Deliver
<1>2. CASE ReaderEnds
  <2>1. /\ UNCHANGED <<result, sub, source, down, up, alive>> /\ ~alive /\ pending' = {}
        /\ \A j \in Streams : call'[j] = call[j] \/ call'[j] = "failed"
    BY <1>2 DEF ReaderEnds, CallsFailed, daemonVars
  <2>2. \A j \in Streams : ends'[j] = ends[j] \/ (ends'[j] = "cut" /\ ends[j] = "pending")
    BY <1>2 DEF ReaderEnds, Ended
  <2>3. \A j \in Streams :
          /\ call'[j] \in {"attaching", "open"} => ends'[j] # "none"
          /\ ends'[j] \in {"ended", "failed"} => source'[j] = ends'[j]
          /\ ends'[j] = "cut" => ~alive'
    BY <2>1, <2>2 DEF EndInv
  <2>4. EndIsTrue'
    BY <2>1 DEF EndInv, EndIsTrue
  <2> QED
    BY <2>1, <2>3, <2>4 DEF EndInv, Asked
<1>3. CASE WriterEnds
  BY <1>3, EndKept DEF WriterEnds, EndInv, Asked, daemonVars
<1> QED
  BY <1>1, <1>2, <1>3

LEMMA SubscribeEnd ==
  ASSUME Types, EndInv, NEW k \in Streams, Subscribe(k)
  PROVE  EndInv'
<1>1. /\ UNCHANGED <<call, pending, ends, result, source, alive, down>>
      /\ Asked(k) /\ ~Asked(k)' /\ \A j \in Streams : Asked(j)' => Asked(j)
      /\ \A j \in Streams : sub'[j] = IF j = k THEN "on" ELSE sub[j]
  BY DEF Subscribe, Types, clientVars, Asked
<1>2. call[k] # "idle" /\ source[k] = "on"
  BY <1>1 DEF EndInv
<1>3. \A j \in Streams :
        /\ call'[j] = "idle" => j \notin pending' /\ ~Asked(j)'
        /\ call'[j] = "idle" \/ Asked(j)' => source'[j] = "on" /\ sub'[j] # "on"
        /\ sub'[j] = "on" => source'[j] = "on"
  BY <1>1, <1>2 DEF EndInv
<1> QED
  BY <1>1, <1>3 DEF EndInv, EndIsTrue

LEMMA SourceEndsEnd ==
  ASSUME Types, EndInv, NEW k \in Streams, SourceEnds(k)
  PROVE  EndInv'
<1>1. PICK how \in {"ended", "failed"} :
        /\ source' = [source EXCEPT ![k] = how]
        /\ down' = down \o Farewell(k, how)
  BY DEF SourceEnds
<1>2. /\ UNCHANGED <<call, pending, ends, result, alive, up>> /\ sub[k] = "on"
      /\ \A j \in Streams : sub'[j] = IF j = k THEN "off" ELSE sub[j]
      /\ \A j \in Streams : source'[j] = IF j = k THEN how ELSE source[j]
  BY <1>1 DEF SourceEnds, Types, clientVars
<1>3. source[k] = "on" /\ call[k] # "idle" /\ ~Asked(k)
  BY <1>2 DEF EndInv
<1>4. \A m \in In(down)' : m.op \in {"ended", "failed"} => source'[m.k] = m.op
  <2>1. In(down)' \subseteq In(down) \cup In(Farewell(k, how))
    <3>1. In(down \o Farewell(k, how)) \subseteq In(down) \cup In(Farewell(k, how))
      BY Told, InConcat DEF Types
    <3> QED
      BY <3>1, <1>1 DEF In
  <2>2. \A m \in In(Farewell(k, how)) : m.op = "drop" \/ (m.op = how /\ m.k = k)
    BY Told
  <2>3. \A m \in In(down) : m.k \in Streams
    <3>1. In(down) \subseteq Msgs
      BY InAll DEF Types
    <3> QED
      BY <3>1 DEF Msgs
  <2> QED
    BY <2>1, <2>2, <2>3, <1>2, <1>3 DEF EndInv
<1>5. EndIsTrue'
  BY <1>2, <1>3 DEF EndInv, EndIsTrue
<1>6. \A j \in Streams :
        /\ call'[j] = "idle" => j \notin pending' /\ ~Asked(j)'
        /\ call'[j] = "idle" \/ Asked(j)' => source'[j] = "on" /\ sub'[j] # "on"
        /\ sub'[j] = "on" => source'[j] = "on"
        /\ call'[j] \in {"attaching", "open"} => ends'[j] # "none"
        /\ ends'[j] \in {"ended", "failed"} => source'[j] = ends'[j]
        /\ ends'[j] = "cut" => ~alive'
  BY <1>2, <1>3 DEF EndInv, Asked
<1> QED
  BY <1>4, <1>5, <1>6 DEF EndInv

LEMMA DaemonEnd ==
  ASSUME Types, EndInv, NEW k \in Streams, DaemonStep(k) \/ LateAttach(k) \/ Chunk(k)
  PROVE  EndInv'
<1>1. CASE Refuse(k) \/ Answer(k)
  <2>1. Msg("refused", k, 0) \in Msgs /\ Msg("granted", k, 0) \in Msgs
        /\ Msg("refused", k, 0).op = "refused" /\ Msg("granted", k, 0).op = "granted"
    BY DEF Msg, Msgs
  <2>2. PICK m \in Msgs : m.op \notin {"ended", "failed"} /\ down' = Append(down, m)
    BY <1>1, <2>1 DEF Refuse, Answer
  <2>3. In(down)' = In(down) \cup {m}
    <3>1. In(Append(down, m)) = In(down) \cup {m}
      BY InAppend DEF Types
    <3> QED
      BY <3>1, <2>2 DEF In
  <2>4. UNCHANGED <<call, pending, ends, result, source, alive, sub>> /\ up' \subseteq up
    BY <1>1 DEF Refuse, Answer, clientVars, daemonVars
  <2> QED
    BY <2>2, <2>3, <2>4, EndKept DEF EndInv, Asked
<1>2. CASE HandleRelease(k) \/ Attach(k) \/ Pump(k) \/ DataEnds(k) \/ LateAttach(k)
  <2>1. UNCHANGED <<call, pending, ends, result, source, alive, down>> /\ up' \subseteq up
    BY <1>2 DEF HandleRelease, Attach, Pump, DataEnds, LateAttach, clientVars
  <2>2. \A j \in Streams : sub'[j] = "on" => sub[j] = "on"
    BY <1>2 DEF HandleRelease, Attach, Pump, DataEnds, LateAttach, Types
  <2> QED
    BY <2>1, <2>2, EndKept DEF EndInv, Asked
<1>3. CASE Chunk(k)
  <2>1. UNCHANGED <<call, pending, ends, result, source, alive, up>>
    BY <1>3 DEF Chunk, clientVars
  <2>2. sub' = sub \/ sub' = [sub EXCEPT ![k] = "off"]
    BY <1>3 DEF Chunk
  <2>3. \A j \in Streams : sub'[j] = "on" => sub[j] = "on"
    BY <2>2 DEF Types
  <2>4. \A m \in In(down)' : m.op \in {"ended", "failed"} => m \in In(down)
    <3>1. In(down \o Flush(k)) \subseteq In(down) \cup In(Flush(k))
      BY Told, InConcat DEF Types
    <3>2. \A m \in In(Flush(k)) : m.op = "drop"
      BY Told
    <3>3. down' = down \/ down' = down \o Flush(k)
      BY <1>3 DEF Chunk
    <3>4. In(down)' = In(down) \/ In(down)' = In(down \o Flush(k))
      BY <3>3 DEF In
    <3> QED
      BY <3>1, <3>2, <3>4
  <2> QED
    BY <2>1, <2>3, <2>4, EndKept DEF EndInv, Asked
<1> QED
  BY <1>1, <1>2, <1>3, SubscribeEnd DEF DaemonStep

LEMMA CrashEnd ==
  ASSUME Types, EndInv, Crash
  PROVE  EndInv'
<1>1. UNCHANGED <<call, pending, ends, result, source>> /\ ~alive' /\ up' \subseteq up
  BY DEF Crash, clientVars
<1>2. \A j \in Streams : sub'[j] = "on" => sub[j] = "on"
  BY DEF Crash
<1>3. In(down)' \subseteq In(down)
  <2>1. PICK n \in 0 .. Len(down) : down' = SubSeq(down, 1, n)
    BY DEF Crash
  <2>2. In(SubSeq(down, 1, n)) \subseteq In(down)
    BY InFirst DEF Types
  <2> QED
    BY <2>1, <2>2 DEF In
<1> QED
  BY <1>1, <1>2, <1>3, EndKept DEF EndInv, Asked

LEMMA EndNext ==
  ASSUME Types, Types', EndInv, [Next]_vars
  PROVE  EndInv'
<1>1. CASE UNCHANGED vars
  BY <1>1, EndKept DEF vars, clientVars, daemonVars, EndInv, Asked
<1> QED
  BY <1>1, ProgramEnd, TaskEnd, DaemonEnd, SourceEndsEnd, CrashEnd DEF Next, ProgramStep, TaskStep

-----------------------------------------------------------------------------
(* What is reported lost, and not told yet                                 *)

\* The messages of q that report k as having lost something.
Drops(q, k) == {j \in DOMAIN q : q[j].op = "drop" /\ q[j].k = k}

\* What a message adds to the reports of k.
Adds(m, k) == IF m.op = "drop" /\ m.k = k THEN m.n ELSE 0

LEMMA ReportsIs ==
  ASSUME NEW q, NEW k, NEW x
  PROVE  x \in Reports(q, k) <=>
           \E i \in DOMAIN q :
             q[i].op = "drop" /\ q[i].k = k /\ \E j \in 1 .. q[i].n : x = <<i, j>>
  BY DEF Reports

LEMMA ColumnIs ==
  ASSUME NEW i, NEW n \in Nat
  PROVE  IsFiniteSet({i} \X (1 .. n)) /\ Cardinality({i} \X (1 .. n)) = n
<1>1. IsFiniteSet(1 .. n) /\ Cardinality(1 .. n) = n
  BY FS_Interval
<1>2. IsFiniteSet({i}) /\ Cardinality({i}) = 1
  BY FS_Singleton
<1> QED
  BY <1>1, <1>2, FS_Product

LEMMA Disjoint ==
  ASSUME NEW S, NEW T, IsFiniteSet(S), IsFiniteSet(T), S \cap T = {}
  PROVE  IsFiniteSet(S \cup T) /\ Cardinality(S \cup T) = Cardinality(S) + Cardinality(T)
<1> DEFINE both == S \cap T
<1>1. /\ IsFiniteSet(S \cup T)
      /\ Cardinality(S \cup T) = Cardinality(S) + Cardinality(T) - Cardinality(both)
  BY FS_Union
<1>2. Cardinality(both) = 0
  <2>1. both = {}
    OBVIOUS
  <2> QED
    BY <2>1, FS_EmptySet
<1>3. Cardinality(S) \in Nat /\ Cardinality(T) \in Nat
  BY FS_CardinalityType
<1> HIDE DEF both
<1> QED
  BY <1>1, <1>2, <1>3

LEMMA ReportsAppend ==
  ASSUME NEW q \in Seq(Msgs), NEW m \in Msgs, NEW k, IsFiniteSet(Reports(q, k))
  PROVE  /\ IsFiniteSet(Reports(Append(q, m), k))
         /\ Cardinality(Reports(Append(q, m), k)) = Cardinality(Reports(q, k)) + Adds(m, k)
<1> DEFINE a == Append(q, m)
           c == {Len(q) + 1} \X (1 .. m.n)
<1>1. /\ DOMAIN q = 1 .. Len(q) /\ Len(q) \in Nat /\ DOMAIN a = 1 .. Len(q) + 1
      /\ \A i \in DOMAIN q : a[i] = q[i]
      /\ a[Len(q) + 1] = m /\ m.n \in Nat
  BY DEF Msgs
<1>2. Cardinality(Reports(q, k)) \in Nat
  BY FS_CardinalityType
<1>3. CASE ~(m.op = "drop" /\ m.k = k)
  <2>1. {j \in DOMAIN a : a[j].op = "drop" /\ a[j].k = k}
          = {j \in DOMAIN q : q[j].op = "drop" /\ q[j].k = k}
    BY <1>1, <1>3
  <2>2. Reports(a, k) = Reports(q, k)
    BY <1>1, <2>1 DEF Reports
  <2> QED
    BY <1>2, <1>3, <2>2 DEF Adds
<1>4. CASE m.op = "drop" /\ m.k = k
  <2>1. Reports(a, k) = Reports(q, k) \cup c
    <3>1. {j \in DOMAIN a : a[j].op = "drop" /\ a[j].k = k}
            = {j \in DOMAIN q : q[j].op = "drop" /\ q[j].k = k} \cup {Len(q) + 1}
      BY <1>1, <1>4
    <3>2. {{i} \X (1 .. a[i].n) : i \in {j \in DOMAIN a : a[j].op = "drop" /\ a[j].k = k}}
            = {{i} \X (1 .. q[i].n) : i \in {j \in DOMAIN q : q[j].op = "drop" /\ q[j].k = k}}
                \cup {c}
      BY <3>1, <1>1
    <3> QED
      BY <3>2 DEF Reports
  <2>2. Reports(q, k) \cap c = {}
    <3>1. ASSUME NEW x \in Reports(q, k), x \in c PROVE FALSE
      <4>1. PICK i \in DOMAIN q : \E j \in 1 .. q[i].n : x = <<i, j>>
        BY <3>1, ReportsIs
      <4>2. i = Len(q) + 1
        BY <3>1, <4>1
      <4> QED
        BY <4>1, <4>2, <1>1
    <3> QED
      BY <3>1
  <2>3. IsFiniteSet(c) /\ Cardinality(c) = m.n
    BY ColumnIs, <1>1
  <2>4. /\ IsFiniteSet(Reports(q, k) \cup c)
        /\ Cardinality(Reports(q, k) \cup c) = Cardinality(Reports(q, k)) + m.n
    <3>1. /\ IsFiniteSet(Reports(q, k) \cup c)
          /\ Cardinality(Reports(q, k) \cup c) = Cardinality(Reports(q, k)) + Cardinality(c)
      BY <2>2, <2>3, Disjoint
    <3> QED
      BY <2>3, <3>1
  <2> QED
    BY <1>4, <2>1, <2>4 DEF Adds
<1> QED
  BY <1>3, <1>4

\* What is left when the first message is taken.
LEMMA ReportsTail ==
  ASSUME NEW q \in Seq(Msgs), q # <<>>, NEW k, IsFiniteSet(Reports(q, k))
  PROVE  /\ IsFiniteSet(Reports(Tail(q), k))
         /\ Cardinality(Reports(q, k)) = Adds(Head(q), k) + Cardinality(Reports(Tail(q), k))
<1> DEFINE t == Tail(q)
           first == {x \in Reports(q, k) : x[1] = 1}
           rest == {x \in Reports(q, k) : x[1] > 1}
           shift == [x \in rest |-> <<x[1] - 1, x[2]>>]
<1>1. /\ Len(q) \in Nat \ {0} /\ DOMAIN q = 1 .. Len(q) /\ q[1] = Head(q) /\ Head(q) \in Msgs
      /\ DOMAIN t = 1 .. Len(q) - 1 /\ \A i \in DOMAIN t : t[i] = q[i + 1]
  OBVIOUS
<1>2. Head(q).n \in Nat
  BY <1>1 DEF Msgs
<1>3. \A x \in Reports(q, k) : x[1] \in DOMAIN q
  BY ReportsIs
<1>4. IsFiniteSet(first) /\ IsFiniteSet(rest)
  BY FS_Subset
<1>5. Cardinality(first) = Adds(Head(q), k)
  <2>1. CASE Head(q).op = "drop" /\ Head(q).k = k
    <3>1. first \subseteq {1} \X (1 .. Head(q).n)
      <4>1. ASSUME NEW x \in first PROVE x \in {1} \X (1 .. Head(q).n)
        <5>1. PICK i \in DOMAIN q : \E j \in 1 .. q[i].n : x = <<i, j>>
          BY ReportsIs
        <5> QED
          BY <5>1, <1>1
      <4> QED
        BY <4>1
    <3>2. {1} \X (1 .. Head(q).n) \subseteq first
      <4>1. ASSUME NEW j \in 1 .. Head(q).n PROVE <<1, j>> \in first
        <5>1. 1 \in DOMAIN q /\ q[1].op = "drop" /\ q[1].k = k /\ j \in 1 .. q[1].n
          BY <1>1, <2>1
        <5>2. <<1, j>> \in Reports(q, k)
          BY <5>1, ReportsIs
        <5> QED
          BY <5>2
      <4> QED
        BY <4>1
    <3>3. Cardinality({1} \X (1 .. Head(q).n)) = Head(q).n
      BY <1>2, ColumnIs
    <3>4. first = {1} \X (1 .. Head(q).n)
      BY <3>1, <3>2
    <3> QED
      BY <2>1, <3>3, <3>4 DEF Adds
  <2>2. CASE ~(Head(q).op = "drop" /\ Head(q).k = k)
    <3>1. first = {}
      <4>1. ASSUME NEW x \in first PROVE FALSE
        <5>1. PICK i \in DOMAIN q : q[i].op = "drop" /\ q[i].k = k /\ \E j \in 1 .. q[i].n : x = <<i, j>>
          BY ReportsIs
        <5> QED
          BY <5>1, <1>1, <2>2
      <4> QED
        BY <4>1
    <3> QED
      BY <2>2, <3>1, FS_EmptySet DEF Adds
  <2> QED
    BY <2>1, <2>2
<1>6. shift \in Bijection(rest, Reports(t, k))
  <2>1. \A x \in rest : \E i \in 2 .. Len(q) : \E j \in 1 .. q[i].n :
          q[i].op = "drop" /\ q[i].k = k /\ x = <<i, j>>
    <3>1. ASSUME NEW x \in rest
          PROVE  \E i \in 2 .. Len(q) : \E j \in 1 .. q[i].n :
                   q[i].op = "drop" /\ q[i].k = k /\ x = <<i, j>>
      <4>1. PICK i \in DOMAIN q : q[i].op = "drop" /\ q[i].k = k /\ \E j \in 1 .. q[i].n : x = <<i, j>>
        BY ReportsIs
      <4>2. i \in 2 .. Len(q)
        BY <4>1, <1>1
      <4> QED
        BY <4>1, <4>2
    <3> QED
      BY <3>1
  <2>2. shift \in [rest -> Reports(t, k)]
    <3>1. ASSUME NEW x \in rest PROVE <<x[1] - 1, x[2]>> \in Reports(t, k)
      <4>1. PICK i \in 2 .. Len(q) : \E j \in 1 .. q[i].n :
              q[i].op = "drop" /\ q[i].k = k /\ x = <<i, j>>
        BY <2>1
      <4>2. i - 1 \in DOMAIN t /\ t[i - 1] = q[i]
        BY <1>1
      <4>3. x[1] = i /\ x[2] \in 1 .. q[i].n
        BY <4>1
      <4> QED
        BY <4>1, <4>2, <4>3, ReportsIs
    <3> QED
      BY <3>1
  <2>3. \A x, y \in rest : shift[x] = shift[y] => x = y
    <3>1. ASSUME NEW x \in rest, NEW y \in rest, shift[x] = shift[y] PROVE x = y
      <4>1. PICK i \in 2 .. Len(q) : \E j \in 1 .. q[i].n : x = <<i, j>>
        BY <2>1
      <4>2. PICK h \in 2 .. Len(q) : \E j \in 1 .. q[h].n : y = <<h, j>>
        BY <2>1
      <4>3. <<x[1] - 1, x[2]>> = <<y[1] - 1, y[2]>>
        BY <3>1
      <4> QED
        BY <4>1, <4>2, <4>3
    <3> QED
      BY <3>1
  <2>4. \A y \in Reports(t, k) : \E x \in rest : shift[x] = y
    <3>1. ASSUME NEW y \in Reports(t, k) PROVE \E x \in rest : shift[x] = y
      <4> HIDE DEF t
      <4>1. PICK i \in DOMAIN t : t[i].op = "drop" /\ t[i].k = k /\ \E j \in 1 .. t[i].n : y = <<i, j>>
        BY ReportsIs
      <4>2. PICK j \in 1 .. t[i].n : y = <<i, j>>
        BY <4>1
      <4>3. i + 1 \in DOMAIN q /\ q[i + 1] = t[i] /\ i \in Nat /\ i >= 1
        BY <1>1
      <4>4. <<i + 1, j>> \in Reports(q, k)
        BY <4>1, <4>2, <4>3, ReportsIs
      <4>5. <<i + 1, j>> \in rest
        BY <4>3, <4>4
      <4>6. shift[<<i + 1, j>>] = <<i, j>>
        BY <4>3, <4>5
      <4> QED
        BY <4>2, <4>5, <4>6
    <3> QED
      BY <3>1
  <2> HIDE DEF shift
  <2> QED
    BY <2>2, <2>3, <2>4, Fun_IsBij
<1>7. IsFiniteSet(Reports(t, k)) /\ Cardinality(Reports(t, k)) = Cardinality(rest)
  <2>1. ExistsBijection(rest, Reports(t, k))
    BY <1>6, Fun_ExistsBij
  <2> QED
    BY <2>1, <1>4, FS_Bijection
<1>8. Reports(q, k) = first \cup rest /\ first \cap rest = {}
  <2>1. \A x \in Reports(q, k) : x[1] = 1 \/ x[1] > 1
    BY <1>1, <1>3
  <2>2. \A x \in Reports(q, k) : ~(x[1] = 1 /\ x[1] > 1)
    BY <1>1, <1>3
  <2> QED
    BY <2>1, <2>2
<1> HIDE DEF first, rest
<1>9. Cardinality(Reports(q, k)) = Cardinality(first) + Cardinality(rest)
  BY <1>4, <1>8, Disjoint
<1> QED
  BY <1>5, <1>7, <1>9

LEMMA ReportsFirst ==
  ASSUME NEW q \in Seq(Msgs), NEW n \in 0 .. Len(q), NEW k, IsFiniteSet(Reports(q, k))
  PROVE  /\ IsFiniteSet(Reports(SubSeq(q, 1, n), k))
         /\ Cardinality(Reports(SubSeq(q, 1, n), k)) <= Cardinality(Reports(q, k))
<1> DEFINE p == SubSeq(q, 1, n)
<1>1. /\ Len(q) \in Nat /\ DOMAIN q = 1 .. Len(q) /\ DOMAIN p = 1 .. n
      /\ \A i \in 1 .. n : p[i] = q[i]
  OBVIOUS
<1>2. Reports(p, k) \subseteq Reports(q, k)
  <2>1. ASSUME NEW x \in Reports(p, k) PROVE x \in Reports(q, k)
    <3> HIDE DEF p
    <3>1. PICK i \in DOMAIN p : p[i].op = "drop" /\ p[i].k = k /\ \E j \in 1 .. p[i].n : x = <<i, j>>
      BY ReportsIs
    <3>2. i \in DOMAIN q /\ p[i] = q[i]
      BY <1>1
    <3> QED
      BY <3>1, <3>2, ReportsIs
  <2> QED
    BY <2>1
<1> QED
  BY <1>2, FS_Subset

LEMMA ReportsNone ==
  ASSUME NEW q, NEW k, \A i \in DOMAIN q : ~(q[i].op = "drop" /\ q[i].k = k)
  PROVE  IsFiniteSet(Reports(q, k)) /\ Cardinality(Reports(q, k)) = 0
<1>1. Reports(q, k) = {}
  BY ReportsIs
<1> QED
  BY <1>1, FS_EmptySet

-----------------------------------------------------------------------------
(* The order of what is reported                                           *)

\* Nothing that k lost is to be told any more.
Quiet(q, k) == \A i \in DOMAIN q : ~(q[i].op = "drop" /\ q[i].k = k)

\* What tells of the end of a stream is behind what tells of its losses.
InOrder(q) ==
  \A i, j \in DOMAIN q :
    (i < j /\ q[i].op \in {"ended", "failed"} /\ q[j].op = "drop") => q[i].k # q[j].k

Tidy(q) == InOrder(q) /\ \A k \in Streams : IsFiniteSet(Reports(q, k))

LEMMA TidyAppend ==
  ASSUME NEW q \in Seq(Msgs), NEW m \in Msgs, Tidy(q),
         m.op = "drop" =>
           \A i \in DOMAIN q : ~(q[i].op \in {"ended", "failed"} /\ q[i].k = m.k)
  PROVE  /\ Append(q, m) \in Seq(Msgs) /\ Tidy(Append(q, m))
         /\ \A k \in Streams :
              /\ Cardinality(Reports(Append(q, m), k)) = Cardinality(Reports(q, k)) + Adds(m, k)
              /\ Quiet(q, k) /\ ~(m.op = "drop" /\ m.k = k) => Quiet(Append(q, m), k)
<1>1. /\ Append(q, m) \in Seq(Msgs) /\ DOMAIN q = 1 .. Len(q) /\ Len(q) \in Nat
      /\ DOMAIN Append(q, m) = 1 .. Len(q) + 1
      /\ \A i \in DOMAIN q : Append(q, m)[i] = q[i]
      /\ Append(q, m)[Len(q) + 1] = m
  OBVIOUS
<1>2. InOrder(Append(q, m))
  <2> SUFFICES ASSUME NEW i \in 1 .. Len(q) + 1, NEW j \in 1 .. Len(q) + 1, i < j,
                      Append(q, m)[i].op \in {"ended", "failed"}, Append(q, m)[j].op = "drop"
               PROVE  Append(q, m)[i].k # Append(q, m)[j].k
    BY <1>1 DEF InOrder
  <2>1. i \in DOMAIN q /\ Append(q, m)[i] = q[i]
    BY <1>1
  <2>2. CASE j \in DOMAIN q
    BY <2>1, <2>2, <1>1 DEF Tidy, InOrder
  <2>3. CASE j = Len(q) + 1
    BY <2>1, <2>3, <1>1
  <2> QED
    BY <1>1, <2>2, <2>3
<1>3. \A k \in Streams :
        /\ IsFiniteSet(Reports(Append(q, m), k))
        /\ Cardinality(Reports(Append(q, m), k)) = Cardinality(Reports(q, k)) + Adds(m, k)
  BY ReportsAppend DEF Tidy
<1>4. \A k \in Streams : Quiet(q, k) /\ ~(m.op = "drop" /\ m.k = k) => Quiet(Append(q, m), k)
  BY <1>1 DEF Quiet
<1> QED
  BY <1>1, <1>2, <1>3, <1>4 DEF Tidy

LEMMA TidyTail ==
  ASSUME NEW q \in Seq(Msgs), q # <<>>, Tidy(q)
  PROVE  /\ Tidy(Tail(q))
         /\ \A k \in Streams :
              /\ Cardinality(Reports(q, k))
                   = Adds(Head(q), k) + Cardinality(Reports(Tail(q), k))
              /\ Quiet(q, k) => Quiet(Tail(q), k) /\ ~(Head(q).op = "drop" /\ Head(q).k = k)
              /\ Head(q).op \in {"ended", "failed"} /\ Head(q).k = k => Quiet(Tail(q), k)
<1>1. /\ Len(q) \in Nat \ {0} /\ DOMAIN q = 1 .. Len(q) /\ Head(q) = q[1]
      /\ Tail(q) \in Seq(Msgs) /\ DOMAIN Tail(q) = 1 .. Len(q) - 1
      /\ \A i \in DOMAIN Tail(q) : Tail(q)[i] = q[i + 1]
  OBVIOUS
<1>2. \A i \in DOMAIN Tail(q) : i + 1 \in DOMAIN q /\ 1 < i + 1
  BY <1>1
<1>3. InOrder(Tail(q))
  <2> SUFFICES ASSUME NEW i \in DOMAIN Tail(q), NEW j \in DOMAIN Tail(q), i < j,
                      Tail(q)[i].op \in {"ended", "failed"}, Tail(q)[j].op = "drop"
               PROVE  Tail(q)[i].k # Tail(q)[j].k
    BY DEF InOrder
  <2>1. i + 1 \in DOMAIN q /\ j + 1 \in DOMAIN q /\ i + 1 < j + 1
    BY <1>1
  <2> QED
    BY <2>1, <1>1 DEF Tidy, InOrder
<1>4. \A k \in Streams :
        /\ IsFiniteSet(Reports(Tail(q), k))
        /\ Cardinality(Reports(q, k)) = Adds(Head(q), k) + Cardinality(Reports(Tail(q), k))
  BY ReportsTail DEF Tidy
<1>5. 1 \in DOMAIN q
  BY <1>1
<1>6. ASSUME NEW k \in Streams, Quiet(q, k)
      PROVE  Quiet(Tail(q), k) /\ ~(Head(q).op = "drop" /\ Head(q).k = k)
  BY <1>1, <1>2, <1>5, <1>6 DEF Quiet
<1>7. ASSUME NEW k \in Streams, Head(q).op \in {"ended", "failed"}, Head(q).k = k
      PROVE  Quiet(Tail(q), k)
  <2> SUFFICES ASSUME NEW i \in DOMAIN Tail(q), Tail(q)[i].op = "drop"
               PROVE  Tail(q)[i].k # k
    BY DEF Quiet
  <2>1. i + 1 \in DOMAIN q /\ 1 < i + 1 /\ Tail(q)[i] = q[i + 1]
    BY <1>1, <1>2
  <2> QED
    BY <2>1, <1>1, <1>5, <1>7 DEF Tidy, InOrder
<1> QED
  BY <1>3, <1>4, <1>6, <1>7 DEF Tidy

LEMMA TidyFirst ==
  ASSUME NEW q \in Seq(Msgs), NEW n \in 0 .. Len(q), Tidy(q)
  PROVE  /\ Tidy(SubSeq(q, 1, n))
         /\ \A k \in Streams :
              /\ Cardinality(Reports(SubSeq(q, 1, n), k)) <= Cardinality(Reports(q, k))
              /\ Quiet(q, k) => Quiet(SubSeq(q, 1, n), k)
<1>1. /\ Len(q) \in Nat /\ DOMAIN q = 1 .. Len(q) /\ DOMAIN SubSeq(q, 1, n) = 1 .. n
      /\ \A i \in 1 .. n : i \in DOMAIN q /\ SubSeq(q, 1, n)[i] = q[i]
  OBVIOUS
<1>2. InOrder(SubSeq(q, 1, n))
  BY <1>1 DEF Tidy, InOrder
<1>3. \A k \in Streams :
        /\ IsFiniteSet(Reports(SubSeq(q, 1, n), k))
        /\ Cardinality(Reports(SubSeq(q, 1, n), k)) <= Cardinality(Reports(q, k))
  BY ReportsFirst DEF Tidy
<1>4. \A k \in Streams : Quiet(q, k) => Quiet(SubSeq(q, 1, n), k)
  BY <1>1 DEF Quiet
<1> QED
  BY <1>2, <1>3, <1>4 DEF Tidy

\* What fan_out and end() send of the chunks lost.
LEMMA Flushed ==
  ASSUME Types, EndInv, Tidy(down), NEW k \in Streams, source[k] = "on"
  PROVE  \A q \in {down \o Flush(k)} \cup {down \o Farewell(k, how) : how \in {"ended", "failed"}} :
           /\ Tidy(q)
           /\ \A j \in Streams :
                /\ Cardinality(Reports(q, j)) = InFlight(j) + (IF j = k THEN missed[k] ELSE 0)
                /\ j # k /\ Quiet(down, j) => Quiet(q, j)
<1> DEFINE f == down \o Flush(k)
<1>1. down \in Seq(Msgs) /\ missed[k] \in Nat
  BY DEF Types
<1>2. \A i \in DOMAIN down : ~(down[i].op \in {"ended", "failed"} /\ down[i].k = k)
  <2>1. \A i \in DOMAIN down : down[i] \in In(down)
    BY DEF In
  <2> QED
    BY <2>1 DEF EndInv
<1>3. \A j \in Streams : InFlight(j) \in Nat
  BY FS_CardinalityType DEF Tidy, InFlight
<1>4. /\ f \in Seq(Msgs) /\ Tidy(f)
      /\ \A j \in Streams :
           /\ Cardinality(Reports(f, j)) = InFlight(j) + (IF j = k THEN missed[k] ELSE 0)
           /\ j # k /\ Quiet(down, j) => Quiet(f, j)
  <2>1. CASE missed[k] > 0
    <3> DEFINE m == Msg("drop", k, missed[k])
    <3>1. m \in Msgs /\ m.op = "drop" /\ m.k = k /\ m.n = missed[k]
      BY <1>1 DEF Msg, Msgs
    <3>2. f = Append(down, m)
      <4>1. Flush(k) = <<m>>
        BY <2>1 DEF Flush
      <4> HIDE DEF m
      <4> QED
        BY <4>1, <1>1, <3>1
    <3>3. /\ Append(down, m) \in Seq(Msgs) /\ Tidy(Append(down, m))
          /\ \A j \in Streams :
               /\ Cardinality(Reports(Append(down, m), j)) = InFlight(j) + Adds(m, j)
               /\ Quiet(down, j) /\ ~(m.op = "drop" /\ m.k = j) => Quiet(Append(down, m), j)
      <4> HIDE DEF m
      <4> QED
        BY <1>1, <1>2, <3>1, TidyAppend DEF InFlight
    <3>4. \A j \in Streams : Adds(m, j) = IF j = k THEN missed[k] ELSE 0
      BY <3>1 DEF Adds
    <3> HIDE DEF f, m
    <3> QED
      BY <3>1, <3>2, <3>3, <3>4
  <2>2. CASE ~(missed[k] > 0)
    <3>1. f = down
      <4>1. Flush(k) = <<>>
        BY <2>2 DEF Flush
      <4> QED
        BY <4>1, <1>1
    <3> HIDE DEF f
    <3> QED
      BY <3>1, <1>1, <1>3, <2>2 DEF InFlight
  <2> QED
    BY <2>1, <2>2
<1>5. ASSUME NEW how \in {"ended", "failed"}
      PROVE  /\ Tidy(down \o Farewell(k, how))
             /\ \A j \in Streams :
                  /\ Cardinality(Reports(down \o Farewell(k, how), j))
                       = InFlight(j) + (IF j = k THEN missed[k] ELSE 0)
                  /\ j # k /\ Quiet(down, j) => Quiet(down \o Farewell(k, how), j)
  <2> DEFINE m == Msg(how, k, 0)
             a == Append(f, m)
  <2>1. m \in Msgs /\ m.op # "drop"
    BY DEF Msg, Msgs
  <2>2. down \o Farewell(k, how) = a
    <3>1. Flush(k) \in Seq(Msgs) /\ <<m>> \in Seq(Msgs)
      BY <2>1, Told
    <3>2. Farewell(k, how) = Flush(k) \o <<m>>
      BY DEF Farewell
    <3> HIDE DEF m
    <3> QED
      BY <1>1, <3>1, <3>2, <2>1
  <2>3. /\ Tidy(a)
        /\ \A j \in Streams :
             /\ Cardinality(Reports(a, j)) = Cardinality(Reports(f, j)) + Adds(m, j)
             /\ Quiet(f, j) => Quiet(a, j)
    <3> HIDE DEF m, f
    <3> QED
      BY <1>4, <2>1, TidyAppend
  <2>4. \A j \in Streams : Adds(m, j) = 0
    BY <2>1 DEF Adds
  <2> HIDE DEF f, m, a
  <2>5. \A j \in Streams : Cardinality(Reports(a, j)) = InFlight(j) + (IF j = k THEN missed[k] ELSE 0)
    BY <1>1, <1>3, <1>4, <2>3, <2>4
  <2> QED
    BY <2>2, <2>3, <2>5, <1>4
<1> QED
  BY <1>4, <1>5

-----------------------------------------------------------------------------
(* The counts                                                              *)

CountTypes ==
  /\ drops \in SUBSET Streams
  /\ made \in [Streams -> Nat] /\ got \in [Streams -> Nat] /\ lost \in [Streams -> Nat]
  /\ queue \in [Streams -> Nat] /\ pipe \in [Streams -> Nat]
  /\ conn \in [Streams -> {"none", "asked", "refused", "up", "eof", "shut"}]
  /\ rx \in [Streams -> {"none", "queued", "attached", "dropped"}]

\* A stream counts what it lost from before its token is sent until it is let go
\* of.
Holding(k) ==
  /\ conn[k] \in {"asked", "refused", "up", "eof"} => k \in drops
  /\ k \in drops => call[k] \in {"attaching", "open"}
  /\ k \in pending => call[k] \notin {"answered", "attaching", "open", "closed"}
  /\ result[k] # "no" => \/ call[k] = "closed"
                         \/ call[k] = "open" /\ ends[k] \in {"ended", "failed", "cut"}

\* Until its data connection is up a stream lost only what its channel had no
\* room for; once that is closed its channel is empty.
Serving(k) ==
  /\ (call[k] = "idle" \/ Asked(k)) => rx[k] = "none"
  /\ rx[k] = "none" => made[k] = 0 /\ sub[k] # "on"
  /\ source[k] # "on" => missed[k] = 0
  /\ alive => /\ conn[k] = "up" => rx[k] = "attached"
              /\ conn[k] = "eof" => rx[k] = "dropped" /\ queue[k] = 0
              /\ rx[k] = "queued" => /\ made[k] = queue[k] + missed[k]
                                     /\ missed[k] > 0 => ~Room(k)

Sum(k) == got[k] + pipe[k] + queue[k] + missed[k] + InFlight(k) + lost[k]

CountsOf(k) ==
  /\ Sum(k) <= made[k]
  /\ alive /\ conn[k] \in {"up", "eof"} => made[k] = Sum(k)

Counted(k) ==
  /\ CountsOf(k)
  /\ Holding(k)
  /\ Serving(k)
  /\ ends[k] \in {"ended", "failed", "cut"} => Quiet(down, k)

CountInv == CountTypes /\ Tidy(down) /\ \A k \in Streams : Counted(k)

LEMMA CountInit == Init => CountInv
<1> SUFFICES ASSUME Init PROVE CountInv
  OBVIOUS
<1>1. down = <<>> /\ Tidy(down)
  BY ReportsNone DEF Init, Tidy, InOrder
<1>2. \A k \in Streams : InFlight(k) = 0 /\ Quiet(down, k)
  BY <1>1, ReportsNone DEF InFlight, Quiet
<1>3. CountTypes
  BY DEF Init, CountTypes, All
<1>4. \A k \in Streams : Sum(k) = 0 /\ made[k] = 0
  BY <1>2 DEF Init, All, Sum
<1>5. \A k \in Streams : Counted(k)
  BY <1>2, <1>4 DEF Init, All, Counted, CountsOf, Holding, Serving, Asked
<1> QED
  BY <1>1, <1>3, <1>5 DEF CountInv

LEMMA SumType ==
  ASSUME Types, CountTypes, Tidy(down), NEW k \in Streams
  PROVE  /\ InFlight(k) \in Nat /\ Sum(k) \in Nat /\ made[k] \in Nat
         /\ got[k] \in Nat /\ pipe[k] \in Nat /\ queue[k] \in Nat /\ missed[k] \in Nat
         /\ lost[k] \in Nat
<1>1. InFlight(k) \in Nat
  BY FS_CardinalityType DEF Tidy, InFlight
<1> QED
  BY <1>1 DEF Types, CountTypes, Sum

\* What a step does not touch of a stream.
SameCounts(k) ==
  /\ made'[k] = made[k] /\ got'[k] = got[k] /\ pipe'[k] = pipe[k] /\ queue'[k] = queue[k]
  /\ missed'[k] = missed[k] /\ lost'[k] = lost[k] /\ InFlight(k)' = InFlight(k)

SameHolding(k) ==
  /\ call'[k] = call[k] /\ (k \in pending' => k \in pending) /\ (k \in drops' <=> k \in drops)
  /\ ends'[k] = ends[k] /\ result'[k] = result[k] /\ conn'[k] = conn[k]

SameServing(k) ==
  /\ call'[k] = call[k] /\ (Asked(k)' => Asked(k)) /\ rx'[k] = rx[k]
  /\ (sub'[k] = "on" => sub[k] = "on") /\ source'[k] = source[k] /\ conn'[k] = conn[k]
  /\ (alive' => alive)

LEMMA SumSame ==
  ASSUME NEW k \in Streams, SameCounts(k)
  PROVE  Sum(k)' = Sum(k)
  BY DEF SameCounts, Sum

LEMMA Untouched ==
  ASSUME NEW k \in Streams, Counted(k), SameCounts(k), SameHolding(k), SameServing(k),
         Quiet(down, k) => Quiet(down, k)'
  PROVE  Counted(k)'
<1>1. CountsOf(k)'
  BY SumSame DEF Counted, CountsOf, SameCounts, SameServing
<1>2. Holding(k)'
  BY DEF Counted, Holding, SameHolding
<1>3. Serving(k)'
  BY DEF Counted, Serving, SameServing, SameCounts, Room
<1> QED
  BY <1>1, <1>2, <1>3 DEF Counted, SameHolding

\* What a step does to the messages on their way, if it is none of their business.
LEMMA DownSame ==
  ASSUME down' = down
  PROVE  /\ Tidy(down)' <=> Tidy(down)
         /\ \A k \in Streams : InFlight(k)' = InFlight(k) /\ (Quiet(down, k) => Quiet(down, k)')
  BY DEF Tidy, InOrder, InFlight, Quiet

LEMMA CallCounts ==
  ASSUME Types, EndInv, CountInv, NEW k \in Streams, Call(k)
  PROVE  CountInv'
<1>1. /\ UNCHANGED <<drops, lost, ends, got, result, down, conn, pipe, daemonVars>>
      /\ call[k] = "idle" /\ pending' = pending \cup {k} /\ call'[k] \in {"sent", "failed"}
      /\ \A j \in Streams \ {k} : call'[j] = call[j]
  BY DEF Call, Types
<1>2. \A j \in Streams \ {k} : Asked(j)' => Asked(j)
  <2>1. up' \subseteq up \cup {[op |-> "acquire", k |-> k]}
    BY DEF Call
  <2>2. \A j \in Streams \ {k} : [op |-> "acquire", k |-> j] # [op |-> "acquire", k |-> k]
    OBVIOUS
  <2> QED
    BY <2>1, <2>2 DEF Asked
<1>3. CountTypes' /\ Tidy(down)'
  BY <1>1, DownSame DEF CountInv, CountTypes, daemonVars
<1>4. ASSUME NEW j \in Streams \ {k} PROVE Counted(j)'
  <2>1. SameCounts(j) /\ SameHolding(j) /\ SameServing(j)
    BY <1>1, <1>2, DownSame DEF SameCounts, SameHolding, SameServing, daemonVars
  <2> QED
    BY <2>1, <1>1, DownSame, Untouched DEF CountInv
<1>5. Counted(k)'
  <2>1. Counted(k) /\ k \notin drops /\ result[k] = "no" /\ rx[k] = "none"
    BY <1>1 DEF CountInv, Counted, Holding, Serving
  <2>2. SameCounts(k)
    BY <1>1, DownSame DEF SameCounts, daemonVars
  <2>3. CountsOf(k)'
    BY <1>1, <2>1, <2>2, SumSame DEF Counted, CountsOf, daemonVars
  <2>4. Holding(k)'
    BY <1>1, <2>1 DEF Counted, Holding
  <2>5. Serving(k)'
    BY <1>1, <2>1 DEF Counted, Serving, daemonVars, Room
  <2> QED
    BY <1>1, <2>1, <2>3, <2>4, <2>5, DownSame DEF Counted
<1> QED
  BY <1>3, <1>4, <1>5 DEF CountInv

LEMMA TakeCounts ==
  ASSUME Types, EndInv, CountInv, NEW k \in Streams, Take(k)
  PROVE  CountInv'
<1>1. /\ UNCHANGED <<pending, lost, got, result, up, down, pipe, daemonVars>>
      /\ call[k] = "answered" /\ drops' = drops \cup {k}
      /\ \A j \in Streams :
           /\ call'[j] = IF j = k THEN "attaching" ELSE call[j]
           /\ ends'[j] = IF j = k THEN "pending" ELSE ends[j]
           /\ conn'[j] = IF j = k THEN (IF alive THEN "asked" ELSE "refused") ELSE conn[j]
      /\ conn' \in [Streams -> {"none", "asked", "refused", "up", "eof", "shut"}]
  BY DEF Take, Types, CountInv, CountTypes
<1>2. CountTypes' /\ Tidy(down)'
  BY <1>1, DownSame DEF CountInv, CountTypes, daemonVars
<1>3. ASSUME NEW j \in Streams \ {k} PROVE Counted(j)'
  <2>1. SameCounts(j) /\ SameHolding(j) /\ SameServing(j)
    BY <1>1, DownSame DEF SameCounts, SameHolding, SameServing, daemonVars, Asked
  <2> QED
    BY <2>1, <1>1, DownSame, Untouched DEF CountInv
<1>4. Counted(k)'
  <2>1. Counted(k) /\ k \notin pending /\ result[k] = "no"
    BY <1>1 DEF CountInv, Counted, Holding
  <2>2. SameCounts(k)
    BY <1>1, DownSame DEF SameCounts, daemonVars
  <2>3. CountsOf(k)'
    BY <1>1, <2>1, <2>2, SumSame DEF Counted, CountsOf, SameCounts
  <2>4. Holding(k)'
    BY <1>1, <2>1 DEF Counted, Holding
  <2>5. Serving(k)'
    BY <1>1, <2>1 DEF Counted, Serving, daemonVars, Room, Asked
  <2> QED
    BY <1>1, <2>3, <2>4, <2>5 DEF Counted
<1> QED
  BY <1>2, <1>3, <1>4 DEF CountInv

LEMMA OpenCounts ==
  ASSUME Types, EndInv, CountInv, NEW k \in Streams,
         \/ Open(k)
         \/ /\ call[k] \in {"sent", "answered"} /\ call' = [call EXCEPT ![k] = "gone"]
            /\ UNCHANGED <<pending, drops, lost, ends, parked, got, result, reader,
                           writer, up, down, conn, pipe, daemonVars>>
  PROVE  CountInv'
<1>1. /\ UNCHANGED <<pending, drops, lost, ends, got, result, up, down, conn, pipe, daemonVars>>
      /\ \/ call[k] = "attaching" /\ call'[k] = "open"
         \/ call[k] \in {"sent", "answered"} /\ call'[k] = "gone"
      /\ \A j \in Streams \ {k} : call'[j] = call[j]
  BY DEF Open, Types
<1>2. CountTypes' /\ Tidy(down)'
  BY <1>1, DownSame DEF CountInv, CountTypes, daemonVars
<1>3. ASSUME NEW j \in Streams \ {k} PROVE Counted(j)'
  <2>1. SameCounts(j) /\ SameHolding(j) /\ SameServing(j)
    BY <1>1, DownSame DEF SameCounts, SameHolding, SameServing, daemonVars, Asked
  <2> QED
    BY <2>1, <1>1, DownSame, Untouched DEF CountInv
<1>4. Counted(k)'
  <2>1. Counted(k) /\ result[k] = "no"
    BY <1>1 DEF CountInv, Counted, Holding
  <2>2. SameCounts(k)
    BY <1>1, DownSame DEF SameCounts, daemonVars
  <2>3. CountsOf(k)'
    BY <1>1, <2>1, <2>2, SumSame DEF Counted, CountsOf, daemonVars, SameCounts
  <2>4. Holding(k)'
    BY <1>1, <2>1 DEF Counted, Holding
  <2>5. Serving(k)'
    BY <1>1, <2>1 DEF Counted, Serving, daemonVars, Room, Asked
  <2> QED
    BY <1>1, <2>1, <2>3, <2>4, <2>5, DownSame DEF Counted
<1> QED
  BY <1>2, <1>3, <1>4 DEF CountInv

LEMMA LetGoCounts ==
  ASSUME Types, EndInv, CountInv, NEW k \in Streams,
         \/ AttachFails(k) \/ DropStream(k) \/ (call[k] = "attaching" /\ LetGo(k, "closed"))
  PROVE  CountInv'
<1>1. /\ UNCHANGED <<pending, lost, got, result, down, daemonVars>>
      /\ drops' = drops \ {k}
      /\ \A j \in Streams :
           /\ conn'[j] = IF j = k THEN "shut" ELSE conn[j]
           /\ pipe'[j] = IF j = k THEN 0 ELSE pipe[j]
      /\ conn' \in [Streams -> {"none", "asked", "refused", "up", "eof", "shut"}]
      /\ pipe' \in [Streams -> Nat]
      /\ InnerRelease(k)
  BY DEF AttachFails, DropStream, LetGo, InnerRelease, CountInv, CountTypes
<1>2. \/ call[k] = "attaching" /\ call'[k] \in {"closed", "failed"}
      \/ call[k] = "open" /\ call'[k] = "closed"
  BY DEF AttachFails, DropStream, LetGo, Types
<1>3. \A j \in Streams \ {k} : call'[j] = call[j]
  BY DEF AttachFails, DropStream, LetGo, Types
<1>4. \A j \in Streams :
        /\ Asked(j)' => Asked(j)
        /\ ends'[j] = IF j = k THEN "none" ELSE ends[j]
  BY <1>1, InnerReleaseEnd
<1>5. CountTypes' /\ Tidy(down)'
  BY <1>1, DownSame DEF CountInv, CountTypes, daemonVars
<1>6. ASSUME NEW j \in Streams \ {k} PROVE Counted(j)'
  <2>1. SameCounts(j)
    BY <1>1, DownSame DEF SameCounts, daemonVars
  <2>2. SameHolding(j) /\ SameServing(j)
    BY <1>1, <1>3, <1>4 DEF SameHolding, SameServing, daemonVars
  <2> QED
    BY <2>1, <2>2, <1>1, DownSame, Untouched DEF CountInv
<1>7. Counted(k)'
  <2>1. Counted(k) /\ (call[k] = "attaching" => result[k] = "no") /\ k \notin pending
    BY <1>2 DEF CountInv, Counted, Holding
  <2>2. CountsOf(k)'
    <3>1. made'[k] = made[k] /\ conn'[k] = "shut" /\ Sum(k)' = Sum(k) - pipe[k]
      <4>1. InFlight(k)' = InFlight(k)
        BY <1>1, DownSame
      <4>2. /\ got'[k] = got[k] /\ pipe'[k] = 0 /\ queue'[k] = queue[k]
            /\ missed'[k] = missed[k] /\ lost'[k] = lost[k]
        BY <1>1 DEF daemonVars
      <4> QED
        BY <1>1, <4>1, <4>2, SumType DEF CountInv, Sum, daemonVars
    <3> QED
      BY <3>1, <2>1, SumType DEF CountInv, Counted, CountsOf
  <2>3. Holding(k)'
    BY <1>1, <1>2, <2>1 DEF Counted, Holding
  <2>4. Serving(k)'
    BY <1>1, <1>2, <1>4, <2>1 DEF Counted, Serving, daemonVars, Room
  <2> QED
    BY <1>4, <2>2, <2>3, <2>4 DEF Counted
<1> QED
  BY <1>5, <1>6, <1>7 DEF CountInv

LEMMA ReadCounts ==
  ASSUME Types, EndInv, CountInv, NEW k \in Streams, Read(k)
  PROVE  CountInv' /\ Sum(k)' = Sum(k)
<1>1. /\ UNCHANGED <<call, pending, drops, lost, ends, result, up, down, conn, daemonVars>>
      /\ pipe[k] > 0
      /\ \A j \in Streams :
           /\ pipe'[j] = IF j = k THEN pipe[k] - 1 ELSE pipe[j]
           /\ got'[j] = IF j = k THEN got[k] + 1 ELSE got[j]
  BY DEF Read, CountInv, CountTypes
<1>2. CountTypes' /\ Tidy(down)'
  <2>1. pipe[k] - 1 \in Nat /\ got[k] + 1 \in Nat
    BY <1>1 DEF CountInv, CountTypes
  <2>2. pipe' \in [Streams -> Nat] /\ got' \in [Streams -> Nat]
    BY <2>1 DEF Read, CountInv, CountTypes
  <2> QED
    BY <1>1, <2>2, DownSame DEF CountInv, CountTypes, daemonVars
<1>3. ASSUME NEW j \in Streams \ {k} PROVE Counted(j)'
  <2>1. SameCounts(j) /\ SameHolding(j) /\ SameServing(j)
    BY <1>1, DownSame DEF SameCounts, SameHolding, SameServing, daemonVars, Asked
  <2> QED
    BY <2>1, <1>1, DownSame, Untouched DEF CountInv
<1>4. Sum(k)' = Sum(k)
  <2>1. InFlight(k)' = InFlight(k)
    BY <1>1, DownSame
  <2> QED
    BY <1>1, <2>1, SumType DEF CountInv, Sum, daemonVars
<1>5. Counted(k)'
  <2>1. Counted(k)
    BY DEF CountInv
  <2>2. CountsOf(k)'
    BY <1>1, <1>4, <2>1 DEF Counted, CountsOf, daemonVars
  <2>3. Holding(k)' /\ Serving(k)'
    BY <1>1, <2>1 DEF Counted, Holding, Serving, daemonVars, Room, Asked
  <2> QED
    BY <1>1, <2>1, <2>2, <2>3, DownSame DEF Counted
<1> QED
  BY <1>2, <1>3, <1>4, <1>5 DEF CountInv

LEMMA ReadEndCounts ==
  ASSUME Types, EndInv, CountInv, NEW k \in Streams, ReadEnd(k)
  PROVE  CountInv'
<1>1. /\ UNCHANGED <<call, pending, drops, lost, ends, got, up, down, conn, pipe, daemonVars>>
      /\ call[k] = "open"
      /\ result' = result \/ (ends[k] # "pending" /\ \A j \in Streams \ {k} : result'[j] = result[j])
  BY DEF ReadEnd, Types
<1>2. CountTypes' /\ Tidy(down)'
  BY <1>1, DownSame DEF CountInv, CountTypes, daemonVars
<1>3. ASSUME NEW j \in Streams, j # k \/ result'[k] = result[k] PROVE Counted(j)'
  <2>1. SameCounts(j) /\ SameHolding(j) /\ SameServing(j)
    BY <1>1, <1>3, DownSame DEF SameCounts, SameHolding, SameServing, daemonVars, Asked
  <2> QED
    BY <2>1, <1>1, DownSame, Untouched DEF CountInv
<1>4. ASSUME ends[k] # "pending" PROVE Counted(k)'
  <2>1. Counted(k) /\ ends[k] \in {"ended", "failed", "cut"}
    BY <1>1, <1>4 DEF CountInv, EndInv, Types
  <2>2. SameCounts(k)
    BY <1>1, DownSame DEF SameCounts, daemonVars
  <2>3. CountsOf(k)'
    BY <1>1, <2>1, <2>2, SumSame DEF Counted, CountsOf, daemonVars, SameCounts
  <2>4. Holding(k)'
    BY <1>1, <2>1 DEF Counted, Holding
  <2>5. Serving(k)'
    BY <1>1, <2>1 DEF Counted, Serving, daemonVars, Room, Asked
  <2> QED
    BY <1>1, <2>1, <2>3, <2>4, <2>5, DownSame DEF Counted
<1> QED
  BY <1>1, <1>2, <1>3, <1>4 DEF CountInv

LEMMA DeliverCounts ==
  ASSUME Types, EndInv, CountInv, Deliver
  PROVE  CountInv'
<1>1. /\ UNCHANGED <<got, result, conn, pipe, daemonVars>>
      /\ down # <<>> /\ down' = Tail(down) /\ down \in Seq(Msgs)
  BY DEF Deliver, Types
<1> PICK m \in Msgs : m = Head(down)
  BY <1>1, InTail
<1> PICK k \in Streams : k = m.k
  BY DEF Msgs
<1>2. m \in Msgs /\ k \in Streams /\ m.n \in Nat
  BY DEF Msgs
<1>3. /\ Tidy(down)'
      /\ \A j \in Streams :
           /\ InFlight(j) = Adds(m, j) + InFlight(j)' /\ InFlight(j)' \in Nat
           /\ Quiet(down, j) => Quiet(down, j)' /\ ~(m.op = "drop" /\ k = j)
           /\ m.op \in {"ended", "failed"} /\ k = j => Quiet(down, j)'
  <2>1. /\ Tidy(Tail(down))
        /\ \A j \in Streams :
             /\ InFlight(j) = Adds(m, j) + Cardinality(Reports(Tail(down), j))
             /\ Quiet(down, j) => Quiet(Tail(down), j) /\ ~(m.op = "drop" /\ k = j)
             /\ m.op \in {"ended", "failed"} /\ k = j => Quiet(Tail(down), j)
    BY <1>1, TidyTail DEF CountInv, InFlight
  <2>2. /\ Tidy(down)'
        /\ \A j \in Streams :
             /\ InFlight(j)' = Cardinality(Reports(Tail(down), j))
             /\ Quiet(down, j)' <=> Quiet(Tail(down), j)
    BY <2>1, <1>1 DEF Tidy, InOrder, InFlight, Quiet
  <2>3. \A j \in Streams : Cardinality(Reports(Tail(down), j)) \in Nat
    BY <2>1, FS_CardinalityType DEF Tidy
  <2> QED
    BY <2>1, <2>2, <2>3
<1>4. \A j \in Streams : ~(m.op = "drop" /\ k = j) => InFlight(j)' = InFlight(j)
  BY <1>3 DEF Adds
<1>5. \A j \in Streams : Counted(j)
  BY DEF CountInv
<1>6. CASE m.op = "granted" /\ Granted(k) /\ UNCHANGED lost
  <2>1. /\ pending' = pending \ {k} /\ drops' \in SUBSET Streams
        /\ \A j \in Streams : j \in drops' => j \in drops
        /\ \A j \in Streams \ {k} : j \in drops' <=> j \in drops
        /\ \A j \in Streams \ {k} : call'[j] = call[j] /\ ends'[j] = ends[j]
        /\ \A j \in Streams : Asked(j)' => Asked(j)
    <3>1. CASE InnerRelease(k) /\ UNCHANGED call /\ pending' = pending \ {k}
      <4>1. drops' = drops \ {k}
        BY <3>1 DEF InnerRelease
      <4> QED
        BY <1>2, <3>1, <4>1, InnerReleaseEnd DEF CountInv, CountTypes
    <3>2. CASE /\ pending' = pending \ {k} /\ UNCHANGED <<drops, ends, up>>
               /\ call' = [call EXCEPT ![k] = IF k \in pending THEN "answered" ELSE @]
      BY <1>2, <3>2 DEF CountInv, CountTypes, Asked, Types
    <3> QED
      BY <1>6, <3>1, <3>2 DEF Granted
  <2>2. \/ call'[k] = call[k] /\ (ends'[k] = ends[k] \/ ends'[k] = "none")
           /\ (call[k] = "gone" \/ ends'[k] = ends[k]) /\ (call[k] = "gone" \/ drops' = drops)
        \/ k \in pending /\ call'[k] = "answered" /\ ends'[k] = ends[k] /\ drops' = drops
    <3>1. CASE InnerRelease(k) /\ UNCHANGED call /\ call[k] = "gone"
      BY <1>2, <3>1, InnerReleaseEnd
    <3>2. CASE /\ UNCHANGED <<drops, ends>>
               /\ call' = [call EXCEPT ![k] = IF k \in pending THEN "answered" ELSE @]
      BY <1>2, <3>2 DEF Types
    <3> QED
      BY <1>6, <3>1, <3>2 DEF Granted
  <2>3. CountTypes'
    BY <1>1, <1>6, <2>1 DEF CountInv, CountTypes, daemonVars
  <2>4. \A j \in Streams : SameCounts(j)
    BY <1>1, <1>4, <1>6 DEF SameCounts, daemonVars
  <2>5. ASSUME NEW j \in Streams \ {k} PROVE Counted(j)'
    <3>1. SameHolding(j) /\ SameServing(j)
      BY <1>1, <2>1 DEF SameHolding, SameServing, daemonVars
    <3> QED
      BY <1>3, <1>5, <2>4, <3>1, Untouched
  <2>6. Counted(k)'
    <3>1. CountsOf(k)'
      BY <1>1, <1>2, <1>5, <2>4, SumSame DEF Counted, CountsOf, SameCounts, daemonVars
    <3>2. Holding(k)'
      BY <1>1, <1>2, <1>5, <2>1, <2>2 DEF Counted, Holding
    <3>3. Serving(k)'
      BY <1>1, <1>2, <1>5, <2>1, <2>2 DEF Counted, Serving, daemonVars, Room
    <3>4. ends'[k] \in {"ended", "failed", "cut"} => Quiet(down, k)'
      BY <1>2, <1>3, <1>5, <2>2 DEF Counted
    <3> QED
      BY <3>1, <3>2, <3>3, <3>4 DEF Counted
  <2> QED
    BY <1>3, <2>3, <2>5, <2>6 DEF CountInv
<1>7. CASE m.op = "refused" /\ Refused(k) /\ UNCHANGED lost
  <2>1. /\ UNCHANGED <<drops, ends, up>> /\ pending' = pending \ {k}
        /\ \A j \in Streams : call'[j] = call[j] \/ (call[j] = "sent" /\ call'[j] = "failed")
    BY <1>2, <1>7 DEF Refused, Types
  <2>2. CountTypes'
    BY <1>1, <1>7, <2>1 DEF CountInv, CountTypes, daemonVars
  <2>3. ASSUME NEW j \in Streams PROVE Counted(j)'
    <3>1. SameCounts(j)
      BY <1>1, <1>4, <1>7 DEF SameCounts, daemonVars
    <3>2. CountsOf(j)'
      BY <1>1, <1>5, <3>1, SumSame DEF Counted, CountsOf, SameCounts, daemonVars
    <3>3. Holding(j)'
      BY <1>1, <1>5, <2>1 DEF Counted, Holding
    <3>4. Serving(j)'
      BY <1>1, <1>5, <2>1 DEF Counted, Serving, daemonVars, Room, Asked
    <3> QED
      BY <1>3, <1>5, <2>1, <3>2, <3>3, <3>4 DEF Counted
  <2> QED
    BY <1>3, <2>2, <2>3 DEF CountInv
<1>8. CASE /\ m.op = "drop" /\ UNCHANGED <<call, pending, drops, ends, up>>
           /\ lost' = IF k \in drops THEN AddLost(k, m.n) ELSE lost
  <2>1. /\ lost' \in [Streams -> Nat]
        /\ \A j \in Streams \ {k} : lost'[j] = lost[j]
        /\ lost'[k] = IF k \in drops THEN lost[k] + m.n ELSE lost[k]
    <3>1. lost[k] + m.n \in Nat
      BY <1>2 DEF CountInv, CountTypes
    <3> QED
      BY <1>2, <1>8, <3>1 DEF CountInv, CountTypes, AddLost
  <2>2. CountTypes'
    BY <1>1, <1>8, <2>1 DEF CountInv, CountTypes, daemonVars
  <2>3. \A j \in Streams : SameHolding(j) /\ SameServing(j)
    BY <1>1, <1>8 DEF SameHolding, SameServing, daemonVars, Asked
  <2>4. ASSUME NEW j \in Streams \ {k} PROVE Counted(j)'
    <3>1. SameCounts(j)
      BY <1>1, <1>4, <2>1 DEF SameCounts, daemonVars
    <3> QED
      BY <1>3, <1>5, <2>3, <3>1, Untouched
  <2>5. Counted(k)'
    <3>1. InFlight(k) = m.n + InFlight(k)' /\ InFlight(k)' \in Nat
      BY <1>2, <1>3, <1>8 DEF Adds
    <3>2. CountsOf(k)'
      <4>1. /\ made'[k] = made[k] /\ conn'[k] = conn[k] /\ alive' = alive
            /\ Sum(k)' = IF k \in drops THEN Sum(k) ELSE Sum(k) - m.n
        <5>1. /\ got'[k] = got[k] /\ pipe'[k] = pipe[k] /\ queue'[k] = queue[k]
              /\ missed'[k] = missed[k]
          BY <1>1 DEF daemonVars
        <5>2. /\ got[k] \in Nat /\ pipe[k] \in Nat /\ queue[k] \in Nat /\ missed[k] \in Nat
              /\ lost[k] \in Nat
          BY SumType DEF CountInv
        <5>3. made'[k] = made[k] /\ conn'[k] = conn[k] /\ alive' = alive
          BY <1>1 DEF daemonVars
        <5>4. Sum(k)' = got[k] + pipe[k] + queue[k] + missed[k] + InFlight(k)' + lost'[k]
          BY <5>1 DEF Sum
        <5> QED
          BY <1>2, <2>1, <3>1, <5>2, <5>3, <5>4 DEF Sum
      <4>2. CASE k \in drops
        BY <1>2, <1>5, <4>1, <4>2 DEF Counted, CountsOf
      <4>3. CASE k \notin drops
        <5>1. conn[k] \notin {"up", "eof"} /\ Sum(k) <= made[k]
          BY <1>2, <1>5, <4>3 DEF Counted, Holding, CountsOf
        <5>2. Sum(k) \in Nat /\ made[k] \in Nat
          BY <1>2, SumType DEF CountInv
        <5> QED
          BY <1>2, <4>1, <4>3, <5>1, <5>2 DEF CountsOf
      <4> QED
        BY <4>2, <4>3
    <3>3. Holding(k)'
      BY <1>2, <1>5, <2>3 DEF Counted, Holding, SameHolding
    <3>4. Serving(k)'
      BY <1>1, <1>2, <1>5, <1>8 DEF Counted, Serving, daemonVars, Room, Asked
    <3> QED
      BY <1>2, <1>3, <1>5, <1>8, <3>2, <3>3, <3>4 DEF Counted
  <2> QED
    BY <1>3, <2>2, <2>4, <2>5 DEF CountInv
<1>9. CASE /\ m.op \in {"ended", "failed"} /\ ends' = Ended({k}, m.op)
           /\ UNCHANGED <<call, pending, drops, lost, up>>
  <2>1. /\ CountTypes'
        /\ \A j \in Streams : SameCounts(j) /\ SameServing(j)
        /\ \A j \in Streams : IF j = k THEN ends'[j] \in {ends[j], m.op} ELSE ends'[j] = ends[j]
        /\ \A j \in Streams : ends[j] # "pending" => ends'[j] = ends[j]
    <3>1. CountTypes'
      BY <1>1, <1>9 DEF CountInv, CountTypes, daemonVars
    <3>2. \A j \in Streams : SameCounts(j) /\ SameServing(j)
      BY <1>1, <1>4, <1>9 DEF SameCounts, SameServing, daemonVars, Asked
    <3>3. \A j \in Streams : ends'[j] = IF j = k /\ ends[j] = "pending" THEN m.op ELSE ends[j]
      BY <1>9 DEF Ended
    <3> QED
      BY <3>1, <3>2, <3>3
  <2>2. ASSUME NEW j \in Streams \ {k} PROVE Counted(j)'
    <3>1. SameHolding(j)
      BY <1>1, <1>9, <2>1 DEF SameHolding
    <3> QED
      BY <1>3, <1>5, <2>1, <3>1, Untouched
  <2>3. Counted(k)'
    <3>1. CountsOf(k)'
      BY <1>1, <1>2, <1>5, <2>1, SumSame DEF Counted, CountsOf, SameCounts, daemonVars
    <3>2. Holding(k)'
      BY <1>1, <1>2, <1>5, <1>9, <2>1 DEF Counted, Holding
    <3>3. Serving(k)'
      BY <1>1, <1>2, <1>5, <1>9 DEF Counted, Serving, daemonVars, Room, Asked
    <3> QED
      BY <1>2, <1>3, <1>9, <3>1, <3>2, <3>3 DEF Counted
  <2> QED
    BY <1>3, <2>1, <2>2, <2>3 DEF CountInv
<1> QED
  BY <1>6, <1>7, <1>8, <1>9 DEF Deliver

LEMMA LossCounts ==
  ASSUME Types, EndInv, CountInv, ReaderEnds \/ WriterEnds
  PROVE  CountInv'
<1>1. /\ UNCHANGED <<drops, lost, got, result, down, conn, pipe, daemonVars>> /\ ~alive
      /\ pending' \subseteq pending
      /\ \A j \in Streams :
           /\ call'[j] = call[j] \/ (call[j] = "sent" /\ call'[j] = "failed")
           /\ Asked(j)' => Asked(j)
           /\ ends'[j] = ends[j] \/ (ends[j] = "pending" /\ down = <<>>)
  BY DEF ReaderEnds, WriterEnds, CallsFailed, Ended, Asked, daemonVars
<1>2. CountTypes' /\ Tidy(down)'
  BY <1>1, DownSame DEF CountInv, CountTypes, daemonVars
<1>3. ASSUME NEW j \in Streams PROVE Counted(j)'
  <2>1. Counted(j)
    BY DEF CountInv
  <2>2. SameCounts(j)
    BY <1>1, DownSame DEF SameCounts, daemonVars
  <2>3. CountsOf(j)'
    BY <1>1, <2>1, <2>2, SumSame DEF Counted, CountsOf, SameCounts, daemonVars
  <2>4. Holding(j)'
    BY <1>1, <2>1 DEF Counted, Holding
  <2>5. Serving(j)'
    BY <1>1, <2>1 DEF Counted, Serving, daemonVars, Room
  <2>6. down = <<>> => Quiet(down, j)
    BY DEF Quiet
  <2> QED
    BY <1>1, <2>1, <2>3, <2>4, <2>5, <2>6, DownSame DEF Counted
<1> QED
  BY <1>2, <1>3 DEF CountInv

LEMMA SubscribeCounts ==
  ASSUME Types, EndInv, CountInv, NEW k \in Streams, Subscribe(k)
  PROVE  CountInv'
<1>1. /\ UNCHANGED <<clientVars, alive, queue, missed, made, source, down, conn, pipe>>
      /\ Asked(k) /\ ~Asked(k)' /\ \A j \in Streams : Asked(j)' => Asked(j)
      /\ \A j \in Streams : sub'[j] = IF j = k THEN "on" ELSE sub[j]
      /\ \A j \in Streams : rx'[j] = IF j = k THEN "queued" ELSE rx[j]
      /\ rx' \in [Streams -> {"none", "queued", "attached", "dropped"}]
  BY DEF Subscribe, Types, Asked, CountInv, CountTypes
<1>2. CountTypes' /\ Tidy(down)'
  BY <1>1, DownSame DEF CountInv, CountTypes, clientVars
<1>3. \A j \in Streams : SameCounts(j) /\ SameHolding(j)
  BY <1>1, DownSame DEF SameCounts, SameHolding, clientVars
<1>4. ASSUME NEW j \in Streams \ {k} PROVE Counted(j)'
  <2>1. SameServing(j)
    BY <1>1 DEF SameServing, clientVars
  <2> QED
    BY <1>1, <1>3, <2>1, DownSame, Untouched DEF CountInv
<1>5. Counted(k)'
  <2>1. Counted(k) /\ call[k] # "idle" /\ rx[k] = "none" /\ made[k] = 0 /\ source[k] = "on"
    BY <1>1 DEF CountInv, Counted, Serving, EndInv
  <2>2. CountsOf(k)'
    BY <1>1, <1>3, <2>1, SumSame DEF Counted, CountsOf, SameCounts
  <2>3. Holding(k)'
    BY <1>3, <2>1 DEF Counted, Holding, SameHolding
  <2>4. queue[k] = 0 /\ missed[k] = 0
    <3>1. /\ InFlight(k) \in Nat /\ got[k] \in Nat /\ pipe[k] \in Nat /\ queue[k] \in Nat
          /\ missed[k] \in Nat /\ lost[k] \in Nat
      BY SumType DEF CountInv
    <3> QED
      BY <2>1, <3>1 DEF Counted, CountsOf, Sum
  <2>5. Serving(k)'
    <3>1. alive => conn[k] \notin {"up", "eof"}
      BY <2>1 DEF Counted, Serving
    <3>2. call'[k] # "idle" /\ rx'[k] = "queued" /\ source'[k] = "on" /\ alive' = alive
          /\ conn'[k] = conn[k] /\ made'[k] = 0 /\ queue'[k] = 0 /\ missed'[k] = 0
      BY <1>1, <2>1, <2>4 DEF clientVars
    <3> QED
      BY <1>1, <3>1, <3>2 DEF Serving
  <2> QED
    BY <1>1, <1>3, <2>1, <2>2, <2>3, <2>5, DownSame DEF Counted, SameHolding
<1> QED
  BY <1>2, <1>4, <1>5 DEF CountInv

LEMMA AnswerCounts ==
  ASSUME Types, EndInv, CountInv, NEW k \in Streams, Refuse(k) \/ Answer(k)
  PROVE  CountInv'
<1>1. /\ UNCHANGED <<clientVars, alive, sub, rx, queue, missed, made, source, conn, pipe>>
      /\ up' \subseteq up /\ down \in Seq(Msgs)
  BY DEF Refuse, Answer, Types, daemonVars
<1>2. PICK m \in Msgs : m.op # "drop" /\ down' = Append(down, m)
  <2>1. /\ Msg("refused", k, 0) \in Msgs /\ Msg("granted", k, 0) \in Msgs
        /\ Msg("refused", k, 0).op # "drop" /\ Msg("granted", k, 0).op # "drop"
    BY DEF Msg, Msgs
  <2> QED
    BY <2>1 DEF Refuse, Answer
<1>3. /\ Tidy(down)'
      /\ \A j \in Streams : InFlight(j)' = InFlight(j) /\ (Quiet(down, j) => Quiet(down, j)')
  <2>1. /\ Tidy(Append(down, m))
        /\ \A j \in Streams :
             /\ Cardinality(Reports(Append(down, m), j)) = Cardinality(Reports(down, j)) + Adds(m, j)
             /\ Quiet(down, j) => Quiet(Append(down, m), j)
    BY <1>1, <1>2, TidyAppend DEF CountInv
  <2>2. \A j \in Streams : Cardinality(Reports(Append(down, m), j)) = InFlight(j)
    BY <1>2, <2>1, SumType DEF Adds, CountInv, InFlight
  <2> QED
    BY <1>2, <2>1, <2>2 DEF Tidy, InOrder, InFlight, Quiet
<1>4. CountTypes'
  BY <1>1 DEF CountInv, CountTypes, clientVars
<1>5. \A j \in Streams : SameCounts(j) /\ SameHolding(j) /\ SameServing(j)
  BY <1>1, <1>3 DEF SameCounts, SameHolding, SameServing, clientVars, Asked
<1> QED
  BY <1>3, <1>4, <1>5, Untouched DEF CountInv

LEMMA HandleReleaseCounts ==
  ASSUME Types, EndInv, CountInv, NEW k \in Streams, HandleRelease(k)
  PROVE  CountInv'
<1>1. /\ UNCHANGED <<clientVars, alive, missed, made, source, down, conn, pipe>>
      /\ up' \subseteq up
      /\ \A j \in Streams : sub'[j] = IF j = k THEN "off" ELSE sub[j]
      /\ \A j \in Streams : rx'[j] = IF j = k THEN RxUnattached(k) ELSE rx[j]
      /\ \A j \in Streams \ {k} : queue'[j] = queue[j]
      /\ queue'[k] = IF rx'[k] = "dropped" THEN 0 ELSE queue[k]
  BY DEF HandleRelease, Types, CountInv, CountTypes
<1>2. CountTypes' /\ Tidy(down)'
  <2>1. RxUnattached(k) \in {"none", "queued", "attached", "dropped"}
    BY DEF RxUnattached, CountInv, CountTypes
  <2>2. /\ rx' \in [Streams -> {"none", "queued", "attached", "dropped"}]
        /\ queue' \in [Streams -> Nat]
    BY <2>1 DEF HandleRelease, CountInv, CountTypes
  <2> QED
    BY <1>1, <2>2, DownSame DEF CountInv, CountTypes, clientVars
<1>3. ASSUME NEW j \in Streams \ {k} PROVE Counted(j)'
  <2>1. SameCounts(j) /\ SameHolding(j) /\ SameServing(j)
    BY <1>1, DownSame DEF SameCounts, SameHolding, SameServing, clientVars, Asked
  <2> QED
    BY <1>1, <2>1, DownSame, Untouched DEF CountInv
<1>4. Counted(k)'
  <2>1. Counted(k)
    BY DEF CountInv
  <2>2. CountsOf(k)'
    <3>1. /\ made'[k] = made[k] /\ conn'[k] = conn[k] /\ alive' = alive /\ got'[k] = got[k]
          /\ pipe'[k] = pipe[k] /\ missed'[k] = missed[k] /\ lost'[k] = lost[k]
          /\ InFlight(k)' = InFlight(k)
      BY <1>1, DownSame DEF clientVars
    <3>2. Sum(k)' = (Sum(k) - queue[k]) + queue'[k] /\ queue'[k] \in {0, queue[k]}
      <4>1. Sum(k)' = got[k] + pipe[k] + queue'[k] + missed[k] + InFlight(k) + lost[k]
        BY <3>1 DEF Sum
      <4>2. queue'[k] \in {0, queue[k]}
        BY <1>1
      <4>3. /\ InFlight(k) \in Nat /\ got[k] \in Nat /\ pipe[k] \in Nat /\ queue[k] \in Nat
            /\ missed[k] \in Nat /\ lost[k] \in Nat
        BY SumType DEF CountInv
      <4> QED
        BY <4>1, <4>2, <4>3 DEF Sum
    <3>3. alive /\ conn[k] \in {"up", "eof"} => queue'[k] = queue[k]
      BY <1>1, <2>1 DEF Counted, Serving, RxUnattached
    <3> QED
      BY <2>1, <3>1, <3>2, <3>3, SumType DEF CountInv, Counted, CountsOf
  <2>3. Holding(k)'
    BY <1>1, <2>1 DEF Counted, Holding, clientVars
  <2>4. Serving(k)'
    BY <1>1, <2>1 DEF Counted, Serving, clientVars, Asked, RxUnattached
  <2> QED
    BY <1>1, <2>1, <2>2, <2>3, <2>4, DownSame DEF Counted, clientVars
<1> QED
  BY <1>2, <1>3, <1>4 DEF CountInv

LEMMA AttachCounts ==
  ASSUME Types, EndInv, CountInv, NEW k \in Streams, Attach(k) \/ LateAttach(k)
  PROVE  CountInv'
<1>1. /\ UNCHANGED <<clientVars, alive, sub, queue, missed, made, source, up, down, pipe>>
      /\ \A j \in Streams \ {k} : rx'[j] = rx[j] /\ conn'[j] = conn[j]
      /\ \/ conn[k] = "asked" /\ rx[k] = "queued" /\ rx'[k] = "attached" /\ conn'[k] = "up"
         \/ conn[k] = "asked" /\ rx'[k] = rx[k] /\ conn'[k] = "refused"
         \/ conn[k] = "shut" /\ rx[k] = "queued" /\ rx'[k] = "attached" /\ conn'[k] = "shut"
      /\ conn' \in [Streams -> {"none", "asked", "refused", "up", "eof", "shut"}]
      /\ rx' \in [Streams -> {"none", "queued", "attached", "dropped"}]
      /\ alive
  BY DEF Attach, LateAttach, CountInv, CountTypes
<1>2. CountTypes' /\ Tidy(down)'
  BY <1>1, DownSame DEF CountInv, CountTypes, clientVars
<1>3. ASSUME NEW j \in Streams \ {k} PROVE Counted(j)'
  <2>1. SameCounts(j) /\ SameHolding(j) /\ SameServing(j)
    BY <1>1, DownSame DEF SameCounts, SameHolding, SameServing, clientVars, Asked
  <2> QED
    BY <1>1, <2>1, DownSame, Untouched DEF CountInv
<1>4. Counted(k)'
  <2>1. Counted(k)
    BY DEF CountInv
  <2>2. SameCounts(k)
    BY <1>1, DownSame DEF SameCounts, clientVars
  <2>3. CountsOf(k)'
    <3>1. rx[k] = "queued" => made[k] = Sum(k)
      <4> SUFFICES ASSUME rx[k] = "queued" PROVE made[k] = Sum(k)
        OBVIOUS
      <4>1. made[k] = queue[k] + missed[k]
        BY <1>1, <2>1 DEF Counted, Serving
      <4>2. /\ InFlight(k) \in Nat /\ got[k] \in Nat /\ pipe[k] \in Nat /\ queue[k] \in Nat
            /\ missed[k] \in Nat /\ lost[k] \in Nat
        BY SumType DEF CountInv
      <4>3. got[k] + pipe[k] + queue[k] + missed[k] + InFlight(k) + lost[k] <= queue[k] + missed[k]
        BY <2>1, <4>1 DEF Counted, CountsOf, Sum
      <4>4. got[k] = 0 /\ pipe[k] = 0 /\ InFlight(k) = 0 /\ lost[k] = 0
        BY <4>2, <4>3
      <4> QED
        BY <4>1, <4>2, <4>4 DEF Sum
    <3>2. Sum(k)' = Sum(k) /\ made'[k] = made[k]
      BY <2>2, SumSame DEF SameCounts
    <3> QED
      BY <1>1, <2>1, <3>1, <3>2 DEF Counted, CountsOf
  <2>4. Holding(k)'
    BY <1>1, <2>1 DEF Counted, Holding, clientVars
  <2>5. Serving(k)'
    BY <1>1, <2>1 DEF Counted, Serving, clientVars, Asked, Room
  <2> QED
    BY <1>1, <2>1, <2>3, <2>4, <2>5, DownSame DEF Counted, clientVars
<1> QED
  BY <1>2, <1>3, <1>4 DEF CountInv

LEMMA PumpCounts ==
  ASSUME Types, EndInv, CountInv, NEW k \in Streams, Pump(k)
  PROVE  CountInv'
<1>1. /\ UNCHANGED <<clientVars, alive, sub, rx, missed, made, source, up, down, conn>>
      /\ rx[k] = "attached" /\ conn[k] = "up" /\ queue[k] > 0
      /\ \A j \in Streams :
           /\ queue'[j] = IF j = k THEN queue[k] - 1 ELSE queue[j]
           /\ pipe'[j] = IF j = k THEN pipe[k] + 1 ELSE pipe[j]
  BY DEF Pump, CountInv, CountTypes
<1>2. CountTypes' /\ Tidy(down)'
  <2>1. queue[k] - 1 \in Nat /\ pipe[k] + 1 \in Nat
    BY <1>1 DEF CountInv, CountTypes
  <2>2. queue' \in [Streams -> Nat] /\ pipe' \in [Streams -> Nat]
    BY <2>1 DEF Pump, CountInv, CountTypes
  <2> QED
    BY <1>1, <2>2, DownSame DEF CountInv, CountTypes, clientVars
<1>3. ASSUME NEW j \in Streams \ {k} PROVE Counted(j)'
  <2>1. SameCounts(j) /\ SameHolding(j) /\ SameServing(j)
    BY <1>1, DownSame DEF SameCounts, SameHolding, SameServing, clientVars, Asked
  <2> QED
    BY <1>1, <2>1, DownSame, Untouched DEF CountInv
<1>4. Counted(k)'
  <2>1. Counted(k)
    BY DEF CountInv
  <2>2. CountsOf(k)'
    <3>1. Sum(k)' = Sum(k)
      <4>1. InFlight(k)' = InFlight(k)
        BY <1>1, DownSame
      <4>2. Sum(k)' = got[k] + (pipe[k] + 1) + (queue[k] - 1) + missed[k] + InFlight(k) + lost[k]
        BY <1>1, <4>1 DEF Sum, clientVars
      <4>3. /\ InFlight(k) \in Nat /\ got[k] \in Nat /\ pipe[k] \in Nat /\ queue[k] \in Nat
            /\ missed[k] \in Nat /\ lost[k] \in Nat
        BY SumType DEF CountInv
      <4> QED
        BY <4>2, <4>3 DEF Sum
    <3> QED
      BY <1>1, <2>1, <3>1 DEF Counted, CountsOf
  <2>3. Holding(k)'
    BY <1>1, <2>1 DEF Counted, Holding, clientVars
  <2>4. Serving(k)'
    BY <1>1, <2>1 DEF Counted, Serving, clientVars, Asked
  <2> QED
    BY <1>1, <2>1, <2>2, <2>3, <2>4, DownSame DEF Counted, clientVars
<1> QED
  BY <1>2, <1>3, <1>4 DEF CountInv

LEMMA DataEndsCounts ==
  ASSUME Types, EndInv, CountInv, NEW k \in Streams, DataEnds(k)
  PROVE  CountInv'
<1>1. /\ UNCHANGED <<clientVars, alive, missed, made, source, up, down, pipe>>
      /\ rx[k] = "attached"
      /\ \/ conn[k] = "up" /\ queue[k] = 0 /\ conn'[k] = "eof"
         \/ conn[k] = "shut" /\ conn'[k] = "shut"
      /\ \A j \in Streams : sub'[j] = IF j = k THEN "off" ELSE sub[j]
      /\ \A j \in Streams : rx'[j] = IF j = k THEN "dropped" ELSE rx[j]
      /\ \A j \in Streams : queue'[j] = IF j = k THEN 0 ELSE queue[j]
      /\ \A j \in Streams \ {k} : conn'[j] = conn[j]
  BY DEF DataEnds, Drained, Types, CountInv, CountTypes
<1>2. CountTypes' /\ Tidy(down)'
  BY <1>1, DownSame DEF DataEnds, CountInv, CountTypes, clientVars
<1>3. ASSUME NEW j \in Streams \ {k} PROVE Counted(j)'
  <2>1. SameCounts(j) /\ SameHolding(j) /\ SameServing(j)
    BY <1>1, DownSame DEF SameCounts, SameHolding, SameServing, clientVars, Asked
  <2> QED
    BY <1>1, <2>1, DownSame, Untouched DEF CountInv
<1>4. Counted(k)'
  <2>1. Counted(k)
    BY DEF CountInv
  <2>2. CountsOf(k)'
    <3>1. Sum(k)' = Sum(k) - queue[k]
      <4>1. InFlight(k)' = InFlight(k)
        BY <1>1, DownSame
      <4>2. Sum(k)' = got[k] + pipe[k] + 0 + missed[k] + InFlight(k) + lost[k]
        BY <1>1, <4>1 DEF clientVars, Sum
      <4> QED
        BY <4>2, SumType DEF CountInv, Sum
    <3>2. Sum(k) \in Nat /\ queue[k] \in Nat /\ made[k] \in Nat
      BY SumType DEF CountInv
    <3> QED
      BY <1>1, <2>1, <3>1, <3>2 DEF Counted, CountsOf
  <2>3. Holding(k)'
    BY <1>1, <2>1 DEF Counted, Holding, clientVars
  <2>4. Serving(k)'
    BY <1>1, <2>1 DEF Counted, Serving, clientVars, Asked
  <2> QED
    BY <1>1, <2>1, <2>2, <2>3, <2>4, DownSame DEF Counted, clientVars
<1> QED
  BY <1>2, <1>3, <1>4 DEF CountInv

LEMMA ChunkCounts ==
  ASSUME Types, EndInv, CountInv, NEW k \in Streams, Chunk(k)
  PROVE  CountInv'
<1>1. /\ UNCHANGED <<clientVars, alive, rx, source, up, conn, pipe>> /\ alive /\ sub[k] = "on"
      /\ \A j \in Streams \ {k} : queue'[j] = queue[j] /\ missed'[j] = missed[j] /\ made'[j] = made[j]
      /\ \A j \in Streams : sub'[j] = "on" => sub[j] = "on"
  BY DEF Chunk, ResetCount, Types, CountInv, CountTypes
<1>2. /\ Counted(k) /\ source[k] = "on" /\ ends[k] \notin {"ended", "failed", "cut"}
      /\ rx[k] # "none"
  BY <1>1 DEF CountInv, EndInv, Counted, Serving
<1>3. /\ InFlight(k) \in Nat /\ got[k] \in Nat /\ pipe[k] \in Nat /\ queue[k] \in Nat
      /\ missed[k] \in Nat /\ lost[k] \in Nat /\ made[k] \in Nat
  BY SumType DEF CountInv
<1>4. \/ /\ rx[k] = "dropped" /\ UNCHANGED <<queue, missed, made, down>>
      \/ /\ rx[k] # "dropped" /\ Room(k) /\ down' = down \o Flush(k)
         /\ made'[k] = made[k] + 1 /\ queue'[k] = queue[k] + 1 /\ missed'[k] = 0
      \/ /\ rx[k] # "dropped" /\ ~Room(k) /\ UNCHANGED <<queue, down>>
         /\ made'[k] = made[k] + 1 /\ missed'[k] = missed[k] + 1
  BY DEF Chunk, ResetCount, Types, CountInv, CountTypes
<1>5. /\ Tidy(down)'
      /\ \A j \in Streams \ {k} :
           InFlight(j)' = InFlight(j) /\ (Quiet(down, j) => Quiet(down, j)')
      /\ InFlight(k)' = InFlight(k) + (IF down' = down THEN 0 ELSE missed[k])
  <2>1. CASE down' = down
    BY <1>3, <2>1, DownSame DEF CountInv
  <2>2. CASE down' # down
    <3>1. down' = down \o Flush(k)
      BY <1>4, <2>2
    <3>2. /\ Tidy(down \o Flush(k))
          /\ \A j \in Streams :
               /\ Cardinality(Reports(down \o Flush(k), j))
                    = InFlight(j) + (IF j = k THEN missed[k] ELSE 0)
               /\ j # k /\ Quiet(down, j) => Quiet(down \o Flush(k), j)
      BY <1>2, Flushed DEF CountInv
    <3>3. \A j \in Streams : InFlight(j) \in Nat
      BY SumType DEF CountInv
    <3>4. \A j \in Streams : InFlight(j)' = InFlight(j) + (IF j = k THEN missed[k] ELSE 0)
      BY <3>1, <3>2 DEF InFlight
    <3>5. \A j \in Streams \ {k} : InFlight(j)' = InFlight(j)
      BY <3>3, <3>4
    <3> QED
      BY <2>2, <3>1, <3>2, <3>4, <3>5 DEF Tidy, InOrder, Quiet
  <2> QED
    BY <2>1, <2>2
<1>6. CountTypes'
  <2>1. made[k] + 1 \in Nat /\ queue[k] + 1 \in Nat
    BY <1>3
  <2>2. made' \in [Streams -> Nat] /\ queue' \in [Streams -> Nat]
    BY <2>1 DEF Chunk, CountInv, CountTypes
  <2> QED
    BY <1>1, <2>2 DEF CountInv, CountTypes, clientVars
<1>7. ASSUME NEW j \in Streams \ {k} PROVE Counted(j)'
  <2>1. SameCounts(j) /\ SameHolding(j) /\ SameServing(j)
    BY <1>1, <1>5 DEF SameCounts, SameHolding, SameServing, clientVars, Asked
  <2> QED
    BY <1>5, <2>1, Untouched DEF CountInv
<1>8. Counted(k)'
  <2>1. got'[k] = got[k] /\ pipe'[k] = pipe[k] /\ lost'[k] = lost[k]
    BY <1>1 DEF clientVars
  <2>2. Sum(k)' - made'[k] = Sum(k) - made[k]
    <3>1. Sum(k)' = got[k] + pipe[k] + queue'[k] + missed'[k] + InFlight(k)' + lost[k]
      BY <2>1 DEF Sum
    <3>2. CASE UNCHANGED <<queue, missed, made, down>>
      <4>1. queue'[k] = queue[k] /\ missed'[k] = missed[k] /\ made'[k] = made[k]
            /\ InFlight(k)' = InFlight(k)
        BY <1>3, <1>5, <3>2
      <4> QED
        BY <3>1, <4>1 DEF Sum
    <3>3. CASE /\ down' = down \o Flush(k)
               /\ made'[k] = made[k] + 1 /\ queue'[k] = queue[k] + 1 /\ missed'[k] = 0
      <4>1. InFlight(k)' = InFlight(k) + missed[k]
        <5>1. down' = down => missed[k] = 0
          <6>1. /\ Cardinality(Reports(down \o Flush(k), k)) = InFlight(k) + missed[k]
            BY <1>2, Flushed DEF CountInv
          <6>2. down' = down => Cardinality(Reports(down \o Flush(k), k)) = InFlight(k)
            BY <3>3 DEF InFlight
          <6> QED
            BY <1>3, <6>1, <6>2
        <5> QED
          BY <1>3, <1>5, <5>1
      <4>2. Sum(k)' = got[k] + pipe[k] + (queue[k] + 1) + 0 + (InFlight(k) + missed[k]) + lost[k]
        BY <3>1, <3>3, <4>1
      <4>3. made'[k] = made[k] + 1
        BY <3>3
      <4> QED
        BY <1>3, <4>2, <4>3 DEF Sum
    <3>4. CASE /\ UNCHANGED <<queue, down>>
               /\ made'[k] = made[k] + 1 /\ missed'[k] = missed[k] + 1
      <4>1. queue'[k] = queue[k] /\ InFlight(k)' = InFlight(k)
        BY <1>3, <1>5, <3>4
      <4> QED
        BY <1>3, <3>1, <3>4, <4>1 DEF Sum
    <3> QED
      BY <1>4, <3>2, <3>3, <3>4
  <2>3. CountsOf(k)'
    <3>1. Sum(k)' \in Int /\ made'[k] \in Nat /\ Sum(k) \in Nat
      <4>1. /\ queue'[k] \in Nat /\ made'[k] \in Nat /\ missed'[k] \in Nat /\ InFlight(k)' \in Nat
        BY <1>3, <1>4, <1>5
      <4> QED
        BY <1>3, <2>1, <4>1 DEF Sum
    <3>2. alive' = alive /\ conn'[k] = conn[k]
      BY <1>1
    <3> QED
      BY <1>2, <1>3, <2>2, <3>1, <3>2 DEF Counted, CountsOf
  <2>4. Holding(k)'
    BY <1>1, <1>2 DEF Counted, Holding, clientVars
  <2>5. Serving(k)'
    <3>1. /\ call'[k] = call[k] /\ rx'[k] = rx[k] /\ source'[k] = "on" /\ conn'[k] = conn[k]
          /\ alive' = alive /\ (Asked(k)' => Asked(k))
      BY <1>1, <1>2 DEF clientVars, Asked
    <3>2. rx[k] = "queued" => /\ made'[k] = queue'[k] + missed'[k]
                              /\ missed'[k] > 0 => ~Room(k)'
      <4> SUFFICES ASSUME rx[k] = "queued"
                   PROVE  made'[k] = queue'[k] + missed'[k] /\ (missed'[k] > 0 => ~Room(k)')
        OBVIOUS
      <4>1. made[k] = queue[k] + missed[k] /\ (missed[k] > 0 => ~Room(k))
        BY <1>1, <1>2 DEF Counted, Serving
      <4>2. CASE /\ Room(k)
                 /\ made'[k] = made[k] + 1 /\ queue'[k] = queue[k] + 1 /\ missed'[k] = 0
        BY <1>3, <4>1, <4>2
      <4>3. CASE /\ ~Room(k) /\ queue' = queue
                 /\ made'[k] = made[k] + 1 /\ missed'[k] = missed[k] + 1
        BY <1>3, <4>1, <4>3 DEF Room
      <4> QED
        BY <1>4, <4>2, <4>3
    <3>3. conn[k] = "eof" => queue'[k] = queue[k]
      BY <1>1, <1>2, <1>4 DEF Counted, Serving
    <3> QED
      BY <1>2, <3>1, <3>2, <3>3 DEF Counted, Serving
  <2>6. ends'[k] = ends[k]
    BY <1>1 DEF clientVars
  <2> QED
    BY <1>2, <2>3, <2>4, <2>5, <2>6 DEF Counted
<1> QED
  BY <1>5, <1>6, <1>7, <1>8 DEF CountInv

LEMMA SourceEndsCounts ==
  ASSUME Types, EndInv, CountInv, NEW k \in Streams, SourceEnds(k)
  PROVE  CountInv'
<1>1. PICK how \in {"ended", "failed"} :
        /\ source' = [source EXCEPT ![k] = how]
        /\ down' = down \o Farewell(k, how)
  BY DEF SourceEnds
<1>2. /\ UNCHANGED <<clientVars, alive, made, up, conn, pipe>> /\ alive /\ sub[k] = "on"
      /\ \A j \in Streams :
           /\ sub'[j] = IF j = k THEN "off" ELSE sub[j]
           /\ source'[j] = IF j = k THEN how ELSE source[j]
           /\ missed'[j] = IF j = k THEN 0 ELSE missed[j]
           /\ rx'[j] = IF j = k THEN RxUnattached(k) ELSE rx[j]
      /\ \A j \in Streams \ {k} : queue'[j] = queue[j]
      /\ queue'[k] = IF rx'[k] = "dropped" THEN 0 ELSE queue[k]
  BY <1>1 DEF SourceEnds, Types, CountInv, CountTypes
<1>3. /\ Counted(k) /\ source[k] = "on" /\ ends[k] \notin {"ended", "failed", "cut"}
      /\ rx[k] # "none"
  BY <1>2 DEF CountInv, EndInv, Counted, Serving
<1>4. /\ Tidy(down)'
      /\ InFlight(k)' = InFlight(k) + missed[k]
      /\ \A j \in Streams \ {k} :
           InFlight(j)' = InFlight(j) /\ (Quiet(down, j) => Quiet(down, j)')
  <2>1. /\ Tidy(down \o Farewell(k, how))
        /\ \A j \in Streams :
             /\ Cardinality(Reports(down \o Farewell(k, how), j))
                  = InFlight(j) + (IF j = k THEN missed[k] ELSE 0)
             /\ j # k /\ Quiet(down, j) => Quiet(down \o Farewell(k, how), j)
    BY <1>3, Flushed DEF CountInv
  <2>2. \A j \in Streams : InFlight(j)' = InFlight(j) + (IF j = k THEN missed[k] ELSE 0)
    BY <1>1, <2>1 DEF InFlight
  <2>3. \A j \in Streams : InFlight(j) \in Nat
    BY SumType DEF CountInv
  <2>4. \A j \in Streams \ {k} : InFlight(j)' = InFlight(j)
    BY <2>2, <2>3
  <2> QED
    BY <1>1, <2>1, <2>2, <2>4 DEF Tidy, InOrder, Quiet
<1>5. CountTypes'
  <2>1. RxUnattached(k) \in {"none", "queued", "attached", "dropped"}
    BY DEF RxUnattached, CountInv, CountTypes
  <2>2. /\ rx' \in [Streams -> {"none", "queued", "attached", "dropped"}]
        /\ queue' \in [Streams -> Nat]
    BY <2>1 DEF SourceEnds, CountInv, CountTypes
  <2> QED
    BY <1>2, <2>2 DEF CountInv, CountTypes, clientVars
<1>6. ASSUME NEW j \in Streams \ {k} PROVE Counted(j)'
  <2>1. SameCounts(j) /\ SameHolding(j) /\ SameServing(j)
    BY <1>2, <1>4 DEF SameCounts, SameHolding, SameServing, clientVars, Asked
  <2> QED
    BY <1>4, <2>1, Untouched DEF CountInv
<1>7. Counted(k)'
  <2>1. /\ InFlight(k) \in Nat /\ got[k] \in Nat /\ pipe[k] \in Nat /\ queue[k] \in Nat
        /\ missed[k] \in Nat /\ lost[k] \in Nat /\ made[k] \in Nat
    BY SumType DEF CountInv
  <2>2. /\ got'[k] = got[k] /\ pipe'[k] = pipe[k] /\ lost'[k] = lost[k] /\ missed'[k] = 0
        /\ made'[k] = made[k] /\ alive' = alive /\ conn'[k] = conn[k]
    BY <1>2 DEF clientVars
  <2>3. CountsOf(k)'
    <3>1. Sum(k)' = (Sum(k) - queue[k]) + queue'[k] /\ queue'[k] \in {0, queue[k]}
      <4>1. Sum(k)' = got[k] + pipe[k] + queue'[k] + 0 + (InFlight(k) + missed[k]) + lost[k]
        BY <2>2, <1>4 DEF Sum
      <4>2. queue'[k] \in {0, queue[k]}
        BY <1>2
      <4> QED
        BY <4>1, <4>2, <2>1 DEF Sum
    <3>2. conn[k] \in {"up", "eof"} => queue'[k] = queue[k]
      BY <1>2, <1>3 DEF Counted, Serving, RxUnattached
    <3>3. Sum(k) \in Nat
      BY SumType DEF CountInv
    <3> QED
      BY <1>3, <2>1, <2>2, <3>1, <3>2, <3>3 DEF Counted, CountsOf
  <2>4. Holding(k)'
    BY <1>2, <1>3 DEF Counted, Holding, clientVars
  <2>5. Serving(k)'
    BY <1>2, <1>3 DEF Counted, Serving, clientVars, Asked, RxUnattached
  <2>6. ends'[k] = ends[k]
    BY <1>2 DEF clientVars
  <2> QED
    BY <1>3, <2>3, <2>4, <2>5, <2>6 DEF Counted
<1> QED
  BY <1>4, <1>5, <1>6, <1>7 DEF CountInv

LEMMA CrashCounts ==
  ASSUME Types, EndInv, CountInv, Crash
  PROVE  CountInv'
<1>1. /\ UNCHANGED <<clientVars, queue, missed, made, source, pipe>> /\ ~alive' /\ up' \subseteq up
      /\ \A j \in Streams :
           /\ conn'[j] = conn[j] \/ (conn[j] = "asked" /\ conn'[j] = "refused")
                                 \/ (conn[j] = "up" /\ conn'[j] = "eof")
           /\ sub'[j] = "on" => sub[j] = "on"
           /\ rx'[j] = IF rx[j] = "none" THEN "none" ELSE "dropped"
      /\ conn' \in [Streams -> {"none", "asked", "refused", "up", "eof", "shut"}]
      /\ rx' \in [Streams -> {"none", "queued", "attached", "dropped"}]
  BY DEF Crash, CountInv, CountTypes
<1>2. /\ Tidy(down)'
      /\ \A j \in Streams :
           /\ InFlight(j)' \in Nat /\ InFlight(j)' <= InFlight(j)
           /\ Quiet(down, j) => Quiet(down, j)'
  <2>1. PICK n \in 0 .. Len(down) : down' = SubSeq(down, 1, n)
    BY DEF Crash
  <2>2. /\ Tidy(SubSeq(down, 1, n))
        /\ \A j \in Streams :
             /\ Cardinality(Reports(SubSeq(down, 1, n), j)) <= InFlight(j)
             /\ Quiet(down, j) => Quiet(SubSeq(down, 1, n), j)
    BY TidyFirst DEF CountInv, Types, InFlight
  <2>3. \A j \in Streams : Cardinality(Reports(SubSeq(down, 1, n), j)) \in Nat
    BY <2>2, FS_CardinalityType DEF Tidy
  <2> QED
    BY <2>1, <2>2, <2>3 DEF Tidy, InOrder, InFlight, Quiet
<1>3. CountTypes'
  BY <1>1 DEF CountInv, CountTypes, clientVars
<1>4. ASSUME NEW j \in Streams PROVE Counted(j)'
  <2>1. Counted(j)
    BY DEF CountInv
  <2>2. CountsOf(j)'
    <3>1. Sum(j)' <= Sum(j) /\ Sum(j)' \in Nat /\ Sum(j) \in Nat
      <4>1. Sum(j)' = got[j] + pipe[j] + queue[j] + missed[j] + InFlight(j)' + lost[j]
        BY <1>1 DEF Sum, clientVars
      <4>2. /\ InFlight(j) \in Nat /\ got[j] \in Nat /\ pipe[j] \in Nat /\ queue[j] \in Nat
            /\ missed[j] \in Nat /\ lost[j] \in Nat
        BY SumType DEF CountInv
      <4> QED
        BY <1>2, <4>1, <4>2 DEF Sum
    <3>2. made[j] \in Nat
      BY SumType DEF CountInv
    <3> QED
      BY <1>1, <2>1, <3>1, <3>2 DEF Counted, CountsOf
  <2>3. Holding(j)'
    BY <1>1, <2>1 DEF Counted, Holding, clientVars
  <2>4. Serving(j)'
    BY <1>1, <2>1 DEF Counted, Serving, clientVars, Asked
  <2> QED
    BY <1>1, <1>2, <2>1, <2>2, <2>3, <2>4 DEF Counted, clientVars
<1> QED
  BY <1>2, <1>3, <1>4 DEF CountInv

LEMMA CountNext ==
  ASSUME Types, EndInv, CountInv, [Next]_vars
  PROVE  CountInv'
<1>1. CASE UNCHANGED vars
  <2>1. \A j \in Streams : SameCounts(j) /\ SameHolding(j) /\ SameServing(j)
    BY <1>1, DownSame DEF vars, SameCounts, SameHolding, SameServing, clientVars, daemonVars, Asked
  <2>2. CountTypes' /\ Tidy(down)' /\ \A j \in Streams : Quiet(down, j) => Quiet(down, j)'
    BY <1>1, DownSame DEF vars, CountInv, CountTypes, clientVars, daemonVars
  <2> QED
    BY <2>1, <2>2, Untouched DEF CountInv
<1>2. ASSUME NEW k \in Streams, Call(k) \/ GiveUp(k) \/ DropStream(k) \/ Read(k) \/ ProgramStep(k)
      PROVE  CountInv'
  BY <1>2, CallCounts, TakeCounts, OpenCounts, LetGoCounts, ReadCounts, ReadEndCounts
     DEF GiveUp, ProgramStep
<1>3. ASSUME NEW k \in Streams, DaemonStep(k) \/ LateAttach(k) \/ Chunk(k) \/ SourceEnds(k)
      PROVE  CountInv'
  BY <1>3, SubscribeCounts, AnswerCounts, HandleReleaseCounts, AttachCounts, PumpCounts,
     DataEndsCounts, ChunkCounts, SourceEndsCounts DEF DaemonStep
<1> QED
  BY <1>1, <1>2, <1>3, DeliverCounts, LossCounts, CrashCounts DEF Next, TaskStep

-----------------------------------------------------------------------------
(* What the library promises                                               *)

Steps == Stream!Next \/ UNCHANGED Stream!vars

LEMMA StutterSteps ==
  ASSUME UNCHANGED <<made, got, lost, result, alive>>
  PROVE  Steps
  BY DEF Steps, Stream!vars

LEMMA ReadSteps ==
  ASSUME Types, EndInv, CountInv, NEW k \in Streams, Read(k)
  PROVE  Steps
<1>1. result[k] = "no" /\ pipe[k] > 0 /\ got' = [got EXCEPT ![k] = @ + 1]
      /\ UNCHANGED <<made, lost, result, alive>>
  BY DEF Read, daemonVars
<1>2. got[k] + lost[k] < made[k]
  <2>1. Sum(k) <= made[k]
    BY DEF CountInv, Counted, CountsOf
  <2>2. /\ InFlight(k) \in Nat /\ got[k] \in Nat /\ pipe[k] \in Nat /\ queue[k] \in Nat
        /\ missed[k] \in Nat /\ lost[k] \in Nat /\ made[k] \in Nat
    BY SumType DEF CountInv
  <2> QED
    BY <1>1, <2>1, <2>2 DEF Sum
<1> QED
  BY <1>1, <1>2 DEF Steps, Stream!Next, Stream!Read

LEMMA ReadEndSteps ==
  ASSUME Types, EndInv, CountInv, NEW k \in Streams, ReadEnd(k)
  PROVE  Steps
<1>1. /\ UNCHANGED <<made, got, lost, alive>>
      /\ call[k] = "open" /\ result[k] = "no" /\ conn[k] = "eof" /\ pipe[k] = 0
      /\ \/ result' = result
         \/ ends[k] # "pending" /\ result' = [result EXCEPT ![k] = Result(k)]
  BY DEF ReadEnd, daemonVars
<1>2. CASE result' = result
  BY <1>1, <1>2, StutterSteps
<1>3. CASE ends[k] # "pending" /\ result' = [result EXCEPT ![k] = Result(k)]
  <2>1. ends[k] \in {"ended", "failed", "cut"}
    BY <1>1, <1>3 DEF EndInv, Types
  <2>2. CASE ends[k] = "cut"
    <3>1. Result(k) = "cut" /\ ~alive
      BY <2>2 DEF Result, EndInv
    <3>2. Stream!Cut(k)
      BY <1>1, <1>3, <3>1 DEF Stream!Cut
    <3> QED
      BY <3>2 DEF Steps, Stream!Next
  <2>3. CASE ends[k] \in {"ended", "failed"}
    <3>1. Result(k) \in {"eof", "error"}
      BY <2>3 DEF Result
    <3>2. ASSUME alive PROVE got[k] + lost[k] = made[k]
      <4>1. Counted(k) /\ source[k] # "on"
        BY <2>3 DEF CountInv, EndInv
      <4>2. queue[k] = 0 /\ missed[k] = 0 /\ made[k] = Sum(k)
        BY <1>1, <3>2, <4>1 DEF Counted, CountsOf, Serving
      <4>3. InFlight(k) = 0
        <5>1. Quiet(down, k)
          BY <2>3, <4>1 DEF Counted
        <5> QED
          BY <5>1, ReportsNone DEF Quiet, InFlight
      <4>4. got[k] \in Nat /\ lost[k] \in Nat
        BY SumType DEF CountInv
      <4> QED
        BY <1>1, <4>2, <4>3, <4>4 DEF Sum
    <3>3. Stream!End(k)
      BY <1>1, <1>3, <3>1, <3>2 DEF Stream!End
    <3> QED
      BY <3>3 DEF Steps, Stream!Next
  <2> QED
    BY <2>1, <2>2, <2>3
<1> QED
  BY <1>1, <1>2, <1>3

LEMMA DeliverSteps ==
  ASSUME Types, EndInv, CountInv, Deliver
  PROVE  Steps
<1>1. UNCHANGED <<made, got, result, alive>> /\ down \in Seq(Msgs) /\ down # <<>>
  BY DEF Deliver, daemonVars, Types
<1> PICK m \in Msgs : m = Head(down)
  BY <1>1, InTail
<1> PICK k \in Streams : k = m.k
  BY DEF Msgs
<1>2. CASE lost' = lost
  BY <1>1, <1>2, StutterSteps
<1>3. CASE lost' # lost
  <2>1. m.op = "drop" /\ k \in drops /\ lost' = [lost EXCEPT ![k] = @ + m.n]
    BY <1>3 DEF Deliver, AddLost
  <2>2. m.n \in Nat \ {0}
    <3>1. m.n \in Nat /\ lost \in [Streams -> Nat]
      BY DEF Msgs, CountInv, CountTypes
    <3>2. CASE m.n = 0
      <4>1. lost' = lost
        BY <2>1, <3>1, <3>2
      <4> QED
        BY <4>1, <1>3
    <3> QED
      BY <3>1, <3>2
  <2>3. Counted(k)
    BY DEF CountInv
  <2>4. result[k] = "no"
    <3>1. call[k] \in {"attaching", "open"}
      BY <2>1, <2>3 DEF Counted, Holding
    <3>2. ~Quiet(down, k)
      <4>1. 1 \in DOMAIN down /\ down[1] = m
        BY <1>1
      <4> QED
        BY <2>1, <4>1 DEF Quiet
    <3>3. ends[k] \notin {"ended", "failed", "cut"}
      BY <2>3, <3>2 DEF Counted
    <3> QED
      BY <2>3, <3>1, <3>3 DEF Counted, Holding
  <2>5. lost[k] + m.n + got[k] <= made[k] /\ m.n \in 1 .. (made[k] - got[k])
    <3>1. InFlight(k) = m.n + Cardinality(Reports(Tail(down), k)) /\ Tidy(Tail(down))
      <4>1. InFlight(k) = Adds(m, k) + Cardinality(Reports(Tail(down), k)) /\ Tidy(Tail(down))
        BY <1>1, TidyTail DEF CountInv, InFlight
      <4> QED
        BY <2>1, <4>1 DEF Adds
    <3>2. Cardinality(Reports(Tail(down), k)) \in Nat
      BY <3>1, FS_CardinalityType DEF Tidy
    <3>3. /\ got[k] \in Nat /\ pipe[k] \in Nat /\ queue[k] \in Nat
          /\ missed[k] \in Nat /\ lost[k] \in Nat /\ made[k] \in Nat
      BY SumType DEF CountInv
    <3>4. got[k] + pipe[k] + queue[k] + missed[k] + InFlight(k) + lost[k] <= made[k]
      BY <2>3 DEF Counted, CountsOf, Sum
    <3>5. lost[k] + m.n + got[k] <= made[k]
      BY <2>2, <3>1, <3>2, <3>3, <3>4
    <3> QED
      BY <2>2, <3>3, <3>5
  <2>6. Stream!Count(k)
    BY <1>1, <2>1, <2>4, <2>5 DEF Stream!Count
  <2> QED
    BY <2>6 DEF Steps, Stream!Next
<1> QED
  BY <1>2, <1>3

LEMMA ChunkSteps ==
  ASSUME Types, EndInv, CountInv, NEW k \in Streams, Chunk(k)
  PROVE  Steps
<1>1. /\ UNCHANGED <<got, lost, result, alive>> /\ alive /\ sub[k] = "on"
      /\ made' = made \/ made' = [made EXCEPT ![k] = @ + 1]
  BY DEF Chunk, clientVars
<1>2. result[k] = "no"
  <2>1. source[k] = "on" /\ (ends[k] = "cut" => ~alive)
    BY <1>1 DEF EndInv
  <2>2. result[k] \in {"no", "eof", "error", "cut"}
    BY DEF Types
  <2> QED
    BY <1>1, <2>1, <2>2 DEF EndInv, EndIsTrue
<1>3. CASE made' = [made EXCEPT ![k] = @ + 1]
  <2>1. Stream!Make(k)
    BY <1>1, <1>2, <1>3 DEF Stream!Make
  <2> QED
    BY <2>1 DEF Steps, Stream!Next
<1> QED
  BY <1>1, <1>3, StutterSteps

LEMMA NextSteps ==
  ASSUME Types, EndInv, CountInv, [Next]_vars
  PROVE  Steps
<1>1. CASE UNCHANGED vars
  BY <1>1, StutterSteps DEF vars, clientVars, daemonVars
<1>2. ASSUME NEW k \in Streams, Call(k) \/ Take(k) \/ Open(k) PROVE Steps
  BY <1>2, StutterSteps DEF Call, Take, Open, daemonVars
<1>3. ASSUME NEW k \in Streams, GiveUp(k) \/ DropStream(k) \/ AttachFails(k) PROVE Steps
  BY <1>3, StutterSteps DEF GiveUp, DropStream, AttachFails, LetGo, daemonVars
<1>4. ASSUME NEW k \in Streams, DaemonStep(k) \/ LateAttach(k) \/ SourceEnds(k) PROVE Steps
  BY <1>4, StutterSteps
     DEF DaemonStep, Subscribe, Refuse, Answer, HandleRelease, Attach, Pump, DataEnds, LateAttach,
         SourceEnds, clientVars, daemonVars
<1>5. CASE ReaderEnds \/ WriterEnds
  BY <1>5, StutterSteps DEF ReaderEnds, WriterEnds, daemonVars
<1>6. CASE Crash
  <2>1. Stream!Crash
    BY <1>6 DEF Crash, Stream!Crash, clientVars
  <2> QED
    BY <2>1 DEF Steps, Stream!Next
<1> QED
  BY <1>1, <1>2, <1>3, <1>4, <1>5, <1>6, ReadSteps, ReadEndSteps, DeliverSteps, ChunkSteps
     DEF Next, ProgramStep, TaskStep

-----------------------------------------------------------------------------
(* The invariant                                                           *)

IInv == Types /\ EndInv /\ CountInv

\* The inductive invariant holds: the session of a stream is started once, what
\* tells of the end of its source tells of how it ended and is behind what tells
\* of its losses, and the chunks counted are the chunks there were.
THEOREM InvHolds == Spec => []IInv
<1>1. Init => IInv
  BY TypesInit, EndInit, CountInit DEF IInv
<1>2. IInv /\ [Next]_vars => IInv'
  BY TypesNext, EndNext, CountNext DEF IInv
<1> QED
  BY <1>1, <1>2, PTL DEF Spec

\* However answers, events, data and the loss of tunelithd are ordered, a read
\* finds the end of a stream only if there is one, and fails if and only if it
\* failed (lib.rs 438-465).
THEOREM EndIsTrueHolds == Spec => []EndIsTrue
<1>1. IInv => EndIsTrue
  BY DEF IInv, EndInv
<1> QED
  BY <1>1, InvHolds, PTL

\* Whatever the sizes of the channel and the socket, no chunk of a stream with a
\* data connection goes missing uncounted and none is counted twice
\* (main.rs 316-328, 547-558; lib.rs 217-221).
THEOREM AccountedHolds == Spec => []Accounted
<1>1. IInv => Accounted
  BY DEF IInv, CountInv, Counted, CountsOf, Sum, Accounted
<1> QED
  BY <1>1, InvHolds, PTL

\* The library and tunelithd implement what the library promises of a stream:
\* its bytes are read or counted, and its end is told once all of them were,
\* unless tunelithd is lost (lib.rs 206-225, 438-465).
THEOREM ImplementsStream == Spec => StreamSpec
<1>1. Init => Stream!Init
  BY DEF Init, Stream!Init, All
<1>2. IInv /\ [Next]_vars => [Stream!Next]_(Stream!vars)
  BY NextSteps DEF IInv, Steps
<1> QED
  BY <1>1, <1>2, InvHolds, PTL DEF Spec, StreamSpec, Stream!Spec

=============================================================================
