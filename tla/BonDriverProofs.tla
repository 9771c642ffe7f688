-------------------------- MODULE BonDriverProofs --------------------------
(***************************************************************************)
(* Proofs about BonDriver, for any number of threads, streams and opens,   *)
(* and a queue of any length.                                              *)
(***************************************************************************)
EXTENDS BonDriver, TLAPS

InControl == {"connect", "join", "clear", "acquire", "signal", "install"}

\* The mutexes have the one owner that is where it should be.
Locked ==
  \A i \in Threads :
    /\ control = i <=> pc[i] \in InControl
    /\ data = i <=> pc[i] = "wait"

\* What a call knows of the control, which only it changes.
CallKnows(i) ==
  /\ pc[i] = "connect" => ~client /\ opens < MaxOpens
  /\ pc[i] \in InControl \ {"connect"} => receiver = 0
  /\ pc[i] \in {"join", "clear"} =>
       leaver # "none" /\ (leaver = "set" => made < MaxStreams)
  /\ pc[i] = "join" <=> control = i /\ joining # 0
  /\ pc[i] \in {"acquire", "signal", "install"} => client /\ current = 0
  /\ pc[i] = "acquire" => made < MaxStreams
  /\ pc[i] \in {"signal", "install"} => made > 0

ControlInv ==
  /\ Locked
  /\ \A i \in Threads : CallKnows(i)
  /\ control = None => joining = 0
  /\ {receiver, joining} \subseteq {0, current}
  /\ client <=> runtime # 0

\* A stream is released, received, left, or about to be received.
New(s) == s = made /\ \E i \in Threads : pc[i] \in {"signal", "install"}

TaskInv ==
  /\ released = {s \in Streams : task[s] = "ended"}
  /\ \A s \in Streams :
       IF s > made THEN task[s] = "none"
       ELSE s \in released \/ s \in {receiver, joining} \/ New(s)
  /\ \A i \in Threads : pc[i] = "signal" => task[made] = "none"

ChannelInv ==
  /\ {chunks, pending} \subseteq {0, current}
  /\ \/ level \in {0, current}
     \/ level = made /\ (\E i \in Threads : pc[i] = "install")

RuntimeInv ==
  /\ chunks # 0 => handle # 0
  /\ handle # 0 => handle = runtime
  /\ \A i \in Threads : pc[i] = "wait" => chunks # 0

\* Each way a thread or a task can take a step.
LEMMA NextCases ==
  ASSUME Next
  PROVE  \/ \E i \in Threads : \/ Open(i) \/ Close(i) \/ SetChannel(i)
                               \/ Connected(i) \/ ConnectFails(i)
                               \/ Join(i) \/ Closed(i) \/ ToAcquire(i)
                               \/ Acquired(i) \/ AcquireFails(i)
                               \/ Signalled(i) \/ Install(i)
         \/ \E i \in Threads : \/ Wait(i) \/ WaitGets(i) \/ WaitAbandoned(i)
                               \/ WaitTimesOut(i) \/ GetTsStream(i)
                               \/ GetTsStreamPtr(i) \/ PurgeTsStream(i)
         \/ \E s \in Streams : \/ Received(s) \/ Tick(s)
                               \/ StreamEnds(s) \/ AbortTakesEffect(s)
BY DEF Next, ControlStep, WaitStep

-----------------------------------------------------------------------------
(* Types and the control *)

LEMMA TypeInit == Init => TypeOK
<1> SUFFICES ASSUME Init PROVE TypeOK
  OBVIOUS
<1>1. 0 \in 0..QUEUE /\ 0 \in 0..MaxStreams /\ 0 \in 0..MaxOpens
  BY BoundsAssumption
<1>2. queue \in [Streams -> 0..QUEUE]
  BY <1>1 DEF Init
<1>3. task \in [Streams -> {"none", "runs", "aborted", "ended"}]
  BY DEF Init
<1>4. QED
  BY <1>1, <1>2, <1>3 DEF Init, TypeOK, PC

LEMMA ControlInit == Init => ControlInv
BY NoneAssumption DEF Init, ControlInv, Locked, CallKnows, InControl

\* The types, with what is known of the stream and the opens there are yet to be.
LEMMA TypeStep == TypeOK /\ ControlInv /\ [Next]_vars => TypeOK'
<1> SUFFICES ASSUME TypeOK, ControlInv, [Next]_vars
             PROVE  TypeOK'
  OBVIOUS
<1> USE BoundsAssumption DEF Streams, Runtimes
<1>1. CASE UNCHANGED vars
  BY <1>1 DEF TypeOK, vars, controlVars, dataVars, counters
<1>2. ASSUME NEW i \in Threads,
             Open(i) \/ Connected(i) \/ ConnectFails(i) \/ AcquireFails(i)
      PROVE  TypeOK'
  <2>1. CASE Connected(i)
    <3>1. opens + 1 \in 1..MaxOpens /\ opens + 1 \in 0..MaxOpens
      BY <2>1 DEF TypeOK, ControlInv, CallKnows, Connected
    <3>2. QED
      BY <2>1, <3>1 DEF TypeOK, PC, Connected, Return, Goto, dataVars
  <2>2. CASE ~Connected(i)
    BY <1>2, <2>2 DEF TypeOK, PC, Open, ConnectFails, AcquireFails, Return, Goto,
       controlVars, dataVars, counters
  <2>3. QED
    BY <2>1, <2>2
<1>3. ASSUME NEW i \in Threads, Acquired(i) PROVE TypeOK'
  <2>1. made + 1 \in 0..MaxStreams
    BY <1>3 DEF TypeOK, ControlInv, CallKnows, Acquired
  <2>2. QED
    BY <1>3, <2>1 DEF TypeOK, PC, Acquired, Goto, controlVars, dataVars
<1>4. ASSUME NEW i \in Threads, Close(i) \/ SetChannel(i) PROVE TypeOK'
  <2>1. PICK c \in {"close", "set"} : Leave(i, c)
    BY <1>4 DEF Close, SetChannel
  <2>2. task' \in [Streams -> {"none", "runs", "aborted", "ended"}]
    BY <2>1 DEF TypeOK, Leave, Aborted
  <2>3. pc' \in [Threads -> PC]
    BY <2>1 DEF TypeOK, PC, Leave, Goto
  <2>4. control' = i /\ leaver' = c /\ receiver' = 0 /\ joining' = receiver
    BY <2>1 DEF Leave
  <2>5. UNCHANGED <<runtime, client, current, data, dataVars, level, queue, released,
                    counters>>
    BY <2>1 DEF Leave
  <2>6. QED
    BY <2>2, <2>3, <2>4, <2>5 DEF TypeOK, dataVars, counters
<1>5. ASSUME NEW i \in Threads, Join(i) \/ Closed(i) \/ ToAcquire(i) PROVE TypeOK'
  BY <1>5 DEF TypeOK, PC, Join, Closed, ToAcquire, Left, Clear, Return, Goto,
     dataVars, counters
<1>6. ASSUME NEW i \in Threads, Signalled(i) PROVE TypeOK'
  BY <1>6 DEF TypeOK, ControlInv, CallKnows, PC, Signalled, Goto, controlVars,
     dataVars, counters
<1>7. ASSUME NEW i \in Threads, Install(i) PROVE TypeOK'
  BY <1>7 DEF TypeOK, ControlInv, CallKnows, PC, Install, Return, Goto, counters
<1>8. ASSUME NEW i \in Threads,
             \/ Wait(i) \/ WaitGets(i) \/ WaitAbandoned(i) \/ WaitTimesOut(i)
             \/ GetTsStream(i) \/ GetTsStreamPtr(i) \/ PurgeTsStream(i)
      PROVE  TypeOK'
  <2>1. Queued => [queue EXCEPT ![chunks] = @ - 1] \in [Streams -> 0..QUEUE]
    <3> SUFFICES ASSUME Queued
                 PROVE  [queue EXCEPT ![chunks] = @ - 1] \in [Streams -> 0..QUEUE]
      OBVIOUS
    <3>1. chunks \in Streams /\ queue[chunks] \in 0..QUEUE
      BY DEF TypeOK, Queued
    <3>2. queue[chunks] - 1 \in 0..QUEUE
      BY <3>1 DEF Queued
    <3>3. QED
      BY <3>2 DEF TypeOK
  <2>2. CASE Wait(i) \/ WaitAbandoned(i) \/ WaitTimesOut(i)
    BY <2>2 DEF TypeOK, PC, Wait, WaitEnds, WaitAbandoned, WaitTimesOut, Goto,
       controlVars, dataVars, counters
  <2>3. CASE WaitGets(i)
    BY <2>1, <2>3 DEF TypeOK, PC, WaitEnds, WaitGets, Goto, controlVars, counters
  <2>4. CASE GetTsStream(i) \/ GetTsStreamPtr(i)
    <3>1. queue' \in [Streams -> 0..QUEUE] /\ pending' \in {0, pending}
      BY <2>1, <2>4 DEF TypeOK, GetTsStream, GetTsStreamPtr, NextChunk, NoChunk
    <3>2. lent' \in {"none", "alive", "freed"}
      BY <2>4 DEF TypeOK, GetTsStream, GetTsStreamPtr
    <3>3. QED
      BY <2>4, <3>1, <3>2 DEF TypeOK, GetTsStream, GetTsStreamPtr, controlVars, counters
  <2>5. CASE PurgeTsStream(i)
    <3>0. 0 \in 0..QUEUE
      BY BoundsAssumption
    <3>1. queue' \in [Streams -> 0..QUEUE]
      BY <2>5, <3>0, SMTT(30) DEF TypeOK, PurgeTsStream
    <3>2. QED
      BY <2>5, <3>1 DEF TypeOK, PurgeTsStream, controlVars, counters
  <2>6. QED
    BY <1>8, <2>2, <2>3, <2>4, <2>5
<1>9. ASSUME NEW s \in Streams,
             Received(s) \/ Tick(s) \/ StreamEnds(s) \/ AbortTakesEffect(s)
      PROVE  TypeOK'
  <2>1. Received(s) => queue' \in [Streams -> 0..QUEUE]
    BY DEF TypeOK, Received, Room
  <2>2. CASE Received(s)
    BY <2>1, <2>2 DEF TypeOK, Received, controlVars, dataVars, counters
  <2>3. CASE Tick(s)
    BY <2>3 DEF TypeOK, Tick, controlVars, dataVars, counters
  <2>4. CASE TaskEnds(s)
    BY <2>4 DEF TypeOK, TaskEnds, controlVars, dataVars, counters
  <2>5. QED
    BY <1>9, <2>2, <2>3, <2>4 DEF StreamEnds, AbortTakesEffect
<1>10. QED
  BY <1>1, <1>2, <1>3, <1>4, <1>5, <1>6, <1>7, <1>8, <1>9, NextCases

\* A thread that has the control is the only one in a call of it.
LEMMA ControlInvStep == TypeOK /\ ControlInv /\ [Next]_vars => ControlInv'
<1> SUFFICES ASSUME TypeOK, ControlInv, [Next]_vars
             PROVE  ControlInv'
  OBVIOUS
<1> USE NoneAssumption DEF TypeOK, ControlInv, Locked, CallKnows, InControl
<1>1. CASE UNCHANGED vars
  BY <1>1 DEF vars, controlVars, dataVars, counters
<1>2. ASSUME NEW i \in Threads, Open(i) \/ Connected(i) \/ ConnectFails(i)
      PROVE  ControlInv'
  BY <1>2, BoundsAssumption DEF Open, Connected, ConnectFails, Return, Goto,
     controlVars, dataVars, counters
<1>3. ASSUME NEW i \in Threads, Close(i) \/ SetChannel(i) PROVE ControlInv'
  BY <1>3 DEF Close, SetChannel, Leave, Goto, dataVars, counters
<1>4. ASSUME NEW i \in Threads, Join(i) PROVE ControlInv'
  BY <1>4 DEF Join, Goto, dataVars, counters
<1>5. ASSUME NEW i \in Threads, Closed(i) \/ ToAcquire(i) PROVE ControlInv'
  BY <1>5 DEF Closed, ToAcquire, Left, Return, Goto, dataVars, counters
<1>6. ASSUME NEW i \in Threads,
             Acquired(i) \/ AcquireFails(i) \/ Signalled(i) \/ Install(i)
      PROVE  ControlInv'
  BY <1>6, BoundsAssumption DEF Acquired, AcquireFails, Signalled, Install, Return,
     Goto, controlVars, dataVars, counters
<1>7. ASSUME NEW i \in Threads,
             \/ Wait(i) \/ WaitGets(i) \/ WaitAbandoned(i) \/ WaitTimesOut(i)
             \/ GetTsStream(i) \/ GetTsStreamPtr(i) \/ PurgeTsStream(i)
      PROVE  ControlInv'
  BY <1>7 DEF Wait, WaitEnds, WaitGets, WaitAbandoned, WaitTimesOut, GetTsStream,
     GetTsStreamPtr, PurgeTsStream, DataIsFree, Goto, controlVars, dataVars, counters
<1>8. ASSUME NEW s \in Streams,
             Received(s) \/ Tick(s) \/ StreamEnds(s) \/ AbortTakesEffect(s)
      PROVE  ControlInv'
  BY <1>8 DEF Received, Tick, StreamEnds, AbortTakesEffect, TaskEnds, controlVars,
     dataVars, counters
<1>9. QED
  BY <1>1, <1>2, <1>3, <1>4, <1>5, <1>6, <1>7, <1>8, NextCases

\* Every count, place and stream is of its type, however calls of the threads
\* and steps of the tasks interleave (lib.rs 167-300).
THEOREM TypesHold == Spec => []TypeOK
<1>1. Init => TypeOK /\ ControlInv
  BY TypeInit, ControlInit
<1>2. TypeOK /\ ControlInv /\ [Next]_vars => (TypeOK /\ ControlInv)'
  BY TypeStep, ControlInvStep
<1>3. QED
  BY <1>1, <1>2, PTL DEF Spec

-----------------------------------------------------------------------------
(* The tasks *)

LEMMA TaskInit == Init => TaskInv
BY BoundsAssumption DEF Init, TaskInv, Streams

\* Only the thread that has the control makes, leaves and waits for a task.
LEMMA TaskStep == TypeOK /\ ControlInv /\ TaskInv /\ [Next]_vars => TaskInv'
<1> SUFFICES ASSUME TypeOK, ControlInv, TaskInv, [Next]_vars
             PROVE  TaskInv'
  OBVIOUS
<1> USE BoundsAssumption, NoneAssumption
    DEF TypeOK, ControlInv, Locked, CallKnows, InControl, TaskInv, New, Streams
<1>1. CASE UNCHANGED vars
  BY <1>1 DEF vars, controlVars, dataVars, counters
<1>2. ASSUME NEW i \in Threads, Open(i) \/ Connected(i) \/ ConnectFails(i)
      PROVE  TaskInv'
  <2>1. UNCHANGED <<receiver, joining, task, released, made>>
    BY <1>2 DEF Open, Connected, ConnectFails, controlVars, counters
  <2>2. \A j \in Threads : /\ pc[j] \notin {"signal", "install"}
                           /\ pc'[j] \notin {"signal", "install"}
    BY <1>2 DEF Open, Connected, ConnectFails, Return, Goto
  <2>3. QED
    BY <2>1, <2>2
<1>3. ASSUME NEW i \in Threads, Close(i) \/ SetChannel(i) PROVE TaskInv'
  <2>1. /\ released' = released /\ made' = made
        /\ receiver' = 0 /\ joining' = receiver /\ joining = 0
        /\ \A j \in Threads : pc[j] \notin {"signal", "install"}
                              /\ pc'[j] \notin {"signal", "install"}
    BY <1>3 DEF Close, SetChannel, Leave, Goto, counters
  <2>2. task' = IF receiver # 0 THEN Aborted(receiver) ELSE task
    BY <1>3 DEF Close, SetChannel, Leave
  <2>3. \A s \in Streams : /\ task'[s] = "ended" <=> task[s] = "ended"
                           /\ task'[s] = "none" <=> task[s] = "none"
    BY <2>2 DEF Aborted
  <2>4. QED
    BY <2>1, <2>3
<1>4. ASSUME NEW i \in Threads, Join(i) PROVE TaskInv'
  BY <1>4 DEF Join, Joined, Goto, dataVars, counters
<1>5. ASSUME NEW i \in Threads, Closed(i) \/ ToAcquire(i) PROVE TaskInv'
  <2>1. \A j \in Threads : /\ pc[j] \notin {"signal", "install"}
                           /\ pc'[j] \notin {"signal", "install"}
    BY <1>5 DEF Closed, ToAcquire, Left, Return, Goto
  <2>2. UNCHANGED <<receiver, joining, made, released, task>>
    BY <1>5 DEF Closed, ToAcquire, Left, counters
  <2>3. QED
    BY <2>1, <2>2
<1>6. ASSUME NEW i \in Threads, Acquired(i) \/ AcquireFails(i) PROVE TaskInv'
  <2>1. /\ \A j \in Threads : pc[j] \notin {"signal", "install"}
        /\ UNCHANGED <<receiver, joining, released, task>>
    BY <1>6 DEF Acquired, AcquireFails, controlVars
  <2>2. CASE Acquired(i)
    <3>1. made' = made + 1 /\ pc'[i] = "signal"
      BY <2>2 DEF Acquired, Goto
    <3>2. \A s \in Streams : s > made' => s > made
      BY <3>1
    <3>3. \A s \in Streams : ~(s > made') => ~(s > made) \/ (s = made' /\ New(s)')
      BY <3>1
    <3>4. made' \in Streams /\ task[made'] = "none"
      BY <2>2, <3>1, SMTT(30) DEF Acquired
    <3>5. QED
      BY <2>1, <3>1, <3>2, <3>3, <3>4
  <2>3. CASE AcquireFails(i)
    <3>1. \A j \in Threads : pc'[j] \notin {"signal", "install"}
      BY <2>1, <2>3 DEF AcquireFails, Return, Goto
    <3>2. QED
      BY <2>1, <2>3, <3>1 DEF AcquireFails, counters
  <2>4. QED
    BY <1>6, <2>2, <2>3
<1>7. ASSUME NEW i \in Threads, Signalled(i) PROVE TaskInv'
  BY <1>7 DEF Signalled, Goto, controlVars, dataVars, counters
<1>8. ASSUME NEW i \in Threads, Install(i) PROVE TaskInv'
  BY <1>8 DEF Install, Return, Goto, dataVars, counters
<1>9. ASSUME NEW i \in Threads,
             \/ Wait(i) \/ WaitGets(i) \/ WaitAbandoned(i) \/ WaitTimesOut(i)
             \/ GetTsStream(i) \/ GetTsStreamPtr(i) \/ PurgeTsStream(i)
      PROVE  TaskInv'
  <2>1. UNCHANGED <<receiver, joining, task, released, made>>
    BY <1>9 DEF Wait, WaitGets, WaitAbandoned, WaitTimesOut, GetTsStream,
       GetTsStreamPtr, PurgeTsStream, controlVars, counters
  <2>2. \A j \in Threads : /\ pc[j] = "signal" <=> pc'[j] = "signal"
                           /\ pc[j] = "install" <=> pc'[j] = "install"
    BY <1>9 DEF Wait, WaitEnds, WaitGets, WaitAbandoned, WaitTimesOut, GetTsStream,
       GetTsStreamPtr, PurgeTsStream, Goto
  <2>3. QED
    BY <2>1, <2>2
<1>10. ASSUME NEW s \in Streams,
              Received(s) \/ Tick(s) \/ StreamEnds(s) \/ AbortTakesEffect(s)
       PROVE  TaskInv'
  <2>1. UNCHANGED <<pc, receiver, joining, made>>
    BY <1>10 DEF Received, Tick, StreamEnds, AbortTakesEffect, TaskEnds, controlVars,
       counters
  <2>2. CASE Received(s) \/ Tick(s)
    BY <2>1, <2>2 DEF Received, Tick
  <2>3. CASE StreamEnds(s) \/ AbortTakesEffect(s)
    <3>1. /\ task[s] \in {"runs", "aborted"}
          /\ task' = [task EXCEPT ![s] = "ended"]
          /\ released' = released \cup {s}
      BY <2>3 DEF StreamEnds, AbortTakesEffect, TaskEnds
    <3>2. ~(s > made) /\ \A i \in Threads : pc[i] = "signal" => s # made
      BY <3>1
    <3>3. released' = {r \in Streams : task'[r] = "ended"}
      BY <3>1
    <3>4. QED
      BY <2>1, <3>1, <3>2, <3>3
  <2>4. QED
    BY <1>10, <2>2, <2>3
<1>11. QED
  BY <1>1, <1>2, <1>3, <1>4, <1>5, <1>6, <1>7, <1>8, <1>9, <1>10, NextCases

LEMMA TaskHolds == Spec => [](TypeOK /\ ControlInv /\ TaskInv)
<1>1. TypeOK /\ ControlInv /\ TaskInv /\ [Next]_vars
        => (TypeOK /\ ControlInv /\ TaskInv)'
  BY TypeStep, ControlInvStep, TaskStep
<1>2. Init => TypeOK /\ ControlInv /\ TaskInv
  BY TypeInit, ControlInit, TaskInit
<1>3. QED
  BY <1>1, <1>2, PTL DEF Spec

\* A channel is acquired only after every stream before was released, whichever
\* threads set channels and close, and however late an abort takes effect
\* (lib.rs 185-195, 216-224).
THEOREM ReleasedBeforeNextHolds == Spec => []ReleasedBeforeNext
<1>1. TypeOK /\ ControlInv /\ TaskInv => ReleasedBeforeNext
  <2> SUFFICES ASSUME TypeOK, ControlInv, TaskInv, NEW i \in Threads, pc[i] = "acquire"
               PROVE  released = 1..made
    BY DEF ReleasedBeforeNext
  <2>1. /\ receiver = 0 /\ joining = 0
        /\ \A j \in Threads : pc[j] \notin {"signal", "install"}
    BY NoneAssumption DEF ControlInv, Locked, CallKnows, InControl
  <2>2. \A s \in Streams : s \in released <=> ~(s > made)
    BY <2>1 DEF TaskInv, New, Streams
  <2>3. made \in Nat /\ made <= MaxStreams /\ released \subseteq 1..MaxStreams
    BY BoundsAssumption DEF TypeOK, Streams
  <2>4. \A s \in released : s \in 1..made
    BY <2>2, <2>3 DEF Streams
  <2>5. \A s \in 1..made : s \in Streams /\ s \in released
    BY <2>2, <2>3, BoundsAssumption DEF Streams
  <2>6. QED
    BY <2>4, <2>5
<1>2. QED
  BY <1>1, TaskHolds, PTL

-----------------------------------------------------------------------------
(* The data *)

LEMMA ChannelInit == Init => ChannelInv
BY DEF Init, ChannelInv

\* What is left of a channel is gone with it, as is the task that could bring more.
LEMMA ChannelStep ==
  TypeOK /\ ControlInv /\ TaskInv /\ ChannelInv /\ [Next]_vars => ChannelInv'
<1> SUFFICES ASSUME TypeOK, ControlInv, TaskInv, ChannelInv, [Next]_vars
             PROVE  ChannelInv'
  OBVIOUS
<1> USE NoneAssumption DEF TypeOK, ControlInv, Locked, CallKnows, InControl, ChannelInv
<1>1. CASE UNCHANGED vars
  BY <1>1 DEF vars, controlVars, dataVars, counters
<1>2. ASSUME NEW i \in Threads,
             \/ Open(i) \/ Connected(i) \/ ConnectFails(i)
             \/ Close(i) \/ SetChannel(i) \/ Join(i)
      PROVE  ChannelInv'
  BY <1>2 DEF Open, Connected, ConnectFails, Close, SetChannel, Leave, Join, Return,
     Goto, controlVars, dataVars, counters
<1>3. ASSUME NEW i \in Threads, Closed(i) \/ ToAcquire(i) PROVE ChannelInv'
  BY <1>3 DEF Closed, ToAcquire, Left, Clear
<1>4. ASSUME NEW i \in Threads, Acquired(i) \/ AcquireFails(i) PROVE ChannelInv'
  BY <1>4 DEF Acquired, AcquireFails, controlVars, dataVars
<1>5. ASSUME NEW i \in Threads, Signalled(i) PROVE ChannelInv'
  BY <1>5 DEF Signalled, Goto, controlVars, dataVars, counters
<1>6. ASSUME NEW i \in Threads, Install(i) PROVE ChannelInv'
  BY <1>6 DEF Install
<1>7. ASSUME NEW i \in Threads,
             \/ Wait(i) \/ WaitGets(i) \/ WaitAbandoned(i) \/ WaitTimesOut(i)
             \/ GetTsStream(i) \/ GetTsStreamPtr(i) \/ PurgeTsStream(i)
      PROVE  ChannelInv'
  <2>1. /\ chunks' = chunks /\ pending' \in {0, pending, chunks}
        /\ UNCHANGED <<control, current, level, made>>
    BY <1>7 DEF Wait, WaitGets, WaitAbandoned, WaitTimesOut, GetTsStream,
       GetTsStreamPtr, PurgeTsStream, NextChunk, NoChunk, controlVars, dataVars, counters
  <2>2. \A j \in Threads : pc[j] = "install" <=> pc'[j] = "install"
    BY <1>7 DEF Wait, WaitEnds, WaitGets, WaitAbandoned, WaitTimesOut, GetTsStream,
       GetTsStreamPtr, PurgeTsStream, Goto
  <2>3. QED
    BY <2>1, <2>2
<1>8. ASSUME NEW s \in Streams, Tick(s) PROVE ChannelInv'
  <2>1. level' = s /\ task[s] \in {"runs", "aborted"}
        /\ UNCHANGED <<pc, controlVars, dataVars, counters>>
    BY <1>8 DEF Tick, Runs
  <2>2. s \in {receiver, joining} \/ (s = made /\ \E i \in Threads : pc[i] = "install")
    BY <2>1 DEF TaskInv, New, Streams
  <2>3. QED
    BY <2>1, <2>2 DEF controlVars, dataVars, counters
<1>9. ASSUME NEW s \in Streams, Received(s) \/ StreamEnds(s) \/ AbortTakesEffect(s)
      PROVE  ChannelInv'
  BY <1>9 DEF Received, StreamEnds, AbortTakesEffect, TaskEnds, controlVars, dataVars,
     counters
<1>10. QED
  BY <1>1, <1>2, <1>3, <1>4, <1>5, <1>6, <1>7, <1>8, <1>9, NextCases

\* Once a SetChannel or CloseTuner returned, nothing the host is handed or told
\* is of a channel before (lib.rs 187-195, 232-236, 293-297).
THEOREM OfTheChannelHolds == Spec => []OfTheChannel
<1> DEFINE Inv == TypeOK /\ ControlInv /\ TaskInv /\ ChannelInv
<1>1. Init => Inv
  BY TypeInit, ControlInit, TaskInit, ChannelInit
<1>2. Inv /\ [Next]_vars => Inv'
  BY TypeStep, ControlInvStep, TaskStep, ChannelStep
<1>3. Inv => OfTheChannel
  BY NoneAssumption DEF ControlInv, Locked, InControl, ChannelInv, OfTheChannel
<1>4. QED
  BY <1>1, <1>2, <1>3, PTL DEF Spec

LEMMA RuntimeInit == Init => RuntimeInv
BY DEF Init, RuntimeInv

\* A runtime is built when no handle is left, and goes after its handles.
LEMMA RuntimeStep == TypeOK /\ ControlInv /\ RuntimeInv /\ [Next]_vars => RuntimeInv'
<1> SUFFICES ASSUME TypeOK, ControlInv, RuntimeInv, [Next]_vars
             PROVE  RuntimeInv'
  OBVIOUS
<1> USE NoneAssumption DEF TypeOK, ControlInv, Locked, CallKnows, InControl, RuntimeInv
<1>1. CASE UNCHANGED vars
  BY <1>1 DEF vars, controlVars, dataVars, counters
<1>2. ASSUME NEW i \in Threads,
             \/ Open(i) \/ Connected(i) \/ ConnectFails(i)
             \/ Close(i) \/ SetChannel(i) \/ Join(i)
      PROVE  RuntimeInv'
  BY <1>2 DEF Open, Connected, ConnectFails, Close, SetChannel, Leave, Join, Return,
     Goto, controlVars, dataVars, counters
<1>3. ASSUME NEW i \in Threads, Closed(i) \/ ToAcquire(i) PROVE RuntimeInv'
  BY <1>3 DEF Closed, ToAcquire, Left, Clear, DataIsFree, Return, Goto
<1>4. ASSUME NEW i \in Threads, Acquired(i) \/ AcquireFails(i) \/ Signalled(i)
      PROVE  RuntimeInv'
  BY <1>4 DEF Acquired, AcquireFails, Signalled, Return, Goto, controlVars, dataVars
<1>5. ASSUME NEW i \in Threads, Install(i) PROVE RuntimeInv'
  BY <1>5 DEF Install, DataIsFree, Return, Goto
<1>6. ASSUME NEW i \in Threads,
             \/ Wait(i) \/ WaitGets(i) \/ WaitAbandoned(i) \/ WaitTimesOut(i)
             \/ GetTsStream(i) \/ GetTsStreamPtr(i) \/ PurgeTsStream(i)
      PROVE  RuntimeInv'
  BY <1>6 DEF Wait, WaitEnds, WaitGets, WaitAbandoned, WaitTimesOut, GetTsStream,
     GetTsStreamPtr, PurgeTsStream, Goto, controlVars, dataVars
<1>7. ASSUME NEW s \in Streams,
             Received(s) \/ Tick(s) \/ StreamEnds(s) \/ AbortTakesEffect(s)
      PROVE  RuntimeInv'
  BY <1>7 DEF Received, Tick, StreamEnds, AbortTakesEffect, TaskEnds, controlVars,
     dataVars
<1>8. QED
  BY <1>1, <1>2, <1>3, <1>4, <1>5, <1>6, <1>7, NextCases

\* No runtime is shut down while a thread waits on a handle of it, as who closes
\* needs the data first (lib.rs 193, 197-204, 262).
THEOREM WaitsOnLiveRuntimeHolds == Spec => []WaitsOnLiveRuntime
<1> DEFINE Inv == TypeOK /\ ControlInv /\ RuntimeInv
<1>1. Init => Inv
  BY TypeInit, ControlInit, RuntimeInit
<1>2. Inv /\ [Next]_vars => Inv'
  BY TypeStep, ControlInvStep, RuntimeStep
<1>3. Inv => WaitsOnLiveRuntime
  BY DEF RuntimeInv, WaitsOnLiveRuntime
<1>4. QED
  BY <1>1, <1>2, <1>3, PTL DEF Spec

=============================================================================
