----------------------------- MODULE BonDriver -----------------------------
(***************************************************************************)
(* BonDriver_Tunelith (tunelith-bondriver/src/lib.rs): the threads of a    *)
(* host call one object, whose Control and Data are behind a mutex each,   *)
(* while a task of its runtime receives the stream.                        *)
(*                                                                         *)
(* What needs no other lock and waits for nothing while it has one is one  *)
(* action.  A call that changes nothing is left out: one that finds the    *)
(* tuner open already, a channel that is not in the configuration, a wait  *)
(* that returns at once, and whatever only reads.                          *)
(***************************************************************************)
EXTENDS Naturals, FiniteSets

CONSTANTS
  Threads,     \* of the host
  MaxStreams,  \* a bound on the streams acquired
  MaxOpens,    \* and on the times the tuner is opened
  QUEUE,
  None

ASSUME BoundsAssumption ==
  MaxStreams \in Nat /\ MaxOpens \in Nat /\ QUEUE \in Nat \ {0}
ASSUME NoneAssumption == None \notin Threads

Streams  == 1..MaxStreams  \* in the order acquired; 0 is none
Runtimes == 1..MaxOpens    \* in the order built; 0 is none

VARIABLES
  pc,        \* where a thread is in its call
  \* BonDriver::control, and who has it locked
  control,
  runtime,
  client,
  receiver,  \* the stream of the task
  current,   \* the stream of the channel
  joining,   \* the task leave() waits for, having taken it from receiver
  leaver,    \* the call in leave(): "none", "close" or "set"
  \* BonDriver::data, and who has it locked
  data,
  handle,
  chunks,    \* the stream of the queue
  pending,   \* the stream of the chunk
  lent,      \* the chunk the host has a pointer to: "none", "alive", or
             \* "freed" before it asked for another
  \* the rest
  level,     \* the stream whose signal it is
  task,      \* receive(): "none", "runs", "aborted", to end as it next yields,
             \* or "ended"
  queue,     \* the chunks in the queue of a stream
  released,  \* the streams whose release was sent
  made, opens

controlVars == <<runtime, client, receiver, current, joining, leaver>>
dataVars == <<handle, chunks, pending, lent>>
counters == <<made, opens>>
vars == <<pc, control, controlVars, data, dataVars, level, task, queue, released,
          counters>>

PC == {"idle", "connect", "join", "clear", "acquire", "signal", "install", "wait"}

TypeOK ==
  /\ pc \in [Threads -> PC]
  /\ control \in Threads \cup {None} /\ data \in Threads \cup {None}
  /\ runtime \in {0} \cup Runtimes /\ handle \in {0} \cup Runtimes
  /\ client \in BOOLEAN /\ leaver \in {"none", "close", "set"}
  /\ {receiver, current, joining, chunks, pending, level} \subseteq {0} \cup Streams
  /\ lent \in {"none", "alive", "freed"}
  /\ task \in [Streams -> {"none", "runs", "aborted", "ended"}]
  /\ queue \in [Streams -> 0..QUEUE]
  /\ released \subseteq Streams
  /\ made \in 0..MaxStreams /\ opens \in 0..MaxOpens

Init ==
  /\ pc = [i \in Threads |-> "idle"]
  /\ control = None /\ data = None
  /\ runtime = 0 /\ client = FALSE /\ receiver = 0 /\ current = 0
  /\ joining = 0 /\ leaver = "none"
  /\ handle = 0 /\ chunks = 0 /\ pending = 0 /\ lent = "none"
  /\ level = 0
  /\ task = [s \in Streams |-> "none"] /\ queue = [s \in Streams |-> 0]
  /\ released = {}
  /\ made = 0 /\ opens = 0

-----------------------------------------------------------------------------

Goto(i, l) == pc' = [pc EXCEPT ![i] = l]

\* A call of the control ends, and with it its lock.
Return(i) == Goto(i, "idle") /\ control' = None

\* Mutant: the lock of the data is not waited for.
DataIgnored == TRUE

DataIsFree == data = None

-----------------------------------------------------------------------------
(* BonDriver::open *)

Open(i) ==
  /\ pc[i] = "idle" /\ control = None /\ ~client
  /\ opens < MaxOpens
  /\ Goto(i, "connect") /\ control' = i
  /\ UNCHANGED <<controlVars, data, dataVars, level, task, queue, released, counters>>

Connected(i) ==
  /\ pc[i] = "connect"
  /\ client' = TRUE
  /\ opens' = opens + 1 /\ runtime' = opens'
  /\ Return(i)
  /\ UNCHANGED <<receiver, current, joining, leaver, data, dataVars, level, task,
                 queue, released, made>>

ConnectFails(i) ==
  /\ pc[i] = "connect"
  /\ Return(i)
  /\ UNCHANGED <<controlVars, data, dataVars, level, task, queue, released, counters>>

-----------------------------------------------------------------------------
(* BonDriver::leave *)

\* Mutant: the task is left to end by itself.
Unaborted(s) == task

\* JoinHandle::abort: as many steps as its current poll has left.
Aborted(s) == [task EXCEPT ![s] = IF @ = "runs" THEN "aborted" ELSE @]

\* The call c starts with the lock of the control, and leaves the channel.
Leave(i, c) ==
  /\ pc[i] = "idle" /\ control = None
  /\ control' = i
  /\ leaver' = c
  /\ receiver' = 0 /\ joining' = receiver
  /\ IF receiver # 0
       THEN Goto(i, "join") /\ task' = Aborted(receiver)
       ELSE Goto(i, "clear") /\ UNCHANGED task
  /\ UNCHANGED <<runtime, client, current, data, dataVars, level, queue, released,
                 counters>>

\* Mutant: aborted is as good as ended.
AbortIsEnough == task[joining] # "runs"

Joined == task[joining] = "ended"

Join(i) ==
  /\ pc[i] = "join"
  /\ Joined
  /\ Goto(i, "clear")
  /\ joining' = 0
  /\ UNCHANGED <<control, runtime, client, receiver, current, leaver, data, dataVars, level,
                 task, queue, released, counters>>

\* Mutant: the chunk that a wait took is kept.
ClearQueue == handle' = 0 /\ chunks' = 0 /\ UNCHANGED <<pending, lent>>

\* Data::clear.
Clear == handle' = 0 /\ chunks' = 0 /\ pending' = 0 /\ UNCHANGED lent

\* The end of leave().
Left(i, c) ==
  /\ pc[i] = "clear" /\ leaver = c
  /\ DataIsFree
  /\ Clear
  /\ current' = 0 /\ level' = 0 /\ leaver' = "none"

-----------------------------------------------------------------------------
(* BonDriver::close *)

Close(i) == Leave(i, "close")

Closed(i) ==
  /\ Left(i, "close")
  /\ client' = FALSE /\ runtime' = 0
  /\ Return(i)
  /\ UNCHANGED <<receiver, joining, data, task, queue, released, counters>>

-----------------------------------------------------------------------------
(* BonDriver::set_channel *)

SetChannel(i) == made < MaxStreams /\ Leave(i, "set")

ToAcquire(i) ==
  /\ Left(i, "set")
  /\ IF client THEN Goto(i, "acquire") /\ UNCHANGED control ELSE Return(i)
  /\ UNCHANGED <<runtime, client, receiver, joining, data, task, queue, released,
                 counters>>

Acquired(i) ==
  /\ pc[i] = "acquire"
  /\ made' = made + 1
  /\ Goto(i, "signal")
  /\ UNCHANGED <<control, controlVars, data, dataVars, level, task, queue, released,
                 opens>>

AcquireFails(i) ==
  /\ pc[i] = "acquire"
  /\ Return(i)
  /\ UNCHANGED <<controlVars, data, dataVars, level, task, queue, released, counters>>

\* stream.signal() returned, and the task is spawned.
Signalled(i) ==
  /\ pc[i] = "signal"
  /\ level' \in {level, made}
  /\ task' = [task EXCEPT ![made] = "runs"]
  /\ Goto(i, "install")
  /\ UNCHANGED <<control, controlVars, data, dataVars, queue, released, counters>>

\* The data is replaced as a whole.
Install(i) ==
  /\ pc[i] = "install"
  /\ DataIsFree
  /\ handle' = runtime /\ chunks' = made /\ pending' = 0
  /\ lent' = IF lent = "alive" THEN "freed" ELSE lent
  /\ receiver' = made /\ current' = made
  /\ Return(i)
  /\ UNCHANGED <<runtime, client, joining, leaver, data, level, task, queue, released,
                 counters>>

-----------------------------------------------------------------------------
(* The data *)

Queued == chunks # 0 /\ queue[chunks] > 0

\* BonDriver::wait blocks, with the data locked.
Wait(i) ==
  /\ pc[i] = "idle" /\ DataIsFree
  /\ pending = 0 /\ chunks # 0 /\ ~Queued /\ task[chunks] # "ended"
  /\ Goto(i, "wait") /\ data' = i
  /\ UNCHANGED <<control, controlVars, dataVars, level, task, queue, released, counters>>

WaitEnds(i) == pc[i] = "wait" /\ Goto(i, "idle") /\ data' = None

WaitGets(i) ==
  /\ WaitEnds(i)
  /\ Queued
  /\ pending' = chunks
  /\ queue' = [queue EXCEPT ![chunks] = @ - 1]
  /\ UNCHANGED <<control, controlVars, handle, chunks, lent, level, task, released,
                 counters>>

\* All senders are gone, or the timeout came.
WaitAbandoned(i) ==
  /\ WaitEnds(i)
  /\ ~Queued /\ task[chunks] = "ended"
  /\ UNCHANGED <<control, controlVars, dataVars, level, task, queue, released, counters>>

WaitTimesOut(i) ==
  /\ WaitEnds(i)
  /\ UNCHANGED <<control, controlVars, dataVars, level, task, queue, released, counters>>

\* Data::next.
NextChunk ==
  \/ /\ pending # 0
     /\ pending' = 0
     /\ UNCHANGED queue
  \/ /\ pending = 0 /\ Queued
     /\ queue' = [queue EXCEPT ![chunks] = @ - 1]
     /\ UNCHANGED pending

NoChunk == pending = 0 /\ ~Queued /\ UNCHANGED <<pending, queue>>

GetTsStream(i) ==
  /\ pc[i] = "idle" /\ DataIsFree
  /\ NextChunk
  /\ UNCHANGED <<pc, control, controlVars, data, handle, chunks, lent, level, task,
                 released, counters>>

GetTsStreamPtr(i) ==
  /\ pc[i] = "idle" /\ DataIsFree
  /\ \/ NextChunk /\ lent' = "alive"
     \/ NoChunk /\ lent' = "none"
  /\ UNCHANGED <<pc, control, controlVars, data, handle, chunks, level, task, released,
                 counters>>

PurgeTsStream(i) ==
  /\ pc[i] = "idle" /\ DataIsFree
  /\ pending' = 0
  /\ queue' = IF chunks = 0 THEN queue ELSE [queue EXCEPT ![chunks] = 0]
  /\ UNCHANGED <<pc, control, controlVars, data, handle, chunks, lent, level, task,
                 released, counters>>

-----------------------------------------------------------------------------
(* receive() *)

Runs(s) == task[s] \in {"runs", "aborted"}

\* Otherwise tx.send() waits, and what it would send goes with the task.
Room(s) == queue[s] < QUEUE

Received(s) ==
  /\ Runs(s) /\ Room(s)
  /\ queue' = [queue EXCEPT ![s] = @ + 1]
  /\ UNCHANGED <<pc, control, controlVars, data, dataVars, level, task, released,
                 counters>>

\* The signal of a tick is there.
Tick(s) ==
  /\ Runs(s)
  /\ level' = s
  /\ UNCHANGED <<pc, control, controlVars, data, dataVars, task, queue, released,
                 counters>>

\* The task ends, its stream is dropped and thereby released, and so is tx.
TaskEnds(s) ==
  /\ task' = [task EXCEPT ![s] = "ended"]
  /\ released' = released \cup {s}
  /\ UNCHANGED <<pc, control, controlVars, data, dataVars, level, queue, counters>>

StreamEnds(s) == task[s] = "runs" /\ TaskEnds(s)

AbortTakesEffect(s) == task[s] = "aborted" /\ TaskEnds(s)

-----------------------------------------------------------------------------

\* A thread that has the control goes on; the connection and tunelithd answer.
ControlStep(i) ==
  \/ Connected(i) \/ ConnectFails(i)
  \/ Join(i) \/ Closed(i)
  \/ ToAcquire(i) \/ Acquired(i) \/ AcquireFails(i) \/ Signalled(i) \/ Install(i)

WaitStep(i) == WaitGets(i) \/ WaitAbandoned(i)

Next ==
  \/ \E i \in Threads :
       \/ Open(i) \/ Close(i) \/ SetChannel(i) \/ ControlStep(i)
       \/ Wait(i) \/ WaitStep(i) \/ WaitTimesOut(i)
       \/ GetTsStream(i) \/ GetTsStreamPtr(i) \/ PurgeTsStream(i)
  \/ \E s \in Streams : Received(s) \/ Tick(s) \/ StreamEnds(s) \/ AbortTakesEffect(s)

\* A wait need not time out: 0 waits for ever.  A stream need not bring or end.
Fairness ==
  /\ \A i \in Threads : WF_vars(ControlStep(i)) /\ WF_vars(WaitStep(i))
  /\ \A s \in Streams : WF_vars(AbortTakesEffect(s))

Spec == Init /\ [][Next]_vars /\ Fairness

-----------------------------------------------------------------------------

\* What the host is handed and told is of the channel it is on: nothing that was
\* received before a SetChannel or CloseTuner is left once it returned, be it in
\* the queue, in a wait or in a tick under way (lib.rs 187-195, 232-236, 293-297).
OfTheChannel ==
  control = None => {chunks, pending, level} \subseteq {0, current}

\* A channel is acquired only after the streams before were released (lib.rs 185:
\* "Leaves the channel, waiting for the stream to be released").
ReleasedBeforeNext ==
  \A i \in Threads : pc[i] = "acquire" => released = 1..made

\* No thread waits on a runtime that was shut down: close() gets to it only
\* after no one holds its handle (lib.rs 193, 197-204, 262).
WaitsOnLiveRuntime ==
  \A i \in Threads : pc[i] = "wait" => handle # 0 /\ handle = runtime

\* A call that has the control returns, though another thread waits for ever
\* for a chunk with the data locked (lib.rs 106: "Locked before `data` when both
\* are.", 193, 255-262).
ControlReturns ==
  \A i \in Threads : control = i ~> pc[i] = "idle"

\* A chunk handed out by pointer lives until the next (lib.rs 125: "The chunk
\* last handed out by pointer, alive until the next one."), which the code does not
\* keep: see the README.
PointerIsAlive == lent # "freed"

=============================================================================
