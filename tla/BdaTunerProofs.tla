--------------------------- MODULE BdaTunerProofs ---------------------------
(***************************************************************************)
(* What is proved of BdaTuner for any number of calls: that the mark of a  *)
(* tuner is exact, that the LNB is never left powered, that it is as was   *)
(* last asked for, and that a tuner is tuned to what it says it is.        *)
(***************************************************************************)
EXTENDS BdaTuner, TLAPS

Ops == {"none", "build", "tune", "signal", "lnb", "drop"}

\* The points a call of each kind comes to.
AtPoint(t) ==
  /\ t.op = "none" => t.pc = "end"
  /\ t.op = "build" => t.pc \in {"queued", "cancelled", "acquire", "connect", "ok", "failed"}
  /\ t.op = "tune" => t.pc \in {"queued", "cancelled", "select", "start", "tuner", "demod",
                               "commit", "lock", "ok", "failed"}
  /\ t.op = "signal" => t.pc \in {"queued", "cancelled", "ask", "ok", "failed"}
  /\ t.op = "lnb" => t.pc \in {"queued", "cancelled", "send", "ok", "failed"}
  /\ t.op = "drop" => t.pc \in {"lnb", "graph", "mark"}
  /\ t.op = "tune" => t.arg \in Params
  /\ t.op = "lnb" \/ t.pc = "lnb" => t.arg \in BOOLEAN

Args == Params \cup BOOLEAN \cup {None}

Points == {"end", "queued", "cancelled", "acquire", "connect", "select", "start", "tuner", "demod",
           "commit", "lock", "ask", "send", "lnb", "graph", "mark", "ok", "failed"}

Tasks == [op : Ops, pc : Points, graph : 0 .. MaxCalls, arg : Args, req : Nat]

TypeOK ==
  /\ opened \in BOOLEAN /\ lnb \in BOOLEAN /\ supported \in BOOLEAN /\ stuck \in BOOLEAN
  /\ tuner \in Tuners \cup {None}
  /\ next \in 0 .. MaxCalls /\ call \in 0 .. next
  /\ task \in [Calls -> Tasks]
  /\ reqs \in [Calls -> [last : Nat, closed : BOOLEAN]]
  /\ \A i \in Calls : AtPoint(task[i])

\* A call not made has no task; one not awaited is not left at its end; and
\* what is asked of a tuner is awaited only while there is one.
CallsFollow ==
  /\ \A i \in Calls : i > next => task[i] = NoTask
  /\ \A i \in Calls : task[i].pc \in {"ok", "failed"} => i = call
  /\ call # 0 /\ task[call].op \in {"tune", "signal", "lnb"} => tuner # None

Pending(i)  == task[i].op = "lnb" /\ task[i].pc \in {"queued", "cancelled", "send"}
TurnsOff(i) == task[i].op = "drop" /\ task[i].pc = "lnb"

\* A graph is of the tuner, of its drop, or of commands to the LNB only once
\* it was built, and is built once.
GraphsAreBuilt ==
  /\ \A i \in Calls :
       task[i].op = "build" /\ task[i].pc \in {"connect", "ok"} => task[i].graph = i
  /\ \A i \in Calls :
       Pending(i) => task[i].graph \in Calls /\ task[task[i].graph].op # "build"
                     /\ task[i].graph <= next
  /\ \A i \in Calls :
       TurnsOff(i) => task[i].graph \in Calls /\ task[task[i].graph].op # "build"
                      /\ task[i].graph <= next
  /\ \A g \in Calls : reqs[g].closed => task[g].op # "build" /\ g <= next
  /\ tuner # None => task[tuner.graph].op # "build" /\ tuner.graph <= next

\* A command to the LNB that may yet be sent is one of the tuner there is, or
\* of the one about to turn the LNB off; and no two have one number.
RequestsFollow ==
  /\ tuner # None => ~reqs[tuner.graph].closed
  /\ \A i \in Calls :
       Pending(i) /\ ~reqs[task[i].graph].closed =>
         \/ tuner # None /\ tuner.graph = task[i].graph
         \/ \E d \in Calls : task[d].op = "drop" /\ task[d].pc = "lnb"
                             /\ task[d].graph = task[i].graph
  /\ \A i, j \in Calls :
       Pending(i) /\ Pending(j) /\ task[i].graph = task[j].graph /\ task[i].req = task[j].req
         => i = j
  /\ \A i \in Calls : Pending(i) => task[i].req <= reqs[task[i].graph].last
  /\ call # 0 /\ Pending(call) =>
       task[call].graph = tuner.graph /\ task[call].req = reqs[tuner.graph].last
  /\ call # 0 /\ task[call].op = "lnb" /\ ~Pending(call) => 
       \A i \in Calls : Pending(i) /\ task[i].graph = tuner.graph =>
          task[i].req # reqs[tuner.graph].last

\* Whoever is to let go of the LNB knows that it may come on.
LnbIsKnown ==
  /\ lnb => supported
  /\ \A i \in Calls :
       Pending(i) /\ task[i].arg = TRUE /\ ~reqs[task[i].graph].closed
         /\ task[i].req = reqs[task[i].graph].last =>
         \/ tuner # None /\ tuner.graph = task[i].graph /\ tuner.lnb
         \/ \E d \in Calls : task[d].op = "drop" /\ task[d].pc = "lnb"
                             /\ task[d].graph = task[i].graph /\ task[d].arg = TRUE

\* What a command returns Ok for is so, and nothing asked before is to come.
AskedHolds ==
  /\ tuner = None => asked = None
  /\ call # 0 /\ task[call].op = "lnb" => task[call].arg \in BOOLEAN
  /\ call # 0 /\ task[call].op = "lnb" /\ task[call].pc = "ok" /\ supported =>
       lnb = task[call].arg
  /\ asked # None =>
       \A i \in Calls : Pending(i) /\ task[i].graph = tuner.graph =>
         task[i].req # reqs[tuner.graph].last

\* What is so of the tasks alone, and of the LNB and the commands to it.
Tasked == TypeOK /\ CallsFollow /\ GraphsAreBuilt
LnbInv == RequestsFollow /\ LnbIsKnown /\ LnbOffWhenGone /\ AskedHolds /\ LastAskedHolds

IInv == Tasked /\ MarkIsHeld /\ LnbInv

-----------------------------------------------------------------------------

LEMMA InitHolds == Init => IInv
<1> SUFFICES ASSUME Init PROVE IInv
  OBVIOUS
<1>1. TypeOK
  <2>1. NoTask \in Tasks /\ AtPoint(NoTask)
    <3>1. 0 \in 0 .. MaxCalls /\ None \in Args
      BY CallsAssumption DEF Args
    <3>2. NoTask \in Tasks
      BY <3>1 DEF Tasks, NoTask, Task, Ops, Points
    <3> QED
      BY <3>2 DEF NoTask, Task, AtPoint
  <2>2. task \in [Calls -> Tasks] /\ \A i \in Calls : AtPoint(task[i])
    BY <2>1 DEF Init
  <2>3. reqs \in [Calls -> [last : Nat, closed : BOOLEAN]]
    BY DEF Init
  <2>4. opened \in BOOLEAN /\ lnb \in BOOLEAN /\ supported \in BOOLEAN /\ stuck \in BOOLEAN
    BY DEF Init
  <2>5. next \in 0 .. MaxCalls /\ call \in 0 .. next
    BY CallsAssumption DEF Init
  <2> QED
    BY <2>2, <2>3, <2>4, <2>5 DEF Init, TypeOK
<1>2. CallsFollow /\ GraphsAreBuilt
  BY <1>1, CallsAssumption DEF Init, CallsFollow, GraphsAreBuilt, Pending, TurnsOff, NoTask, Task, Calls
<1>3. RequestsFollow /\ LnbIsKnown /\ LnbOffWhenGone /\ AskedHolds /\ LastAskedHolds
  BY <1>1, CallsAssumption
     DEF Init, RequestsFollow, LnbIsKnown, LnbOffWhenGone, AskedHolds, LastAskedHolds, Pending, TurnsOff,
         NoTask, Task, Calls
<1>4. MarkIsHeld
  BY <1>1, CallsAssumption DEF Init, MarkIsHeld, Marks, NoTask, Task, Calls
<1> QED
  BY <1>1, <1>2, <1>3, <1>4 DEF IInv, Tasked, LnbInv

\* A task that goes on as what it is, comes to its end, or becomes the drop of
\* a graph nobody waits for any more.
LEMMA TaskHolds ==
  ASSUME Tasked, NEW i \in Calls, i <= next,
         NEW t \in Tasks, AtPoint(t), task' = [task EXCEPT ![i] = t],
         \/ t = NoTask \/ t = task[i]
         \/ t.op = task[i].op /\ t.pc # "lnb"
         \/ t.op = "drop" /\ t.pc # "lnb",
         Pending(i)' => Pending(i) /\ t.graph = task[i].graph,
         t.pc \in {"ok", "failed"} => i = call',
         t.op = "build" /\ t.pc \in {"connect", "ok"} => t.graph = i,
         call' = call \/ (call' = 0 /\ call = i),
         next' = next, tuner = None \/ tuner' # None,
         \/ tuner' = None
         \/ tuner # None /\ tuner' \in Tuners /\ tuner'.graph = tuner.graph
         \/ tuner' \in Tuners /\ tuner'.graph = i /\ t = NoTask,
         opened' \in BOOLEAN, lnb' \in BOOLEAN, supported' \in BOOLEAN, stuck' \in BOOLEAN,
         reqs' \in [Calls -> [last : Nat, closed : BOOLEAN]],
         \A g \in Calls : reqs'[g].closed => \/ reqs[g].closed
                                             \/ TurnsOff(i) /\ g = task[i].graph
  PROVE  Tasked'
<1> USE DEF Tasked
<1>1. /\ task'[i] = t /\ \A j \in Calls : j # i => task'[j] = task[j]
      /\ task \in [Calls -> Tasks] /\ task' \in [Calls -> Tasks]
  BY DEF TypeOK
<1>2. TypeOK'
  <2>1. tuner' \in Tuners \cup {None}
    OBVIOUS
  <2>2. next' \in 0 .. MaxCalls /\ call' \in 0 .. next'
    BY DEF TypeOK
  <2>3. \A j \in Calls : AtPoint(task'[j])
    BY <1>1 DEF TypeOK
  <2> QED
    BY <1>1, <2>1, <2>2, <2>3 DEF TypeOK
<1>4. CallsFollow'
  <2>1. \A j \in Calls : j > next' => task'[j] = NoTask
    BY <1>1 DEF CallsFollow, TypeOK, Calls
  <2>2. \A j \in Calls : task'[j].pc \in {"ok", "failed"} => j = call'
    BY <1>1 DEF CallsFollow
  <2>3. call' # 0 /\ task'[call'].op \in {"tune", "signal", "lnb"} => tuner' # None
    <3>1. CASE call' # 0
      <4>1. call' = call /\ call \in Calls
        BY <3>1, CallsAssumption DEF TypeOK, Calls
      <4> QED
        BY <1>1, <4>1 DEF CallsFollow, NoTask, Task
    <3> QED
      BY <3>1
  <2> QED
    BY <2>1, <2>2, <2>3 DEF CallsFollow
<1>5. \A j \in Calls : task[j].op # "build" => task'[j].op # "build"
  BY <1>1 DEF NoTask, Task
<1>6. GraphsAreBuilt'
  <2>1. \A j \in Calls :
          task'[j].op = "build" /\ task'[j].pc \in {"connect", "ok"} => task'[j].graph = j
    BY <1>1 DEF GraphsAreBuilt
  <2>2. \A j \in Calls : Pending(j)' => Pending(j) /\ task'[j].graph = task[j].graph
    BY <1>1 DEF Pending
  <2>3. \A j \in Calls :
          Pending(j)' => task'[j].graph \in Calls /\ task'[task'[j].graph].op # "build"
                         /\ task'[j].graph <= next'
    BY <1>5, <2>2 DEF GraphsAreBuilt
  <2>4. \A j \in Calls : TurnsOff(j)' => TurnsOff(j) /\ task'[j] = task[j]
    BY <1>1 DEF TurnsOff, NoTask, Task
  <2>5. \A j \in Calls :
          TurnsOff(j)' => task'[j].graph \in Calls /\ task'[task'[j].graph].op # "build"
                          /\ task'[j].graph <= next'
    BY <1>5, <2>4 DEF GraphsAreBuilt
  <2>6. \A g \in Calls : reqs'[g].closed => task'[g].op # "build" /\ g <= next'
    BY <1>5 DEF GraphsAreBuilt
  <2>7. tuner' # None => task'[tuner'.graph].op # "build" /\ tuner'.graph <= next'
    BY <1>1, <1>5 DEF GraphsAreBuilt, NoTask, Task, TypeOK, Tuners
  <2> QED
    BY <2>1, <2>3, <2>5, <2>6, <2>7 DEF GraphsAreBuilt
<1> QED
  BY <1>2, <1>4, <1>6

IsMarked(i) ==
  \/ task[i].op = "build" /\ task[i].pc # "failed"
  \/ task[i].op = "drop"

\* The mark of what stays as it is.
LEMMA MarksKept ==
  ASSUME MarkIsHeld, opened' = opened, tuner' = None <=> tuner = None,
         \A j \in Calls : IsMarked(j)' <=> IsMarked(j)
  PROVE  MarkIsHeld'
<1>1. Marks' = Marks
  BY DEF Marks, IsMarked
<1> QED
  BY <1>1 DEF MarkIsHeld

\* What is done beside the LNB, and a command to it that is given up on.
LEMMA LnbKept ==
  ASSUME Tasked, Tasked', LnbInv,
         \A j \in Calls : Pending(j)' => /\ Pending(j) /\ task'[j].graph = task[j].graph
                                         /\ task'[j].arg = task[j].arg
                                         /\ task'[j].req = task[j].req,
         \A j \in Calls : TurnsOff(j) => task'[j] = task[j],
         tuner' = None <=> tuner = None,
         tuner # None => tuner'.graph = tuner.graph /\ tuner'.lnb = tuner.lnb,
         UNCHANGED <<reqs, lnb, supported, asked, stuck>>,
         call' # 0 /\ task'[call'].op = "lnb" =>
           /\ call' = call /\ task[call].op = "lnb" /\ task'[call].arg = task[call].arg
           /\ Pending(call) => Pending(call)'
           /\ task'[call].pc = "ok" => task[call].pc = "ok"
  PROVE  LnbInv'
<1> USE DEF LnbInv, Tasked
<1>1. \A j \in Calls : Pending(j) => task[j].graph \in Calls
  BY DEF GraphsAreBuilt
<1>2. call' # 0 => call' \in Calls
  BY CallsAssumption DEF TypeOK, Calls
<1>3. RequestsFollow'
  <2>1. tuner' # None => ~reqs'[tuner'.graph].closed
    BY DEF RequestsFollow
  <2>2. \A i \in Calls :
          Pending(i)' /\ ~reqs'[task'[i].graph].closed =>
            \/ tuner' # None /\ tuner'.graph = task'[i].graph
            \/ \E d \in Calls : task'[d].op = "drop" /\ task'[d].pc = "lnb"
                                /\ task'[d].graph = task'[i].graph
    BY DEF RequestsFollow, TurnsOff
  <2>3. \A i, j \in Calls :
          Pending(i)' /\ Pending(j)' /\ task'[i].graph = task'[j].graph
            /\ task'[i].req = task'[j].req => i = j
    BY DEF RequestsFollow
  <2>4. \A i \in Calls : Pending(i)' => task'[i].req <= reqs'[task'[i].graph].last
    BY DEF RequestsFollow
  <2>5. call' # 0 /\ Pending(call)' =>
          task'[call'].graph = tuner'.graph /\ task'[call'].req = reqs'[tuner'.graph].last
    BY <1>2 DEF RequestsFollow, Pending, CallsFollow
  <2>6. call' # 0 /\ task'[call'].op = "lnb" /\ ~Pending(call)' =>
          \A i \in Calls : Pending(i)' /\ task'[i].graph = tuner'.graph =>
             task'[i].req # reqs'[tuner'.graph].last
    BY <1>2 DEF RequestsFollow, CallsFollow
  <2> QED
    BY <2>1, <2>2, <2>3, <2>4, <2>5, <2>6 DEF RequestsFollow
<1>4. LnbIsKnown'
  <2>1. lnb' => supported'
    BY DEF LnbIsKnown
  <2>2. ASSUME NEW i \in Calls, Pending(i)', task'[i].arg = TRUE, ~reqs'[task'[i].graph].closed,
               task'[i].req = reqs'[task'[i].graph].last
        PROVE  \/ tuner' # None /\ tuner'.graph = task'[i].graph /\ tuner'.lnb
               \/ \E d \in Calls : task'[d].op = "drop" /\ task'[d].pc = "lnb"
                                   /\ task'[d].graph = task'[i].graph /\ task'[d].arg = TRUE
    BY <2>2 DEF LnbIsKnown, TurnsOff
  <2> QED
    BY <2>1, <2>2 DEF LnbIsKnown
<1>5. LnbOffWhenGone'
  BY DEF LnbOffWhenGone, TurnsOff
<1>6. AskedHolds'
  <2>1. tuner' = None => asked' = None
    BY DEF AskedHolds
  <2>2. call' # 0 /\ task'[call'].op = "lnb" => task'[call'].arg \in BOOLEAN
    BY DEF AskedHolds
  <2>3. call' # 0 /\ task'[call'].op = "lnb" /\ task'[call'].pc = "ok" /\ supported' =>
          lnb' = task'[call'].arg
    BY DEF AskedHolds
  <2>4. asked' # None =>
          \A i \in Calls : Pending(i)' /\ task'[i].graph = tuner'.graph =>
            task'[i].req # reqs'[tuner'.graph].last
    BY DEF AskedHolds
  <2> QED
    BY <2>1, <2>2, <2>3, <2>4 DEF AskedHolds
<1>7. LastAskedHolds'
  BY DEF LastAskedHolds
<1> QED
  BY <1>3, <1>4, <1>5, <1>6, <1>7

\* A call takes the next number, and leaves the tasks of the others.
LEMMA CalledAs ==
  ASSUME IInv, NEW t \in Tasks, Called(t), AtPoint(t)
  PROVE  /\ call = 0 /\ next' = next + 1 /\ call' = next'
         /\ next' \in Calls /\ task[next'] = NoTask
         /\ task' \in [Calls -> Tasks] /\ task'[next'] = t
         /\ \A i \in Calls : i # next' => task'[i] = task[i]
         /\ \A i \in Calls : AtPoint(task'[i])
         /\ \A i \in Calls : i > next' => task'[i] = NoTask
         /\ \A i \in Calls : task[i].pc \notin {"ok", "failed"}
<1>1. call = 0 /\ next' = next + 1 /\ call' = next' /\ next' \in Calls
  BY CallsAssumption DEF IInv, Tasked, TypeOK, Called, Calls
<1>2. task' = [task EXCEPT ![next'] = t] /\ task \in [Calls -> Tasks]
  BY DEF IInv, Tasked, TypeOK, Called
<1>3. \A i \in Calls : i > next => task[i] = NoTask
  BY DEF IInv, Tasked, CallsFollow
<1>4. next' > next /\ \A i \in Calls : i > next' => i > next
  BY <1>1 DEF IInv, Tasked, TypeOK, Calls
<1>5. \A i \in Calls : task[i].pc \notin {"ok", "failed"}
  BY <1>1 DEF IInv, Tasked, CallsFollow, Calls
<1>6. \A i \in Calls : AtPoint(task'[i])
  <2>1. \A i \in Calls : task'[i] = IF i = next' THEN t ELSE task[i]
    BY <1>1, <1>2
  <2> QED
    BY <2>1 DEF IInv, Tasked, TypeOK
<1> QED
  BY <1>1, <1>2, <1>3, <1>4, <1>5, <1>6

LEMMA CalledTasked ==
  ASSUME IInv, NEW t \in Tasks, Called(t), AtPoint(t), t.pc \notin {"connect", "ok", "failed"},
         tuner' \in Tuners \cup {None},
         tuner' # None => tuner # None /\ tuner'.graph = tuner.graph,
         t.op \in {"tune", "signal", "lnb"} => tuner' # None,
         t.op \in {"lnb", "drop"} => tuner # None /\ t.graph = tuner.graph,
         opened' \in BOOLEAN, lnb' \in BOOLEAN, supported' \in BOOLEAN, stuck' \in BOOLEAN,
         reqs' \in [Calls -> [last : Nat, closed : BOOLEAN]],
         \A g \in Calls : reqs'[g].closed => reqs[g].closed
  PROVE  Tasked'
<1> USE NoneAssumption DEF IInv, Tasked
<1>1. /\ call = 0 /\ next' = next + 1 /\ call' = next'
      /\ next' \in Calls /\ task[next'] = NoTask
      /\ task' \in [Calls -> Tasks] /\ task'[next'] = t
      /\ \A i \in Calls : i # next' => task'[i] = task[i]
      /\ \A i \in Calls : AtPoint(task'[i])
      /\ \A i \in Calls : i > next' => task'[i] = NoTask
      /\ \A i \in Calls : task[i].pc \notin {"ok", "failed"}
  BY CalledAs
<1>2. next' \in 0 .. MaxCalls /\ call' \in 0 .. next' /\ next \in Nat
  BY <1>1, CallsAssumption DEF TypeOK, Calls
<1>3. TypeOK'
  BY <1>1, <1>2 DEF TypeOK
<1>4. CallsFollow'
  BY <1>1 DEF CallsFollow
<1>5. tuner # None => tuner.graph \in Calls /\ tuner.graph <= next /\ task[tuner.graph].op # "build"
  BY DEF GraphsAreBuilt, TypeOK, Tuners
<1>6. \A g \in Calls : g <= next => task'[g] = task[g] /\ g <= next'
  BY <1>1, <1>2 DEF Calls
<1>7. \A j \in Calls : Pending(j)' => task'[j].graph \in Calls /\ task'[j].graph <= next
                                      /\ task[task'[j].graph].op # "build"
  BY <1>1, <1>5 DEF GraphsAreBuilt, Pending
<1>8. GraphsAreBuilt'
  <2>1. \A j \in Calls :
          task'[j].op = "build" /\ task'[j].pc \in {"connect", "ok"} => task'[j].graph = j
    BY <1>1 DEF GraphsAreBuilt
  <2>2. \A j \in Calls :
          Pending(j)' => task'[j].graph \in Calls /\ task'[task'[j].graph].op # "build"
                         /\ task'[j].graph <= next'
    BY <1>6, <1>7
  <2>3. \A j \in Calls :
          TurnsOff(j)' => task'[j].graph \in Calls /\ task[task'[j].graph].op # "build"
                          /\ task'[j].graph <= next
    BY <1>1, <1>5 DEF GraphsAreBuilt, TurnsOff
  <2>4. \A g \in Calls : reqs'[g].closed => task'[g].op # "build" /\ g <= next'
    BY <1>6 DEF GraphsAreBuilt
  <2>5. tuner' # None => task'[tuner'.graph].op # "build" /\ tuner'.graph <= next'
    BY <1>5, <1>6
  <2>6. \A j \in Calls :
          TurnsOff(j)' => task'[j].graph \in Calls /\ task'[task'[j].graph].op # "build"
                          /\ task'[j].graph <= next'
    BY <1>6, <2>3
  <2> QED
    BY <2>1, <2>2, <2>4, <2>5, <2>6 DEF GraphsAreBuilt
<1> QED
  BY <1>3, <1>4, <1>8

\* A tuner is opened only where there is none, nor one coming or going.
LEMMA OpenHolds == IInv /\ OpenTuner => IInv'
<1> SUFFICES ASSUME IInv, OpenTuner PROVE IInv'
  OBVIOUS
<1> DEFINE t == Task("build", "queued", 0, None, 0)
<1> USE DEF IInv
<1>1. t \in Tasks /\ AtPoint(t) /\ t.op = "build" /\ t.pc = "queued"
  BY CallsAssumption DEF Tasks, Task, Ops, Points, Args, AtPoint
<1>2. Called(t) /\ opened = FALSE /\ opened' = TRUE
      /\ UNCHANGED <<tuner, reqs, lnb, supported, asked, stuck>>
  BY DEF OpenTuner, device
<1> HIDE DEF t
<1>3. /\ call = 0 /\ call' = next' /\ next' \in Calls /\ task[next'] = NoTask /\ task'[next'] = t
      /\ \A i \in Calls : i # next' => task'[i] = task[i]
  BY <1>1, <1>2, CalledAs
<1>4. tuner = None /\ \A i \in Calls : ~IsMarked(i)
  BY <1>2 DEF MarkIsHeld, Marks, IsMarked
<1>5. Tasked'
  BY <1>1, <1>2, <1>4, CalledTasked DEF Tasked, TypeOK
<1>6. MarkIsHeld'
  <2>1. \A i \in Calls : IsMarked(i)' <=> i = next'
    BY <1>1, <1>3, <1>4 DEF IsMarked
  <2>2. Marks' = {next'}
    BY <1>2, <1>3, <1>4, <2>1 DEF Marks, IsMarked
  <2> QED
    BY <1>2, <2>2 DEF MarkIsHeld
<1>7. LnbInv'
  <2>1. \A j \in Calls : Pending(j)' => Pending(j) /\ task'[j] = task[j]
    BY <1>1, <1>3 DEF Pending
  <2>2. \A j \in Calls : ~TurnsOff(j)
    BY <1>4 DEF IsMarked, TurnsOff
  <2> QED
    BY <1>1, <1>2, <1>3, <1>4, <1>5, <2>1, <2>2, LnbKept
<1> QED
  BY <1>5, <1>6, <1>7

\* A tune or a signal() is beside the mark and the LNB.
LEMMA AskHolds ==
  ASSUME IInv, tuner # None, NEW t \in Tasks, Called(t), AtPoint(t),
         t.op \in {"tune", "signal"}, t.pc = "queued",
         tuner' \in Tuners, tuner'.graph = tuner.graph, tuner'.lnb = tuner.lnb,
         UNCHANGED <<opened, reqs, lnb, supported, asked, stuck>>
  PROVE  IInv'
<1> USE NoneAssumption DEF IInv
<1>1. /\ call = 0 /\ call' = next' /\ next' \in Calls /\ task[next'] = NoTask /\ task'[next'] = t
      /\ \A i \in Calls : i # next' => task'[i] = task[i]
  BY CalledAs
<1>2. Tasked'
  BY CalledTasked DEF Tasked, TypeOK
<1>3. \A j \in Calls : IsMarked(j)' <=> IsMarked(j)
  BY <1>1 DEF IsMarked, NoTask, Task
<1>4. MarkIsHeld'
  BY <1>3, MarksKept
<1>5. \A j \in Calls : Pending(j)' => Pending(j) /\ task'[j] = task[j]
  BY <1>1 DEF Pending
<1>6. \A j \in Calls : TurnsOff(j) => task'[j] = task[j]
  BY <1>1 DEF TurnsOff, NoTask, Task
<1>7. LnbInv'
  BY <1>1, <1>2, <1>5, <1>6, LnbKept
<1> QED
  BY <1>2, <1>4, <1>7

\* A command is the last asked for, and known to the tuner before it is sent.
LEMMA SetLnbHolds ==
  ASSUME IInv, NEW on \in BOOLEAN, SetLnb(on)
  PROVE  IInv'
<1> DEFINE g == tuner.graph
<1> DEFINE t == Task("lnb", "queued", g, on, reqs[g].last + 1)
<1> USE NoneAssumption DEF IInv
<1>1. tuner # None /\ tuner \in Tuners /\ g \in Calls /\ reqs[g].last \in Nat
  BY DEF SetLnb, Tasked, TypeOK, Tuners
<1>2. /\ t \in Tasks /\ AtPoint(t) /\ t.op = "lnb" /\ t.pc = "queued" /\ t.graph = g
      /\ t.arg = on /\ t.req = reqs[g].last + 1
  BY <1>1, CallsAssumption DEF Tasks, Task, Ops, Points, Args, AtPoint, Calls
<1>3. /\ Called(t) /\ reqs' = [reqs EXCEPT ![g].last = @ + 1] /\ tuner' = Marked(tuner, on)
      /\ asked' = None /\ UNCHANGED <<opened, lnb, supported, stuck>>
  BY DEF SetLnb, device
<1> HIDE DEF t
<1>4. /\ call = 0 /\ call' = next' /\ next' \in Calls /\ task[next'] = NoTask /\ task'[next'] = t
      /\ \A i \in Calls : i # next' => task'[i] = task[i]
  BY <1>2, <1>3, CalledAs
<1>5. /\ tuner' \in Tuners /\ tuner'.graph = g /\ tuner'.lnb = (tuner.lnb \/ on)
  BY <1>1, <1>3 DEF Marked, Tuners
<1>6. /\ reqs' \in [Calls -> [last : Nat, closed : BOOLEAN]]
      /\ reqs'[g].last = reqs[g].last + 1 /\ reqs'[g].closed = reqs[g].closed
      /\ \A h \in Calls : h # g => reqs'[h] = reqs[h]
  BY <1>1, <1>3 DEF Tasked, TypeOK
<1>7. Tasked'
  <2>1. \A h \in Calls : reqs'[h].closed => reqs[h].closed
    BY <1>6
  <2> QED
    BY <1>1, <1>2, <1>3, <1>5, <1>6, <2>1, CalledTasked DEF Tasked, TypeOK
<1>8. MarkIsHeld'
  <2>1. \A j \in Calls : IsMarked(j)' <=> IsMarked(j)
    BY <1>2, <1>4 DEF IsMarked, NoTask, Task
  <2> QED
    BY <1>1, <1>3, <1>5, <2>1, MarksKept
<1>9. \A j \in Calls : j # next' => (Pending(j)' <=> Pending(j))
  BY <1>4 DEF Pending
<1>10. \A j \in Calls : TurnsOff(j) => task'[j] = task[j]
  BY <1>4 DEF TurnsOff, NoTask, Task
<1>11. \A j \in Calls : Pending(j) => task[j].graph \in Calls /\ task[j].req \in Nat
                                      /\ task[j].req <= reqs[task[j].graph].last
  BY DEF Tasked, TypeOK, GraphsAreBuilt, LnbInv, RequestsFollow, Tasks
<1>12. \A h \in Calls : reqs[h].last \in Nat
  BY DEF Tasked, TypeOK
<1>13. RequestsFollow'
  <2> USE DEF LnbInv
  <2>1. tuner' # None => ~reqs'[tuner'.graph].closed
    BY <1>1, <1>5, <1>6 DEF RequestsFollow
  <2>2. ASSUME NEW i \in Calls, Pending(i)', ~reqs'[task'[i].graph].closed
        PROVE  \/ tuner' # None /\ tuner'.graph = task'[i].graph
               \/ \E d \in Calls : task'[d].op = "drop" /\ task'[d].pc = "lnb"
                                   /\ task'[d].graph = task'[i].graph
    <3>1. CASE i = next'
      BY <3>1, <1>2, <1>4, <1>5
    <3>2. CASE i # next'
      <4>1. Pending(i) /\ task'[i] = task[i] /\ ~reqs[task[i].graph].closed
        BY <2>2, <3>2, <1>4, <1>6, <1>9, <1>11
      <4> QED
        BY <4>1, <1>1, <1>5, <1>10 DEF RequestsFollow, TurnsOff
    <3> QED
      BY <3>1, <3>2
  <2>3. ASSUME NEW i \in Calls, NEW j \in Calls, Pending(i)', Pending(j)',
               task'[i].graph = task'[j].graph, task'[i].req = task'[j].req
        PROVE  i = j
    <3>1. \A k \in Calls : k # next' /\ Pending(k)' /\ task'[k].graph = g =>
                             task'[k].req # reqs[g].last + 1
      BY <1>1, <1>4, <1>9, <1>11, <1>12
    <3> QED
      BY <2>3, <3>1, <1>2, <1>4, <1>9 DEF RequestsFollow
  <2>4. ASSUME NEW i \in Calls, Pending(i)'
        PROVE  task'[i].req <= reqs'[task'[i].graph].last
    <3>1. CASE i = next'
      BY <3>1, <1>1, <1>2, <1>4, <1>6, <1>12
    <3>2. CASE i # next'
      <4>1. /\ task'[i] = task[i] /\ task[i].graph \in Calls /\ task[i].req \in Nat
            /\ task[i].req <= reqs[task[i].graph].last
        BY <2>4, <3>2, <1>4, <1>9, <1>11
      <4> QED
        BY <4>1, <1>6, <1>12
    <3> QED
      BY <3>1, <3>2
  <2>5. Pending(call)' /\ task'[call'].graph = tuner'.graph
        /\ task'[call'].req = reqs'[tuner'.graph].last
    BY <1>2, <1>4, <1>5, <1>6 DEF Pending
  <2> QED
    BY <2>1, <2>2, <2>3, <2>4, <2>5 DEF RequestsFollow
<1>14. LnbIsKnown'
  <2> USE DEF LnbInv
  <2>1. lnb' => supported'
    BY <1>3 DEF LnbIsKnown
  <2>2. ASSUME NEW i \in Calls, Pending(i)', task'[i].arg = TRUE, ~reqs'[task'[i].graph].closed,
               task'[i].req = reqs'[task'[i].graph].last
        PROVE  \/ tuner' # None /\ tuner'.graph = task'[i].graph /\ tuner'.lnb
               \/ \E d \in Calls : task'[d].op = "drop" /\ task'[d].pc = "lnb"
                                   /\ task'[d].graph = task'[i].graph /\ task'[d].arg = TRUE
    <3>1. CASE i = next'
      BY <2>2, <3>1, <1>2, <1>4, <1>5
    <3>2. CASE i # next'
      <4>1. Pending(i) /\ task'[i] = task[i] /\ task[i].graph # g
        BY <2>2, <3>2, <1>1, <1>4, <1>6, <1>9, <1>11, <1>12
      <4>2. ~reqs[task[i].graph].closed /\ task[i].req = reqs[task[i].graph].last
        BY <2>2, <4>1, <1>6, <1>11
      <4>3. \E d \in Calls : TurnsOff(d) /\ task[d].graph = task[i].graph /\ task[d].arg = TRUE
        BY <2>2, <4>1, <4>2 DEF LnbIsKnown, TurnsOff
      <4> QED
        BY <4>1, <4>3, <1>10 DEF TurnsOff
    <3> QED
      BY <3>1, <3>2
  <2> QED
    BY <2>1, <2>2 DEF LnbIsKnown
<1>15. LnbOffWhenGone'
  BY <1>1, <1>3, <1>5, <1>10 DEF LnbInv, LnbOffWhenGone, TurnsOff
<1>16. AskedHolds' /\ LastAskedHolds'
  BY <1>2, <1>3, <1>4 DEF AskedHolds, LastAskedHolds
<1> QED
  BY <1>7, <1>8, <1>13, <1>14, <1>15, <1>16 DEF LnbInv

\* A tuner goes, and its drop is to turn off what it may have on.
LEMMA CloseHolds == IInv /\ Close => IInv'
<1> SUFFICES ASSUME IInv, Close PROVE IInv'
  OBVIOUS
<1> DEFINE t == Task("drop", "lnb", tuner.graph, tuner.lnb, 0)
<1> USE NoneAssumption DEF IInv
<1>1. tuner # None /\ tuner \in Tuners /\ tuner.graph \in Calls /\ tuner.lnb \in BOOLEAN
  BY DEF Close, Tasked, TypeOK, Tuners
<1>2. /\ t \in Tasks /\ AtPoint(t) /\ t.op = "drop" /\ t.pc = "lnb" /\ t.graph = tuner.graph
      /\ t.arg = tuner.lnb
  BY <1>1, CallsAssumption DEF Tasks, Task, Ops, Points, Args, AtPoint, Calls
<1>3. /\ Called(t) /\ tuner' = None /\ asked' = None
      /\ UNCHANGED <<opened, reqs, lnb, supported, stuck>>
  BY DEF Close, device
<1> HIDE DEF t
<1>4. /\ call = 0 /\ call' = next' /\ next' \in Calls /\ task[next'] = NoTask /\ task'[next'] = t
      /\ \A i \in Calls : i # next' => task'[i] = task[i]
  BY <1>2, <1>3, CalledAs
<1>5. opened = TRUE /\ \A i \in Calls : ~IsMarked(i)
  <2>1. 0 \in Marks /\ \A i \in Calls : IsMarked(i) => i \in Marks
    BY <1>1 DEF Marks, IsMarked
  <2>2. 0 \notin Calls
    BY DEF Calls
  <2> QED
    BY <2>1, <2>2 DEF MarkIsHeld, Tasked, TypeOK
<1>6. Tasked'
  BY <1>1, <1>2, <1>3, CalledTasked DEF Tasked, TypeOK
<1>7. MarkIsHeld'
  <2>1. \A i \in Calls : IsMarked(i)' <=> i = next'
    BY <1>2, <1>4, <1>5 DEF IsMarked
  <2>2. Marks' = {next'}
    BY <1>3, <1>4, <2>1 DEF Marks, IsMarked
  <2> QED
    BY <1>3, <1>5, <2>2 DEF MarkIsHeld
<1>8. \A j \in Calls : Pending(j)' => Pending(j) /\ task'[j] = task[j]
  BY <1>2, <1>4 DEF Pending
<1>9. \A j \in Calls : ~TurnsOff(j)
  BY <1>5 DEF IsMarked, TurnsOff
<1>10. task'[next'].op = "drop" /\ task'[next'].pc = "lnb"
  BY <1>2, <1>4
<1>11. RequestsFollow'
  <2>1. \A i \in Calls : Pending(i)' /\ ~reqs'[task'[i].graph].closed =>
          task'[next'].graph = task'[i].graph
    BY <1>2, <1>3, <1>4, <1>8, <1>9 DEF LnbInv, RequestsFollow, TurnsOff
  <2>2. \A i \in Calls : Pending(i)' => task'[i].req <= reqs'[task'[i].graph].last
    BY <1>3, <1>8 DEF LnbInv, RequestsFollow
  <2>3. \A i, j \in Calls :
          Pending(i)' /\ Pending(j)' /\ task'[i].graph = task'[j].graph
            /\ task'[i].req = task'[j].req => i = j
    BY <1>8 DEF LnbInv, RequestsFollow
  <2> QED
    BY <1>2, <1>3, <1>4, <1>10, <2>1, <2>2, <2>3 DEF RequestsFollow, Pending
<1>12. LnbIsKnown'
  <2>1. lnb' => supported'
    BY <1>3 DEF LnbInv, LnbIsKnown
  <2>2. \A i \in Calls :
          Pending(i)' /\ task'[i].arg = TRUE /\ ~reqs'[task'[i].graph].closed
            /\ task'[i].req = reqs'[task'[i].graph].last =>
            task'[next'].graph = task'[i].graph /\ task'[next'].arg = TRUE
    BY <1>2, <1>3, <1>4, <1>8, <1>9 DEF LnbInv, LnbIsKnown, TurnsOff
  <2> QED
    BY <1>2, <1>4, <2>1, <2>2 DEF LnbIsKnown
<1>13. LnbOffWhenGone'
  BY <1>2, <1>3, <1>4, <1>9 DEF LnbInv, LnbOffWhenGone, TurnsOff
<1>14. AskedHolds' /\ LastAskedHolds'
  BY <1>2, <1>3, <1>4 DEF AskedHolds, LastAskedHolds
<1> QED
  BY <1>6, <1>7, <1>11, <1>12, <1>13, <1>14 DEF LnbInv

\* The mark of what comes to its end.
LEMMA MarkFreed ==
  ASSUME MarkIsHeld, NEW i \in Calls, IsMarked(i), ~IsMarked(i)', opened' = FALSE,
         tuner' = None <=> tuner = None,
         \A j \in Calls : j # i => (IsMarked(j)' <=> IsMarked(j))
  PROVE  MarkIsHeld'
<1>1. i \in Marks /\ \A j \in Calls : IsMarked(j) => j \in Marks
  BY DEF Marks, IsMarked
<1>2. \A j \in Calls : ~IsMarked(j)'
  BY <1>1 DEF MarkIsHeld
<1>3. tuner = None
  <2>1. tuner # None => 0 \in Marks /\ i # 0
    BY DEF Marks, Calls
  <2> QED
    BY <1>1, <2>1 DEF MarkIsHeld
<1>4. Marks' = {}
  BY <1>2, <1>3 DEF Marks, IsMarked
<1> QED
  BY <1>4 DEF MarkIsHeld

\* A tuner that one has in hand, and the drop or the opening of one, exclude
\* each other.
LEMMA OneAtATime ==
  ASSUME MarkIsHeld, NEW i \in Calls, IsMarked(i)
  PROVE  tuner = None /\ opened = TRUE /\ \A j \in Calls : IsMarked(j) => j = i
<1>1. \A j \in Calls : IsMarked(j) => j \in Marks
  BY DEF Marks, IsMarked
<1>2. tuner # None => 0 \in Marks /\ i # 0
  BY DEF Marks, Calls
<1> QED
  BY <1>1, <1>2 DEF MarkIsHeld

\* What a call, or a closure, does beside the LNB.
LEMMA StepHolds ==
  ASSUME IInv, NEW i \in Calls, i <= next,
         NEW t \in Tasks, AtPoint(t), task' = [task EXCEPT ![i] = t],
         \/ t = NoTask \/ t = task[i]
         \/ t.op = task[i].op /\ t.pc # "lnb"
         \/ t.op = "drop" /\ t.pc # "lnb",
         TurnsOff(i) => t = task[i],
         t.op = "lnb" => t.arg = task[i].arg,
         t.op = "lnb" /\ t.pc \in {"queued", "cancelled", "send"} =>
           Pending(i) /\ t.graph = task[i].graph /\ t.req = task[i].req,
         t.op = "lnb" /\ i = call' =>
           /\ Pending(i) => t.pc \in {"queued", "cancelled", "send"}
           /\ t.pc = "ok" => task[i].pc = "ok",
         t.pc \in {"ok", "failed"} => i = call',
         t.op = "build" /\ t.pc \in {"connect", "ok"} => t.graph = i,
         call' = call \/ (call' = 0 /\ call = i),
         \/ opened' = opened /\ (IsMarked(i)' <=> IsMarked(i))
         \/ opened' = FALSE /\ IsMarked(i) /\ ~IsMarked(i)',
         \/ tuner' = tuner
         \/ tuner # None /\ tuner' \in Tuners /\ tuner'.graph = tuner.graph
            /\ tuner'.lnb = tuner.lnb,
         UNCHANGED <<next, reqs, lnb, supported, asked, stuck>>
  PROVE  IInv'
<1> USE NoneAssumption DEF IInv
<1>1. task'[i] = t /\ \A j \in Calls : j # i => task'[j] = task[j]
  BY DEF Tasked, TypeOK
<1>2. /\ tuner' = None <=> tuner = None
      /\ tuner # None => tuner' \in Tuners /\ tuner'.graph = tuner.graph /\ tuner'.lnb = tuner.lnb
  BY DEF Tasked, TypeOK
<1>3. Tasked'
  <2>1. opened' \in BOOLEAN /\ lnb' \in BOOLEAN /\ supported' \in BOOLEAN /\ stuck' \in BOOLEAN
        /\ reqs' \in [Calls -> [last : Nat, closed : BOOLEAN]]
    BY DEF Tasked, TypeOK
  <2>2. Pending(i)' => Pending(i) /\ t.graph = task[i].graph
    BY <1>1 DEF Pending
  <2>3. \A g \in Calls : reqs'[g].closed => reqs[g].closed
    OBVIOUS
  <2> QED
    BY <1>2, <2>1, <2>2, <2>3, TaskHolds
<1>4. \A j \in Calls : j # i => (IsMarked(j)' <=> IsMarked(j))
  BY <1>1 DEF IsMarked
<1>5. MarkIsHeld'
  <2>1. CASE opened' = opened /\ (IsMarked(i)' <=> IsMarked(i))
    <3>1. \A j \in Calls : IsMarked(j)' <=> IsMarked(j)
      BY <1>4, <2>1
    <3> QED
      BY <1>2, <2>1, <3>1, MarksKept
  <2>2. CASE opened' = FALSE /\ IsMarked(i) /\ ~IsMarked(i)'
    BY <1>2, <1>4, <2>2, MarkFreed
  <2> QED
    BY <2>1, <2>2
<1>6. \A j \in Calls : Pending(j)' => /\ Pending(j) /\ task'[j].graph = task[j].graph
                                      /\ task'[j].arg = task[j].arg /\ task'[j].req = task[j].req
  BY <1>1 DEF Pending
<1>7. \A j \in Calls : TurnsOff(j) => task'[j] = task[j]
  BY <1>1
<1>8. call' # 0 /\ task'[call'].op = "lnb" =>
        /\ call' = call /\ task[call].op = "lnb" /\ task'[call].arg = task[call].arg
        /\ Pending(call) => Pending(call)'
        /\ task'[call].pc = "ok" => task[call].pc = "ok"
  <2>1. SUFFICES ASSUME call' # 0, task'[call'].op = "lnb"
                 PROVE  /\ call' = call /\ task[call].op = "lnb"
                        /\ task'[call].arg = task[call].arg
                        /\ Pending(call) => /\ task'[call].op = "lnb"
                                            /\ task'[call].pc \in {"queued", "cancelled", "send"}
                        /\ task'[call].pc = "ok" => task[call].pc = "ok"
    BY DEF Pending
  <2>2. call' = call /\ call \in Calls
    BY <2>1, CallsAssumption DEF Tasked, TypeOK, Calls
  <2>3. CASE call # i
    BY <1>1, <2>1, <2>2, <2>3 DEF Pending
  <2>4. CASE call = i
    BY <1>1, <2>1, <2>2, <2>4 DEF Pending, NoTask, Task
  <2> QED
    BY <2>3, <2>4
<1>9. LnbInv'
  BY <1>2, <1>3, <1>6, <1>7, <1>8, LnbKept
<1> QED
  BY <1>3, <1>5, <1>9

\* Whose task is the next to go on.
LEMMA TaskIs ==
  ASSUME IInv, NEW i \in Calls
  PROVE  /\ task[i] \in Tasks /\ AtPoint(task[i])
         /\ task[i] # NoTask => i <= next
  BY DEF IInv, Tasked, TypeOK, CallsFollow, Calls

LEMMA GiveUpHolds == IInv /\ GiveUp => IInv'
<1> SUFFICES ASSUME IInv, GiveUp PROVE IInv'
  OBVIOUS
<1>2. call \in Calls /\ call <= next
  BY CallsAssumption DEF GiveUp, IInv, Tasked, TypeOK, Calls
<1>0. PICK i \in Calls : i = call
  BY <1>2
<1> DEFINE o == task[i]
<1> DEFINE t == Abandoned(o)
<1>1. /\ call = i /\ i <= next /\ call' = 0 /\ i # 0 /\ task' = [task EXCEPT ![i] = t]
      /\ UNCHANGED <<opened, tuner, next, reqs, lnb, supported, asked, stuck>>
  BY <1>0, <1>2 DEF GiveUp
<1>3. /\ o \in Tasks /\ AtPoint(o)
      /\ o.op = "build" /\ o.pc \in {"connect", "ok"} => o.graph = i
  BY TaskIs DEF IInv, Tasked, GraphsAreBuilt
<1>4. NoTask \in Tasks /\ AtPoint(NoTask)
  BY CallsAssumption DEF Tasks, NoTask, Task, Ops, Points, Args, AtPoint
<1>5. task'[i] = t
  BY <1>1 DEF IInv, Tasked, TypeOK
<1> HIDE DEF o
<1>6. CASE o.pc = "queued"
  <2>1. t = [o EXCEPT !.pc = "cancelled"]
    BY <1>6 DEF Abandoned
  <2> HIDE DEF t
  <2>2. t \in Tasks /\ t.pc = "cancelled" /\ t.op = o.op /\ t.graph = o.graph /\ t.arg = o.arg
        /\ t.req = o.req
    BY <1>3, <2>1 DEF Tasks, Points
  <2>3. AtPoint(t)
    BY <1>3, <1>6, <2>2 DEF AtPoint, Tasks, Ops
  <2>4. ~TurnsOff(i) /\ (IsMarked(i)' <=> IsMarked(i))
    BY <1>1, <1>5, <1>6, <2>2 DEF TurnsOff, IsMarked, o
  <2> QED
    BY <1>1, <1>6, <2>2, <2>3, <2>4, StepHolds DEF o, Pending
<1>7. CASE o.op = "build" /\ o.pc = "ok"
  <2>1. t = [o EXCEPT !.op = "drop", !.pc = "graph"]
    <3>1. o.pc # "queued"
      BY <1>7
    <3> QED
      BY <1>7, <3>1 DEF Abandoned
  <2> HIDE DEF t
  <2>2. t \in Tasks /\ t.pc = "graph" /\ t.op = "drop"
    BY <1>3, <2>1 DEF Tasks, Points, Ops
  <2>3. AtPoint(t)
    BY <2>2 DEF AtPoint
  <2>4. ~TurnsOff(i) /\ (IsMarked(i)' <=> IsMarked(i))
    BY <1>1, <1>5, <1>7, <2>2 DEF TurnsOff, IsMarked, o
  <2> QED
    BY <1>1, <2>2, <2>3, <2>4, StepHolds
<1>8. CASE o.pc \in {"ok", "failed"} /\ ~(o.op = "build" /\ o.pc = "ok")
  <2>1. t = NoTask
    BY <1>8 DEF Abandoned
  <2> HIDE DEF t
  <2>2. t.op = "none" /\ t.pc = "end"
    BY <2>1 DEF NoTask, Task
  <2>3. o.op # "drop"
    BY <1>3, <1>8 DEF AtPoint
  <2>4. ~TurnsOff(i) /\ (IsMarked(i)' <=> IsMarked(i))
    BY <1>1, <1>5, <1>8, <2>2, <2>3 DEF TurnsOff, IsMarked, o
  <2> QED
    BY <1>1, <1>4, <2>1, <2>2, <2>4, StepHolds
<1>9. CASE o.pc \notin {"queued", "ok", "failed"}
  <2>1. t = o
    BY <1>9 DEF Abandoned
  <2> HIDE DEF t
  <2>2. IsMarked(i)' <=> IsMarked(i)
    BY <1>1, <1>5, <2>1 DEF IsMarked, o
  <2> QED
    BY <1>1, <1>3, <1>9, <2>1, <2>2, StepHolds DEF o, Pending
<1> QED
  BY <1>6, <1>7, <1>8, <1>9

\* A closure that goes on as it is.
LEMMA GoesHolds ==
  ASSUME IInv, NEW i \in Calls, NEW g \in 0 .. MaxCalls, NEW pc \in Points \ {"ok", "failed", "lnb"},
         task' = [task EXCEPT ![i] = [@ EXCEPT !.pc = pc, !.graph = g]],
         AtPoint([task[i] EXCEPT !.pc = pc, !.graph = g]),
         ~TurnsOff(i), task[i].op # "none",
         task[i].op = "build" => task[i].pc # "failed" /\ (pc = "connect" => g = i),
         task[i].op = "lnb" => g = task[i].graph
                               /\ task[i].pc \in {"queued", "cancelled", "send"},
         UNCHANGED <<opened, tuner, call, next, reqs, lnb, supported, asked, stuck>>
  PROVE  IInv'
<1> DEFINE t == [task[i] EXCEPT !.pc = pc, !.graph = g]
<1>1. task[i] \in Tasks /\ i <= next /\ AtPoint(task[i])
  BY TaskIs DEF NoTask, Task
<1>2. t \in Tasks /\ t.pc = pc /\ t.op = task[i].op /\ t.graph = g /\ t.arg = task[i].arg
      /\ t.req = task[i].req
  BY <1>1 DEF Tasks
<1>3. task'[i] = t /\ task' = [task EXCEPT ![i] = t]
  BY DEF IInv, Tasked, TypeOK
<1>4. AtPoint(t)
  OBVIOUS
<1> HIDE DEF t
<1>5. IsMarked(i)' <=> IsMarked(i)
  BY <1>2, <1>3 DEF IsMarked
<1>6. task[i].op = "lnb" => t.pc \in {"queued", "cancelled", "send"}
  BY <1>2, <1>4 DEF AtPoint
<1> QED
  BY <1>1, <1>2, <1>3, <1>4, <1>5, <1>6, StepHolds DEF Pending

\* A closure that comes to its end, as a drop of the graph where it is an open
\* nobody waits for.
LEMMA EndsHolds ==
  ASSUME IInv, NEW i \in Calls, NEW pc \in {"ok", "failed"}, Ends(i, pc),
         task[i].op \in {"build", "tune", "signal"}, task[i].pc # "failed",
         task[i].op = "build" /\ pc = "ok" => task[i].graph = i,
         UNCHANGED <<tuner, call, next, reqs, lnb, supported, asked, stuck>>
  PROVE  IInv'
<1> DEFINE o == task[i]
<1> DEFINE built == o.op = "build" /\ pc = "ok"
<1> DEFINE g == IF built THEN o.graph ELSE 0
<1> DEFINE d == [o EXCEPT !.pc = pc, !.graph = g]
<1> DEFINE t == IF call = i THEN d ELSE Abandoned(d)
<1>1. o \in Tasks /\ AtPoint(o) /\ i <= next
  BY TaskIs DEF NoTask, Task
<1>2. task' = [task EXCEPT ![i] = t]
      /\ opened' = IF o.op = "build" /\ ~built THEN FALSE ELSE opened
  BY DEF Ends
<1>3. task'[i] = t
  BY <1>2 DEF IInv, Tasked, TypeOK
<1>4. d \in Tasks /\ d.op = o.op /\ d.pc = pc /\ d.arg = o.arg /\ (built => d.graph = i)
  <2>1. g \in 0 .. MaxCalls /\ (built => g = i)
    BY <1>1, CallsAssumption DEF Tasks
  <2> HIDE DEF g, built, o
  <2> QED
    BY <1>1, <2>1 DEF Tasks, Points
<1>5. ~TurnsOff(i) /\ (IsMarked(i) <=> o.op = "build")
  BY DEF TurnsOff, IsMarked
<1> HIDE DEF o, d
<1>6. CASE call = i
  <2>1. t = d
    BY <1>6
  <2> HIDE DEF t
  <2>2. t \in Tasks /\ t.op = o.op /\ t.pc = pc /\ t.arg = o.arg /\ (built => t.graph = i)
    BY <1>4, <2>1
  <2>3. AtPoint(t)
    BY <1>1, <2>2 DEF AtPoint, o
  <2>4. IsMarked(i)' <=> built
    BY <1>3, <2>2 DEF IsMarked, o
  <2>5. \/ opened' = opened /\ (IsMarked(i)' <=> IsMarked(i))
        \/ opened' = FALSE /\ IsMarked(i) /\ ~IsMarked(i)'
    BY <1>2, <1>5, <2>4 DEF o
  <2>6. t.op # "lnb" /\ i = call' /\ call' = call
    BY <1>6, <2>2 DEF o
  <2> QED
    BY <1>1, <1>2, <1>5, <2>2, <2>3, <2>5, <2>6, StepHolds DEF o
<1>7. CASE call # i /\ built
  <2>1. t = [d EXCEPT !.op = "drop", !.pc = "graph"]
    <3>1. d.op = "build" /\ d.pc = "ok" /\ d.pc # "queued"
      BY <1>4, <1>7
    <3> QED
      BY <1>7, <3>1 DEF Abandoned
  <2> HIDE DEF t
  <2>2. t \in Tasks /\ t.op = "drop" /\ t.pc = "graph"
    BY <1>4, <2>1 DEF Tasks, Points, Ops
  <2>3. AtPoint(t)
    BY <2>2 DEF AtPoint
  <2>4. opened' = opened /\ (IsMarked(i)' <=> IsMarked(i))
    BY <1>2, <1>3, <1>5, <1>7, <2>2 DEF IsMarked
  <2> QED
    BY <1>1, <1>2, <1>5, <2>2, <2>3, <2>4, StepHolds
<1>8. CASE call # i /\ ~built
  <2>1. t = NoTask
    BY <1>4, <1>8 DEF Abandoned
  <2> HIDE DEF t
  <2>2. t \in Tasks /\ AtPoint(t) /\ t.op = "none" /\ t.pc = "end"
    BY <2>1, CallsAssumption DEF Tasks, NoTask, Task, Ops, Points, Args, AtPoint
  <2>3. ~IsMarked(i)'
    BY <1>3, <2>2 DEF IsMarked
  <2>4. \/ opened' = opened /\ (IsMarked(i)' <=> IsMarked(i))
        \/ opened' = FALSE /\ IsMarked(i) /\ ~IsMarked(i)'
    BY <1>2, <1>5, <1>8, <2>3
  <2> QED
    BY <1>1, <1>2, <1>5, <2>1, <2>2, <2>4, StepHolds
<1> QED
  BY <1>6, <1>7, <1>8

LEMMA StartHolds ==
  ASSUME IInv, NEW i \in Calls, Start(i)
  PROVE  IInv'
<1>1. /\ task[i].pc = "queued" /\ task[i] \in Tasks /\ AtPoint(task[i])
      /\ UNCHANGED <<opened, tuner, call, next, reqs, lnb, supported, asked, stuck>>
  BY TaskIs DEF Start, device
<1>2. task[i].op \in {"build", "tune", "signal", "lnb"}
  BY <1>1 DEF AtPoint, Tasks, Ops
<1> DEFINE pc == First(task[i].op)
<1>3. /\ task[i].op = "build" => pc = "acquire"
      /\ task[i].op = "tune" => pc = "select"
      /\ task[i].op = "signal" => pc = "ask"
      /\ task[i].op = "lnb" => pc = "send"
  <2>1. First("build") = "acquire" /\ First("tune") = "select" /\ First("signal") = "ask"
        /\ First("lnb") = "send"
    BY DEF First
  <2> QED
    BY <2>1
<1>4. task' = [task EXCEPT ![i] = [task[i] EXCEPT !.pc = pc]]
  BY DEF Start
<1> HIDE DEF pc
<1>5. pc \in Points \ {"ok", "failed", "lnb", "connect"}
  BY <1>2, <1>3 DEF Points
<1>6. [task[i] EXCEPT !.pc = pc] = [task[i] EXCEPT !.pc = pc, !.graph = task[i].graph]
      /\ task[i].graph \in 0 .. MaxCalls
  BY <1>1, <1>5 DEF Tasks
<1>7. task' = [task EXCEPT ![i] = [@ EXCEPT !.pc = pc, !.graph = task[i].graph]]
  BY <1>4, <1>6
<1>8. AtPoint([task[i] EXCEPT !.pc = pc, !.graph = task[i].graph])
  BY <1>1, <1>2, <1>3, <1>5 DEF AtPoint, Tasks
<1> QED
  BY <1>1, <1>2, <1>5, <1>6, <1>7, <1>8, GoesHolds DEF TurnsOff

\* What ends without a word: a call given up on before it began, or a drop.
LEMMA GoneHolds ==
  ASSUME IInv, NEW i \in Calls, task[i] # NoTask, task' = [task EXCEPT ![i] = NoTask], ~TurnsOff(i),
         IF IsMarked(i) THEN opened' = FALSE ELSE opened' = opened,
         call' = call \/ (call' = 0 /\ call = i),
         UNCHANGED <<tuner, next, reqs, lnb, supported, asked, stuck>>
  PROVE  IInv'
<1>1. /\ NoTask \in Tasks /\ AtPoint(NoTask) /\ NoTask.op = "none" /\ NoTask.pc = "end"
      /\ i <= next
  BY TaskIs, CallsAssumption DEF Tasks, NoTask, Task, Ops, Points, Args, AtPoint
<1>2. task'[i] = NoTask
  BY DEF IInv, Tasked, TypeOK
<1>3. ~IsMarked(i)'
  BY <1>1, <1>2 DEF IsMarked
<1>4. \/ opened' = opened /\ (IsMarked(i)' <=> IsMarked(i))
      \/ opened' = FALSE /\ IsMarked(i) /\ ~IsMarked(i)'
  BY <1>3
<1> HIDE DEF NoTask
<1> QED
  BY <1>1, <1>4, StepHolds

LEMMA DiscardHolds ==
  ASSUME IInv, NEW i \in Calls, Discard(i)
  PROVE  IInv'
<1>1. /\ task[i].pc = "cancelled" /\ AtPoint(task[i]) /\ task' = [task EXCEPT ![i] = NoTask]
      /\ opened' = MarkOf(task[i])
      /\ UNCHANGED <<tuner, call, next, reqs, lnb, supported, asked, stuck>>
  BY TaskIs DEF Discard
<1>2. task[i].op # "drop" /\ task[i] # NoTask
  BY <1>1 DEF AtPoint, NoTask, Task
<1>3. IF IsMarked(i) THEN opened' = FALSE ELSE opened' = opened
  BY <1>1, <1>2 DEF IsMarked, MarkOf
<1> QED
  BY <1>1, <1>2, <1>3, GoneHolds DEF TurnsOff

LEMMA DropMarkHolds ==
  ASSUME IInv, NEW i \in Calls, DropMark(i)
  PROVE  IInv'
<1>1. /\ task[i].op = "drop" /\ task[i].pc = "mark" /\ task' = [task EXCEPT ![i] = NoTask]
      /\ opened' = FALSE /\ call' = (IF call = i THEN 0 ELSE call)
      /\ UNCHANGED <<tuner, next, reqs, lnb, supported, asked, stuck>>
  BY DEF DropMark, device
<1>2. task[i] # NoTask /\ IsMarked(i) /\ ~TurnsOff(i)
  BY <1>1 DEF TurnsOff, IsMarked, NoTask, Task
<1> HIDE DEF NoTask
<1> QED
  BY <1>1, <1>2, GoneHolds

LEMMA DropGraphHolds ==
  ASSUME IInv, NEW i \in Calls, DropGraph(i)
  PROVE  IInv'
<1>1. /\ task[i].op = "drop" /\ task[i].pc = "graph" /\ task[i] \in Tasks
      /\ task' = [task EXCEPT ![i].graph = 0, ![i].pc = "mark"]
      /\ UNCHANGED <<opened, tuner, call, next, reqs, lnb, supported, asked, stuck>>
  BY TaskIs DEF DropGraph
<1>2. task' = [task EXCEPT ![i] = [@ EXCEPT !.pc = "mark", !.graph = 0]]
  BY <1>1 DEF IInv, Tasked, TypeOK, Tasks
<1>3. AtPoint([task[i] EXCEPT !.pc = "mark", !.graph = 0])
  BY <1>1 DEF AtPoint, Tasks
<1>4. "mark" \in Points \ {"ok", "failed", "lnb"} /\ 0 \in 0 .. MaxCalls
  BY CallsAssumption DEF Points
<1> QED
  BY <1>1, <1>2, <1>3, <1>4, GoesHolds DEF TurnsOff

LEMMA AcquireHolds ==
  ASSUME IInv, NEW i \in Calls, Acquire(i)
  PROVE  IInv'
<1>1. /\ task[i].pc = "acquire" /\ task[i] \in Tasks /\ AtPoint(task[i])
      /\ UNCHANGED <<tuner, call, next, reqs, lnb, supported, asked, stuck>>
  BY TaskIs DEF Acquire
<1>2. task[i].op = "build"
  BY <1>1 DEF AtPoint, Tasks, Ops
<1>3. CASE task' = [task EXCEPT ![i].pc = "connect", ![i].graph = i] /\ opened' = opened
  <2>1. task' = [task EXCEPT ![i] = [@ EXCEPT !.pc = "connect", !.graph = i]]
    BY <1>3 DEF IInv, Tasked, TypeOK
  <2>2. i \in 0 .. MaxCalls /\ "connect" \in Points \ {"ok", "failed", "lnb"}
    BY CallsAssumption DEF Calls, Points
  <2>3. AtPoint([task[i] EXCEPT !.pc = "connect", !.graph = i])
    BY <1>1, <1>2, <2>2 DEF AtPoint, Tasks
  <2> QED
    BY <1>1, <1>2, <1>3, <2>1, <2>2, <2>3, GoesHolds DEF TurnsOff
<1>4. CASE Ends(i, "failed")
  BY <1>1, <1>2, <1>4, EndsHolds
<1> QED
  BY <1>3, <1>4 DEF Acquire

LEMMA ConnectHolds ==
  ASSUME IInv, NEW i \in Calls, Connect(i)
  PROVE  IInv'
<1>1. /\ task[i].pc = "connect" /\ task[i] \in Tasks /\ AtPoint(task[i])
      /\ UNCHANGED <<tuner, call, next, reqs, lnb, supported, asked, stuck>>
  BY TaskIs DEF Connect
<1>2. task[i].op = "build"
  BY <1>1 DEF AtPoint, Tasks, Ops
<1>3. task[i].graph = i
  BY <1>1, <1>2 DEF IInv, Tasked, GraphsAreBuilt
<1>4. PICK r \in {"ok", "failed"} : Ends(i, r)
  BY DEF Connect
<1> QED
  BY <1>1, <1>2, <1>3, <1>4, EndsHolds

\* The steps of a tune, and of a signal().
LEMMA TuneStepsHold ==
  ASSUME IInv, NEW i \in Calls, TuneSteps(i)
  PROVE  IInv'
<1>1. /\ task[i] \in Tasks /\ AtPoint(task[i])
      /\ UNCHANGED <<tuner, call, next, reqs, lnb, supported, asked, stuck>>
  BY TaskIs DEF TuneSteps
<1>2. ASSUME NEW pc \in {"start", "tuner", "demod", "commit", "lock"}, Goes(i, pc),
             task[i].pc \in {"select", "start", "tuner", "demod", "commit"}
      PROVE  IInv'
  <2>1. task[i].op = "tune"
    BY <1>1, <1>2 DEF AtPoint, Tasks, Ops
  <2>2. /\ task' = [task EXCEPT ![i] = [@ EXCEPT !.pc = pc]] /\ opened' = opened
        /\ pc \in Points \ {"ok", "failed", "lnb"}
    BY <1>2 DEF Goes, Points
  <2>3. [task[i] EXCEPT !.pc = pc] = [task[i] EXCEPT !.pc = pc, !.graph = task[i].graph]
        /\ task[i].graph \in 0 .. MaxCalls
    BY <1>1, <2>2 DEF Tasks
  <2>4. task' = [task EXCEPT ![i] = [@ EXCEPT !.pc = pc, !.graph = task[i].graph]]
    BY <2>2, <2>3
  <2>5. AtPoint([task[i] EXCEPT !.pc = pc, !.graph = task[i].graph])
    BY <1>1, <1>2, <2>1 DEF AtPoint, Tasks
  <2> QED
    BY <1>1, <2>1, <2>2, <2>3, <2>4, <2>5, GoesHolds DEF TurnsOff
<1>3. ASSUME NEW pc \in {"ok", "failed"}, Ends(i, pc),
             task[i].pc \in {"select", "start", "tuner", "demod", "commit", "lock", "ask"}
      PROVE  IInv'
  <2>1. task[i].op \in {"tune", "signal"}
    BY <1>1, <1>3 DEF AtPoint, Tasks, Ops
  <2> QED
    BY <1>1, <1>3, <2>1, EndsHolds
<1>4. CASE SelectStream(i)
  BY <1>2, <1>4 DEF SelectStream
<1>5. CASE StartChanges(i)
  BY <1>2, <1>5 DEF StartChanges
<1>6. CASE SetTuner(i)
  BY <1>2, <1>6 DEF SetTuner
<1>7. CASE SetDemodulator(i)
  BY <1>2, <1>7 DEF SetDemodulator
<1>8. CASE CommitChanges(i)
  BY <1>2, <1>8 DEF CommitChanges
<1>9. CASE Lock(i)
  BY <1>3, <1>9 DEF Lock
<1>10. CASE TuneFails(i)
  BY <1>3, <1>10 DEF TuneFails
<1>11. CASE Ask(i)
  BY <1>3, <1>11 DEF Ask
<1> QED
  BY <1>4, <1>5, <1>6, <1>7, <1>8, <1>9, <1>10, <1>11 DEF TuneSteps

\* A command that may yet be sent is of the tuner there is.
LEMMA OfTheTuner ==
  ASSUME IInv, NEW i \in Calls, Pending(i), ~reqs[task[i].graph].closed, tuner # None
  PROVE  task[i].graph = tuner.graph
<1>1. \A d \in Calls : ~TurnsOff(d)
  BY OneAtATime DEF IInv, TurnsOff, IsMarked
<1> QED
  BY <1>1 DEF IInv, LnbInv, RequestsFollow, TurnsOff

\* A command that ends, sent or not, turns on nothing unknown, and what it
\* was asked for is so once it returns.
LEMMA SendLnbHolds ==
  ASSUME IInv, NEW i \in Calls, SendLnb(i)
  PROVE  IInv'
<1> USE NoneAssumption DEF IInv
<1> DEFINE o == task[i]
<1>1. /\ o.pc = "send" /\ o \in Tasks /\ AtPoint(o) /\ o # NoTask /\ i <= next
      /\ UNCHANGED <<tuner, call, next, reqs, supported, asked, stuck>>
  BY TaskIs DEF SendLnb, NoTask, Task
<1>2. o.op = "lnb" /\ Pending(i) /\ o.arg \in BOOLEAN /\ o.graph \in Calls
  BY <1>1 DEF AtPoint, Tasks, Ops, Pending, Tasked, GraphsAreBuilt
<1>3. PICK pc \in {"ok", "failed"} :
        /\ Ends(i, pc)
        /\ \/ lnb' = lnb
           \/ Latest(o) /\ supported /\ lnb' = o.arg
        /\ Latest(o) /\ pc = "ok" /\ supported => lnb' = o.arg
  <2>1. CASE ~Latest(o) /\ Ends(i, "ok") /\ UNCHANGED lnb
    BY <2>1
  <2>2. CASE Latest(o) /\ ~supported /\ Ends(i, IF o.arg THEN "failed" ELSE "ok") /\ UNCHANGED lnb
    <3>1. Ends(i, "failed") \/ Ends(i, "ok")
      BY <2>2
    <3> QED
      BY <2>2, <3>1
  <2>3. CASE Latest(o) /\ supported /\ lnb' = o.arg /\ Ends(i, "ok")
    BY <2>3
  <2>4. CASE Latest(o) /\ supported /\ lnb' \in {lnb, o.arg} /\ Ends(i, "failed")
    BY <2>4
  <2> QED
    BY <2>1, <2>2, <2>3, <2>4 DEF SendLnb
<1> DEFINE d == [o EXCEPT !.pc = pc, !.graph = 0]
<1> DEFINE t == IF call = i THEN d ELSE NoTask
<1>4. d \in Tasks /\ d.op = "lnb" /\ d.pc = pc /\ d.arg = o.arg
  <2>1. 0 \in 0 .. MaxCalls
    BY CallsAssumption
  <2> HIDE DEF o
  <2> QED
    BY <1>1, <1>2, <2>1 DEF Tasks, Points
<1>5. task' = [task EXCEPT ![i] = t] /\ opened' = opened
  <2>1. Ends(i, pc) => task' = [task EXCEPT ![i] = IF call = i THEN d ELSE Abandoned(d)]
                       /\ opened' = opened
    BY <1>2 DEF Ends
  <2>2. Abandoned(d) = NoTask
    BY <1>4 DEF Abandoned
  <2> QED
    BY <1>3, <2>1, <2>2
<1> HIDE DEF d
<1>6. /\ t \in Tasks /\ AtPoint(t) /\ t.op \in {"lnb", "none"} /\ t.pc \in {"ok", "failed", "end"}
      /\ t.op = "lnb" => call = i /\ t.pc = pc /\ t.arg = o.arg
      /\ t.pc \in {"ok", "failed"} => call = i
      /\ t = NoTask \/ t.op = o.op
  <2>1. NoTask \in Tasks /\ AtPoint(NoTask) /\ NoTask.op = "none" /\ NoTask.pc = "end"
    BY CallsAssumption DEF Tasks, NoTask, Task, Ops, Points, Args, AtPoint
  <2>2. AtPoint(d)
    BY <1>2, <1>4 DEF AtPoint
  <2> HIDE DEF NoTask
  <2>3. CASE call = i
    BY <1>2, <1>4, <2>2, <2>3
  <2>4. CASE call # i
    BY <2>1, <2>4
  <2> QED
    BY <2>3, <2>4
<1> HIDE DEF t
<1>7. task'[i] = t /\ \A j \in Calls : j # i => task'[j] = task[j]
  BY <1>5 DEF Tasked, TypeOK
<1>8. Tasked'
  <2>1. ~Pending(i)'
    BY <1>6, <1>7 DEF Pending
  <2>2. opened' \in BOOLEAN /\ lnb' \in BOOLEAN /\ supported' \in BOOLEAN /\ stuck' \in BOOLEAN
        /\ reqs' \in [Calls -> [last : Nat, closed : BOOLEAN]] /\ tuner \in Tuners \cup {None}
    BY <1>1, <1>2, <1>3, <1>5 DEF Tasked, TypeOK
  <2> QED
    BY <1>1, <1>2, <1>5, <1>6, <2>1, <2>2, TaskHolds
<1>9. MarkIsHeld'
  <2>1. \A j \in Calls : IsMarked(j)' <=> IsMarked(j)
    BY <1>2, <1>6, <1>7 DEF IsMarked
  <2> QED
    BY <1>1, <1>5, <2>1, MarksKept
<1>10. \A j \in Calls : Pending(j)' => j # i /\ Pending(j) /\ task'[j] = task[j]
  BY <1>6, <1>7 DEF Pending
<1>11. \A j \in Calls : TurnsOff(j) => task'[j] = task[j]
  BY <1>2, <1>7 DEF TurnsOff
<1>12. call # 0 => call \in Calls
  BY CallsAssumption DEF Tasked, TypeOK, Calls
<1>13. Latest(o) /\ tuner # None => o.graph = tuner.graph /\ o.req = reqs[tuner.graph].last
  BY <1>2, OfTheTuner DEF Latest
<1>14. call = i => o.graph = tuner.graph /\ o.req = reqs[tuner.graph].last
                   /\ tuner # None /\ Latest(o)
  BY <1>2, <1>12 DEF LnbInv, RequestsFollow, Tasked, CallsFollow, Latest, Calls
<1>15. RequestsFollow'
  <2> USE DEF LnbInv
  <2>1. \A j \in Calls :
          Pending(j)' /\ ~reqs'[task'[j].graph].closed =>
            \/ tuner' # None /\ tuner'.graph = task'[j].graph
            \/ \E e \in Calls : task'[e].op = "drop" /\ task'[e].pc = "lnb"
                                /\ task'[e].graph = task'[j].graph
    BY <1>1, <1>10, <1>11 DEF RequestsFollow, TurnsOff
  <2>2. \A j, k \in Calls :
          Pending(j)' /\ Pending(k)' /\ task'[j].graph = task'[k].graph
            /\ task'[j].req = task'[k].req => j = k
    BY <1>10 DEF RequestsFollow
  <2>3. /\ tuner' # None => ~reqs'[tuner'.graph].closed
        /\ \A j \in Calls : Pending(j)' => task'[j].req <= reqs'[task'[j].graph].last
    BY <1>1, <1>10 DEF RequestsFollow
  <2>4. call' # 0 /\ Pending(call)' =>
          task'[call'].graph = tuner'.graph /\ task'[call'].req = reqs'[tuner'.graph].last
    BY <1>1, <1>10, <1>12 DEF RequestsFollow, Pending
  <2>5. ASSUME call' # 0, task'[call'].op = "lnb", ~Pending(call)', NEW j \in Calls, Pending(j)',
               task'[j].graph = tuner'.graph
        PROVE  task'[j].req # reqs'[tuner'.graph].last
    <3>1. CASE call = i
      BY <2>5, <3>1, <1>1, <1>2, <1>10, <1>14 DEF RequestsFollow
    <3>2. CASE call # i
      BY <2>5, <3>2, <1>1, <1>7, <1>10, <1>12 DEF RequestsFollow, Pending
    <3> QED
      BY <3>1, <3>2
  <2> QED
    BY <2>1, <2>2, <2>3, <2>4, <2>5 DEF RequestsFollow
<1>16. LnbIsKnown'
  <2> USE DEF LnbInv
  <2>1. lnb' => supported'
    BY <1>1, <1>3 DEF LnbIsKnown
  <2>2. ASSUME NEW j \in Calls, Pending(j)', task'[j].arg = TRUE, ~reqs'[task'[j].graph].closed,
               task'[j].req = reqs'[task'[j].graph].last
        PROVE  \/ tuner' # None /\ tuner'.graph = task'[j].graph /\ tuner'.lnb
               \/ \E e \in Calls : task'[e].op = "drop" /\ task'[e].pc = "lnb"
                                   /\ task'[e].graph = task'[j].graph /\ task'[e].arg = TRUE
    BY <2>2, <1>1, <1>10, <1>11 DEF LnbIsKnown, TurnsOff
  <2> QED
    BY <2>1, <2>2 DEF LnbIsKnown
<1>17. LnbOffWhenGone'
  <2>1. CASE lnb' = lnb
    BY <2>1, <1>1, <1>11 DEF LnbInv, LnbOffWhenGone, TurnsOff
  <2>2. CASE Latest(o) /\ lnb' = o.arg
    <3>1. CASE o.arg = TRUE
      <4>1. \/ tuner # None /\ tuner.lnb
            \/ \E e \in Calls : TurnsOff(e) /\ task[e].arg = TRUE
        BY <2>2, <3>1, <1>2 DEF LnbInv, LnbIsKnown, Latest, TurnsOff
      <4> QED
        BY <4>1, <1>1, <1>11 DEF LnbOffWhenGone, TurnsOff
    <3>2. CASE o.arg = FALSE
      BY <2>2, <3>2 DEF LnbOffWhenGone
    <3> QED
      BY <1>2, <3>1, <3>2
  <2> QED
    BY <1>3, <2>1, <2>2
<1>18. AskedHolds'
  <2> USE DEF LnbInv
  <2>1. tuner' = None => asked' = None
    BY <1>1 DEF AskedHolds
  <2>2. ASSUME call' # 0, task'[call'].op = "lnb"
        PROVE  /\ task'[call'].arg \in BOOLEAN
               /\ task'[call'].pc = "ok" /\ supported' => lnb' = task'[call'].arg
    <3>1. CASE call = i
      BY <2>2, <3>1, <1>1, <1>2, <1>3, <1>6, <1>7, <1>14
    <3>2. CASE call # i
      <4>1. task'[call] = task[call] /\ task[call].op = "lnb" /\ tuner # None
        BY <2>2, <3>2, <1>1, <1>7, <1>12 DEF Tasked, CallsFollow
      <4>2. task[call].pc = "ok" => ~Latest(o)
        BY <4>1, <2>2, <1>1, <1>2, <1>13 DEF RequestsFollow, Pending
      <4> QED
        BY <2>2, <4>1, <4>2, <1>1, <1>3 DEF AskedHolds
    <3> QED
      BY <3>1, <3>2
  <2>3. asked' # None =>
          \A j \in Calls : Pending(j)' /\ task'[j].graph = tuner'.graph =>
            task'[j].req # reqs'[tuner'.graph].last
    BY <1>1, <1>10 DEF AskedHolds
  <2> QED
    BY <2>1, <2>2, <2>3 DEF AskedHolds
<1>19. LastAskedHolds'
  <2>1. asked # None /\ tuner # None => ~Latest(o)
    BY <1>2, <1>13 DEF LnbInv, AskedHolds
  <2> QED
    BY <2>1, <1>1, <1>3 DEF LnbInv, LastAskedHolds
<1> QED
  BY <1>8, <1>9, <1>15, <1>16, <1>17, <1>18, <1>19 DEF LnbInv

\* A tuner that goes turns off what it may have on, and with that no command
\* of its own comes through any more.
LEMMA DropLnbHolds ==
  ASSUME IInv, NEW i \in Calls, DropLnb(i)
  PROVE  IInv'
<1> USE NoneAssumption DEF IInv
<1> DEFINE o == task[i]
<1> DEFINE t == [o EXCEPT !.pc = "graph"]
<1>1. /\ o.op = "drop" /\ o.pc = "lnb" /\ o \in Tasks /\ AtPoint(o) /\ o # NoTask /\ i <= next
      /\ reqs' = [reqs EXCEPT ![o.graph].closed = TRUE]
      /\ task' = [task EXCEPT ![i] = t]
      /\ \/ o.arg /\ supported /\ lnb' = FALSE /\ stuck' = stuck
         \/ o.arg /\ stuck' = TRUE /\ lnb' = lnb
         \/ ~o.arg /\ lnb' = lnb /\ stuck' = stuck
      /\ UNCHANGED <<opened, tuner, call, next, supported, asked>>
  BY TaskIs DEF DropLnb, Goes, NoTask, Task
<1>2. TurnsOff(i) /\ o.graph \in Calls /\ o.arg \in BOOLEAN
  BY <1>1 DEF TurnsOff, Tasked, GraphsAreBuilt, AtPoint
<1>3. /\ t \in Tasks /\ t.op = "drop" /\ t.pc = "graph"
      /\ task'[i] = t /\ \A j \in Calls : j # i => task'[j] = task[j]
  BY <1>1 DEF Tasked, TypeOK, Tasks, Points
<1>4. AtPoint(t)
  BY <1>3 DEF AtPoint
<1> HIDE DEF t
<1>5. tuner = None /\ \A j \in Calls : TurnsOff(j) => j = i
  BY <1>2, OneAtATime DEF TurnsOff, IsMarked
<1>6. /\ reqs' \in [Calls -> [last : Nat, closed : BOOLEAN]] /\ reqs'[o.graph].closed = TRUE
      /\ \A g \in Calls : /\ reqs'[g].last = reqs[g].last
                          /\ g # o.graph => reqs'[g].closed = reqs[g].closed
  BY <1>1, <1>2 DEF Tasked, TypeOK
<1>7. Tasked'
  <2>1. /\ \A g \in Calls : reqs'[g].closed => reqs[g].closed \/ (TurnsOff(i) /\ g = o.graph)
        /\ ~Pending(i)'
    BY <1>2, <1>3, <1>6 DEF Pending
  <2>2. opened' \in BOOLEAN /\ lnb' \in BOOLEAN /\ supported' \in BOOLEAN /\ stuck' \in BOOLEAN
    BY <1>1 DEF Tasked, TypeOK
  <2> QED
    BY <1>1, <1>3, <1>4, <1>5, <1>6, <2>1, <2>2, TaskHolds
<1>8. MarkIsHeld'
  <2>1. \A j \in Calls : IsMarked(j)' <=> IsMarked(j)
    BY <1>1, <1>3 DEF IsMarked
  <2> QED
    BY <1>1, <2>1, MarksKept
<1>9. \A j \in Calls : Pending(j)' => Pending(j) /\ task'[j] = task[j] /\ task[j].graph \in Calls
  BY <1>1, <1>3 DEF Pending, Tasked, GraphsAreBuilt
<1>10. \A j \in Calls : Pending(j)' => reqs'[task'[j].graph].closed
  BY <1>5, <1>6, <1>9 DEF LnbInv, RequestsFollow, TurnsOff
<1>11. ~(call # 0 /\ task'[call].op = "lnb")
  <2>1. call # 0 => call \in Calls
    BY CallsAssumption DEF Tasked, TypeOK, Calls
  <2> QED
    BY <1>1, <1>3, <1>5, <2>1 DEF Tasked, CallsFollow
<1>12. RequestsFollow'
  <2>1. \A j, k \in Calls :
          Pending(j)' /\ Pending(k)' /\ task'[j].graph = task'[k].graph
            /\ task'[j].req = task'[k].req => j = k
    BY <1>9 DEF LnbInv, RequestsFollow
  <2>2. \A j \in Calls : Pending(j)' => task'[j].req <= reqs'[task'[j].graph].last
    BY <1>6, <1>9 DEF LnbInv, RequestsFollow
  <2> QED
    BY <1>1, <1>5, <1>10, <1>11, <2>1, <2>2 DEF RequestsFollow, Pending
<1>13. LnbIsKnown'
  <2>1. lnb' => supported'
    BY <1>1 DEF LnbInv, LnbIsKnown
  <2> QED
    BY <1>10, <2>1 DEF LnbIsKnown
<1>14. LnbOffWhenGone'
  <2>1. lnb => o.arg \/ stuck
    BY <1>1, <1>2, <1>5 DEF LnbInv, LnbOffWhenGone, TurnsOff
  <2>2. lnb' => stuck'
    <3>1. CASE lnb' = FALSE
      BY <3>1
    <3>2. CASE stuck' = TRUE
      BY <3>2
    <3>3. CASE ~o.arg /\ lnb' = lnb /\ stuck' = stuck
      BY <2>1, <3>3
    <3> QED
      BY <1>1, <3>1, <3>2, <3>3
  <2> QED
    BY <2>2 DEF LnbOffWhenGone
<1>15. AskedHolds' /\ LastAskedHolds'
  BY <1>1, <1>5, <1>11 DEF LnbInv, AskedHolds, LastAskedHolds
<1> QED
  BY <1>7, <1>8, <1>12, <1>13, <1>14, <1>15 DEF LnbInv

\* Ok from open_tuner: the mark is the tuner's, and nothing is to come for it.
LEMMA OpenedHolds ==
  ASSUME IInv, Return, task[call].op = "build", task[call].pc = "ok"
  PROVE  IInv'
<1> USE NoneAssumption DEF IInv
<1>0. call # 0 /\ call \in Calls /\ call <= next
  BY CallsAssumption DEF Return, Tasked, TypeOK, Calls
<1>1. PICK i \in Calls : i = call
  BY <1>0
<1>2. /\ task[i].op = "build" /\ task[i].pc = "ok" /\ task[i].graph = i /\ call' = 0 /\ i <= next
      /\ tuner' = [graph |-> i, system |-> None, lnb |-> FALSE] /\ asked' = asked
      /\ task' = [task EXCEPT ![i] = NoTask]
      /\ UNCHANGED <<opened, next, reqs, lnb, supported, stuck>>
  <2>1. task[call].graph = call
    BY <1>0 DEF Tasked, GraphsAreBuilt
  <2> QED
    BY <1>0, <1>1, <2>1 DEF Return, device
<1>3. tuner = None /\ opened = TRUE /\ \A j \in Calls : IsMarked(j) => j = i
  BY <1>2, OneAtATime DEF IsMarked
<1>4. /\ NoTask \in Tasks /\ AtPoint(NoTask) /\ NoTask.op = "none" /\ NoTask.pc = "end"
      /\ task'[i] = NoTask /\ \A j \in Calls : j # i => task'[j] = task[j]
  BY <1>2, CallsAssumption
     DEF Tasks, NoTask, Task, Ops, Points, Args, AtPoint, Tasked, TypeOK
<1>5. tuner' \in Tuners /\ tuner' # None /\ tuner'.graph = i
  <2>1. tuner' \in Tuners
    BY <1>2 DEF Tuners
  <2> QED
    BY <1>2, <2>1
<1> HIDE DEF NoTask
<1>6. Tasked'
  <2>1. ~Pending(i)'
    BY <1>4 DEF Pending
  <2>2. opened' \in BOOLEAN /\ lnb' \in BOOLEAN /\ supported' \in BOOLEAN /\ stuck' \in BOOLEAN
        /\ reqs' \in [Calls -> [last : Nat, closed : BOOLEAN]]
    BY <1>2 DEF Tasked, TypeOK
  <2>3. \A g \in Calls : reqs'[g].closed => reqs[g].closed
    BY <1>2
  <2> QED
    BY <1>1, <1>2, <1>3, <1>4, <1>5, <2>1, <2>2, <2>3, TaskHolds
<1>7. \A j \in Calls : ~TurnsOff(j) /\ ~IsMarked(j)'
  BY <1>2, <1>3, <1>4 DEF TurnsOff, IsMarked
<1>8. MarkIsHeld'
  <2>1. Marks' = {0}
    BY <1>5, <1>7 DEF Marks, IsMarked
  <2> QED
    BY <1>2, <1>3, <2>1 DEF MarkIsHeld
<1>9. \A j \in Calls : Pending(j)' => Pending(j) /\ task'[j] = task[j]
  BY <1>4 DEF Pending
<1>10. \A j \in Calls : Pending(j)' => reqs'[task'[j].graph].closed
  BY <1>2, <1>3, <1>7, <1>9 DEF LnbInv, RequestsFollow, TurnsOff
<1>11. ~reqs'[i].closed
  BY <1>2 DEF Tasked, GraphsAreBuilt
<1>12. RequestsFollow'
  BY <1>2, <1>5, <1>9, <1>10, <1>11 DEF LnbInv, RequestsFollow
<1>13. LnbIsKnown'
  BY <1>2, <1>10 DEF LnbInv, LnbIsKnown
<1>14. LnbOffWhenGone'
  BY <1>2, <1>3, <1>7 DEF LnbInv, LnbOffWhenGone, TurnsOff
<1>15. AskedHolds' /\ LastAskedHolds'
  BY <1>2, <1>3, <1>5 DEF LnbInv, AskedHolds, LastAskedHolds
<1> QED
  BY <1>6, <1>8, <1>12, <1>13, <1>14, <1>15 DEF LnbInv

\* Ok from set_lnb: the supply is as asked, and the tuner knows.
LEMMA LnbSetHolds ==
  ASSUME IInv, Return, task[call].op = "lnb", task[call].pc = "ok"
  PROVE  IInv'
<1> USE NoneAssumption DEF IInv
<1>0. call # 0 /\ call \in Calls /\ call <= next
  BY CallsAssumption DEF Return, Tasked, TypeOK, Calls
<1>1. PICK i \in Calls : i = call
  BY <1>0
<1> DEFINE on == task[i].arg
<1>2. /\ task[i].op = "lnb" /\ task[i].pc = "ok" /\ call' = 0 /\ i <= next
      /\ tuner' = [tuner EXCEPT !.lnb = on] /\ asked' = on
      /\ task' = [task EXCEPT ![i] = NoTask] /\ on \in BOOLEAN
      /\ UNCHANGED <<opened, next, reqs, lnb, supported, stuck>>
  BY <1>0, <1>1 DEF Return, device, LnbInv, AskedHolds
<1>3. tuner # None /\ tuner \in Tuners /\ supported => lnb = on
  BY <1>0, <1>1, <1>2 DEF Tasked, TypeOK, CallsFollow, LnbInv, AskedHolds
<1>4. /\ NoTask \in Tasks /\ AtPoint(NoTask) /\ NoTask.op = "none" /\ NoTask.pc = "end"
      /\ task'[i] = NoTask /\ \A j \in Calls : j # i => task'[j] = task[j]
  BY <1>2, CallsAssumption
     DEF Tasks, NoTask, Task, Ops, Points, Args, AtPoint, Tasked, TypeOK
<1>5. tuner # None /\ tuner \in Tuners
  BY <1>0, <1>1, <1>2 DEF Tasked, TypeOK, CallsFollow
<1>6. tuner' \in Tuners /\ tuner' # None /\ tuner'.graph = tuner.graph /\ tuner'.lnb = on
  BY <1>2, <1>5 DEF Tuners
<1>7. \A j \in Calls : Pending(j) /\ task[j].graph = tuner.graph =>
                         task[j].req # reqs[tuner.graph].last
  BY <1>0, <1>1, <1>2 DEF LnbInv, RequestsFollow, Pending
<1> HIDE DEF NoTask, on
<1>8. Tasked'
  <2>1. ~Pending(i)'
    BY <1>4 DEF Pending
  <2>2. opened' \in BOOLEAN /\ lnb' \in BOOLEAN /\ supported' \in BOOLEAN /\ stuck' \in BOOLEAN
        /\ reqs' \in [Calls -> [last : Nat, closed : BOOLEAN]]
    BY <1>2 DEF Tasked, TypeOK
  <2>3. \A g \in Calls : reqs'[g].closed => reqs[g].closed
    BY <1>2
  <2> QED
    BY <1>1, <1>2, <1>4, <1>5, <1>6, <2>1, <2>2, <2>3, TaskHolds
<1>9. MarkIsHeld'
  <2>1. \A j \in Calls : IsMarked(j)' <=> IsMarked(j)
    BY <1>2, <1>4 DEF IsMarked
  <2> QED
    BY <1>2, <1>5, <1>6, <2>1, MarksKept
<1>10. \A j \in Calls : Pending(j)' => Pending(j) /\ task'[j] = task[j]
  BY <1>4 DEF Pending
<1>11. \A j \in Calls : TurnsOff(j) => task'[j] = task[j]
  BY <1>2, <1>4 DEF TurnsOff
<1>12. RequestsFollow'
  <2>1. \A j \in Calls :
          Pending(j)' /\ ~reqs'[task'[j].graph].closed =>
            \/ tuner' # None /\ tuner'.graph = task'[j].graph
            \/ \E d \in Calls : task'[d].op = "drop" /\ task'[d].pc = "lnb"
                                /\ task'[d].graph = task'[j].graph
    BY <1>2, <1>6, <1>10, <1>11 DEF LnbInv, RequestsFollow, TurnsOff
  <2>2. \A j, k \in Calls :
          Pending(j)' /\ Pending(k)' /\ task'[j].graph = task'[k].graph
            /\ task'[j].req = task'[k].req => j = k
    BY <1>10 DEF LnbInv, RequestsFollow
  <2>3. /\ tuner' # None => ~reqs'[tuner'.graph].closed
        /\ \A j \in Calls : Pending(j)' => task'[j].req <= reqs'[task'[j].graph].last
    BY <1>2, <1>5, <1>6, <1>10 DEF LnbInv, RequestsFollow
  <2> QED
    BY <1>2, <2>1, <2>2, <2>3 DEF RequestsFollow
<1>13. LnbIsKnown'
  <2>1. lnb' => supported'
    BY <1>2 DEF LnbInv, LnbIsKnown
  <2>2. ASSUME NEW j \in Calls, Pending(j)', task'[j].arg = TRUE, ~reqs'[task'[j].graph].closed,
               task'[j].req = reqs'[task'[j].graph].last
        PROVE  \E d \in Calls : task'[d].op = "drop" /\ task'[d].pc = "lnb"
                                /\ task'[d].graph = task'[j].graph /\ task'[d].arg = TRUE
    BY <2>2, <1>2, <1>7, <1>10, <1>11 DEF LnbInv, LnbIsKnown, TurnsOff
  <2> QED
    BY <2>1, <2>2 DEF LnbIsKnown
<1>14. LnbOffWhenGone'
  <2>1. lnb => on = TRUE
    BY <1>2, <1>3, <1>5 DEF LnbInv, LnbIsKnown
  <2> QED
    BY <1>2, <1>6, <2>1 DEF LnbOffWhenGone
<1>15. AskedHolds' /\ LastAskedHolds'
  BY <1>2, <1>3, <1>5, <1>6, <1>7, <1>10 DEF AskedHolds, LastAskedHolds
<1> QED
  BY <1>8, <1>9, <1>12, <1>13, <1>14, <1>15 DEF LnbInv

LEMMA ReturnHolds == IInv /\ Return => IInv'
<1> SUFFICES ASSUME IInv, Return PROVE IInv'
  OBVIOUS
<1> USE NoneAssumption DEF IInv
<1>0. call # 0 /\ call \in Calls /\ call <= next
  BY CallsAssumption DEF Return, Tasked, TypeOK, Calls
<1>1. PICK i \in Calls : i = call
  BY <1>0
<1>2. /\ task[i].pc \in {"ok", "failed"} /\ call' = 0 /\ i <= next /\ AtPoint(task[i])
      /\ task[i] \in Tasks
      /\ task' = [task EXCEPT ![i] = NoTask]
      /\ UNCHANGED <<opened, next, reqs, lnb, supported, stuck>>
  BY <1>0, <1>1, TaskIs DEF Return, device
<1>3. CASE task[i].op = "build" /\ task[i].pc = "ok"
  BY <1>1, <1>3, OpenedHolds
<1>4. CASE task[i].op = "lnb" /\ task[i].pc = "ok"
  BY <1>1, <1>4, LnbSetHolds
<1>5. CASE task[i].pc = "failed" \/ task[i].op \notin {"build", "lnb"}
  <2>1. ~TurnsOff(i) /\ ~IsMarked(i)
    BY <1>2, <1>5 DEF AtPoint, TurnsOff, IsMarked
  <2>2. /\ NoTask \in Tasks /\ AtPoint(NoTask) /\ NoTask.op = "none" /\ NoTask.pc = "end"
        /\ task'[i] = NoTask
    BY <1>2, CallsAssumption
       DEF Tasks, NoTask, Task, Ops, Points, Args, AtPoint, Tasked, TypeOK
  <2>3. ~IsMarked(i)'
    BY <2>2 DEF IsMarked
  <2>4. asked' = asked
    BY <1>1, <1>2, <1>5 DEF Return
  <2>5. \/ tuner' = tuner
        \/ tuner # None /\ tuner' \in Tuners /\ tuner'.graph = tuner.graph
           /\ tuner'.lnb = tuner.lnb
    <3>1. CASE task[i].pc = "failed"
      BY <1>1, <3>1 DEF Return
    <3>2. CASE task[i].pc = "ok" /\ task[i].op = "tune"
      <4>1. tuner' = [tuner EXCEPT !.system = task[i].arg.system]
        BY <1>1, <3>2 DEF Return
      <4>2. tuner # None /\ tuner \in Tuners /\ task[i].arg \in Params
        BY <1>0, <1>1, <1>2, <3>2 DEF Tasked, TypeOK, CallsFollow, AtPoint
      <4> QED
        BY <4>1, <4>2 DEF Tuners
    <3>3. CASE task[i].pc = "ok" /\ task[i].op \notin {"build", "tune", "lnb"}
      BY <1>1, <3>3 DEF Return
    <3> QED
      BY <1>2, <1>5, <3>1, <3>2, <3>3
  <2> HIDE DEF NoTask
  <2> QED
    BY <1>1, <1>2, <2>1, <2>2, <2>3, <2>4, <2>5, StepHolds
<1> QED
  BY <1>2, <1>3, <1>4, <1>5

-----------------------------------------------------------------------------

LEMMA NextHolds == IInv /\ [Next]_vars => IInv'
<1> SUFFICES ASSUME IInv, [Next]_vars PROVE IInv'
  OBVIOUS
<1>1. CASE OpenTuner
  BY <1>1, OpenHolds
<1>2. CASE Signal
  <2> DEFINE t == Task("signal", "queued", tuner.graph, None, 0)
  <2>1. tuner # None /\ tuner \in Tuners /\ tuner.graph \in 0 .. MaxCalls
    BY <1>2 DEF Signal, IInv, Tasked, TypeOK, Tuners, Calls
  <2>2. t \in Tasks /\ AtPoint(t) /\ t.op = "signal" /\ t.pc = "queued"
    BY <2>1, CallsAssumption DEF Tasks, Task, Ops, Points, Args, AtPoint
  <2>3. Called(t) /\ UNCHANGED <<opened, tuner, reqs, lnb, supported, asked, stuck>>
    BY <1>2 DEF Signal, device
  <2> HIDE DEF t
  <2> QED
    BY <2>1, <2>2, <2>3, AskHolds
<1>3. CASE Close
  BY <1>3, CloseHolds
<1>4. CASE GiveUp
  BY <1>4, GiveUpHolds
<1>5. CASE Return
  BY <1>5, ReturnHolds
<1>6. ASSUME NEW p \in Params, Tune(p)
      PROVE  IInv'
  <2> DEFINE t == Task("tune", "queued", tuner.graph, p, 0)
  <2>1. tuner # None /\ tuner \in Tuners /\ tuner.graph \in 0 .. MaxCalls
    BY <1>6 DEF Tune, IInv, Tasked, TypeOK, Tuners, Calls
  <2>2. t \in Tasks /\ AtPoint(t) /\ t.op = "tune" /\ t.pc = "queued"
    BY <2>1, CallsAssumption DEF Tasks, Task, Ops, Points, Args, AtPoint
  <2>3. /\ Called(t) /\ tuner' = SystemUnset(tuner)
        /\ UNCHANGED <<opened, reqs, lnb, supported, asked, stuck>>
    BY <1>6 DEF Tune, device
  <2>4. tuner' \in Tuners /\ tuner'.graph = tuner.graph /\ tuner'.lnb = tuner.lnb
    BY <2>1, <2>3 DEF SystemUnset, Tuners
  <2> HIDE DEF t
  <2> QED
    BY <2>1, <2>2, <2>3, <2>4, AskHolds
<1>7. ASSUME NEW on \in BOOLEAN, SetLnb(on)
      PROVE  IInv'
  BY <1>7, SetLnbHolds
<1>8. ASSUME NEW i \in Calls, Runs(i)
      PROVE  IInv'
  BY <1>8, StartHolds, DiscardHolds, AcquireHolds, ConnectHolds, TuneStepsHold, SendLnbHolds,
     DropLnbHolds, DropGraphHolds, DropMarkHolds DEF Runs
<1>9. CASE UNCHANGED vars
  BY <1>9 DEF vars, holder, device, IInv, Tasked, TypeOK, CallsFollow, GraphsAreBuilt, Pending,
              TurnsOff, MarkIsHeld, Marks, LnbInv, RequestsFollow, LnbIsKnown, LnbOffWhenGone,
              AskedHolds, LastAskedHolds
<1> QED
  BY <1>1, <1>2, <1>3, <1>4, <1>5, <1>6, <1>7, <1>8, <1>9 DEF Next

-----------------------------------------------------------------------------
(* What is tuned to                                                        *)

\* A tune that changes, or may yet change, what the device is set to.
Live(i) == task[i].op = "tune" /\ task[i].pc # "cancelled"

\* How far a tune that was not in the way of another has come.
ComeTo(i) ==
  LET p == task[i].arg
      pc == task[i].pc IN
  /\ pc \in {"start", "tuner", "demod", "commit", "lock", "ok"} /\ p.system \in Satellite =>
       tuned.stream = p
  /\ pc \in {"demod", "commit"} => change.tuner = p
  /\ pc = "commit" /\ p.system \in Satellite => change.demod = p
  /\ pc \in {"lock", "ok"} => /\ tuned.tuner = p
                              /\ p.system \in Satellite => tuned.demod = p

\* What is set, and what is in force.
Settings ==
  /\ change \in [tuner : Params \cup {None}, demod : Params \cup {None}]
  /\ tuned \in [stream : Params \cup {None}, tuner : Params \cup {None}, demod : Params \cup {None}]

\* A tune begun with none under way is alone, and the tuner does not know its
\* system until it is over.
TuneInv ==
  ~overlap =>
    /\ \A i, j \in Calls : Live(i) /\ Live(j) => i = j
    /\ tuner # None /\ tuner.system # None => \A i \in Calls : ~Live(i)
    /\ \A i \in Calls : Live(i) => ComeTo(i)
    /\ FormatIsTuned

\* What goes on as it is, ends, or has not begun.
GoesOn(j) ==
  task'[j].op = "tune" =>
    /\ task[j].op = "tune" /\ task'[j].arg = task[j].arg
    /\ task[j].pc = "cancelled" => task'[j].pc = "cancelled"
    /\ \/ task'[j].pc = task[j].pc
       \/ task'[j].pc \in {"cancelled", "select", "failed"}
       \/ task[j].pc = "lock" /\ task'[j].pc = "ok"

\* What is done beside the tuning.
LEMMA TuneKept ==
  ASSUME TuneInv, \A j \in Calls : GoesOn(j),
         UNCHANGED <<overlap, change, tuned>>,
         \/ tuner' = None \/ tuner'.system = None
         \/ tuner # None /\ tuner'.system = tuner.system
  PROVE  TuneInv'
<1> SUFFICES ASSUME ~overlap
             PROVE  /\ \A i, j \in Calls : Live(i)' /\ Live(j)' => i = j
                    /\ tuner' # None /\ tuner'.system # None => \A i \in Calls : ~Live(i)'
                    /\ \A i \in Calls : Live(i)' => ComeTo(i)'
                    /\ FormatIsTuned'
  BY DEF TuneInv
<1>1. \A j \in Calls : Live(j)' => Live(j)
  BY DEF GoesOn, Live
<1>2. \A i, j \in Calls : Live(i)' /\ Live(j)' => i = j
  BY <1>1 DEF TuneInv
<1>3. tuner' # None /\ tuner'.system # None => \A i \in Calls : ~Live(i)'
  BY <1>1 DEF TuneInv
<1>4. ASSUME NEW i \in Calls, Live(i)' PROVE ComeTo(i)'
  <2>1. ComeTo(i) /\ task'[i].op = "tune"
    BY <1>1, <1>4 DEF TuneInv, Live
  <2> QED
    BY <2>1 DEF GoesOn, ComeTo
<1>5. FormatIsTuned'
  BY DEF TuneInv, FormatIsTuned
<1> QED
  BY <1>2, <1>3, <1>4, <1>5

LEMMA FormatInit == Init => TuneInv
<1> SUFFICES ASSUME Init PROVE TuneInv
  OBVIOUS
<1>1. \A i \in Calls : ~Live(i)
  BY DEF Init, Live, NoTask, Task
<1>2. tuner = None
  BY DEF Init
<1> QED
  BY <1>1, <1>2 DEF TuneInv, FormatIsTuned

LEMMA AsideFormat ==
  ASSUME IInv, TuneInv, OpenTuner \/ Signal \/ Close \/ \E on \in BOOLEAN : SetLnb(on)
  PROVE  TuneInv'
<1>1. /\ UNCHANGED <<overlap, change, tuned>>
      /\ \/ tuner' = None \/ tuner' = tuner
         \/ \E on \in BOOLEAN : tuner # None /\ tuner' = Marked(tuner, on)
  BY DEF OpenTuner, Signal, Close, SetLnb, device
<1>2. PICK op, pc, g, a, r : op \in {"build", "signal", "drop", "lnb"} /\ Called(Task(op, pc, g, a, r))
  BY DEF OpenTuner, Signal, Close, SetLnb
<1>3. \A j \in Calls : GoesOn(j)
  <2>1. task \in [Calls -> Tasks] /\ task' = [task EXCEPT ![next'] = Task(op, pc, g, a, r)]
    BY <1>2 DEF Called, IInv, Tasked, TypeOK
  <2>2. ASSUME NEW j \in Calls PROVE GoesOn(j)
    <3>1. CASE j = next'
      <4>1. task'[j].op = op
        BY <2>1, <3>1 DEF Task
      <4> QED
        BY <4>1, <1>2 DEF GoesOn
    <3>2. CASE j # next'
      <4>1. task'[j] = task[j]
        BY <2>1, <3>2
      <4> QED
        BY <4>1 DEF GoesOn
    <3> QED
      BY <3>1, <3>2
  <2> QED
    BY <2>2
<1>4. tuner' = None \/ tuner'.system = None \/ (tuner # None /\ tuner'.system = tuner.system)
  <2>1. tuner # None => tuner \in Tuners
    BY DEF IInv, Tasked, TypeOK
  <2>2. \A on \in BOOLEAN : tuner # None => Marked(tuner, on).system = tuner.system
    BY <2>1 DEF Marked, Tuners
  <2> QED
    BY <1>1, <2>2
<1> QED
  BY <1>1, <1>3, <1>4, TuneKept

LEMMA TuneFormat ==
  ASSUME IInv, TuneInv, NEW p \in Params, Tune(p)
  PROVE  TuneInv'
<1> DEFINE t == Task("tune", "queued", tuner.graph, p, 0)
<1>1. tuner # None /\ tuner \in Tuners /\ tuner' = SystemUnset(tuner)
      /\ overlap' = \E i \in Calls : Live(i)
  BY DEF Tune, IInv, Tasked, TypeOK, Live
<1>2. tuner'.system = None
  BY <1>1 DEF SystemUnset, Tuners
<1>3. task \in [Calls -> Tasks] /\ task' = [task EXCEPT ![next'] = t]
  BY DEF Tune, Called, IInv, Tasked, TypeOK
<1> SUFFICES ASSUME ~overlap'
             PROVE  /\ \A i, j \in Calls : Live(i)' /\ Live(j)' => i = j
                    /\ tuner' # None /\ tuner'.system # None => \A i \in Calls : ~Live(i)'
                    /\ \A i \in Calls : Live(i)' => ComeTo(i)'
                    /\ FormatIsTuned'
  BY DEF TuneInv
<1>4. \A i \in Calls : ~Live(i)
  BY <1>1
<1>5. ASSUME NEW i \in Calls, Live(i)' PROVE i = next' /\ task'[i].pc = "queued"
  <2>1. CASE i = next'
    BY <1>3, <2>1 DEF Task
  <2>2. CASE i # next'
    <3>1. task'[i] = task[i]
      BY <1>3, <2>2
    <3> QED
      BY <1>4, <1>5, <3>1 DEF Live
  <2> QED
    BY <2>1, <2>2
<1>6. \A i \in Calls : Live(i)' => ComeTo(i)'
  BY <1>5 DEF ComeTo
<1>7. FormatIsTuned'
  BY <1>2 DEF FormatIsTuned
<1> QED
  BY <1>2, <1>5, <1>6, <1>7

\* A closure that ends.
LEMMA EndsFormat ==
  ASSUME IInv, TuneInv, NEW i \in Calls, NEW pc \in {"ok", "failed"}, Ends(i, pc),
         task[i].op = "tune" => pc = "failed" \/ task[i].pc = "lock",
         task[i].pc \notin {"cancelled", "queued"},
         UNCHANGED <<tuner, overlap, change, tuned>>
  PROVE  TuneInv'
<1> DEFINE t == task[i]
           done == [t EXCEPT !.pc = pc, !.graph = IF t.op = "build" /\ pc = "ok" THEN @ ELSE 0]
           new == IF call = i THEN done ELSE Abandoned(done)
<1>1. task \in [Calls -> Tasks] /\ t \in Tasks /\ task' = [task EXCEPT ![i] = new]
  BY DEF Ends, IInv, Tasked, TypeOK
<1>2. done.op = t.op /\ done.pc = pc /\ done.arg = t.arg
  BY <1>1 DEF Tasks
<1>3. new.op = "tune" => new = done
  <2>1. NoTask.op = "none"
    BY DEF NoTask, Task
  <2>2. [done EXCEPT !.op = "drop", !.pc = "graph"].op = "drop"
    BY <1>1 DEF Tasks
  <2> HIDE DEF done, t
  <2> QED
    BY <1>2, <2>1, <2>2 DEF Abandoned
<1> HIDE DEF done, new
<1>4. \A j \in Calls : GoesOn(j)
  <2>1. ASSUME NEW j \in Calls PROVE GoesOn(j)
    <3>1. CASE j = i
      <4>1. task'[j] = new
        BY <1>1, <3>1
      <4> QED
        BY <1>2, <1>3, <3>1, <4>1 DEF GoesOn
    <3>2. CASE j # i
      <4>1. task'[j] = task[j]
        BY <1>1, <3>2
      <4> QED
        BY <4>1 DEF GoesOn
    <3> QED
      BY <3>1, <3>2
  <2> QED
    BY <2>1
<1> QED
  BY <1>4, TuneKept

\* A task that goes on, beside the tuning.
LEMMA OnFormat ==
  ASSUME IInv, TuneInv, NEW i \in Calls, NEW t, task' = [task EXCEPT ![i] = t],
         t.op = "tune" =>
           /\ task[i].op = "tune" /\ t.arg = task[i].arg
           /\ task[i].pc = "cancelled" => t.pc = "cancelled"
           /\ t.pc \in {task[i].pc, "cancelled", "select", "failed"},
         UNCHANGED <<tuner, overlap, change, tuned>>
  PROVE  TuneInv'
<1>1. task \in [Calls -> Tasks]
  BY DEF IInv, Tasked, TypeOK
<1>2. ASSUME NEW j \in Calls PROVE GoesOn(j)
  <2>1. CASE j = i
    <3>1. task'[j] = t
      BY <1>1, <2>1
    <3> QED
      BY <2>1, <3>1 DEF GoesOn
  <2>2. CASE j # i
    <3>1. task'[j] = task[j]
      BY <1>1, <2>2
    <3> QED
      BY <3>1 DEF GoesOn
  <2> QED
    BY <2>1, <2>2
<1> QED
  BY <1>2, TuneKept

LEMMA GiveUpFormat ==
  ASSUME IInv, TuneInv, GiveUp
  PROVE  TuneInv'
<1>1. /\ call \in Calls /\ task' = [task EXCEPT ![call] = Abandoned(task[call])]
      /\ UNCHANGED <<tuner, overlap, change, tuned>>
  BY CallsAssumption DEF GiveUp, IInv, Tasked, TypeOK, Calls
<1> PICK i \in Calls : i = call
  BY <1>1
<1>2. task[i] \in Tasks
  BY DEF IInv, Tasked, TypeOK
<1> DEFINE t == Abandoned(task[i])
<1>3. t.op = "tune" =>
        /\ task[i].op = "tune" /\ t.arg = task[i].arg
        /\ task[i].pc = "cancelled" => t.pc = "cancelled"
        /\ t.pc \in {task[i].pc, "cancelled", "select", "failed"}
  <2>1. CASE task[i].pc = "queued"
    BY <1>2, <2>1 DEF Abandoned, Tasks
  <2>2. CASE task[i].pc = "ok" /\ task[i].op = "build"
    BY <1>2, <2>2 DEF Abandoned, Tasks
  <2>3. CASE task[i].pc = "failed" \/ (task[i].pc = "ok" /\ task[i].op # "build")
    BY <1>2, <2>3 DEF Abandoned, NoTask, Task
  <2>4. CASE task[i].pc \notin {"queued", "ok", "failed"}
    BY <2>4 DEF Abandoned
  <2> QED
    BY <2>1, <2>2, <2>3, <2>4
<1> HIDE DEF t
<1>4. task' = [task EXCEPT ![i] = t]
  BY <1>1 DEF t
<1> QED
  BY <1>1, <1>3, <1>4, OnFormat

\* A tuner knows its system once its tune is over, when it is tuned to.
LEMMA ReturnFormat ==
  ASSUME IInv, TuneInv, Return
  PROVE  TuneInv'
<1>1. /\ call \in Calls /\ call # 0 /\ task' = [task EXCEPT ![call] = NoTask]
      /\ task[call].pc \in {"ok", "failed"} /\ UNCHANGED <<overlap, change, tuned>>
  BY CallsAssumption DEF Return, device, IInv, Tasked, TypeOK, Calls
<1> PICK i \in Calls : i = call
  BY <1>1
<1>2. task \in [Calls -> Tasks] /\ AtPoint(task[i]) /\ NoTask.op = "none"
  BY DEF IInv, Tasked, TypeOK, NoTask, Task
<1>3. \A j \in Calls : task'[j] = IF j = i THEN NoTask ELSE task[j]
  BY <1>1, <1>2
<1>4. CASE task[i].op = "tune" /\ task[i].pc = "ok"
  <2>1. tuner # None /\ tuner \in Tuners /\ tuner' = [tuner EXCEPT !.system = task[i].arg.system]
    BY <1>1, <1>4 DEF Return, IInv, Tasked, TypeOK, CallsFollow
  <2>2. tuner'.system = task[i].arg.system
    BY <2>1 DEF Tuners
  <2> SUFFICES ASSUME ~overlap
               PROVE  /\ \A j, k \in Calls : Live(j)' /\ Live(k)' => j = k
                      /\ tuner' # None /\ tuner'.system # None => \A j \in Calls : ~Live(j)'
                      /\ \A j \in Calls : Live(j)' => ComeTo(j)'
                      /\ FormatIsTuned'
    BY <1>1 DEF TuneInv
  <2>3. Live(i) /\ ComeTo(i)
    BY <1>4 DEF TuneInv, Live
  <2>4. \A j \in Calls : ~Live(j)'
    BY <1>2, <1>3, <2>3 DEF TuneInv, Live
  <2>5. task[i].arg \in Params /\ task[i].arg # None
    BY <1>2, <1>4, NoneAssumption DEF AtPoint
  <2>6. FormatIsTuned'
    BY <1>1, <1>4, <2>2, <2>3, <2>5 DEF ComeTo, FormatIsTuned
  <2> QED
    BY <2>4, <2>6
<1>5. CASE ~(task[i].op = "tune" /\ task[i].pc = "ok")
  <2>1. \A j \in Calls : GoesOn(j)
    BY <1>2, <1>3 DEF GoesOn
  <2>2. tuner' = None \/ tuner'.system = None \/ (tuner # None /\ tuner'.system = tuner.system)
    <3>1. CASE task[i].pc = "failed"
      BY <1>1, <3>1 DEF Return
    <3>2. CASE task[i].pc = "ok" /\ task[i].op = "build"
      <4>1. tuner' = [graph |-> task[i].graph, system |-> None, lnb |-> FALSE]
        BY <3>2 DEF Return
      <4> QED
        BY <4>1
    <3>3. CASE task[i].pc = "ok" /\ task[i].op = "lnb"
      <4>1. tuner # None /\ tuner \in Tuners /\ tuner' = [tuner EXCEPT !.lnb = task[i].arg]
        BY <1>1, <3>3 DEF Return, IInv, Tasked, TypeOK, CallsFollow
      <4> QED
        BY <4>1 DEF Tuners
    <3>4. CASE task[i].pc = "ok" /\ task[i].op \notin {"build", "tune", "lnb"}
      BY <3>4 DEF Return
    <3> QED
      BY <1>1, <1>5, <3>1, <3>2, <3>3, <3>4
  <2> QED
    BY <1>1, <2>1, <2>2, TuneKept
<1> QED
  BY <1>4, <1>5

\* A tune that is alone sets all of it.
LEMMA SetFormat ==
  ASSUME IInv, Settings, TuneInv, NEW i \in Calls,
         \/ SelectStream(i) \/ StartChanges(i) \/ SetTuner(i) \/ SetDemodulator(i) \/ CommitChanges(i),
         UNCHANGED <<tuner, overlap>>
  PROVE  TuneInv'
<1>1. task \in [Calls -> Tasks] /\ AtPoint(task[i]) /\ task[i] \in Tasks
  BY DEF IInv, Tasked, TypeOK
<1>2. task[i].op = "tune" /\ task[i].pc \in {"select", "start", "tuner", "demod", "commit"}
  BY <1>1 DEF AtPoint, Tasks, Ops, SelectStream, StartChanges, SetTuner, SetDemodulator, CommitChanges
<1>3. PICK pc \in {"start", "tuner", "demod", "commit", "lock"} :
        task' = [task EXCEPT ![i].pc = pc]
  BY DEF SelectStream, StartChanges, SetTuner, SetDemodulator, CommitChanges, Goes
<1>4. /\ task'[i].op = "tune" /\ task'[i].pc = pc /\ task'[i].arg = task[i].arg
      /\ \A j \in Calls : j # i => task'[j] = task[j]
  BY <1>1, <1>2, <1>3 DEF Tasks
<1> SUFFICES ASSUME ~overlap
             PROVE  /\ \A j, k \in Calls : Live(j)' /\ Live(k)' => j = k
                    /\ tuner' # None /\ tuner'.system # None => \A j \in Calls : ~Live(j)'
                    /\ \A j \in Calls : Live(j)' => ComeTo(j)'
                    /\ FormatIsTuned'
  BY DEF TuneInv
<1>5. Live(i) /\ ComeTo(i) /\ task[i].arg # None
  BY <1>1, <1>2, NoneAssumption DEF Live, TuneInv, AtPoint
<1>6. \A j \in Calls : Live(j)' => j = i
  BY <1>4, <1>5 DEF TuneInv, Live
<1>7. tuner = None \/ tuner.system = None
  BY <1>5 DEF TuneInv
<1>8. ComeTo(i)'
  <2>1. CASE SelectStream(i)
    <3>1. pc = "start" /\ task'[i].pc = "start" /\ task'[i].arg = task[i].arg
      BY <1>1, <1>2, <1>3, <1>4, <2>1 DEF SelectStream, Goes, Tasks
    <3>2. CASE task[i].arg.system \in Satellite
      <4>1. tuned' = [tuned EXCEPT !.stream = task[i].arg]
        BY <2>1, <3>2 DEF SelectStream
      <4>2. tuned'.stream = task[i].arg
        BY <4>1 DEF Settings
      <4> QED
        BY <3>1, <4>2 DEF ComeTo
    <3>3. CASE task[i].arg.system \notin Satellite
      BY <3>1, <3>3 DEF ComeTo
    <3> QED
      BY <3>2, <3>3
  <2>2. CASE StartChanges(i)
    BY <1>1, <1>4, <1>5, <2>2 DEF StartChanges, Goes, ComeTo
  <2>3. CASE SetTuner(i)
    BY <1>1, <1>4, <1>5, <2>3 DEF SetTuner, Goes, ComeTo
  <2>4. CASE SetDemodulator(i)
    BY <1>1, <1>4, <1>5, <2>4 DEF SetDemodulator, Goes, ComeTo
  <2>5. CASE CommitChanges(i)
    BY <1>1, <1>4, <1>5, <2>5 DEF CommitChanges, Goes, ComeTo
  <2> QED
    BY <2>1, <2>2, <2>3, <2>4, <2>5
<1>9. FormatIsTuned'
  BY <1>7 DEF FormatIsTuned
<1> QED
  BY <1>6, <1>7, <1>8, <1>9

LEMMA RunsFormat ==
  ASSUME IInv, Settings, TuneInv, NEW i \in Calls, Runs(i)
  PROVE  TuneInv'
<1>1. task \in [Calls -> Tasks] /\ AtPoint(task[i]) /\ task[i] \in Tasks
  BY DEF IInv, Tasked, TypeOK
<1>2. CASE Start(i)
  <2> DEFINE t == [task[i] EXCEPT !.pc = First(task[i].op)]
  <2>1. /\ t.op = task[i].op /\ t.arg = task[i].arg /\ (t.op = "tune" => t.pc = "select")
        /\ task' = [task EXCEPT ![i] = t] /\ task[i].pc = "queued"
    BY <1>1, <1>2 DEF Start, First, Tasks
  <2>2. UNCHANGED <<tuner, overlap, change, tuned>>
    BY <1>2 DEF Start, device
  <2> HIDE DEF t
  <2> QED
    BY <2>1, <2>2, OnFormat
<1>3. CASE Discard(i) \/ DropMark(i)
  <2>1. task' = [task EXCEPT ![i] = NoTask] /\ UNCHANGED <<tuner, overlap, change, tuned>>
    BY <1>3 DEF Discard, DropMark, device
  <2>2. NoTask.op = "none"
    BY DEF NoTask, Task
  <2> HIDE DEF NoTask
  <2> QED
    BY <2>1, <2>2, OnFormat
<1>4. CASE DropLnb(i) \/ DropGraph(i)
  <2>1. PICK t : /\ task' = [task EXCEPT ![i] = t] /\ t.op = "drop"
                 /\ UNCHANGED <<tuner, overlap, change, tuned>>
    <3>1. CASE DropLnb(i)
      <4>1. task' = [task EXCEPT ![i] = [task[i] EXCEPT !.pc = "graph"]]
        BY <3>1 DEF DropLnb, Goes
      <4>2. [task[i] EXCEPT !.pc = "graph"].op = "drop"
        BY <1>1, <3>1 DEF DropLnb, Tasks
      <4> QED
        BY <3>1, <4>1, <4>2 DEF DropLnb
    <3>2. CASE DropGraph(i)
      <4>1. task' = [task EXCEPT ![i] = [task[i] EXCEPT !.graph = 0, !.pc = "mark"]]
        BY <1>1, <3>2 DEF DropGraph
      <4>2. [task[i] EXCEPT !.graph = 0, !.pc = "mark"].op = "drop"
        BY <1>1, <3>2 DEF DropGraph, Tasks
      <4> QED
        BY <3>2, <4>1, <4>2 DEF DropGraph
    <3> QED
      BY <1>4, <3>1, <3>2
  <2> QED
    BY <2>1, OnFormat
<1>5. ASSUME NEW pc \in {"ok", "failed"}, Ends(i, pc), task[i].op # "tune" \/ pc = "failed" \/ task[i].pc = "lock",
             task[i].pc \notin {"cancelled", "queued"}, UNCHANGED <<tuner, overlap, change, tuned>>
      PROVE  TuneInv'
  BY <1>5, EndsFormat
<1>6. CASE Acquire(i)
  <2>1. task[i].op = "build" /\ UNCHANGED <<tuner, overlap, change, tuned>> /\ task[i].pc = "acquire"
    BY <1>1, <1>6 DEF Acquire, AtPoint, Tasks, Ops
  <2>2. CASE task' = [task EXCEPT ![i].pc = "connect", ![i].graph = i]
    <3>1. task' = [task EXCEPT ![i] = [task[i] EXCEPT !.pc = "connect", !.graph = i]]
      BY <1>1, <2>2
    <3>2. [task[i] EXCEPT !.pc = "connect", !.graph = i].op = "build"
      BY <1>1, <2>1 DEF Tasks
    <3> QED
      BY <2>1, <3>1, <3>2, OnFormat
  <2> QED
    BY <1>5, <1>6, <2>1, <2>2 DEF Acquire
<1>7. CASE Connect(i)
  <2>1. task[i].op = "build" /\ UNCHANGED <<tuner, overlap, change, tuned>> /\ task[i].pc = "connect"
    BY <1>1, <1>7 DEF Connect, AtPoint, Tasks, Ops
  <2> QED
    BY <1>5, <1>7, <2>1 DEF Connect
<1>8. CASE SendLnb(i)
  <2>1. task[i].op = "lnb" /\ UNCHANGED <<tuner, overlap, change, tuned>> /\ task[i].pc = "send"
    BY <1>1, <1>8 DEF SendLnb, AtPoint, Tasks, Ops
  <2>2. \E pc \in {"ok", "failed"} : Ends(i, pc)
    BY <1>8 DEF SendLnb
  <2> QED
    BY <1>5, <2>1, <2>2
<1>9. CASE TuneSteps(i)
  <2>1. UNCHANGED <<tuner, overlap>>
    BY <1>9 DEF TuneSteps
  <2>2. CASE Lock(i) \/ TuneFails(i)
    BY <1>5, <2>1, <2>2 DEF Lock, TuneFails
  <2>3. CASE Ask(i)
    <3>1. task[i].op = "signal"
      BY <1>1, <2>3 DEF Ask, AtPoint, Tasks, Ops
    <3> QED
      BY <1>5, <2>1, <2>3, <3>1 DEF Ask
  <2> QED
    BY <1>9, <2>1, <2>2, <2>3, SetFormat DEF TuneSteps
<1> QED
  BY <1>2, <1>3, <1>4, <1>6, <1>7, <1>8, <1>9 DEF Runs

LEMMA SettingsInit == Init => Settings
  BY DEF Init, Settings

LEMMA SettingsNext == IInv /\ Settings /\ [Next]_vars => Settings'
<1> SUFFICES ASSUME IInv, Settings, [Next]_vars PROVE Settings'
  OBVIOUS
<1>1. CASE UNCHANGED <<change, tuned>>
  BY <1>1 DEF Settings
<1>2. ASSUME NEW i \in Calls, TuneSteps(i)
      PROVE  Settings'
  <2>1. task[i] \in Tasks /\ AtPoint(task[i])
    BY DEF IInv, Tasked, TypeOK
  <2>2. CASE Lock(i) \/ TuneFails(i) \/ Ask(i)
    BY <1>1, <2>2 DEF Lock, TuneFails, Ask
  <2>3. CASE task[i].pc \in {"select", "start", "tuner", "demod", "commit"}
    <3>1. task[i].arg \in Params
      BY <2>1, <2>3 DEF AtPoint, Tasks, Ops
    <3>2. CASE SelectStream(i)
      BY <3>1, <3>2 DEF SelectStream, Settings
    <3>3. CASE StartChanges(i)
      BY <3>3 DEF StartChanges, Settings
    <3>4. CASE SetTuner(i)
      BY <3>1, <3>4 DEF SetTuner, Settings
    <3>5. CASE SetDemodulator(i)
      BY <3>1, <3>5 DEF SetDemodulator, Settings
    <3>6. CASE CommitChanges(i)
      BY <3>6 DEF CommitChanges, Settings
    <3> QED
      BY <1>2, <2>2, <3>2, <3>3, <3>4, <3>5, <3>6 DEF TuneSteps
  <2> QED
    BY <1>2, <2>2, <2>3
       DEF TuneSteps, SelectStream, StartChanges, SetTuner, SetDemodulator, CommitChanges
<1>3. CASE UNCHANGED vars \/ OpenTuner \/ Signal \/ Close \/ GiveUp \/ Return
  BY <1>1, <1>3 DEF vars, device, OpenTuner, Signal, Close, GiveUp, Return
<1>4. ASSUME NEW p \in Params, Tune(p)
      PROVE  Settings'
  BY <1>1, <1>4 DEF Tune, device
<1>5. ASSUME NEW on \in BOOLEAN, SetLnb(on)
      PROVE  Settings'
  BY <1>1, <1>5 DEF SetLnb, device
<1>6. ASSUME NEW i \in Calls, Runs(i)
      PROVE  Settings'
  BY <1>1, <1>2, <1>6
     DEF Runs, Start, Discard, Acquire, Connect, SendLnb, DropLnb, DropGraph, DropMark, device
<1> QED
  BY <1>3, <1>4, <1>5, <1>6 DEF Next

LEMMA FormatNext == IInv /\ Settings /\ TuneInv /\ [Next]_vars => TuneInv'
<1> SUFFICES ASSUME IInv, Settings, TuneInv, [Next]_vars PROVE TuneInv'
  OBVIOUS
<1>1. CASE UNCHANGED vars
  <2>1. UNCHANGED <<tuner, task, overlap, change, tuned>>
    BY <1>1 DEF vars, holder, device
  <2>2. \A j \in Calls : GoesOn(j)
    BY <2>1 DEF GoesOn
  <2> QED
    BY <2>1, <2>2, TuneKept
<1> QED
  BY <1>1, AsideFormat, TuneFormat, GiveUpFormat, ReturnFormat, RunsFormat DEF Next

-----------------------------------------------------------------------------

\* The inductive invariant holds: calls follow from the tuner they were made of,
\* and what marks it, its graph and its LNB are told by them (mod.rs:638).
THEOREM InvHolds == Spec => []IInv
  BY InitHolds, NextHolds, PTL DEF Spec

\* However many calls are made, and wherever they are given up on, the mark of
\* a tuner is there exactly while it is held, coming or going (mod.rs:380).
THEOREM MarkIsHeldHolds == Spec => []MarkIsHeld
  BY InvHolds, PTL DEF IInv

\* No supply is left on for good, but by a command to turn it off that failed
\* (mod.rs:644, 650).
THEOREM LnbOffWhenGoneHolds == Spec => []LnbOffWhenGone
  BY InvHolds, PTL DEF IInv, LnbInv

\* What set_lnb returned Ok for stays so until asked for again (mod.rs:650).
THEOREM LastAskedHoldsAlways == Spec => []LastAskedHolds
  BY InvHolds, PTL DEF IInv, LnbInv

\* A tuner that knows its system is tuned to it in all its parts, also after
\* tunes that failed midway or were given up before they began; but for one
\* begun with another under way (mod.rs:753).
THEOREM FormatIsTunedHolds == Spec => []FormatIsTuned
<1>1. Init => IInv /\ Settings /\ TuneInv
  BY InitHolds, SettingsInit, FormatInit
<1>2. IInv /\ Settings /\ TuneInv /\ [Next]_vars => (IInv /\ Settings /\ TuneInv)'
  BY NextHolds, SettingsNext, FormatNext
<1>3. TuneInv => FormatIsTuned
  BY DEF TuneInv, FormatIsTuned
<1> QED
  BY <1>1, <1>2, <1>3, PTL DEF Spec

=============================================================================
