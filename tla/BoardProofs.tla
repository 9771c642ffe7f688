---------------------------- MODULE BoardProofs ----------------------------
(***************************************************************************)
(* Proofs about Board and StreamHub, for any device, and any number of     *)
(* tuners and bridges.                                                     *)
(***************************************************************************)
EXTENDS Board, FiniteSetTheorems, TLAPS

\* Each way a device can take a step.
LEMMA NextCases ==
  ASSUME Next
  PROVE  \/ \E i \in Tuners : PowerFails(i)
         \/ \E i \in Tuners : OpenTuner(i)
         \/ \E i \in Tuners : OpenFails(i)
         \/ \E i \in Tuners : SetLnb(i, TRUE)
         \/ \E i \in Tuners : SetLnb(i, FALSE)
         \/ \E i \in Tuners : Tune(i)
         \/ \E i \in Tuners : TuneEnds(i)
         \/ \E i \in Tuners : Stream(i)
         \/ \E i \in Tuners : StreamFails(i)
         \/ \E i \in Tuners : Emit(i)
         \/ \E i \in Tuners : Drop(i)
         \/ \E i \in Tuners : LetGo(i)
         \/ \E i \in Tuners : Release(i)
         \/ \E b \in Bridges : Receive(b)
         \/ \E b \in Bridges : ReceiveFails(b)
BY DEF Next

-----------------------------------------------------------------------------
(* Counting the tuners on a board *)

\* Of a set of tuners, those on one bridge are finitely many.
LEMMA FewOnBridge ==
  ASSUME NEW S \in SUBSET Tuners, NEW b \in Bridges
  PROVE  /\ IsFiniteSet(S \cap On(b))
         /\ Cardinality(S \cap On(b)) \in Nat
         /\ Cardinality(S \cap On(b)) \in 0..Cardinality(Tuners)
         /\ Cardinality(S \cap On(b)) = 0 <=> S \cap On(b) = {}
<1>1. S \cap On(b) \in SUBSET Tuners
  OBVIOUS
<1>2. /\ IsFiniteSet(S \cap On(b))
      /\ Cardinality(S \cap On(b)) <= Cardinality(Tuners)
  BY <1>1, TunersAssumption, FS_Subset
<1>3. /\ Cardinality(S \cap On(b)) \in Nat
      /\ Cardinality(Tuners) \in Nat
  BY <1>2, TunersAssumption, FS_CardinalityType
<1>4. Cardinality(S \cap On(b)) = 0 <=> S \cap On(b) = {}
  BY <1>2, FS_EmptySet
<1>5. QED
  BY <1>2, <1>3, <1>4

\* One tuner more makes one more on its own bridge.
LEMMA OneMore ==
  ASSUME NEW S \in SUBSET Tuners, NEW i \in Tuners, i \notin S, NEW b \in Bridges
  PROVE  Cardinality((S \cup {i}) \cap On(b)) =
           Cardinality(S \cap On(b)) + IF b = BridgeOf[i] THEN 1 ELSE 0
<1>1. IsFiniteSet(S \cap On(b)) /\ Cardinality(S \cap On(b)) \in Nat
  BY FewOnBridge
<1>2. CASE b = BridgeOf[i]
  <2>1. (S \cup {i}) \cap On(b) = (S \cap On(b)) \cup {i}
    BY <1>2 DEF On
  <2>2. QED
    BY <1>1, <1>2, <2>1, FS_AddElement
<1>3. CASE b # BridgeOf[i]
  <2>1. (S \cup {i}) \cap On(b) = S \cap On(b)
    BY <1>3 DEF On
  <2>2. QED
    BY <1>1, <1>3, <2>1
<1>4. QED
  BY <1>2, <1>3

\* One tuner less makes one less on its own bridge.
LEMMA OneLess ==
  ASSUME NEW S \in SUBSET Tuners, NEW i \in S, NEW b \in Bridges
  PROVE  Cardinality(S \cap On(b)) =
           Cardinality((S \ {i}) \cap On(b)) + IF b = BridgeOf[i] THEN 1 ELSE 0
<1>1. (S \ {i}) \cup {i} = S
  OBVIOUS
<1>2. QED
  BY <1>1, OneMore, S \ {i} \in SUBSET Tuners, i \notin S \ {i}

-----------------------------------------------------------------------------
(* Types, and what the driver counts *)

\* A tuner counts as open until it is released, and open_count is the number of
\* those on the board.
Counted ==
  /\ \A i \in Tuners : handle[i] # "none" <=> i \in opened
  /\ \A b \in Bridges : count[b] = Cardinality(opened \cap On(b))

LEMMA CountedInit == Init => TypeOK /\ Counted
<1> SUFFICES ASSUME Init PROVE TypeOK /\ Counted
  OBVIOUS
<1>1. \A b \in Bridges : opened \cap On(b) = {} /\ Cardinality({}) = 0
  BY FS_EmptySet DEF Init
<1>2. Counted
  BY <1>1 DEF Init, Counted
<1>3. HubTypeOK
  BY DEF Init, HubInit, HubTypeOK
<1>4. Cardinality(Tuners) \in Nat
  BY TunersAssumption, FS_CardinalityType
<1>5. /\ count \in [Bridges -> 0..Cardinality(Tuners)]
      /\ handle \in [Tuners -> {"none", "held", "gone"}]
      /\ system \in [Tuners -> {"none", "locking", "set"}]
  BY <1>4 DEF Init
<1>6. QED
  BY <1>2, <1>3, <1>5 DEF Init, TypeOK

\* The tuners of the device are among Tuners, and so are its boards.
LEMMA DeviceTypes ==
  ASSUME TypeOK
  PROVE  /\ device.tuners \in SUBSET Tuners
         /\ opened \in SUBSET device.tuners
         /\ Boards \in SUBSET Bridges
BY DevicesAssumption, BridgeAssumption DEF TypeOK, Boards

\* The hub keeps its types, whatever is done to it.
LEMMA HubTypeStep == TypeOK /\ [Next]_vars => HubTypeOK'
<1> SUFFICES ASSUME TypeOK, [Next]_vars PROVE HubTypeOK'
  OBVIOUS
<1> USE BridgeAssumption DEF TypeOK, HubTypeOK, hubVars
<1>1. CASE UNCHANGED vars
  BY <1>1 DEF vars
<1>2. ASSUME NEW i \in Tuners, PowerFails(i) PROVE HubTypeOK'
  BY <1>2 DEF PowerFails
<1>3. ASSUME NEW i \in Tuners, OpenTuner(i) PROVE HubTypeOK'
  BY <1>3 DEF OpenTuner
<1>4. ASSUME NEW i \in Tuners, OpenFails(i) PROVE HubTypeOK'
  BY <1>4 DEF OpenFails
<1>5. ASSUME NEW i \in Tuners, SetLnb(i, TRUE) \/ SetLnb(i, FALSE) PROVE HubTypeOK'
  BY <1>5 DEF SetLnb
<1>6. ASSUME NEW i \in Tuners, Tune(i) PROVE HubTypeOK'
  BY <1>6 DEF Tune
<1>7. ASSUME NEW i \in Tuners, TuneEnds(i) PROVE HubTypeOK'
  BY <1>7 DEF TuneEnds
<1>8. ASSUME NEW i \in Tuners, Stream(i) PROVE HubTypeOK'
  BY <1>8 DEF Stream, Attached, Purged
<1>9. ASSUME NEW i \in Tuners, StreamFails(i) PROVE HubTypeOK'
  BY <1>9 DEF StreamFails, Abort, Detach, Purged
<1>10. ASSUME NEW i \in Tuners, Emit(i) PROVE HubTypeOK'
  BY <1>10 DEF Emit
<1>11. ASSUME NEW i \in Tuners, Drop(i) PROVE HubTypeOK'
  BY <1>11 DEF Drop, DropStream
<1>12. ASSUME NEW i \in Tuners, LetGo(i) PROVE HubTypeOK'
  BY <1>12 DEF LetGo
<1>13. ASSUME NEW i \in Tuners, Release(i) PROVE HubTypeOK'
  BY <1>13 DEF Release, Detach
<1>14. ASSUME NEW b \in Bridges, Receive(b) PROVE HubTypeOK'
  BY <1>14 DEF Receive, Transfer, Leave
<1>15. ASSUME NEW b \in Bridges, ReceiveFails(b) PROVE HubTypeOK'
  BY <1>15 DEF ReceiveFails, TransferFails
<1>16. QED
  BY <1>1, <1>2, <1>3, <1>4, <1>5, <1>6, <1>7, <1>8, <1>9, <1>10, <1>11,
     <1>12, <1>13, <1>14, <1>15, NextCases

\* What a step changes of who has a tuner open.
LEMMA CountedStep == TypeOK /\ Counted /\ [Next]_vars => Counted'
<1> SUFFICES ASSUME TypeOK, Counted, [Next]_vars PROVE Counted'
  OBVIOUS
<1> DEFINE Still == UNCHANGED <<opened, handle, count>>
<1>1. Still => Counted'
  BY DEF Counted
<1>2. CASE UNCHANGED vars
  BY <1>1, <1>2 DEF vars, boardVars
<1>3. ASSUME NEW i \in Tuners, OpenTuner(i) PROVE Counted'
  <2>1. handle' = [handle EXCEPT ![i] = "held"] /\ opened' = opened \cup {i}
    BY <1>3 DEF OpenTuner
  <2>2. \A j \in Tuners : handle'[j] # "none" <=> j \in opened'
    BY <2>1 DEF Counted, TypeOK
  <2>3. ASSUME NEW b \in Bridges PROVE count'[b] = Cardinality(opened' \cap On(b))
    <3>1. Cardinality(opened' \cap On(b)) =
            Cardinality(opened \cap On(b)) + IF b = BridgeOf[i] THEN 1 ELSE 0
      BY <1>3, <2>1, OneMore, DeviceTypes DEF OpenTuner, Free
    <3>2. count'[b] = IF b = BridgeOf[i] THEN count[b] + 1 ELSE count[b]
      BY <1>3 DEF OpenTuner, TypeOK
    <3>3. count[b] = Cardinality(opened \cap On(b))
      BY DEF Counted
    <3>4. opened \in SUBSET Tuners
      BY DeviceTypes
    <3>5. Cardinality(opened \cap On(b)) \in Nat
      BY <3>4, FewOnBridge
    <3>6. QED
      BY <3>1, <3>2, <3>3, <3>5
  <2>4. QED
    BY <2>2, <2>3 DEF Counted, On
<1>4. ASSUME NEW i \in Tuners, LetGo(i) PROVE Counted'
  <2>1. handle' = [handle EXCEPT ![i] = "gone"] /\ handle[i] = "held"
    BY <1>4 DEF LetGo
  <2>2. UNCHANGED <<opened, count>>
    BY <1>4 DEF LetGo
  <2>3. QED
    BY <2>1, <2>2 DEF Counted, TypeOK
<1>5. ASSUME NEW i \in Tuners, Release(i) PROVE Counted'
  <2>1. /\ handle' = [handle EXCEPT ![i] = "none"]
        /\ opened' = opened \ {i}
        /\ i \in opened
    BY <1>5 DEF Release, Counted
  <2>2. \A j \in Tuners : handle'[j] # "none" <=> j \in opened'
    BY <2>1 DEF Counted, TypeOK
  <2>3. ASSUME NEW b \in Bridges PROVE count'[b] = Cardinality(opened' \cap On(b))
    <3>1. Cardinality(opened \cap On(b)) =
            Cardinality(opened' \cap On(b)) + IF b = BridgeOf[i] THEN 1 ELSE 0
      BY <2>1, OneLess, DeviceTypes
    <3>2. count'[b] = IF b = BridgeOf[i] THEN count[b] - 1 ELSE count[b]
      BY <1>5 DEF Release, TypeOK
    <3>3. count[b] = Cardinality(opened \cap On(b))
      BY DEF Counted
    <3>4. opened' \in SUBSET Tuners
      BY <2>1, DeviceTypes
    <3>5. Cardinality(opened' \cap On(b)) \in Nat
      BY <3>4, FewOnBridge
    <3>6. QED
      BY <3>1, <3>2, <3>3, <3>5
  <2>4. QED
    BY <2>2, <2>3 DEF Counted, On
<1>6. ASSUME NEW i \in Tuners,
             \/ PowerFails(i) \/ OpenFails(i) \/ SetLnb(i, TRUE) \/ SetLnb(i, FALSE)
             \/ Tune(i) \/ TuneEnds(i) \/ Stream(i) \/ StreamFails(i)
             \/ Emit(i) \/ Drop(i)
      PROVE  Counted'
  BY <1>1, <1>6 DEF PowerFails, OpenFails, SetLnb, Tune, TuneEnds, Stream,
     StreamFails, Emit, Drop, boardVars
<1>7. ASSUME NEW b \in Bridges, Receive(b) \/ ReceiveFails(b) PROVE Counted'
  BY <1>1, <1>7 DEF Receive, ReceiveFails, boardVars
<1>8. QED
  BY <1>2, <1>3, <1>4, <1>5, <1>6, <1>7, NextCases

LEMMA TypeStep == TypeOK /\ Counted /\ [Next]_vars => TypeOK'
<1> SUFFICES ASSUME TypeOK, Counted, [Next]_vars PROVE TypeOK'
  OBVIOUS
<1> DEFINE Sets == /\ opened \cup ready \cup wants \cup asked \cup awake \cup ts
                        \subseteq device.tuners
                   /\ power \subseteq Bridges /\ lnb \subseteq Bridges
                   /\ lost \in BOOLEAN
           Marks == /\ handle \in [Tuners -> {"none", "held", "gone"}]
                    /\ system \in [Tuners -> {"none", "locking", "set"}]
                    /\ DOMAIN count = Bridges /\ count = [b \in Bridges |-> count[b]]
<1>1. Sets /\ Marks /\ HubTypeOK
  BY DEF TypeOK
<1>2. HubTypeOK' /\ Counted'
  BY HubTypeStep, CountedStep
<1>3. device' = device
  BY NextCases DEF vars, PowerFails, OpenTuner, OpenFails, SetLnb, Tune, TuneEnds,
     Stream, StreamFails, Emit, Drop, LetGo, Release, Receive, ReceiveFails
<1> USE DEF boardVars, hardware
<1>4. CASE UNCHANGED vars
  BY <1>2, <1>4 DEF vars, TypeOK
<1>5. Sets' /\ Marks'
  <2> USE <1>1, <1>3, DeviceTypes, BridgeAssumption
  <2>1. CASE UNCHANGED vars
    BY <2>1 DEF vars
  <2>2. ASSUME NEW i \in Tuners, PowerFails(i) PROVE Sets' /\ Marks'
    BY <2>2 DEF PowerFails
  <2>3. ASSUME NEW i \in Tuners, OpenTuner(i) PROVE Sets' /\ Marks'
    BY <2>3 DEF OpenTuner, Initialises, Beside
  <2>4. ASSUME NEW i \in Tuners, OpenFails(i) PROVE Sets' /\ Marks'
    <3>1. power' \subseteq Bridges /\ lost' \in BOOLEAN
      BY <2>4 DEF OpenFails, PowerOff
    <3>2. Initialises(i) \subseteq device.tuners
      BY <2>4 DEF OpenFails, Initialises, Beside
    <3>3. awake' \subseteq device.tuners /\ ts' \subseteq device.tuners
      BY <2>4, <3>2 DEF OpenFails, Kept
    <3>4. ready' \subseteq device.tuners
      BY <2>4 DEF OpenFails, Terminated
    <3>5. QED
      BY <2>4, <3>1, <3>3, <3>4 DEF OpenFails
  <2>5. ASSUME NEW i \in Tuners, NEW on \in BOOLEAN, SetLnb(i, on)
        PROVE  Sets' /\ Marks'
    <3>1. i \in device.tuners
      BY <2>5 DEF SetLnb, Counted
    <3>2. QED
      <4>1. wants' \subseteq device.tuners /\ lnb' \subseteq Bridges
        BY <2>5, <3>1 DEF SetLnb, LnbSet, LnbFails
      <4>2. asked' \subseteq device.tuners /\ lost' \in BOOLEAN
        BY <2>5, <3>1 DEF SetLnb
      <4>3. QED
        BY <2>5, <4>1, <4>2 DEF SetLnb
  <2>6. ASSUME NEW i \in Tuners, Tune(i) PROVE Sets' /\ Marks'
    <3>1. i \in device.tuners
      BY <2>6 DEF Tune, Counted
    <3>2. QED
      BY <2>6, <3>1 DEF Tune
  <2>7. ASSUME NEW i \in Tuners, TuneEnds(i) PROVE Sets' /\ Marks'
    BY <2>7 DEF TuneEnds
  <2>8. ASSUME NEW i \in Tuners, Stream(i) \/ StreamFails(i) PROVE Sets' /\ Marks'
    <3>1. i \in device.tuners
      BY <2>8 DEF Stream, StreamFails, Counted
    <3>2. QED
      BY <2>8, <3>1 DEF Stream, StreamFails
  <2>9. ASSUME NEW i \in Tuners, Emit(i) \/ Drop(i) PROVE Sets' /\ Marks'
    BY <2>9 DEF Emit, Drop
  <2>10. ASSUME NEW i \in Tuners, LetGo(i) PROVE Sets' /\ Marks'
    BY <2>10 DEF LetGo
  <2>11. ASSUME NEW i \in Tuners, Release(i) PROVE Sets' /\ Marks'
    <3>1. i \in device.tuners
      BY <2>11 DEF Release, Counted
    <3>2. PICK still \in IF LastOpen(i) THEN SUBSET Boards ELSE {power} :
            /\ power' = still
            /\ lost' = (lost \/ (LastOpen(i) /\ still # {}) \/ i \in wants')
      BY <2>11 DEF Release
    <3>3. power' \subseteq Bridges /\ lost' \in BOOLEAN
      BY <3>2
    <3>4. wants' \subseteq device.tuners /\ lnb' \subseteq Bridges
      BY <2>11, <3>1 DEF Release, LnbSet, LnbFails
    <3>5. QED
      BY <2>11, <3>3, <3>4 DEF Release, Kept, Terminated
  <2>12. ASSUME NEW b \in Bridges, Receive(b) \/ ReceiveFails(b)
         PROVE  Sets' /\ Marks'
    BY <2>12 DEF Receive, ReceiveFails
  <2>13. QED
    BY <2>1, <2>2, <2>3, <2>4, <2>5, <2>6, <2>7, <2>8, <2>9, <2>10, <2>11,
       <2>12, NextCases
<1>6. count' \in [Bridges -> 0..Cardinality(Tuners)]
  <2>1. opened' \in SUBSET Tuners
    BY <1>3, <1>5, DeviceTypes
  <2>2. \A b \in Bridges : count'[b] \in 0..Cardinality(Tuners)
    <3>1. \A b \in Bridges : count'[b] = Cardinality(opened' \cap On(b))
      BY <1>2 DEF Counted, On
    <3>2. QED
      BY <2>1, <3>1, FewOnBridge
  <2>3. QED
    BY <1>5, <2>2
<1>7. QED
  BY <1>1, <1>2, <1>3, <1>5, <1>6 DEF TypeOK

\* The state is well typed, and no open_count is ever less than none or more
\* than the tuners there are, whoever opens, fails to and lets go (board.rs
\* 154-160, 316-324).
THEOREM TypesHold == Spec => []TypeOK
<1>1. Init => TypeOK /\ Counted
  BY CountedInit
<1>2. TypeOK /\ Counted /\ [Next]_vars => (TypeOK /\ Counted)'
  BY TypeStep, CountedStep
<1>3. QED
  BY <1>1, <1>2, PTL DEF Spec

-----------------------------------------------------------------------------
(* The hub *)

LEMMA RunningInit == Init => RunningReceives
BY DEF Init, HubInit, RunningReceives

LEMMA RunningStep == TypeOK /\ RunningReceives /\ [Next]_vars => RunningReceives'
<1> SUFFICES ASSUME TypeOK, RunningReceives, [Next]_vars PROVE RunningReceives'
  OBVIOUS
<1> USE BridgeAssumption DEF TypeOK, HubTypeOK, RunningReceives
<1> DEFINE Still == UNCHANGED <<senders, running, receiving>>
<1>1. Still => RunningReceives'
  OBVIOUS
<1>2. CASE UNCHANGED vars
  BY <1>1, <1>2 DEF vars, hubVars
<1>3. ASSUME NEW i \in Tuners, Stream(i) PROVE RunningReceives'
  <2>1. CASE ToStart(i)
    BY <1>3, <2>1 DEF Stream, Attached, ToStart
  <2>2. CASE ~ToStart(i)
    BY <1>3, <2>2 DEF Stream, Attached, ToStart
  <2>3. QED
    BY <2>1, <2>2
\* Nobody but the tuner that failed to start was attached.
<1>4. ASSUME NEW i \in Tuners, StreamFails(i) PROVE RunningReceives'
  <2>1. CASE ToStart(i)
    BY <1>4, <2>1 DEF StreamFails, Abort, ToStart
  <2>2. CASE ~ToStart(i)
    BY <1>4, <2>2 DEF StreamFails, Detach
  <2>3. QED
    BY <2>1, <2>2
<1>5. ASSUME NEW i \in Tuners, Release(i) PROVE RunningReceives'
  BY <1>5 DEF Release, Detach
<1>6. ASSUME NEW b \in Bridges, Receive(b) PROVE RunningReceives'
  <2>1. CASE Transfer(b)
    BY <2>1 DEF Transfer, On
  <2>2. CASE Leave(b)
    BY <2>2 DEF Leave
  <2>3. QED
    BY <1>6, <2>1, <2>2 DEF Receive
<1>7. ASSUME NEW b \in Bridges, ReceiveFails(b) PROVE RunningReceives'
  BY <1>7 DEF ReceiveFails, TransferFails, On
<1>8. ASSUME NEW i \in Tuners,
             \/ PowerFails(i) \/ OpenTuner(i) \/ OpenFails(i)
             \/ SetLnb(i, TRUE) \/ SetLnb(i, FALSE) \/ Tune(i) \/ TuneEnds(i)
             \/ Emit(i) \/ Drop(i) \/ LetGo(i)
      PROVE  RunningReceives'
  BY <1>1, <1>8 DEF PowerFails, OpenTuner, OpenFails, SetLnb, Tune, TuneEnds, Emit,
     Drop, DropStream, LetGo, hubVars
<1>9. QED
  BY <1>2, <1>3, <1>4, <1>5, <1>6, <1>7, <1>8, NextCases

\* However starts, failures, ends and releases of streams interleave, whoever
\* has a sender is on a hub that runs, and a hub that runs has its one task
\* (stream.rs 42-106; board.rs 252-274).
THEOREM RunningReceivesHolds == Spec => []RunningReceives
<1>1. TypeOK /\ RunningReceives /\ [Next]_vars => RunningReceives'
  BY RunningStep
<1>2. Init => RunningReceives
  BY RunningInit
<1>3. Spec => []TypeOK
  BY TypesHold
<1>4. QED
  BY <1>1, <1>2, <1>3, PTL DEF Spec

-----------------------------------------------------------------------------
(* Power *)

\* While any tuner is open, every board of the device is powered.
AllPowered == opened # {} => Boards \subseteq power

\* A device with no tuner open is one with every open_count at none.
LEMMA UnopenedIsIdle ==
  ASSUME TypeOK, Counted
  PROVE  Unopened <=> opened = {}
<1>1. \A b \in Bridges : opened \in SUBSET Tuners /\ count[b] = Cardinality(opened \cap On(b))
  BY DeviceTypes DEF Counted
<1>2. \A b \in Bridges : count[b] = 0 <=> opened \cap On(b) = {}
  BY <1>1, FewOnBridge
<1>3. \A i \in opened : i \in Tuners /\ BridgeOf[i] \in Boards /\ i \in On(BridgeOf[i])
  BY DeviceTypes DEF Boards, On
<1>4. QED
  BY <1>2, <1>3, DeviceTypes DEF Unopened

\* The last open tuner is the only one.
LEMMA LastIsAlone ==
  ASSUME TypeOK, Counted, NEW i \in opened
  PROVE  LastOpen(i) <=> opened = {i}
<1>1. /\ opened \in SUBSET Tuners
      /\ i \in Tuners
      /\ opened \ {i} \in SUBSET Tuners
  BY DeviceTypes
<1>2. ASSUME NEW b \in Bridges
      PROVE  count[b] = (IF b = BridgeOf[i] THEN 1 ELSE 0)
               <=> (opened \ {i}) \cap On(b) = {}
  <2>1. count[b] = Cardinality(opened \cap On(b))
    BY DEF Counted
  <2>2. Cardinality(opened \cap On(b)) =
          Cardinality((opened \ {i}) \cap On(b)) + IF b = BridgeOf[i] THEN 1 ELSE 0
    BY <1>1, OneLess
  <2>3. /\ Cardinality((opened \ {i}) \cap On(b)) \in Nat
        /\ Cardinality((opened \ {i}) \cap On(b)) = 0
             <=> (opened \ {i}) \cap On(b) = {}
    BY <1>1, FewOnBridge
  <2>4. QED
    BY <2>1, <2>2, <2>3
<1>3. \A j \in opened : j \in Tuners /\ BridgeOf[j] \in Boards /\ j \in On(BridgeOf[j])
  BY DeviceTypes DEF Boards, On
<1>4. QED
  BY <1>2, <1>3, DeviceTypes DEF LastOpen

\* The board of an open tuner is in use, and that of two by more than one.
LEMMA BoardInUse ==
  ASSUME TypeOK, Counted, NEW i \in Tuners, NEW j \in opened \ {i},
         BridgeOf[j] = BridgeOf[i]
  PROVE  /\ count[BridgeOf[i]] # 0
         /\ i \in opened => count[BridgeOf[i]] - 1 # 0
<1> DEFINE b == BridgeOf[i]
<1>1. /\ b \in Bridges
      /\ opened \in SUBSET Tuners
      /\ opened \ {i} \in SUBSET Tuners
      /\ j \in (opened \ {i}) \cap On(b)
  BY DeviceTypes, BridgeAssumption DEF On
<1>2. /\ Cardinality(opened \cap On(b)) \in Nat
      /\ Cardinality(opened \cap On(b)) # 0
  BY <1>1, FewOnBridge
<1>3. /\ Cardinality((opened \ {i}) \cap On(b)) \in Nat
      /\ Cardinality((opened \ {i}) \cap On(b)) # 0
  BY <1>1, FewOnBridge
<1>4. i \in opened =>
        Cardinality(opened \cap On(b)) = Cardinality((opened \ {i}) \cap On(b)) + 1
  BY <1>1, OneLess
<1>5. count[b] = Cardinality(opened \cap On(b))
  BY <1>1 DEF Counted
<1>6. QED
  BY <1>2, <1>3, <1>4, <1>5

\* An open tuner is ready; besides, all boards are powered then.
PowerInv == OpenIsReady /\ AllPowered /\ IdleIsOff

LEMMA PowerInit == Init => PowerInv
BY DEF Init, PowerInv, OpenIsReady, AllPowered, IdleIsOff

LEMMA PowerStep == TypeOK /\ Counted /\ PowerInv /\ [Next]_vars => PowerInv'
<1> SUFFICES ASSUME TypeOK, Counted, PowerInv, [Next]_vars PROVE PowerInv'
  OBVIOUS
<1> USE DEF PowerInv, OpenIsReady, AllPowered, IdleIsOff, Boards
<1> DEFINE Still == UNCHANGED <<device, opened, ready, power, awake>>
<1>1. Unopened <=> opened = {}
  BY UnopenedIsIdle
<1>2. ASSUME Still, lost => lost' PROVE PowerInv'
  BY <1>2
<1>3. CASE UNCHANGED vars
  BY <1>2, <1>3 DEF vars, boardVars, hardware
<1>4. ASSUME NEW i \in Tuners, PowerFails(i) PROVE PowerInv'
  BY <1>1, <1>4 DEF PowerFails, boardVars
\* An unused board has no open tuner for its chips to be initialised over.
<1>5. ASSUME NEW i \in Tuners, OpenTuner(i) PROVE PowerInv'
  <2>1. \A j \in opened : j \notin Initialises(i)
    BY <1>5, BoardInUse DEF OpenTuner, Free, Initialises, Beside, On
  <2>2. i \in device.tuners /\ device' = device /\ opened' = opened \cup {i}
    BY <1>5 DEF OpenTuner
  <2>3. Boards \subseteq power'
    BY <1>1, <1>5 DEF OpenTuner
  <2>4. i \in ready' /\ i \in awake'
    BY <1>5 DEF OpenTuner, Initialises, Beside, On
  <2>5. \A j \in opened : j \in ready' /\ j \in awake'
    BY <1>5, <2>1 DEF OpenTuner
  <2>6. QED
    BY <2>2, <2>3, <2>4, <2>5, DeviceTypes
<1>6. ASSUME NEW i \in Tuners, OpenFails(i) PROVE PowerInv'
  <2>1. device' = device /\ opened' = opened
    BY <1>6 DEF OpenFails
  <2>2. CASE Unopened
    BY <1>1, <1>6, <2>1, <2>2 DEF OpenFails, PowerOff
  <2>3. CASE ~Unopened
    <3>1. power' = power /\ lost' = lost
      BY <1>6, <2>3 DEF OpenFails
    <3>2. \A j \in opened : j # i /\ j \notin Initialises(i)
      BY <1>6, BoardInUse DEF OpenFails, Free, Initialises, Beside, On
    <3>3. \A j \in opened : j \in ready'
      BY <1>6, <3>2, BoardInUse DEF OpenFails, Terminated, Beside, On
    <3>4. \A j \in opened : j \in awake'
      BY <1>6, <3>1, <3>2 DEF OpenFails, Kept
    <3>5. QED
      BY <2>1, <3>1, <3>3, <3>4
  <2>4. QED
    BY <2>2, <2>3
<1>7. ASSUME NEW i \in Tuners, Release(i) PROVE PowerInv'
  <2>1. /\ device' = device /\ opened' = opened \ {i}
        /\ i \in opened
    BY <1>7 DEF Release, Counted
  <2>2. PICK still \in IF LastOpen(i) THEN SUBSET Boards ELSE {power} :
          /\ power' = still
          /\ lost' = (lost \/ (LastOpen(i) /\ still # {}) \/ i \in wants')
    BY <1>7 DEF Release
  <2>3. CASE LastOpen(i)
    <3>1. opened' = {}
      BY <2>1, <2>3, LastIsAlone
    <3>2. QED
      BY <2>2, <2>3, <3>1
  <2>4. CASE ~LastOpen(i)
    <3>1. opened' # {} /\ power' = power
      BY <2>1, <2>2, <2>4, LastIsAlone
    <3>2. \A j \in opened' : j \in ready'
      BY <1>7, <2>1, BoardInUse DEF Release, Terminated, Beside, On
    <3>3. \A j \in opened' : j \in awake'
      BY <1>7, <2>1, <3>1 DEF Release, Kept
    <3>4. QED
      BY <2>1, <3>1, <3>2, <3>3
  <2>5. QED
    BY <2>3, <2>4
<1>8. ASSUME NEW i \in Tuners, SetLnb(i, TRUE) \/ SetLnb(i, FALSE)
      PROVE  PowerInv'
  BY <1>2, <1>8 DEF SetLnb
<1>9. ASSUME NEW i \in Tuners,
             \/ Tune(i) \/ TuneEnds(i) \/ Stream(i) \/ StreamFails(i)
             \/ Emit(i) \/ Drop(i) \/ LetGo(i)
      PROVE  PowerInv'
  BY <1>2, <1>9 DEF Tune, TuneEnds, Stream, StreamFails, Emit, Drop, LetGo,
     boardVars, hardware
<1>10. ASSUME NEW b \in Bridges, Receive(b) \/ ReceiveFails(b) PROVE PowerInv'
  BY <1>2, <1>10 DEF Receive, ReceiveFails, boardVars, hardware
<1>11. QED
  BY <1>3, <1>4, <1>5, <1>6, <1>7, <1>8, <1>9, <1>10, NextCases

LEMMA PowerHolds == Spec => []PowerInv
<1>1. TypeOK /\ Counted /\ PowerInv /\ [Next]_vars
        => (TypeOK /\ Counted /\ PowerInv)'
  BY TypeStep, CountedStep, PowerStep
<1>2. Init => TypeOK /\ Counted /\ PowerInv
  BY CountedInit, PowerInit
<1>3. QED
  BY <1>1, <1>2, PTL DEF Spec

\* An open tuner is powered, initialised and awake, whatever its neighbours
\* went through (px4.rs 155-273, 328-357; pxmlt.rs 138-160).
THEOREM OpenIsReadyHolds == Spec => []OpenIsReady
BY PowerHolds, PTL DEF PowerInv

\* An unused device is off, unless a GPIO could not be written (px4.rs 340-342,
\* 354-356; single.rs 288-291).
THEOREM IdleIsOffHolds == Spec => []IdleIsOff
BY PowerHolds, PTL DEF PowerInv

-----------------------------------------------------------------------------
(* The LNB *)

Wanting == {BridgeOf[j] : j \in wants}

\* Switching on adds the board of i to those with a tuner that wants the LNB.
LEMMA SwitchOn ==
  ASSUME TypeOK, NEW i \in device.tuners, lnb = Wanting, LnbSet(i, TRUE)
  PROVE  lnb' = Wanting' /\ wants' = wants \cup {i}
<1>1. wants' = wants \cup {i}
  BY DEF LnbSet
<1>2. Wanting' = Wanting \cup {BridgeOf[i]}
  BY <1>1 DEF Wanting
<1>3. CASE i \in wants \/ Others(i) # {}
  <2>1. BridgeOf[i] \in Wanting
    BY <1>3 DEF Wanting, Others, Beside, On
  <2>2. lnb' = lnb
    BY <1>3 DEF LnbSet
  <2>3. QED
    BY <1>1, <1>2, <2>1, <2>2
<1>4. CASE ~(i \in wants \/ Others(i) # {})
  BY <1>1, <1>2, <1>4 DEF LnbSet
<1>5. QED
  BY <1>3, <1>4

\* Switching off takes the board of i from them if no other tuner of it is left.
LEMMA SwitchOff ==
  ASSUME TypeOK, NEW i \in device.tuners, lnb = Wanting, LnbSet(i, FALSE)
  PROVE  lnb' = Wanting' /\ wants' = wants \ {i}
<1>1. wants' = wants \ {i}
  BY DEF LnbSet
<1>2. Others(i) = {j \in wants \ {i} : BridgeOf[j] = BridgeOf[i]}
  BY DeviceTypes DEF TypeOK, Others, Beside, On
<1>3. CASE i \notin wants
  BY <1>1, <1>3 DEF LnbSet, Wanting
<1>4. CASE i \in wants /\ Others(i) # {}
  <2>1. Wanting' = Wanting
    BY <1>1, <1>2, <1>4 DEF Wanting
  <2>2. lnb' = lnb
    BY <1>4 DEF LnbSet
  <2>3. QED
    BY <1>1, <2>1, <2>2
<1>5. CASE i \in wants /\ Others(i) = {}
  <2>1. Wanting' = Wanting \ {BridgeOf[i]}
    BY <1>1, <1>2, <1>5 DEF Wanting
  <2>2. lnb' = lnb \ {BridgeOf[i]}
    BY <1>5 DEF LnbSet
  <2>3. QED
    BY <1>1, <2>1, <2>2
<1>6. QED
  BY <1>3, <1>4, <1>5

\* What Lnb keeps is what tuners were told, and what the supplies do.
LnbInv ==
  /\ \A i \in wants : HasLnb(i)
  /\ ~lost => asked = wants /\ lnb = Wanting

LEMMA LnbInit == Init => LnbInv
BY DEF Init, LnbInv, Wanting

LEMMA LnbStep == TypeOK /\ Counted /\ LnbInv /\ [Next]_vars => LnbInv'
<1> SUFFICES ASSUME TypeOK, Counted, LnbInv, [Next]_vars PROVE LnbInv'
  OBVIOUS
<1> USE DEF LnbInv, HasLnb
<1> DEFINE Still == UNCHANGED <<device, wants, asked, lnb>>
<1>1. ASSUME Still, lost => lost' PROVE LnbInv'
  BY <1>1 DEF Wanting
<1>2. CASE UNCHANGED vars
  BY <1>1, <1>2 DEF vars, boardVars, hardware
<1>3. ASSUME NEW i \in Tuners, SetLnb(i, TRUE) PROVE LnbInv'
  <2>1. i \in device.tuners /\ HasLnb(i) /\ device' = device
    BY <1>3, DeviceTypes DEF SetLnb, Counted
  <2>2. CASE LnbSet(i, TRUE) /\ asked' = asked \cup {i} /\ lost' = lost
    <3>1. \A j \in wants' : HasLnb(j)'
      BY <2>1, <2>2 DEF LnbSet
    <3>2. ~lost => asked' = wants' /\ lnb' = Wanting'
      BY <2>1, <2>2, SwitchOn
    <3>3. QED
      BY <2>2, <3>1, <3>2
  <2>3. CASE LnbFails(i, TRUE) /\ lost' = TRUE
    BY <2>1, <2>3 DEF LnbFails
  <2>4. QED
    BY <1>3, <2>2, <2>3 DEF SetLnb
<1>4. ASSUME NEW i \in Tuners, SetLnb(i, FALSE) PROVE LnbInv'
  <2>1. i \in device.tuners /\ device' = device
    BY <1>4, DeviceTypes DEF SetLnb, Counted
  <2>2. CASE LnbSet(i, FALSE) /\ asked' = asked \ {i} /\ lost' = lost
    <3>1. \A j \in wants' : HasLnb(j)'
      BY <2>1, <2>2 DEF LnbSet
    <3>2. ~lost => asked' = wants' /\ lnb' = Wanting'
      BY <2>1, <2>2, SwitchOff
    <3>3. QED
      BY <2>2, <3>1, <3>2
  <2>3. CASE LnbFails(i, FALSE) /\ lost' = TRUE
    BY <2>1, <2>3 DEF LnbFails
  <2>4. QED
    BY <1>4, <2>2, <2>3 DEF SetLnb
<1>5. ASSUME NEW i \in Tuners, Release(i) PROVE LnbInv'
  <2>1. /\ i \in device.tuners /\ device' = device
        /\ asked' = asked \ {i}
        /\ ~lost' => ~lost /\ i \notin wants'
    BY <1>5, DeviceTypes DEF Release, Counted
  <2>2. CASE HasLnb(i) /\ LnbSet(i, FALSE)
    <3>1. \A j \in wants' : HasLnb(j)'
      BY <2>1, <2>2 DEF LnbSet
    <3>2. ~lost => asked' = wants' /\ lnb' = Wanting'
      BY <2>1, <2>2, SwitchOff
    <3>3. QED
      BY <2>1, <3>1, <3>2
  <2>3. CASE HasLnb(i) /\ LnbFails(i, FALSE)
    <3>1. wants' = wants /\ i \in wants
      BY <2>3 DEF LnbFails
    <3>2. QED
      BY <2>1, <3>1
  \* A tuner that has no LNB never wants it.
  <2>4. CASE ~HasLnb(i) /\ wants' = wants /\ lnb' = lnb
    <3>1. i \notin wants
      BY <2>4
    <3>2. Wanting' = Wanting
      BY <2>4 DEF Wanting
    <3>3. QED
      BY <2>1, <2>4, <3>1, <3>2
  <2>5. QED
    BY <1>5, <2>2, <2>3, <2>4 DEF Release
<1>6. ASSUME NEW i \in Tuners, OpenFails(i) PROVE LnbInv'
  <2>1. lost => lost'
    BY <1>6 DEF OpenFails, PowerOff
  <2>2. QED
    BY <1>1, <1>6, <2>1 DEF OpenFails
<1>7. ASSUME NEW i \in Tuners,
             \/ PowerFails(i) \/ OpenTuner(i) \/ Tune(i) \/ TuneEnds(i)
             \/ Stream(i) \/ StreamFails(i) \/ Emit(i) \/ Drop(i) \/ LetGo(i)
      PROVE  LnbInv'
  BY <1>1, <1>7 DEF PowerFails, OpenTuner, Tune, TuneEnds, Stream, StreamFails,
     Emit, Drop, LetGo, boardVars, hardware
<1>8. ASSUME NEW b \in Bridges, Receive(b) \/ ReceiveFails(b) PROVE LnbInv'
  BY <1>1, <1>8 DEF Receive, ReceiveFails, boardVars, hardware
<1>9. QED
  BY <1>2, <1>3, <1>4, <1>5, <1>6, <1>7, <1>8, NextCases

\* The LNB of a board is powered exactly while a tuner that asked for it is
\* open, unless a GPIO could not be written (board.rs 342-362, 316-324).
THEOREM LnbAsAskedHolds == Spec => []LnbAsAsked
<1>1. TypeOK /\ Counted /\ LnbInv /\ [Next]_vars => (TypeOK /\ Counted /\ LnbInv)'
  BY TypeStep, CountedStep, LnbStep
<1>2. Init => TypeOK /\ Counted /\ LnbInv
  BY CountedInit, LnbInit
<1>3. LnbInv => LnbAsAsked
  BY DEF LnbInv, LnbAsAsked, Wanting
<1>4. QED
  BY <1>1, <1>2, <1>3, PTL DEF Spec

=============================================================================
