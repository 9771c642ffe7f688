-------------------------- MODULE TunelithdProofs --------------------------
(***************************************************************************)
(* Proofs about Tunelithd, for any number of tuners, clients and requests: *)
(* its safety invariants, and that it implements TunerPool.                *)
(***************************************************************************)
EXTENDS Tunelithd, TLAPS

\* Each way a request, a token and a session can take a step.
LEMMA NextCases ==
  ASSUME Next
  PROVE  \/ \E r \in Requests : Send(r)
         \/ \E r \in Requests : Share(r)
         \/ \E r \in Requests : ListCandidates(r)
         \/ \E r \in Requests : NextRound(r) \/ GiveUp(r)
         \/ \E r \in Requests, t \in Tuners : Reserve(r, t)
         \/ \E r \in Requests, t \in Tuners : Skip(r, t)
         \/ \E r \in Requests, t \in Tuners : WaitClosed(r, t)
         \/ \E r \in Requests : Timeout(r)
         \/ \E r \in Requests : Abort(r)
         \/ \E r \in Requests : StartFailed(r)
         \/ \E r \in Requests : Publish(r)
         \/ \E r \in Requests : Keep(r)
         \/ \E k \in Requests : ReleaseRequest(k)
         \/ \E k \in Requests : Attach(k)
         \/ \E k \in Requests : DataEnds(k)
         \/ \E k \in Requests : SignalRequest(k)
         \/ \E k \in Requests : Release(k)
         \/ \E s \in Requests : LockTuner(s)
         \/ \E s \in Requests : SignalRead(s)
         \/ \E s \in Requests : CloseIfIdle(s)
         \/ \E s \in Requests : Stopped(s)
         \/ \E s \in Requests : End(s)
         \/ \E s \in Requests : TakeTuner(s)
         \/ \E s \in Requests : Closed(s)
         \/ \E s \in Requests : Chunk(s)
         \/ \E s \in Requests : StreamEnds(s)
         \/ \E c \in Clients : Disconnect(c)
BY DEF Next, RequestStep, TokenStep, SessionStep

-----------------------------------------------------------------------------
(* Types *)

\* A task with a fan-out is done with its request, and at names the tuner of
\* each request that has one, or waits for it.
Placed ==
  \A r \in Requests :
    /\ fan[r] # "none" => pc[r] \in {"keep", "granted", "error"}
    /\ Holds(r) \/ pc[r] \in {"wait", "recheck"} => at[r] \in Tuners

LEMMA TypeInit == Init => TypeOK
<1> SUFFICES ASSUME Init PROVE TypeOK
  OBVIOUS
<1>1. (CHOOSE a \in Asks : TRUE) \in Asks
  BY AsksAssumption
<1>2. QED
  BY <1>1 DEF Init, TypeOK, PC, Fan, Answered

LEMMA TypeStep == TypeOK /\ Placed /\ [Next]_vars => TypeOK'
<1> SUFFICES ASSUME TypeOK, Placed, [Next]_vars PROVE TypeOK'
  OBVIOUS
<1> USE DEF TypeOK, Goto, PC, Answered, Fan, FanTo
<1>1. CASE UNCHANGED vars
  BY <1>1 DEF vars, reqVars, poolVars, sessVars, connVars
<1>2. ASSUME NEW r \in Requests, Send(r) PROVE TypeOK'
  BY <1>2 DEF Send, poolVars, sessVars, connVars
<1>3. ASSUME NEW r \in Requests, Share(r) PROVE TypeOK'
  BY <1>3, SMTT(30) DEF Share, Shareable, Subscribe, connVars
<1>4. ASSUME NEW r \in Requests, ListCandidates(r) PROVE TypeOK'
  BY <1>4 DEF ListCandidates, Candidates, poolVars, sessVars, connVars
<1>5. ASSUME NEW r \in Requests, NextRound(r) \/ GiveUp(r) PROVE TypeOK'
  <2>1. Candidates(r) \in SUBSET Tuners
    BY DEF Candidates
  <2>2. CASE NextRound(r)
    BY <2>2, <2>1 DEF NextRound, poolVars, sessVars, connVars
  <2>3. CASE GiveUp(r)
    BY <2>3 DEF GiveUp, EndLoop, poolVars, sessVars, connVars
  <2>4. QED BY <1>5, <2>2, <2>3
<1>6. ASSUME NEW r \in Requests, NEW t \in Tuners, Reserve(r, t) PROVE TypeOK'
  BY <1>6 DEF Reserve, Take, sessVars, connVars
<1>7. ASSUME NEW r \in Requests, NEW t, PassOver(r, t) PROVE TypeOK'
  BY <1>7 DEF PassOver, poolVars, sessVars, connVars
<1>8. ASSUME NEW r \in Requests, NEW t \in Tuners, WaitClosed(r, t) PROVE TypeOK'
  BY <1>8 DEF WaitClosed, poolVars, sessVars, connVars
<1>9. ASSUME NEW r \in Requests, Abort(r) PROVE TypeOK'
  BY <1>9 DEF Abort, poolVars, sessVars, connVars
<1>10. ASSUME NEW r \in Requests, StartFailed(r) PROVE TypeOK'
  <2>1. pc' \in [Requests -> PC]
    BY <1>10 DEF StartFailed
  <2>2. /\ left' \in [Requests -> SUBSET Tuners]
        /\ wait' \in [Requests -> BOOLEAN]
    BY <1>10 DEF StartFailed, EndLoop
  <2>3. QED
    BY <1>10, <2>1, <2>2 DEF StartFailed, Freed, sessVars, connVars
<1>11. ASSUME NEW r \in Requests, Publish(r) PROVE TypeOK'
  BY <1>11 DEF Publish, Subscribe, EndLoop, connVars
<1>12. ASSUME NEW r \in Requests, Keep(r) PROVE TypeOK'
  <2>1. /\ rel' \in [Requests -> {"no", "due", "done"}]
        /\ owned' \in [Clients -> SUBSET Requests]
    BY <1>12 DEF Keep, Due
  <2>2. QED
    BY <1>12, <2>1 DEF Keep, poolVars, sessVars
<1>13. ASSUME NEW k \in Requests, ReleaseRequest(k) PROVE TypeOK'
  BY <1>13 DEF ReleaseRequest, Due, reqVars, poolVars, sessVars
<1>14. ASSUME NEW k \in Requests, Attach(k) PROVE TypeOK'
  BY <1>14 DEF Attach, reqVars, sessVars, connVars
<1>15. ASSUME NEW k \in Requests, DataEnds(k) PROVE TypeOK'
  BY <1>15 DEF DataEnds, Due, reqVars, sessVars
<1>16. ASSUME NEW k \in Requests, SignalRequest(k) PROVE TypeOK'
  BY <1>16 DEF SignalRequest, reqVars, poolVars, connVars
<1>17. ASSUME NEW k \in Requests, Release(k) PROVE TypeOK'
  <2>1. /\ rel' \in [Requests -> {"no", "due", "done"}]
        /\ rx' \in [Requests -> {"none", "queued", "attached", "dropped"}]
        /\ tokens' \in [Requests -> Requests \cup {None}]
    BY <1>17 DEF Release, DropQueued
  <2>2. /\ subscribers' \in [Requests -> SUBSET Requests]
        /\ sessions' \subseteq Requests
        /\ stop' \in [Requests -> BOOLEAN]
    <3>1. CASE tokens[k] = None
      BY <1>17, <3>1 DEF Release
    <3>2. CASE tokens[k] # None
      <4>1. PICK s \in Requests : s = tokens[k]
        BY <3>2
      <4>2. /\ subscribers' = [subscribers EXCEPT ![s] = @ \ {k}]
            /\ sessions' = Joinable(s, subscribers[s] \subseteq {k})
            /\ stop' = [stop EXCEPT ![s] = @ \/ subscribers[s] \subseteq {k}]
        BY <1>17, <3>2, <4>1 DEF Release
      <4>3. QED
        BY <4>2 DEF Joinable
    <3>3. QED BY <3>1, <3>2
  <2>3. QED
    BY <1>17, <2>1, <2>2 DEF Release, reqVars
<1>18. ASSUME NEW s \in Requests, LockTuner(s) \/ SignalRead(s) PROVE TypeOK'
  BY <1>18 DEF LockTuner, SignalRead, reqVars, poolVars, connVars
<1>19. ASSUME NEW s \in Requests, CloseIfIdle(s) PROVE TypeOK'
  BY <1>19 DEF CloseIfIdle, reqVars, connVars
<1>20. ASSUME NEW s \in Requests, Stopped(s) \/ StreamEnds(s) \/ TakeTuner(s)
       PROVE  TypeOK'
  BY <1>20 DEF Stopped, StreamEnds, TakeTuner, reqVars, poolVars, connVars
<1>21. ASSUME NEW s \in Requests, Chunk(s) PROVE TypeOK'
  BY <1>21 DEF Chunk, reqVars, poolVars, connVars
<1>22. ASSUME NEW s \in Requests, End(s) PROVE TypeOK'
  <2>1. /\ tokens' \in [Requests -> Requests \cup {None}]
        /\ rx' \in [Requests -> {"none", "queued", "attached", "dropped"}]
    BY <1>22 DEF End, DropQueued
  <2>2. closing' \subseteq Tuners
    BY <1>22 DEF End, Placed, Holds, Live
  <2>3. QED
    BY <1>22, <2>1, <2>2 DEF End, Told, reqVars
<1>23. ASSUME NEW s \in Requests, Closed(s) PROVE TypeOK'
  BY <1>23 DEF Closed, Woken, connVars
<1>24. ASSUME NEW c \in Clients, Disconnect(c) PROVE TypeOK'
  BY <1>24 DEF Disconnect, Due, Orphans, reqVars, poolVars, sessVars
<1>25. CASE Next
  BY <1>25, NextCases, <1>2, <1>3, <1>4, <1>5, <1>6, <1>7, <1>8, <1>9, <1>10,
     <1>11, <1>12, <1>13, <1>14, <1>15, <1>16, <1>17, <1>18, <1>19, <1>20,
     <1>21, <1>22, <1>23, <1>24 DEF Skip, Timeout
<1>26. QED
  BY <1>1, <1>25

\* The steps that leave requests, fan-outs and the pool as they are.
Elsewhere == UNCHANGED <<pc, at, fan, busy, closing>>

LEMMA ElsewhereSteps ==
  /\ \A k \in Requests :
       \/ ReleaseRequest(k) \/ Attach(k) \/ DataEnds(k) \/ SignalRequest(k)
       \/ Release(k) \/ LockTuner(k) \/ SignalRead(k) \/ NextRound(k)
       => Elsewhere
  /\ \A c \in Clients : Disconnect(c) => Elsewhere
  /\ UNCHANGED vars => Elsewhere
BY DEF ReleaseRequest, Attach, DataEnds, SignalRequest, Release, LockTuner,
       SignalRead, NextRound, Disconnect, Elsewhere, vars, reqVars, poolVars, sessVars

LEMMA PlacedStep == TypeOK /\ Placed /\ [Next]_vars => Placed'
<1> SUFFICES ASSUME TypeOK, Placed, [Next]_vars PROVE Placed'
  OBVIOUS
<1> USE DEF TypeOK, Placed, Holds, Live, Closing, Goto, FanTo
<1>1. Elsewhere => Placed'
  BY DEF Elsewhere
<1>2. ASSUME NEW r \in Requests,
             \/ Send(r) \/ Share(r) \/ ListCandidates(r) \/ GiveUp(r)
             \/ Abort(r) \/ Keep(r)
      PROVE  Placed'
  BY <1>2 DEF Send, Share, ListCandidates, GiveUp, Abort, Keep, sessVars
<1>3. ASSUME NEW r \in Requests, NEW t \in Tuners,
             Reserve(r, t) \/ WaitClosed(r, t) \/ Skip(r, t)
      PROVE  Placed'
  BY <1>3 DEF Reserve, Take, WaitClosed, Skip, Trying, PassOver, sessVars
<1>4. ASSUME NEW r \in Requests, Timeout(r) PROVE Placed'
  BY <1>4 DEF Timeout, PassOver, sessVars
<1>5. ASSUME NEW r \in Requests, StartFailed(r) \/ Publish(r) PROVE Placed'
  BY <1>5 DEF StartFailed, Publish, sessVars
<1>6. ASSUME NEW s \in Requests,
             \/ CloseIfIdle(s) \/ Stopped(s) \/ StreamEnds(s) \/ Chunk(s)
             \/ End(s) \/ TakeTuner(s)
      PROVE  Placed'
  BY <1>6 DEF CloseIfIdle, Stopped, StreamEnds, Chunk, End, TakeTuner, reqVars
<1>7. ASSUME NEW s \in Requests, Closed(s) PROVE Placed'
  BY <1>7 DEF Closed, Woken
<1>8. CASE Next
  BY <1>8, NextCases, ElsewhereSteps, <1>1, <1>2, <1>3, <1>4, <1>5, <1>6, <1>7
<1>9. QED
  BY <1>1, <1>8, ElsewhereSteps

\* The types of the daemon's state hold in every behaviour.
THEOREM TypesHold == Spec => [](TypeOK /\ Placed)
<1>1. Init => TypeOK /\ Placed
  BY TypeInit DEF Init, Placed, Holds, Live, Closing
<1>2. TypeOK /\ Placed /\ [Next]_vars => (TypeOK /\ Placed)'
  BY TypeStep, PlacedStep
<1>3. QED
  BY <1>1, <1>2, PTL DEF Spec

-----------------------------------------------------------------------------
(* The pool of tuners *)

\* PoolIsExact, tuner by tuner.
Exact ==
  \A t \in Tuners :
    /\ t \in busy <=> \E r \in Requests : Holds(r) /\ at[r] = t
    /\ t \in closing <=> \E s \in Requests : Closing(s) /\ at[s] = t

LEMMA ExactIsPool == ASSUME TypeOK, Placed PROVE Exact <=> PoolIsExact
<1> USE DEF TypeOK, Placed, Holds
<1>1. Exact => PoolIsExact
  BY DEF Exact, PoolIsExact
<1>2. PoolIsExact => Exact
  BY DEF Exact, PoolIsExact
<1>3. QED BY <1>1, <1>2

PoolInv == OneHolder /\ Exact

LEMMA PoolStep ==
  TypeOK /\ Placed /\ PoolInv /\ [Next]_vars => PoolInv'
<1> SUFFICES ASSUME TypeOK, Placed, PoolInv, [Next]_vars PROVE PoolInv'
  OBVIOUS
<1> USE DEF TypeOK, Placed, PoolInv, OneHolder, Exact, Goto, FanTo
\* What a step does to Holds, Closing and at is all that matters.
<1>1. ASSUME UNCHANGED <<busy, closing>>,
             \A r \in Requests :
               /\ Holds(r)' <=> Holds(r)
               /\ Closing(r)' <=> Closing(r)
               /\ Holds(r) => at'[r] = at[r]
      PROVE  PoolInv'
  BY <1>1 DEF Holds
<1>2. Elsewhere => PoolInv'
  BY DEF Elsewhere, Holds, Live, Closing
<1>3. ASSUME NEW r \in Requests,
             \/ Send(r) \/ Share(r) \/ ListCandidates(r) \/ GiveUp(r)
             \/ Abort(r) \/ Keep(r)
      PROVE  PoolInv'
  BY <1>1, <1>3 DEF Send, Share, ListCandidates, GiveUp, Abort, Keep, sessVars,
     poolVars, Holds, Live, Closing
<1>4. ASSUME NEW r \in Requests, NEW t \in Tuners, WaitClosed(r, t) \/ Skip(r, t)
      PROVE  PoolInv'
  BY <1>1, <1>4 DEF WaitClosed, Skip, Trying, PassOver, sessVars, poolVars,
     Holds, Live, Closing
<1>5. ASSUME NEW r \in Requests, NEW t \in Tuners, Reserve(r, t) PROVE PoolInv'
  <2>1. /\ Holds(r)' /\ at'[r] = t /\ ~Holds(r)
        /\ \A q \in Requests \ {r} : (Holds(q)' <=> Holds(q)) /\ at'[q] = at[q]
        /\ \A q \in Requests : (Closing(q)' <=> Closing(q)) /\ (Closing(q) => q # r)
    BY <1>5 DEF Reserve, Take, Trying, sessVars, Holds, Live, Closing
  <2>2. busy' = busy \cup {t} /\ closing' = closing /\ t \notin busy
    BY <1>5 DEF Reserve, Take, FreeTuner
  <2>3. QED
    BY <2>1, <2>2
<1>6. ASSUME NEW r \in Requests, Timeout(r) PROVE PoolInv'
  BY <1>1, <1>6 DEF Timeout, PassOver, sessVars, poolVars, Holds, Live, Closing
<1>7. ASSUME NEW r \in Requests, StartFailed(r) PROVE PoolInv'
  <2>1. /\ Holds(r) /\ ~Holds(r)'
        /\ \A q \in Requests \ {r} : (Holds(q)' <=> Holds(q)) /\ at'[q] = at[q]
        /\ \A q \in Requests : (Closing(q)' <=> Closing(q)) /\ (Closing(q) => q # r)
    BY <1>7 DEF StartFailed, sessVars, Holds, Live, Closing
  <2>2. busy' = busy \ {at[r]} /\ closing' = closing
    BY <1>7 DEF StartFailed, Freed
  <2>3. QED
    BY <2>1, <2>2
<1>8. ASSUME NEW r \in Requests, Publish(r) PROVE PoolInv'
  BY <1>1, <1>8 DEF Publish, Holds, Live, Closing
<1>9. ASSUME NEW s \in Requests,
             \/ CloseIfIdle(s) \/ Stopped(s) \/ StreamEnds(s) \/ Chunk(s)
             \/ TakeTuner(s)
      PROVE  PoolInv'
  BY <1>1, <1>9 DEF CloseIfIdle, Stopped, StreamEnds, Chunk, TakeTuner, reqVars,
     poolVars, Holds, Live, Closing
<1>10. ASSUME NEW s \in Requests, End(s) PROVE PoolInv'
  <2>1. /\ Closing(s)' /\ ~Closing(s) /\ Holds(s)
        /\ \A q \in Requests : (Holds(q)' <=> Holds(q)) /\ at'[q] = at[q]
        /\ \A q \in Requests \ {s} : Closing(q)' <=> Closing(q)
    BY <1>10 DEF End, reqVars, Holds, Live, Closing
  <2>2. busy' = busy /\ closing' = closing \cup {at[s]}
    BY <1>10 DEF End
  <2>3. QED
    BY <2>1, <2>2
<1>11. ASSUME NEW s \in Requests, Closed(s) PROVE PoolInv'
  <2>1. /\ Closing(s) /\ ~Closing(s)' /\ Holds(s) /\ ~Holds(s)'
        /\ \A q \in Requests \ {s} :
             /\ Holds(q)' <=> Holds(q)
             /\ Closing(q)' <=> Closing(q)
             /\ at'[q] = at[q]
    BY <1>11 DEF Closed, Woken, Holds, Live, Closing
  <2>2. busy' = busy \ {at[s]} /\ closing' = closing \ {at[s]}
    BY <1>11 DEF Closed
  <2>3. \A q \in Requests : Closing(q) => Holds(q)
    BY DEF Holds
  <2>4. QED
    BY <2>1, <2>2, <2>3
<1>12. CASE Next
  BY <1>12, NextCases, ElsewhereSteps, <1>2, <1>3, <1>4, <1>5, <1>6, <1>7, <1>8,
     <1>9, <1>10, <1>11
<1>13. QED
  BY <1>2, <1>12, ElsewhereSteps

\* A tuner is never in the hands of two requests or sessions at once.
THEOREM OneHolderHolds == Spec => []OneHolder
<1>1. Init => PoolInv
  BY DEF Init, PoolInv, OneHolder, Exact, Holds, Live, Closing
<1>2. QED
  BY <1>1, PoolStep, TypesHold, PTL DEF Spec, PoolInv

\* The daemon's book-keeping of busy and closing tuners is exact.
THEOREM PoolIsExactHolds == Spec => []PoolIsExact
<1>1. Init => PoolInv
  BY DEF Init, PoolInv, OneHolder, Exact, Holds, Live, Closing
<1>2. TypeOK /\ Placed /\ PoolInv => PoolIsExact
  BY ExactIsPool DEF PoolInv
<1>3. QED
  BY <1>1, <1>2, PoolStep, TypesHold, PTL DEF Spec

-----------------------------------------------------------------------------
(* Sessions and their clients *)

\* JoinableIsLive, with what it rests on: a token is only of a request that
\* was given one, and only a session is stopped.
SessionInv ==
  /\ JoinableIsLive
  /\ \A k \in Requests : tokens[k] # None => pc[k] \in {"keep", "granted"}
  /\ \A s \in Requests : stop[s] => fan[s] # "none"

LEMMA SessionStepPreserves ==
  TypeOK /\ Placed /\ SessionInv /\ [Next]_vars => SessionInv'
<1> SUFFICES ASSUME TypeOK, Placed, SessionInv, [Next]_vars PROVE SessionInv'
  OBVIOUS
<1> USE NoneAssumption DEF TypeOK, Placed, SessionInv, JoinableIsLive, Live, Goto, FanTo
<1>1. ASSUME UNCHANGED vars PROVE SessionInv'
  BY <1>1 DEF vars, reqVars, poolVars, sessVars
<1>2. ASSUME NEW r \in Requests,
             \/ Send(r) \/ ListCandidates(r) \/ NextRound(r) \/ GiveUp(r)
             \/ Abort(r) \/ StartFailed(r)
      PROVE  SessionInv'
  BY <1>2 DEF Send, ListCandidates, NextRound, GiveUp, Abort, StartFailed, sessVars, poolVars
<1>3. ASSUME NEW r \in Requests, NEW t \in Tuners,
             Reserve(r, t) \/ WaitClosed(r, t) \/ Skip(r, t)
      PROVE  SessionInv'
  BY <1>3 DEF Reserve, WaitClosed, Skip, Trying, PassOver, sessVars, poolVars
<1>4. ASSUME NEW r \in Requests, Timeout(r) \/ Keep(r) PROVE SessionInv'
  BY <1>4 DEF Timeout, PassOver, Keep, sessVars, poolVars
<1>5. ASSUME NEW r \in Requests, Share(r) PROVE SessionInv'
  <2>1. CASE UNCHANGED <<subscribers, tokens, rx>>
    BY <1>5, <2>1 DEF Share
  <2>2. ASSUME NEW s \in Shareable(r), Subscribe(r, s), Goto(r, "keep") PROVE SessionInv'
    <3>1. s \in sessions /\ tokens[r] = None /\ pc[r] = "share"
      BY <1>5 DEF Share, Shareable
    <3>2. \A q \in Requests : r \notin subscribers[q]
      BY <3>1
    <3>3. UNCHANGED <<fan, sessions, stop>>
      BY <1>5 DEF Share
    <3>4. QED
      BY <2>2, <3>1, <3>2, <3>3 DEF Subscribe
  <2>3. QED
    BY <1>5, <2>1, <2>2 DEF Share
<1>6. ASSUME NEW r \in Requests, Publish(r) PROVE SessionInv'
  <2>1. /\ pc[r] = "start" /\ fan[r] = "none" /\ ~stop[r] /\ tokens[r] = None
        /\ sessions' = sessions \cup {r}
        /\ fan' = [fan EXCEPT ![r] = "run"]
        /\ UNCHANGED stop
    BY <1>6 DEF Publish
  <2>2. \A q \in Requests : r \notin subscribers[q] /\ tokens[q] # r
    BY <2>1
  <2>3. subscribers[r] = {}
    BY <2>2
  <2>4. CASE UNCHANGED <<subscribers, tokens, rx>> /\ Goto(r, "error")
    BY <2>1, <2>4
  <2>5. CASE Subscribe(r, r) /\ Goto(r, "keep")
    BY <2>1, <2>2, <2>3, <2>5 DEF Subscribe
  <2>6. QED
    BY <1>6, <2>4, <2>5 DEF Publish
<1>7. ASSUME NEW k \in Requests,
             \/ ReleaseRequest(k) \/ Attach(k) \/ DataEnds(k) \/ SignalRequest(k)
             \/ LockTuner(k) \/ SignalRead(k)
      PROVE  SessionInv'
  BY <1>7 DEF ReleaseRequest, Attach, DataEnds, SignalRequest, LockTuner,
     SignalRead, reqVars, sessVars, poolVars
<1>8. ASSUME NEW k \in Requests, Release(k) PROVE SessionInv'
  <2>1. CASE tokens[k] = None
    BY <1>8, <2>1 DEF Release, reqVars
  <2>2. CASE tokens[k] # None
    <3>1. PICK s \in Requests : s = tokens[k]
      BY <2>2
    <3>2. /\ subscribers' = [subscribers EXCEPT ![s] = @ \ {k}]
          /\ sessions' = Joinable(s, subscribers[s] \subseteq {k})
          /\ stop' = [stop EXCEPT ![s] = @ \/ subscribers[s] \subseteq {k}]
          /\ tokens' = [tokens EXCEPT ![k] = None]
          /\ UNCHANGED <<pc, fan>>
      BY <1>8, <2>2, <3>1 DEF Release, reqVars
    <3>3. CASE subscribers[s] \subseteq {k}
      BY <3>1, <3>2, <3>3 DEF Joinable
    <3>4. CASE ~(subscribers[s] \subseteq {k})
      BY <3>1, <3>2, <3>4 DEF Joinable
    <3>5. QED BY <3>3, <3>4
  <2>3. QED BY <2>1, <2>2
<1>9. ASSUME NEW s \in Requests,
             CloseIfIdle(s) \/ Stopped(s) \/ StreamEnds(s) \/ Chunk(s)
      PROVE  SessionInv'
  BY <1>9, SMTT(30) DEF CloseIfIdle, Stopped, StreamEnds, Chunk, reqVars, poolVars
<1>10. ASSUME NEW s \in Requests, End(s) PROVE SessionInv'
  BY <1>10 DEF End, reqVars
<1>11. ASSUME NEW s \in Requests, TakeTuner(s) PROVE SessionInv'
  BY <1>11 DEF TakeTuner, reqVars, poolVars
<1>12. ASSUME NEW s \in Requests, Closed(s) PROVE SessionInv'
  BY <1>12 DEF Closed, Woken
<1>13. ASSUME NEW c \in Clients, Disconnect(c) PROVE SessionInv'
  BY <1>13 DEF Disconnect, reqVars, poolVars, sessVars
<1>14. CASE Next
  BY <1>14, NextCases, <1>2, <1>3, <1>4, <1>5, <1>6, <1>7, <1>8, <1>9, <1>10,
     <1>11, <1>12, <1>13
<1>15. QED
  BY <1>1, <1>14

\* A session that may be joined, or has a client or a token, still runs.
THEOREM JoinableIsLiveHolds == Spec => []JoinableIsLive
<1>1. Init => SessionInv
  BY DEF Init, SessionInv, JoinableIsLive
<1>2. QED
  BY <1>1, SessionStepPreserves, TypesHold, PTL DEF Spec, SessionInv

-----------------------------------------------------------------------------
(* The end of a stream is told *)

\* EndIsTold, and that a receiver is only dropped for a stream its client is
\* done with, or that was told its end.
EndInv ==
  /\ EndIsTold
  /\ \A k \in Requests : rx[k] = "dropped" => rel[k] # "no" \/ k \in ended

LEMMA EndStep ==
  TypeOK /\ Placed /\ SessionInv /\ EndInv /\ [Next]_vars => EndInv'
<1> SUFFICES ASSUME TypeOK, Placed, SessionInv, EndInv, [Next]_vars PROVE EndInv'
  OBVIOUS
<1> USE NoneAssumption DEF TypeOK, EndInv, EndIsTold, Goto, FanTo
\* A step is harmless that neither hands out nor takes away a stream.
<1>1. ASSUME UNCHANGED <<rx, subscribers, ended>>,
             \A k \in Requests :
               /\ rel[k] # "no" => rel'[k] # "no"
               /\ pc'[k] \in {"keep", "granted"} /\ rel'[k] = "no"
                    => pc[k] \in {"keep", "granted"}
      PROVE  EndInv'
  BY <1>1
<1>2. ASSUME UNCHANGED vars PROVE EndInv'
  BY <1>2 DEF vars, reqVars, poolVars, sessVars, connVars
<1>3. ASSUME NEW r \in Requests,
             \/ Send(r) \/ ListCandidates(r) \/ NextRound(r) \/ GiveUp(r)
             \/ Abort(r) \/ StartFailed(r)
      PROVE  EndInv'
  BY <1>3, <1>1 DEF Send, ListCandidates, NextRound, GiveUp, Abort, StartFailed,
     sessVars, poolVars, connVars
<1>4. ASSUME NEW r \in Requests, NEW t \in Tuners,
             Reserve(r, t) \/ WaitClosed(r, t) \/ Skip(r, t)
      PROVE  EndInv'
  BY <1>4, <1>1 DEF Reserve, WaitClosed, Skip, Trying, PassOver, sessVars,
     poolVars, connVars
<1>5. ASSUME NEW r \in Requests, Timeout(r) PROVE EndInv'
  BY <1>5, <1>1 DEF Timeout, PassOver, sessVars, poolVars, connVars
<1>6. ASSUME NEW r \in Requests, Keep(r) PROVE EndInv'
  BY <1>6, <1>1 DEF Keep, Due, sessVars, poolVars
<1>7. ASSUME NEW r \in Requests, Share(r) PROVE EndInv'
  BY <1>7 DEF Share, Shareable, Subscribe, connVars
<1>8. ASSUME NEW r \in Requests, Publish(r) PROVE EndInv'
  BY <1>8 DEF Publish, Subscribe, connVars
<1>9. ASSUME NEW k \in Requests, SignalRequest(k) \/ LockTuner(k) \/ SignalRead(k)
      PROVE  EndInv'
  BY <1>9, <1>1 DEF SignalRequest, LockTuner, SignalRead, reqVars, poolVars, connVars
<1>10. ASSUME NEW k \in Requests, ReleaseRequest(k) PROVE EndInv'
  BY <1>10, <1>1 DEF ReleaseRequest, Due, reqVars, poolVars, sessVars
<1>11. ASSUME NEW k \in Requests, Attach(k) \/ DataEnds(k) PROVE EndInv'
  BY <1>11 DEF Attach, DataEnds, Due, reqVars, sessVars, connVars
<1>12. ASSUME NEW k \in Requests, Release(k) PROVE EndInv'
  <2>1. \A j \in Requests \ {k} :
          /\ rel'[j] = rel[j] /\ rx'[j] = rx[j] /\ pc'[j] = pc[j]
          /\ \A q \in Requests : j \in subscribers[q] => j \in subscribers'[q]
    <3>1. /\ rel' = [rel EXCEPT ![k] = "done"]
          /\ rx' = DropQueued({k})
          /\ pc' = pc
      BY <1>12 DEF Release, reqVars
    <3>2. CASE tokens[k] = None
      BY <1>12, <3>1, <3>2 DEF Release, DropQueued
    <3>3. CASE tokens[k] # None
      <4>1. subscribers' = [subscribers EXCEPT ![tokens[k]] = @ \ {k}]
        BY <1>12, <3>3 DEF Release
      <4>2. QED
        BY <3>1, <4>1 DEF DropQueued
    <3>4. QED BY <3>2, <3>3
  <2>2. rel'[k] = "done" /\ ended' = ended
    BY <1>12 DEF Release
  <2>3. QED
    BY <2>1, <2>2
<1>13. ASSUME NEW s \in Requests,
             CloseIfIdle(s) \/ Stopped(s) \/ StreamEnds(s) \/ TakeTuner(s)
      PROVE  EndInv'
  BY <1>13, <1>1 DEF CloseIfIdle, Stopped, StreamEnds, TakeTuner, reqVars,
     poolVars, connVars
<1>14. ASSUME NEW s \in Requests, Chunk(s) PROVE EndInv'
  BY <1>14 DEF Chunk, reqVars, poolVars, connVars
<1>15. ASSUME NEW s \in Requests, End(s) PROVE EndInv'
  \* A stream of the session that its client keeps is among those told.
  <2>1. ASSUME NEW k \in Requests, tokens[k] = s, rel[k] = "no"
        PROVE  k \in ended'
    <3>1. pc[k] \in {"keep", "granted"}
      BY <2>1 DEF SessionInv
    <3>2. k \in ended \/ k \in subscribers[s]
      BY <2>1, <3>1 DEF SessionInv, JoinableIsLive
    <3>3. QED
      BY <1>15, <3>2 DEF End, Told
  <2>2. \A k \in Requests : rx'[k] = "dropped" => rel[k] # "no" \/ k \in ended'
    BY <1>15, <2>1 DEF End, DropQueued
  <2>3. \A k \in Requests :
          (\E q \in Requests : k \in subscribers[q])
            => k \in ended' \/ \E q \in Requests : k \in subscribers'[q]
    BY <1>15 DEF End, Told
  <2>4. ended \subseteq ended' /\ rel' = rel /\ pc' = pc
    BY <1>15 DEF End, reqVars
  <2>5. QED
    BY <2>2, <2>3, <2>4
<1>16. ASSUME NEW s \in Requests, Closed(s) PROVE EndInv'
  BY <1>16, <1>1 DEF Closed, Woken, connVars
<1>17. ASSUME NEW c \in Clients, Disconnect(c) PROVE EndInv'
  BY <1>17, <1>1 DEF Disconnect, Due, reqVars, poolVars, sessVars
<1>18. CASE Next
  BY <1>18, NextCases, <1>3, <1>4, <1>5, <1>6, <1>7, <1>8, <1>9, <1>10, <1>11,
     <1>12, <1>13, <1>14, <1>15, <1>16, <1>17
<1>19. QED
  BY <1>2, <1>18

\* A stream its client keeps is served, or its end was told.
THEOREM EndIsToldHolds == Spec => []EndIsTold
<1>1. Init => SessionInv /\ EndInv
  BY DEF Init, SessionInv, JoinableIsLive, EndInv, EndIsTold
<1>2. QED
  BY <1>1, SessionStepPreserves, EndStep, TypesHold, PTL DEF Spec, EndInv

-----------------------------------------------------------------------------
(* The streams of a client that went *)

\* A stream that nobody released belongs to a client that is still there, and
\* is among those it is to be relieved of.
GoneInv ==
  \A k \in Requests :
    pc[k] = "granted" /\ rel[k] = "no" =>
      ask[k].client \in Clients \ gone /\ k \in owned[ask[k].client]

LEMMA GoneStep == TypeOK /\ Placed /\ GoneInv /\ [Next]_vars => GoneInv'
<1> SUFFICES ASSUME TypeOK, Placed, GoneInv, [Next]_vars PROVE GoneInv'
  OBVIOUS
<1> USE DEF TypeOK, Placed, GoneInv, Goto, FanTo
\* The steps that grant no stream, and leave the clients and releases alone.
<1>1. ASSUME UNCHANGED <<rel, owned, gone>>,
             \A k \in Requests : pc'[k] = "granted" => pc[k] = "granted" /\ ask'[k] = ask[k]
      PROVE  GoneInv'
  BY <1>1
<1>2. ASSUME UNCHANGED vars PROVE GoneInv'
  BY <1>2 DEF vars, reqVars, connVars
<1>3. ASSUME NEW r \in Requests,
             \/ Send(r) \/ Share(r) \/ ListCandidates(r) \/ NextRound(r) \/ GiveUp(r)
             \/ Abort(r) \/ StartFailed(r) \/ Publish(r) \/ Timeout(r)
      PROVE  GoneInv'
  BY <1>3, <1>1 DEF Send, Share, ListCandidates, NextRound, GiveUp, Abort,
     StartFailed, Publish, Timeout, PassOver, connVars
<1>4. ASSUME NEW r \in Requests, NEW t \in Tuners,
             Reserve(r, t) \/ WaitClosed(r, t) \/ Skip(r, t)
      PROVE  GoneInv'
  BY <1>4, <1>1 DEF Reserve, WaitClosed, Skip, PassOver, connVars
<1>5. ASSUME NEW r \in Requests, Keep(r) PROVE GoneInv'
  <2>1. ask[r].client \in Clients
    BY AsksAssumption DEF Ask
  <2>2. CASE ClientGone(r)
    BY <1>5, <2>2 DEF Keep, ClientGone, Due
  <2>3. CASE ~ClientGone(r)
    BY <1>5, <2>1, <2>3 DEF Keep, ClientGone
  <2>4. QED BY <2>2, <2>3
<1>6. ASSUME NEW k \in Requests, ReleaseRequest(k) PROVE GoneInv'
  BY <1>6 DEF ReleaseRequest, Due, reqVars
<1>7. ASSUME NEW k \in Requests, Release(k) PROVE GoneInv'
  BY <1>7 DEF Release, reqVars
<1>8. ASSUME NEW k \in Requests, DataEnds(k) PROVE GoneInv'
  BY <1>8 DEF DataEnds, Due, reqVars
<1>9. ASSUME NEW k \in Requests,
             Attach(k) \/ SignalRequest(k) \/ LockTuner(k) \/ SignalRead(k)
      PROVE  GoneInv'
  BY <1>9, <1>1 DEF Attach, SignalRequest, LockTuner, SignalRead, reqVars, connVars
<1>10. ASSUME NEW s \in Requests,
              \/ CloseIfIdle(s) \/ Stopped(s) \/ StreamEnds(s) \/ Chunk(s)
              \/ End(s) \/ TakeTuner(s) \/ Closed(s)
       PROVE  GoneInv'
  BY <1>10, <1>1 DEF CloseIfIdle, Stopped, StreamEnds, Chunk, End, TakeTuner,
     Closed, Woken, reqVars, connVars
<1>11. ASSUME NEW c \in Clients, Disconnect(c) PROVE GoneInv'
  BY <1>11 DEF Disconnect, Due, Orphans, reqVars
<1>12. CASE Next
  BY <1>12, NextCases, <1>3, <1>4, <1>5, <1>6, <1>7, <1>8, <1>9, <1>10, <1>11
<1>13. QED
  BY <1>2, <1>12

\* No stream of a client that went is forgotten.
THEOREM GoneIsReleasedHolds == Spec => []GoneIsReleased
<1>1. Init => GoneInv
  BY DEF Init, GoneInv
<1>2. GoneInv => GoneIsReleased
  BY DEF GoneInv, GoneIsReleased
<1>3. QED
  BY <1>1, <1>2, GoneStep, TypesHold, PTL DEF Spec

-----------------------------------------------------------------------------
(* Clients are served what they asked for *)

\* Candidates are all a request tries, waits for and takes.
ServedInv ==
  /\ ServedAsAsked
  /\ \A r \in Requests :
       /\ left[r] \subseteq Candidates(r)
       /\ pc[r] = "new" => left[r] = {}
       /\ Holds(r) \/ pc[r] \in {"wait", "recheck"} => at[r] \in Candidates(r)

LEMMA ServedStep ==
  TypeOK /\ Placed /\ SessionInv /\ ServedInv /\ [Next]_vars => ServedInv'
<1> SUFFICES ASSUME TypeOK, Placed, SessionInv, ServedInv, [Next]_vars
             PROVE  ServedInv'
  OBVIOUS
<1> USE NoneAssumption DEF TypeOK, Placed, ServedInv, ServedAsAsked, Goto, FanTo,
        Holds, Live, Closing
\* Only a session that holds its tuner has clients, and only a request that
\* was granted is one.
<1>a. \A s \in Requests : \A k \in subscribers[s] :
        k \in Requests /\ Live(s) /\ pc[k] \in {"keep", "granted"}
  BY DEF SessionInv, JoinableIsLive
\* What a request asks for changes only as it is sent.
<1>c. \A r \in Requests, t \in Tuners :
        t \in Candidates(r) <=> <<t, ask[r].params>> \in Receives /\ Wanted(r, t)
  BY DEF Candidates
<1>d. ASSUME UNCHANGED ask
      PROVE  \A r \in Requests : /\ Candidates(r)' = Candidates(r)
                                /\ \A t \in Tuners \cup {None} : Wanted(r, t)' = Wanted(r, t)
  BY <1>d DEF Candidates, Wanted
<1>1. ASSUME UNCHANGED <<ask, pc, at, left, fan>>,
             \A s \in Requests : subscribers'[s] \subseteq subscribers[s]
      PROVE  ServedInv'
  BY <1>1, <1>d
\* A task in its loop has no session, so that its step is harmless if it keeps
\* to the candidates.
<1>b. ASSUME NEW r \in Requests, pc[r] \notin {"keep", "granted"},
             UNCHANGED <<ask, fan, subscribers>>,
             \A q \in Requests \ {r} : pc'[q] = pc[q] /\ at'[q] = at[q] /\ left'[q] = left[q],
             fan[r] = "none",
             pc'[r] # "new", left'[r] \subseteq Candidates(r),
             pc'[r] \in {"start", "abort", "wait", "recheck"} => at'[r] \in Candidates(r)
      PROVE  ServedInv'
  <2>1. subscribers[r] = {}
    BY <1>b, <1>a
  <2>2. \A s \in Requests : subscribers[s] # {} => at'[s] = at[s]
    BY <1>b, <2>1
  <2>3. ServedAsAsked'
    <3>1. SUFFICES ASSUME NEW s \in Requests, NEW k \in subscribers[s]
                   PROVE  /\ ask[s].params = ask[k].params
                          /\ Wanted(k, at[s]) /\ <<at[s], ask[k].params>> \in Receives
      BY <1>b, <1>d, <1>a, <2>2
    <3>2. QED
      BY <3>1
  <2>4. QED
    BY <1>b, <1>d, <2>3
<1>2. ASSUME UNCHANGED vars PROVE ServedInv'
  BY <1>1, <1>2 DEF vars, reqVars, sessVars
<1>3. ASSUME NEW r \in Requests, Send(r) PROVE ServedInv'
  <2>1. PICK a \in Asks : ask' = [ask EXCEPT ![r] = a]
    BY <1>3 DEF Send
  <2>2. /\ pc[r] = "new" /\ pc' = [pc EXCEPT ![r] = "share"]
        /\ UNCHANGED <<at, left, fan, subscribers>>
    BY <1>3 DEF Send, sessVars
  <2>3. left[r] = {} /\ ~Holds(r) /\ subscribers[r] = {}
    BY <2>2, <1>a, SMTT(30)
  <2>4. \A q \in Requests \ {r} : Candidates(q)' = Candidates(q)
    BY <2>1 DEF Candidates, Wanted
  <2>5. \A s \in Requests : \A k \in subscribers[s] :
          /\ s # r /\ k # r
          /\ ask'[s] = ask[s] /\ ask'[k] = ask[k]
          /\ Wanted(k, at[s])' = Wanted(k, at[s])
    BY <2>1, <2>2, <2>3, <1>a DEF Wanted
  <2>6. ServedAsAsked'
    BY <2>2, <2>5
  <2>7. QED
    BY <2>2, <2>3, <2>4, <2>6
<1>4. ASSUME NEW r \in Requests,
             \/ ListCandidates(r) \/ NextRound(r) \/ GiveUp(r) \/ Abort(r)
             \/ StartFailed(r)
      PROVE  ServedInv'
  <2>1. fan[r] = "none" /\ pc[r] \notin {"keep", "granted"}
    BY <1>4 DEF ListCandidates, NextRound, GiveUp, Abort, StartFailed
  <2>2. UNCHANGED <<ask, fan, subscribers>>
    BY <1>4 DEF ListCandidates, NextRound, GiveUp, Abort, StartFailed, sessVars
  <2>3. \A q \in Requests \ {r} : pc'[q] = pc[q] /\ at'[q] = at[q] /\ left'[q] = left[q]
    BY <1>4 DEF ListCandidates, NextRound, GiveUp, Abort, StartFailed, EndLoop
  <2>4. pc'[r] # "new" /\ left'[r] \subseteq Candidates(r)
    BY <1>4 DEF ListCandidates, NextRound, GiveUp, Abort, StartFailed, EndLoop
  <2>5. pc'[r] \in {"start", "abort", "wait", "recheck"} => at'[r] \in Candidates(r)
    BY <1>4 DEF ListCandidates, NextRound, GiveUp, Abort, StartFailed
  <2>6. QED
    BY <1>b, <2>1, <2>2, <2>3, <2>4, <2>5
<1>5. ASSUME NEW r \in Requests, NEW t \in Tuners,
             Reserve(r, t) \/ WaitClosed(r, t) \/ Skip(r, t)
      PROVE  ServedInv'
  <2>1. /\ fan[r] = "none" /\ pc[r] \notin {"keep", "granted"}
        /\ t \in Candidates(r) /\ left[r] \subseteq Candidates(r)
    BY <1>5 DEF Reserve, WaitClosed, Skip, Trying
  <2>2. UNCHANGED <<ask, fan, subscribers>>
    BY <1>5 DEF Reserve, WaitClosed, Skip, PassOver, sessVars
  <2>3. \A q \in Requests \ {r} : pc'[q] = pc[q] /\ at'[q] = at[q] /\ left'[q] = left[q]
    BY <1>5 DEF Reserve, Take, WaitClosed, Skip, PassOver
  <2>4. /\ left'[r] \subseteq left[r] /\ pc'[r] # "new"
        /\ at'[r] = t \/ pc'[r] = "reserve"
    BY <1>5 DEF Reserve, Take, WaitClosed, Skip, PassOver
  <2>5. left'[r] \subseteq Candidates(r)
    BY <2>1, <2>4
  <2>6. pc'[r] \in {"start", "abort", "wait", "recheck"} => at'[r] \in Candidates(r)
    BY <2>1, <2>4
  <2>7. pc'[r] # "new"
    BY <2>4
  <2>8. QED
    BY <1>b, <2>1, <2>2, <2>3, <2>5, <2>6, <2>7
<1>6. ASSUME NEW r \in Requests, Timeout(r) PROVE ServedInv'
  <2>1. fan[r] = "none" /\ pc[r] = "wait" /\ UNCHANGED <<ask, fan, subscribers>>
    BY <1>6 DEF Timeout, PassOver, sessVars
  <2>2. \A q \in Requests \ {r} : pc'[q] = pc[q] /\ at'[q] = at[q] /\ left'[q] = left[q]
    BY <1>6 DEF Timeout, PassOver
  <2>3. left'[r] \subseteq left[r] /\ pc'[r] = "reserve"
    BY <1>6 DEF Timeout, PassOver
  <2>4. QED
    BY <1>b, <2>1, <2>2, <2>3
<1>7. ASSUME NEW r \in Requests, Share(r) PROVE ServedInv'
  <2>1. /\ fan[r] = "none" /\ pc[r] = "share"
        /\ UNCHANGED <<ask, fan, at, left>>
        /\ \A q \in Requests \ {r} : pc'[q] = pc[q]
        /\ pc'[r] \in {"keep", "error"}
    BY <1>7 DEF Share
  <2>2. PICK s \in Shareable(r) :
          \/ subscribers' = [subscribers EXCEPT ![s] = @ \cup {r}]
          \/ subscribers' = subscribers
    BY <1>7 DEF Share, Subscribe
  <2>3. s \in Requests /\ ask[s].params = ask[r].params /\ Wanted(r, at[s]) /\ Live(s)
    BY <2>2 DEF Shareable, SessionInv, JoinableIsLive
  <2>4. at[s] \in Tuners /\ <<at[s], ask[s].params>> \in Receives
    BY <2>3, <1>c
  <2>5. \A q \in Requests : \A k \in subscribers'[q] :
          k \in subscribers[q] \/ (q = s /\ k = r)
    BY <2>2
  <2>6. \A q \in Requests : \A k \in subscribers'[q] :
          /\ ask[q].params = ask[k].params
          /\ Wanted(k, at[q]) /\ <<at[q], ask[k].params>> \in Receives
    BY <2>3, <2>4, <2>5, SMTT(30)
  <2>7. ServedAsAsked'
    BY <2>1, <2>6 DEF Wanted
  <2>8. QED
    BY <2>1, <2>7, <1>d
<1>8. ASSUME NEW r \in Requests, Publish(r) PROVE ServedInv'
  <2>1. /\ pc[r] = "start" /\ at[r] \in Candidates(r)
        /\ UNCHANGED <<ask, at>>
        /\ fan' = [fan EXCEPT ![r] = "run"]
        /\ pc'[r] \in {"keep", "error"}
        /\ \A q \in Requests \ {r} : pc'[q] = pc[q]
        /\ left' = [left EXCEPT ![r] = {}]
    BY <1>8 DEF Publish, Subscribe, EndLoop
  <2>2. \/ subscribers' = [subscribers EXCEPT ![r] = @ \cup {r}]
        \/ subscribers' = subscribers
    BY <1>8 DEF Publish, Subscribe
  <2>3. /\ at[r] \in Tuners /\ Wanted(r, at[r])
        /\ <<at[r], ask[r].params>> \in Receives
    BY <2>1, <1>c DEF Candidates
  <2>4. \A q \in Requests : \A k \in subscribers'[q] :
          k \in subscribers[q] \/ (q = r /\ k = r)
    BY <2>2
  <2>5. \A q \in Requests : \A k \in subscribers'[q] :
          /\ ask[q].params = ask[k].params
          /\ Wanted(k, at[q]) /\ <<at[q], ask[k].params>> \in Receives
    <3> SUFFICES ASSUME NEW q \in Requests, NEW k \in subscribers'[q]
                 PROVE  /\ ask[q].params = ask[k].params
                        /\ Wanted(k, at[q]) /\ <<at[q], ask[k].params>> \in Receives
      OBVIOUS
    <3>1. CASE k \in subscribers[q]
      BY <3>1
    <3>2. CASE q = r /\ k = r
      BY <2>3, <3>2
    <3>3. QED
      BY <2>4, <3>1, <3>2
  <2>6. ServedAsAsked'
    BY <2>1, <2>5 DEF Wanted
  <2>7. \A q \in Requests :
          /\ left'[q] \subseteq left[q]
          /\ pc'[q] = "new" => pc[q] = "new" /\ left'[q] = left[q]
          /\ Holds(q)' \/ pc'[q] \in {"wait", "recheck"} =>
               Holds(q) \/ pc[q] \in {"wait", "recheck"}
    BY <2>1
  <2>8. \A q \in Requests : pc'[q] = "new" => left'[q] = {}
    BY <2>7
  <2>a. \A q \in Requests :
          /\ (left[q] \subseteq Candidates(q))'
          /\ (pc[q] = "new" => left[q] = {})'
          /\ (Holds(q) \/ pc[q] \in {"wait", "recheck"} => at[q] \in Candidates(q))'
    <3> SUFFICES ASSUME NEW q \in Requests
                 PROVE  /\ left'[q] \subseteq Candidates(q)
                        /\ Holds(q)' \/ pc'[q] \in {"wait", "recheck"} =>
                             at[q] \in Candidates(q)
      BY <2>1, <2>8, <1>d
    <3>1. left'[q] \subseteq Candidates(q)
      BY <2>7
    <3>2. QED
      BY <3>1, <2>7
  <2>9. QED
    BY <2>6, <2>a
<1>k. ASSUME NEW r \in Requests, Keep(r) PROVE ServedInv'
  <2>1. /\ pc[r] = "keep" /\ pc' = [pc EXCEPT ![r] = "granted"]
        /\ UNCHANGED <<ask, at, left, fan, subscribers>>
    BY <1>k DEF Keep, sessVars
  <2>2. ServedAsAsked'
    BY <2>1 DEF Wanted
  <2>3. QED
    BY <2>1, <2>2, <1>d
<1>9. ASSUME NEW k \in Requests,
             \/ ReleaseRequest(k) \/ Attach(k) \/ DataEnds(k) \/ SignalRequest(k)
             \/ LockTuner(k) \/ SignalRead(k)
      PROVE  ServedInv'
  BY <1>9, <1>1 DEF ReleaseRequest, Attach, DataEnds, SignalRequest, LockTuner,
     SignalRead, reqVars, sessVars
<1>10. ASSUME NEW k \in Requests, Release(k) PROVE ServedInv'
  <2>1. \A s \in Requests : subscribers'[s] \subseteq subscribers[s]
    BY <1>10 DEF Release
  <2>2. QED
    BY <1>10, <1>1, <2>1 DEF Release, reqVars
<1>11. ASSUME NEW s \in Requests,
              \/ CloseIfIdle(s) \/ Stopped(s) \/ StreamEnds(s) \/ Chunk(s)
              \/ End(s) \/ TakeTuner(s)
       PROVE  ServedInv'
  <2>1. \A q \in Requests : subscribers'[q] \subseteq subscribers[q]
    BY <1>11 DEF CloseIfIdle, Stopped, StreamEnds, Chunk, End, TakeTuner
  <2>2. /\ UNCHANGED <<ask, pc, at, left>>
        /\ \A q \in Requests : Holds(q)' => Holds(q)
    BY <1>11 DEF CloseIfIdle, Stopped, StreamEnds, Chunk, End, TakeTuner, reqVars
  <2>3. ServedAsAsked'
    BY <2>1, <2>2 DEF Wanted
  <2>4. QED
    BY <2>2, <2>3, <1>d
<1>12. ASSUME NEW s \in Requests, Closed(s) PROVE ServedInv'
  <2>a. /\ fan[s] = "drop"
        /\ UNCHANGED <<ask, left, subscribers>>
        /\ at' = [at EXCEPT ![s] = None] /\ fan' = [fan EXCEPT ![s] = "done"]
        /\ pc' = Woken
    BY <1>12 DEF Closed
  <2>b. subscribers[s] = {}
    BY <2>a, <1>a
  <2>2. ServedAsAsked'
    BY <2>a, <2>b, <1>a DEF Wanted
  <2>3. \A q \in Requests :
          /\ pc'[q] = "new" => pc[q] = "new"
          /\ pc'[q] \in {"start", "abort"} => pc[q] = pc'[q]
          /\ pc'[q] \in {"wait", "recheck"} => pc[q] \in {"wait", "recheck"}
    BY <2>a DEF Woken
  <2>4. pc[s] \notin {"start", "abort", "wait", "recheck"}
    BY <2>a
  <2>5. QED
    BY <2>a, <2>2, <2>3, <2>4, <1>d
<1>13. ASSUME NEW c \in Clients, Disconnect(c) PROVE ServedInv'
  BY <1>13, <1>1 DEF Disconnect, reqVars, sessVars
<1>14. CASE Next
  BY <1>14, NextCases, <1>3, <1>4, <1>5, <1>6, <1>7, <1>8, <1>9, <1>10, <1>11,
     <1>12, <1>13, <1>k
<1>15. QED
  BY <1>2, <1>14

\* Every client of a session is served what it asked for.
THEOREM ServedAsAskedHolds == Spec => []ServedAsAsked
<1>1. Init => SessionInv /\ ServedInv
  BY NoneAssumption DEF Init, SessionInv, JoinableIsLive, ServedInv, ServedAsAsked, Holds, Live, Closing
<1>2. QED
  BY <1>1, SessionStepPreserves, ServedStep, TypesHold, PTL DEF Spec, ServedInv

-----------------------------------------------------------------------------
(* What Tunelithd does with its tuners, as TunerPool says it               *)

\* What TunerPool calls use, clients and served.
Use ==
  [t \in Tuners |-> {<<r, ask[r].params>> : r \in {q \in Requests : Holds(q) /\ at[q] = t}}]

On ==
  [t \in Tuners |->
     {<<k, ask[k].params>> : k \in
        {j \in Requests : \E s \in Requests : at[s] = t /\ j \in subscribers[s]}}]

Served == {k \in Requests : rx[k] # "none"}

Follows == Pool!Next \/ UNCHANGED Pool!vars

-----------------------------------------------------------------------------
(* The steps of TunerPool, in terms of these                               *)

LEMMA TakeIs ==
  ASSUME NEW t \in Tuners, NEW s \in Requests, NEW p \in Params,
         Use[t] = {}, Use' = [Use EXCEPT ![t] = {<<s, p>>}], On' = On, Served' = Served
  PROVE  Follows
<1>1. Pool!Take(t, s, p)
  BY DEF Pool!Take, Use, On, Served
<1> QED
  BY <1>1 DEF Pool!Next, Follows

LEMMA JoinIs ==
  ASSUME NEW t \in Tuners, NEW s \in Requests, NEW p \in Params,
         s \notin Served, \E u \in Use[t] : u[2] = p,
         On' = [On EXCEPT ![t] = @ \cup {<<s, p>>}],
         Use' = Use, Served' = Served \cup {s}
  PROVE  Follows
<1>1. Pool!Join(t, s, p)
  BY DEF Pool!Join, Use, On, Served
<1> QED
  BY <1>1 DEF Pool!Next, Follows

LEMMA LeaveIs ==
  ASSUME NEW t \in Tuners, NEW S, S # {}, S \subseteq On[t],
         On' = [On EXCEPT ![t] = @ \ S], Use' = Use, Served' = Served
  PROVE  Follows
<1>1. Pool!Leave(t, S)
  BY DEF Pool!Leave, Use, On, Served
<1>2. S \in SUBSET On[t]
  OBVIOUS
<1> QED
  BY <1>1, <1>2 DEF Pool!Next, On, Follows

LEMMA FreeIs ==
  ASSUME NEW t \in Tuners, Use[t] # {}, On[t] = {},
         Use' = [Use EXCEPT ![t] = {}], On' = On, Served' = Served
  PROVE  Follows
<1>1. Pool!Free(t)
  BY DEF Pool!Free, Use, On, Served
<1> QED
  BY <1>1 DEF Pool!Next, Follows

LEMMA SameIs ==
  ASSUME Use' = Use, On' = On, Served' = Served
  PROVE  Follows
  BY DEF Pool!vars, Use, On, Served, Follows

LEMMA Starts == Init => Pool!Init
  BY DEF Init, Pool!Init, Holds, Live, Closing

-----------------------------------------------------------------------------
(* What they depend on                                                     *)

\* Only a request that was granted a stream has ever had chunks to take.
RxInv == \A k \in Requests : rx[k] # "none" => pc[k] \in {"keep", "granted"}

LEMMA RxStep ==
  TypeOK /\ Placed /\ RxInv /\ [Next]_vars => RxInv'
<1> SUFFICES ASSUME TypeOK, Placed, RxInv, [Next]_vars PROVE RxInv'
  OBVIOUS
<1> USE DEF TypeOK, RxInv, Goto, FanTo
<1>1. ASSUME \A k \in Requests :
               /\ rx'[k] # "none" => rx[k] # "none"
               /\ pc[k] \in {"keep", "granted"} => pc'[k] \in {"keep", "granted"}
      PROVE  RxInv'
  BY <1>1
<1>2. ASSUME UNCHANGED vars PROVE RxInv'
  BY <1>2 DEF vars, reqVars, poolVars
<1>3. ASSUME NEW r \in Requests,
             \/ Send(r) \/ ListCandidates(r) \/ NextRound(r) \/ GiveUp(r)
             \/ Abort(r) \/ StartFailed(r) \/ Timeout(r) \/ Keep(r)
      PROVE  RxInv'
  BY <1>3, <1>1 DEF Send, ListCandidates, NextRound, GiveUp, Abort, StartFailed, Timeout,
     PassOver, Keep, poolVars
<1>4. ASSUME NEW r \in Requests, NEW t \in Tuners,
             Reserve(r, t) \/ WaitClosed(r, t) \/ Skip(r, t)
      PROVE  RxInv'
  BY <1>4, <1>1 DEF Reserve, WaitClosed, Skip, Trying, PassOver, poolVars
<1>5. ASSUME NEW r \in Requests, Share(r) \/ Publish(r) PROVE RxInv'
  <2>1. \A k \in Requests \ {r} : rx'[k] = rx[k] /\ pc'[k] = pc[k]
    BY <1>5 DEF Share, Publish, Subscribe
  <2>2. pc'[r] = "keep" \/ rx'[r] = "none"
    BY <1>5 DEF Share, Publish
  <2> QED
    BY <2>1, <2>2
<1>6. ASSUME NEW k \in Requests,
             \/ ReleaseRequest(k) \/ Attach(k) \/ DataEnds(k) \/ SignalRequest(k)
             \/ LockTuner(k) \/ SignalRead(k) \/ Release(k)
      PROVE  RxInv'
  BY <1>6, <1>1 DEF ReleaseRequest, Attach, DataEnds, SignalRequest, LockTuner, SignalRead,
     Release, DropQueued, reqVars, poolVars
<1>7. ASSUME NEW s \in Requests,
             \/ CloseIfIdle(s) \/ Stopped(s) \/ StreamEnds(s) \/ Chunk(s)
             \/ End(s) \/ TakeTuner(s) \/ Closed(s)
      PROVE  RxInv'
  BY <1>7, <1>1 DEF CloseIfIdle, Stopped, StreamEnds, Chunk, End, TakeTuner, Closed, Woken,
     DropQueued, reqVars, poolVars
<1>8. ASSUME NEW c \in Clients, Disconnect(c) PROVE RxInv'
  BY <1>8, <1>1 DEF Disconnect, reqVars, poolVars
<1>9. CASE Next
  BY <1>9, NextCases, <1>3, <1>4, <1>5, <1>6, <1>7, <1>8
<1> QED
  BY <1>2, <1>9

IInv == TypeOK /\ Placed /\ PoolInv /\ SessionInv /\ RxInv

\* A client is that of one session, which has a tuner of its own.
LEMMA Clientele ==
  ASSUME IInv
  PROVE  /\ \A s \in Requests : \A k \in subscribers[s] :
              /\ k \in Requests /\ tokens[k] = s /\ pc[k] \in {"keep", "granted"}
              /\ Live(s) /\ Holds(s) /\ at[s] \in Tuners
         /\ \A r \in Requests :
              pc[r] \notin {"keep", "granted"} =>
                r \notin Served /\ \A s \in Requests : r \notin subscribers[s]
         /\ \A r \in Requests :
              pc[r] \notin {"keep", "granted", "error"} =>
                fan[r] = "none" /\ subscribers[r] = {}
<1>1. \A s \in Requests : \A k \in subscribers[s] : k \in Requests /\ tokens[k] = s
  BY DEF IInv, TypeOK, SessionInv, JoinableIsLive
<1>2. \A k \in Requests : tokens[k] # None => Live(tokens[k]) /\ pc[k] \in {"keep", "granted"}
  BY DEF IInv, SessionInv, JoinableIsLive
<1>3. \A s \in Requests : s # None
  BY NoneAssumption
<1>4. \A s \in Requests : \A k \in subscribers[s] :
        /\ k \in Requests /\ tokens[k] = s /\ pc[k] \in {"keep", "granted"} /\ Live(s)
  BY <1>1, <1>2, <1>3
<1>5. \A s \in Requests : Live(s) => Holds(s) /\ fan[s] # "none"
  BY DEF Holds, Live
<1>6. \A s \in Requests : Holds(s) => at[s] \in Tuners
  BY DEF IInv, Placed
<1>7. \A r \in Requests : pc[r] \notin {"keep", "granted", "error"} => fan[r] = "none"
  BY DEF IInv, Placed
<1>8. \A s \in Requests : fan[s] = "none" => subscribers[s] = {}
  BY <1>4, <1>5
<1> QED
  BY <1>4, <1>5, <1>6, <1>7, <1>8 DEF IInv, RxInv, Served

LEMMA UseSame ==
  ASSUME \A q \in Requests :
           /\ Holds(q)' <=> Holds(q)
           /\ Holds(q) => at'[q] = at[q] /\ ask'[q] = ask[q]
  PROVE  Use' = Use
  BY DEF Use

LEMMA OnSame ==
  ASSUME subscribers' = subscribers,
         \A s \in Requests : subscribers[s] # {} => at'[s] = at[s],
         \A s \in Requests : \A k \in subscribers[s] : ask'[k] = ask[k]
  PROVE  On' = On
  BY DEF On

LEMMA ServedSame ==
  ASSUME \A k \in Requests : rx'[k] # "none" <=> rx[k] # "none"
  PROVE  Served' = Served
  BY DEF Served

-----------------------------------------------------------------------------
(* The steps of Tunelithd                                                  *)

\* Those that take, share and free no tuner, and let nobody leave.
LEMMA Elsewise ==
  ASSUME IInv, Next
  PROVE  \/ Follows
         \/ \E r \in Requests : Share(r) \/ StartFailed(r) \/ Publish(r) \/ Release(r)
         \/ \E r \in Requests, t \in Tuners : Reserve(r, t)
         \/ \E s \in Requests : Chunk(s) \/ End(s) \/ Closed(s)
<1> USE DEF IInv, TypeOK, Goto, FanTo
<1>1. ASSUME subscribers' = subscribers,
             \A q \in Requests :
               /\ Holds(q)' <=> Holds(q)
               /\ Holds(q) => at'[q] = at[q]
               /\ pc[q] \in {"keep", "granted"} \/ Holds(q) => ask'[q] = ask[q]
               /\ rx'[q] # "none" <=> rx[q] # "none"
      PROVE  Follows
  <2>1. Use' = Use
    BY <1>1, UseSame
  <2>2. On' = On
    <3>1. \A s \in Requests : subscribers[s] # {} => at'[s] = at[s]
      BY <1>1, Clientele
    <3>2. \A s \in Requests : \A k \in subscribers[s] : ask'[k] = ask[k]
      BY <1>1, Clientele
    <3> QED
      BY <1>1, <3>1, <3>2, OnSame
  <2>3. Served' = Served
    BY <1>1, ServedSame
  <2> QED
    BY <2>1, <2>2, <2>3, SameIs
<1>2. ASSUME NEW r \in Requests,
             ListCandidates(r) \/ NextRound(r) \/ GiveUp(r) \/ Abort(r) \/ Keep(r)
      PROVE  Follows
  BY <1>2, <1>1 DEF ListCandidates, NextRound, GiveUp, Abort, Keep, poolVars, sessVars, Holds,
     Live, Closing
<1>3. ASSUME NEW r \in Requests, Send(r) PROVE Follows
  <2>1. ~Holds(r)
    BY <1>3, Clientele DEF Send, Holds, Live, Closing
  <2> QED
    BY <1>3, <1>1, <2>1 DEF Send, poolVars, sessVars, Holds, Live, Closing
<1>4. ASSUME NEW r \in Requests, NEW t \in Tuners, WaitClosed(r, t) \/ Skip(r, t)
      PROVE  Follows
  <2>1. ~Holds(r)
    BY <1>4, Clientele DEF WaitClosed, Skip, Trying, Holds, Live, Closing
  <2> QED
    BY <1>4, <1>1, <2>1 DEF WaitClosed, Skip, PassOver, Trying, poolVars, sessVars, Holds, Live,
       Closing
<1>5. ASSUME NEW r \in Requests, Timeout(r) PROVE Follows
  <2>1. ~Holds(r)
    BY <1>5, Clientele DEF Timeout, Holds, Live, Closing
  <2> QED
    BY <1>5, <1>1, <2>1 DEF Timeout, PassOver, poolVars, sessVars, Holds, Live, Closing
<1>6. ASSUME NEW k \in Requests,
             \/ ReleaseRequest(k) \/ Attach(k) \/ DataEnds(k) \/ SignalRequest(k)
             \/ LockTuner(k) \/ SignalRead(k)
      PROVE  Follows
  BY <1>6, <1>1 DEF ReleaseRequest, Attach, DataEnds, SignalRequest, LockTuner, SignalRead,
     reqVars, poolVars, sessVars, Holds, Live, Closing
<1>7. ASSUME NEW s \in Requests,
             CloseIfIdle(s) \/ Stopped(s) \/ StreamEnds(s) \/ TakeTuner(s)
      PROVE  Follows
  BY <1>7, <1>1 DEF CloseIfIdle, Stopped, StreamEnds, TakeTuner, reqVars, poolVars, Holds, Live,
     Closing
<1>8. ASSUME NEW c \in Clients, Disconnect(c) PROVE Follows
  BY <1>8, <1>1 DEF Disconnect, reqVars, poolVars, sessVars, Holds, Live, Closing
<1> QED
  BY NextCases, <1>2, <1>3, <1>4, <1>5, <1>6, <1>7, <1>8

LEMMA ReserveFollows ==
  ASSUME IInv, NEW r \in Requests, NEW t \in Tuners, Reserve(r, t)
  PROVE  Follows
<1> USE DEF IInv, TypeOK, Goto
<1>1. /\ pc[r] \in {"reserve", "recheck"} /\ fan[r] = "none" /\ subscribers[r] = {}
      /\ ~Holds(r) /\ ask[r].params \in Params
  <2>1. pc[r] \in {"reserve", "recheck"}
    BY DEF Reserve, Trying
  <2>2. fan[r] = "none" /\ subscribers[r] = {}
    BY <2>1, Clientele
  <2>3. ask[r].params \in Params
    BY AsksAssumption DEF Ask
  <2> QED
    BY <2>1, <2>2, <2>3 DEF Holds, Live, Closing
<1>2. /\ Holds(r)' /\ at'[r] = t /\ ask' = ask /\ rx' = rx /\ subscribers' = subscribers
      /\ \A q \in Requests \ {r} : (Holds(q)' <=> Holds(q)) /\ at'[q] = at[q]
  BY DEF Reserve, Take, Trying, sessVars, Holds, Live, Closing
<1>3. Use[t] = {}
  <2>1. \A q \in Requests : ~(Holds(q) /\ at[q] = t)
    BY DEF Reserve, FreeTuner, PoolInv, Exact
  <2> QED
    BY <2>1 DEF Use
<1>4. Use' = [Use EXCEPT ![t] = {<<r, ask[r].params>>}]
  <2>1. \A q \in Requests : ~(Holds(q) /\ at[q] = t)
    BY DEF Reserve, FreeTuner, PoolInv, Exact
  <2>2. \A q \in Requests, u \in Tuners :
          (Holds(q) /\ at[q] = u)' <=> IF u = t THEN q = r ELSE Holds(q) /\ at[q] = u
    BY <2>1, <1>1, <1>2
  <2>3. \A u \in Tuners :
          Use'[u] = IF u = t THEN {<<r, ask[r].params>>} ELSE Use[u]
    BY <2>2, <1>2 DEF Use
  <2> QED
    BY <2>3 DEF Use
<1>5. On' = On
  BY <1>1, <1>2, OnSame
<1>6. Served' = Served
  BY <1>2, ServedSame
<1> QED
  BY <1>1, <1>3, <1>4, <1>5, <1>6, TakeIs

\* A tuner whose only holder has no clients, and lets go of it.
LEMMA LetGoFollows ==
  ASSUME IInv, NEW r \in Requests, Holds(r), ~Holds(r)', subscribers[r] = {},
         UNCHANGED <<ask, rx, subscribers>>,
         \A q \in Requests \ {r} : (Holds(q)' <=> Holds(q)) /\ at'[q] = at[q]
  PROVE  Follows
<1> USE DEF IInv, TypeOK
<1> DEFINE t == at[r]
<1>1. t \in Tuners /\ \A q \in Requests : Holds(q) /\ at[q] = t => q = r
  BY DEF Placed, PoolInv, OneHolder
<1>2. Use[t] # {}
  <2>1. <<r, ask[r].params>> \in Use[t]
    BY <1>1 DEF Use
  <2> QED
    BY <2>1
<1>3. On[t] = {}
  <2>1. \A s \in Requests : at[s] = t => subscribers[s] = {}
    BY <1>1, Clientele
  <2> QED
    BY <2>1, <1>1 DEF On
<1>4. Use' = [Use EXCEPT ![t] = {}]
  <2>1. \A q \in Requests, u \in Tuners :
          (Holds(q) /\ at[q] = u)' <=> u # t /\ Holds(q) /\ at[q] = u
    BY <1>1
  <2>2. \A u \in Tuners : Use'[u] = IF u = t THEN {} ELSE Use[u]
    BY <2>1 DEF Use
  <2> QED
    BY <2>2, <1>1 DEF Use
<1>5. On' = On
  BY OnSame
<1>6. Served' = Served
  BY ServedSame
<1> QED
  BY <1>1, <1>2, <1>3, <1>4, <1>5, <1>6, FreeIs

LEMMA FreeFollows ==
  ASSUME IInv, NEW r \in Requests, StartFailed(r) \/ Closed(r)
  PROVE  Follows
<1> USE DEF IInv, TypeOK, Goto, FanTo
<1>1. CASE StartFailed(r)
  <2>1. /\ Holds(r) /\ subscribers[r] = {} /\ fan[r] = "none"
    BY <1>1, Clientele DEF StartFailed, Holds
  <2>2. ~Holds(r)' /\ UNCHANGED <<ask, rx, subscribers>>
        /\ \A q \in Requests \ {r} : (Holds(q)' <=> Holds(q)) /\ at'[q] = at[q]
    BY <1>1, <2>1 DEF StartFailed, sessVars, Holds, Live, Closing
  <2> QED
    BY <2>1, <2>2, LetGoFollows
<1>2. CASE Closed(r)
  <2>1. Holds(r) /\ ~Live(r) /\ fan[r] = "drop" /\ pc[r] \in {"keep", "granted", "error"}
    BY <1>2 DEF Closed, Holds, Live, Closing, Placed
  <2>2. subscribers[r] = {}
    BY <2>1, Clientele
  <2>3. ~Holds(r)' /\ UNCHANGED <<ask, rx, subscribers>>
        /\ \A q \in Requests \ {r} : (Holds(q)' <=> Holds(q)) /\ at'[q] = at[q]
    BY <1>2, <2>1 DEF Closed, Woken, Holds, Live, Closing
  <2> QED
    BY <2>1, <2>2, <2>3, LetGoFollows
<1> QED
  BY <1>1, <1>2

\* A request becomes a client of a session on what it asked for.
LEMMA JoinFollows ==
  ASSUME IInv, NEW r \in Requests, NEW s \in Requests, Holds(s), Subscribe(r, s),
         ask[s].params = ask[r].params, pc[r] \notin {"keep", "granted"},
         UNCHANGED <<ask, at>>, \A q \in Requests : Holds(q)' <=> Holds(q)
  PROVE  Follows
<1> USE DEF IInv, TypeOK
<1> DEFINE t == at[s]
<1>1. t \in Tuners /\ ask[r].params \in Params
  BY AsksAssumption DEF Placed, Ask
<1>2. r \notin Served
  BY Clientele
<1>3. \E u \in Use[t] : u[2] = ask[r].params
  <2>1. <<s, ask[s].params>> \in Use[t] /\ <<s, ask[s].params>>[2] = ask[r].params
    BY <1>1 DEF Use
  <2> QED
    BY <2>1
<1>4. Use' = Use
  BY UseSame
<1>5. Served' = Served \cup {r}
  BY DEF Subscribe, Served
<1>6. On' = [On EXCEPT ![t] = @ \cup {<<r, ask[r].params>>}]
  <2>1. \A q \in Requests : subscribers'[q] = IF q = s THEN subscribers[s] \cup {r} ELSE subscribers[q]
    BY DEF Subscribe
  <2>2. \A u \in Tuners :
          On'[u] = IF u = t THEN On[u] \cup {<<r, ask[r].params>>} ELSE On[u]
    BY <2>1 DEF On
  <2> QED
    BY <2>2, <1>1 DEF On
<1> QED
  BY <1>1, <1>2, <1>3, <1>4, <1>5, <1>6, JoinIs

LEMMA ServeFollows ==
  ASSUME IInv, NEW r \in Requests, Share(r) \/ Publish(r)
  PROVE  Follows
<1> USE DEF IInv, TypeOK, Goto
<1>1. CASE Share(r)
  <2>1. /\ UNCHANGED <<ask, at>> /\ \A q \in Requests : Holds(q)' <=> Holds(q)
        /\ pc[r] = "share"
    BY <1>1 DEF Share, Holds, Live, Closing, connVars
  <2>2. PICK s \in Shareable(r) : Subscribe(r, s) \/ UNCHANGED <<subscribers, tokens, rx>>
    BY <1>1 DEF Share
  <2>3. CASE Subscribe(r, s)
    <3>1. s \in Requests /\ Holds(s) /\ ask[s].params = ask[r].params
      BY DEF Shareable, SessionInv, JoinableIsLive, Holds
    <3> QED
      BY <2>1, <2>3, <3>1, JoinFollows
  <2>4. CASE UNCHANGED <<subscribers, rx>>
    BY <2>1, <2>4, UseSame, OnSame, ServedSame, SameIs
  <2> QED
    BY <2>2, <2>3, <2>4
<1>2. CASE Publish(r)
  <2>1. pc[r] = "start" /\ Holds(r) /\ fan[r] = "none"
    BY <1>2, Clientele DEF Publish, Holds
  <2>2. UNCHANGED <<ask, at>> /\ \A q \in Requests : Holds(q)' <=> Holds(q)
    BY <1>2, <2>1 DEF Publish, Holds, Live, Closing, connVars
  <2>3. CASE Subscribe(r, r)
    BY <2>1, <2>2, <2>3, JoinFollows
  <2>4. CASE UNCHANGED <<subscribers, rx>>
    BY <2>2, <2>4, UseSame, OnSame, ServedSame, SameIs
  <2> QED
    BY <1>2, <2>3, <2>4 DEF Publish
<1> QED
  BY <1>1, <1>2

\* Clients of a session leave it.
LEMMA LeaveFollows ==
  ASSUME IInv, NEW s \in Requests, NEW D \in SUBSET subscribers[s],
         subscribers' = [subscribers EXCEPT ![s] = @ \ D],
         UNCHANGED <<ask, at>>,
         \A q \in Requests :
           /\ Holds(q)' <=> Holds(q)
           /\ rx'[q] # "none" <=> rx[q] # "none"
  PROVE  Follows
<1> USE DEF IInv, TypeOK
<1>1. Use' = Use /\ Served' = Served
  BY UseSame, ServedSame
<1>2. CASE D = {}
  <2>1. subscribers' = subscribers
    BY <1>2
  <2> QED
    BY <2>1, <1>1, OnSame, SameIs
<1>3. CASE D # {}
  <2> DEFINE t == at[s]
             S == {<<k, ask[k].params>> : k \in D}
  <2>1. t \in Tuners
    BY <1>3, Clientele
  <2>2. \A q \in Requests : \A k \in subscribers[q] : k \in Requests /\ (k \in D => q = s)
    <3>1. \A k \in D : tokens[k] = s
      BY Clientele
    <3> QED
      BY <3>1, Clientele
  <2>3. \A q \in Requests : subscribers'[q] = subscribers[q] \ D
    BY <2>2
  <2>4. \A u \in Tuners : On'[u] = IF u = t THEN On[u] \ S ELSE On[u]
    <3> TAKE u \in Tuners
    <3>1. On'[u] = {<<k, ask[k].params>> : k \in
                      {j \in Requests : \E q \in Requests : at[q] = u /\ j \in subscribers[q] \ D}}
      BY <2>3 DEF On
    <3>2. CASE u # t
      <4>1. \A q \in Requests : at[q] = u => subscribers[q] \ D = subscribers[q]
        BY <2>2, <3>2
      <4> QED
        BY <3>1, <3>2, <4>1 DEF On
    <3>3. CASE u = t
      BY <3>1, <3>3 DEF On
    <3> QED
      BY <3>2, <3>3
  <2>5. On' = [On EXCEPT ![t] = @ \ S]
    BY <2>1, <2>4 DEF On
  <2>6. S # {} /\ S \subseteq On[t]
    <3>1. \A k \in D : <<k, ask[k].params>> \in S
      OBVIOUS
    <3>2. S \subseteq On[t]
      BY <2>1, <2>2 DEF On
    <3> QED
      BY <3>1, <3>2, <1>3
  <2> QED
    BY <2>1, <2>5, <2>6, <1>1, LeaveIs
<1> QED
  BY <1>2, <1>3

LEMMA GoneFollows ==
  ASSUME IInv, NEW s \in Requests, Release(s) \/ Chunk(s) \/ End(s)
  PROVE  Follows
<1> USE DEF IInv, TypeOK, FanTo
<1>1. CASE Release(s)
  <2>1. /\ UNCHANGED <<ask, at, pc, fan>>
        /\ \A q \in Requests : rx'[q] # "none" <=> rx[q] # "none"
    BY <1>1 DEF Release, DropQueued, reqVars
  <2>2. \A q \in Requests : Holds(q)' <=> Holds(q)
    BY <2>1 DEF Holds, Live, Closing
  <2>3. CASE tokens[s] = None
    <3>1. subscribers' = subscribers
      BY <1>1, <2>3 DEF Release
    <3> QED
      BY <3>1, <2>1, <2>2, UseSame, OnSame, ServedSame, SameIs
  <2>4. CASE tokens[s] # None
    <3> DEFINE q == tokens[s]
               D == {s} \cap subscribers[q]
    <3>1. q \in Requests /\ subscribers' = [subscribers EXCEPT ![q] = @ \ D]
      BY <1>1, <2>4 DEF Release
    <3>2. D \in SUBSET subscribers[q]
      OBVIOUS
    <3> HIDE DEF D
    <3> QED
      BY <3>1, <3>2, <2>1, <2>2, LeaveFollows
  <2> QED
    BY <2>3, <2>4
<1>2. CASE Chunk(s)
  <2> DEFINE D == {k \in subscribers[s] : rx[k] = "dropped"}
  <2>1. UNCHANGED <<ask, at, rx>> /\ \A q \in Requests : Holds(q)' <=> Holds(q)
    BY <1>2 DEF Chunk, reqVars, poolVars, Holds, Live, Closing
  <2>2. D \in SUBSET subscribers[s] /\ subscribers' = [subscribers EXCEPT ![s] = @ \ D]
    BY <1>2 DEF Chunk
  <2> HIDE DEF D
  <2> QED
    BY <2>1, <2>2, LeaveFollows
<1>3. CASE End(s)
  <2> DEFINE D == subscribers[s]
  <2>1. /\ UNCHANGED <<ask, at, pc>>
        /\ \A q \in Requests : rx'[q] # "none" <=> rx[q] # "none"
    BY <1>3 DEF End, DropQueued, reqVars
  <2>2. \A q \in Requests : Holds(q)' <=> Holds(q)
    BY <1>3, <2>1 DEF End, Holds, Live, Closing
  <2>3. subscribers' = [subscribers EXCEPT ![s] = @ \ D]
    BY <1>3 DEF End
  <2> QED
    BY <2>1, <2>2, <2>3, LeaveFollows
<1> QED
  BY <1>1, <1>2, <1>3

-----------------------------------------------------------------------------
(* Tunelithd implements TunerPool                                          *)

LEMMA NextFollows == IInv /\ [Next]_vars => [Pool!Next]_(Pool!vars)
<1> SUFFICES ASSUME IInv, [Next]_vars PROVE Follows
  BY DEF Follows
<1>1. CASE Next
  BY <1>1, Elsewise, ReserveFollows, FreeFollows, ServeFollows, GoneFollows
<1>2. CASE UNCHANGED vars
  <2>1. Use' = Use /\ On' = On /\ Served' = Served
    BY <1>2 DEF vars, reqVars, poolVars, sessVars, connVars, Use, On, Served, Holds, Live, Closing
  <2> QED
    BY <2>1, SameIs
<1> QED
  BY <1>1, <1>2

\* What tunelithd does with its tuners is what TunerPool promises: one set of
\* parameters at a time, streams only of those, and back into the pool only
\* once the last stream has left (main.rs:59-62, 208-233, 385-410).
THEOREM Implements == Spec => Pool!Init /\ [][Pool!Next]_(Pool!vars)
<1>1. Init => IInv
  BY TypeInit, NoneAssumption DEF Init, IInv, Placed, PoolInv, OneHolder, Exact, SessionInv,
     JoinableIsLive, RxInv, Holds, Live, Closing
<1>2. IInv /\ [Next]_vars => IInv'
  BY TypeStep, PlacedStep, PoolStep, SessionStepPreserves, RxStep DEF IInv
<1> QED
  BY <1>1, <1>2, Starts, NextFollows, PTL DEF Spec

=============================================================================
