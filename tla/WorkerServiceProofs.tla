------------------------ MODULE WorkerServiceProofs ------------------------
(***************************************************************************)
(* What the invariants of WorkerLoopProofs give for the service of the     *)
(* loop as a whole: it implements RequestService, a worker that stops is   *)
(* recovered, a request is served by the model it names, and a worker that *)
(* keeps to the protocol is never taken for one that does not.             *)
(***************************************************************************)
EXTENDS WorkerLoopProofs

-----------------------------------------------------------------------------
(***************************************************************************)
(* The refinement of RequestService                                        *)
(***************************************************************************)

\* Where a kill never fails, a worker that is given up is stopped.
KillIsFinal == (status = "Unavailable" \/ at = "launch") => proc = "reaped"

\* Every step that gives the worker up stops it.
LEMMA KillKept == "killFails" \notin Faults /\ KillIsFinal /\ ControlInv /\ Next => KillIsFinal'
<1> SUFFICES ASSUME "killFails" \notin Faults, KillIsFinal, ControlInv, Next PROVE KillIsFinal'
    OBVIOUS
<1> USE ProtocolAssumption, LoopAssumption, TypeParts DEF ControlInv, KillIsFinal, NameTypes, Posture, ReadyIsPublished, PositionIsSound, Starting
<1>1. CASE WorkerAnswers
  BY <1>1 DEF WorkerAnswers, loopVars, healthVars, Becomes
<1>2. CASE WorkerAdvances
  BY <1>2 DEF WorkerAdvances, loopVars, healthVars, Becomes
<1>3. CASE WorkerCrashes
  BY <1>3 DEF WorkerCrashes, loopVars, workerVars, healthVars
<1>4. CASE DrainLimit
  BY <1>4 DEF DrainLimit, loopVars, workerVars, healthVars, Writable, AwaitReply, Contain,
      Stay, Send, ForceTerminate, PublishUnavailable, Settle, Reap
<1>5. CASE DrainClear
  BY <1>5 DEF DrainClear, loopVars, workerVars, healthVars, Writable, AwaitReply, Contain,
      Stay, Send, ForceTerminate, PublishUnavailable, Settle, Reap
<1>6. CASE Observe
  BY <1>6 DEF Observe, loopVars, workerVars, healthVars, Running, Stay
<1>7. CASE ReadEvent
  BY <1>7 DEF ReadEvent, loopVars, workerVars, healthVars, Pumping, ApplyToHealth, Continue,
      Consume, Settle, Stay
<1>8. CASE ReadViolation
  BY <1>8 DEF ReadViolation, loopVars, workerVars, healthVars, Pumping, Trouble, Uncontained,
      Consume, Settle, Contain, ForceTerminate, PublishUnavailable, Reap
<1>9. CASE ReadEnd
  BY <1>9 DEF ReadEnd, loopVars, workerVars, healthVars, Pumping, Trouble, Reap, Uncontained,
      Settle, Contain, ForceTerminate, PublishUnavailable
<1>10. CASE WaitTimesOut
  BY <1>10 DEF WaitTimesOut, loopVars, workerVars, healthVars, Pumping, Contain, Settle,
      ForceTerminate, PublishUnavailable, Reap
<1>11. CASE ReadCleared
  BY <1>11 DEF ReadCleared, loopVars, workerVars, healthVars, Consume, Settle
<1>12. CASE StartupDone
  BY <1>12 DEF StartupDone, loopVars, workerVars, healthVars, Pumping, Stay
<1>13. CASE ChooseModel
  BY <1>13 DEF ChooseModel, loopVars, workerVars, healthVars, Stay, Refuse, Writable,
      AskForModel, Contain, Settle, Send, ForceTerminate, PublishUnavailable, Reap
<1>14. CASE ReadSwapReply
  BY <1>14 DEF ReadSwapReply, loopVars, workerVars, healthVars, Swapping, Settle, Consume
<1>15. CASE ReadSwapFailure
  BY <1>15 DEF ReadSwapFailure, loopVars, workerVars, healthVars, Swapping, PublishUnavailable,
      Consume, Settle, Refuse
<1>16. CASE Dispatch
  BY <1>16 DEF Dispatch, loopVars, workerVars, healthVars, DropDisconnected, RejectStart,
      StartRequest, FailStart, Settle, Refuse, Writable, Send, Stay, Contain, ForceTerminate,
      PublishUnavailable, Reap
<1>17. CASE ReadCancelled
  BY <1>17 DEF ReadCancelled, loopVars, workerVars, healthVars, Consume, Settle, Stay
<1>18. CASE CancelFails
  BY <1>18 DEF CancelFails, loopVars, workerVars, healthVars, Reap, Stay
<1>19. CASE ReplaceUncancelled
  BY <1>19 DEF ReplaceUncancelled, loopVars, workerVars, healthVars, Relaunch, StayDown,
      Launch, PublishUnavailable, Reap, Settle
<1>20. CASE ReadRecovery
  BY <1>20 DEF ReadRecovery, loopVars, workerVars, healthVars, Settle, Consume
<1>21. CASE RecoveryFails
  BY <1>21 DEF RecoveryFails, loopVars, workerVars, healthVars, ForceTerminate, StayDown, Reap,
      PublishUnavailable, Settle
<1>22. CASE CandidateAcknowledged
  BY <1>22 DEF CandidateAcknowledged, loopVars, workerVars, healthVars, Stay
<1>23. CASE CandidateRejected
  BY <1>23 DEF CandidateRejected, loopVars, workerVars, healthVars, Settle
<1>24. CASE CommitCandidate
  BY <1>24 DEF CommitCandidate, loopVars, workerVars, healthVars, Settle
<1>25. CASE StopTrusted
  BY <1>25 DEF StopTrusted, loopVars, workerVars, healthVars, Reap, Stay
<1>26. CASE CloseTrustedFails
  BY <1>26 DEF CloseTrustedFails, loopVars, workerVars, healthVars, Reap, PublishUnavailable,
      Settle
<1>27. CASE LaunchDemoted
  BY <1>27 DEF LaunchDemoted, loopVars, workerVars, healthVars, Launch, Stay,
      PublishUnavailable, Settle
<1>28. CASE ReadHandshake
  BY <1>28 DEF ReadHandshake, loopVars, workerVars, healthVars, Consume
<1>29. CASE HandshakeFails
  BY <1>29 DEF HandshakeFails, loopVars, workerVars, healthVars, Reap, PublishUnavailable,
      Settle
<1>30. CASE ReloadModel
  BY <1>30 DEF ReloadModel, loopVars, workerVars, healthVars, Writable, Send, Settle
<1>31. CASE CancelAbandoned
  BY <1>31 DEF CancelAbandoned, BeginCancel, SendCancel, Send, workerVars, healthVars
<1>32. CASE CancelBackpressured
  BY <1>32 DEF CancelBackpressured, loopVars, workerVars, healthVars, BeginCancel, Writable
<1>33. CASE CancelOverdue
  BY <1>33 DEF CancelOverdue, BeginCancel, SendCancel, Send, workerVars, healthVars
<1>34. CASE RelaunchContained
  BY <1>34 DEF RelaunchContained, loopVars, workerVars, healthVars, Running, Relaunch, Launch,
      PublishUnavailable, Reap, StayDown, Settle
<1>35. CASE LoadDeadlinePasses
  BY <1>35 DEF LoadDeadlinePasses, loopVars, workerVars, healthVars, Running, Contain,
      ForceTerminate, PublishUnavailable, Settle, Reap
<1>36. CASE IdleTick
  BY <1>36 DEF IdleTick, loopVars, workerVars, healthVars, Running, Settle
<1>37. CASE UpdateLimit
  BY <1>37 DEF UpdateLimit, loopVars, workerVars, healthVars, Settle, Writable, AwaitReply, Send
<1>38. CASE ClearPromptCache
  BY <1>38 DEF ClearPromptCache, loopVars, workerVars, healthVars, Settle, Writable,
      AwaitReply, Contain, Send, ForceTerminate, PublishUnavailable, Reap
<1>39. CASE RestartWorker
  BY <1>39 DEF RestartWorker, loopVars, workerVars, healthVars, ReplacementAllowed, Stay, Settle
<1>40. CASE DemoteWorker
  BY <1>40 DEF DemoteWorker, loopVars, workerVars, healthVars, ReplacementAllowed,
      PublishUnavailable, Settle
<1>41. CASE Shutdown
  BY <1>41 DEF Shutdown, loopVars, workerVars, healthVars, PublishUnavailable, ForceTerminate,
      Settle, Reap
<1>42. ASSUME NEW r \in Requests, Submit(r) PROVE KillIsFinal'
  BY <1>42 DEF Submit, loopVars, workerVars, healthVars
<1>43. ASSUME NEW r \in Requests, SendRequest(r) PROVE KillIsFinal'
  BY <1>43 DEF SendRequest, loopVars, workerVars, healthVars
<1>44. ASSUME NEW r \in Requests, HangUp(r) PROVE KillIsFinal'
  BY <1>44 DEF HangUp, loopVars, workerVars, healthVars
<1>45. ASSUME NEW r \in Requests, TakeRequest(r) PROVE KillIsFinal'
  BY <1>45 DEF TakeRequest, loopVars, workerVars, healthVars, Running, Settle
<1> QED
  BY <1>1, <1>2, <1>3, <1>4, <1>5, <1>6, <1>7, <1>8, <1>9, <1>10, <1>11, <1>12, <1>13, <1>14,
      <1>15, <1>16, <1>17, <1>18, <1>19, <1>20, <1>21, <1>22, <1>23, <1>24, <1>25, <1>26,
      <1>27, <1>28, <1>29, <1>30, <1>31, <1>32, <1>33, <1>34, <1>35, <1>36, <1>37, <1>38,
      <1>39, <1>40, <1>41, <1>42, <1>43, <1>44, <1>45
      DEF Next, Worker, Steps, Arms, Client

\* The worker only works on a request that holds the permit.
WorkIsHeld == serving # None => serving \in Requests /\ Holding(serving)

\* A trusted worker without a request is clean, any other one works on the active
\* or on the cancelled request.
LEMMA WorkHeld == ControlInv /\ PipeInv /\ KillIsFinal => WorkIsHeld
<1> SUFFICES ASSUME ControlInv, PipeInv, KillIsFinal, serving # None PROVE serving \in Requests /\ Holding(serving)
    BY DEF WorkIsHeld
<1>1. proc = "up" /\ serving \in Requests /\ status # "Unavailable"
  BY TypeParts DEF ControlInv, DeadIsSilent, KillIsFinal, WorkerTypes
<1>2. CASE active # None
  <2>1. serving = active
    BY <1>1, <1>2 DEF PipeInv, ServedIsTracked, ServesOnly
  <2> QED
    BY <1>1, <1>2, <2>1 DEF ControlInv, Posture, ActiveIsTracked, Holding
<1>3. CASE at \in {"cancel", "replace"}
  <2>1. serving = cur
    BY <1>1, <1>3 DEF PipeInv, ServedIsTracked, ServesOnly
  <2> QED
    BY <1>1, <1>3, <2>1 DEF ControlInv, Posture, PositionIsSound, Holding
<1> QED
  BY <1>1, <1>2, <1>3 DEF PipeInv, TrustedIsClean, Clean

\* What a step does to the requests, as RequestService sees it.
SamePhases == \A r \in Requests : Phase(rq'[r]) = Phase(rq[r])

Unheard == SamePhases /\ answers' = answers

Concluded(r) ==
    /\ Holding(r)
    /\ rq' = [rq EXCEPT ![r] = "done"]
    /\ answers' = answers \/ (answers[r] = 0 /\ answers' = [answers EXCEPT ![r] = 1])

Told(r) ==
    /\ Holding(r) /\ SamePhases /\ UNCHANGED serving
    /\ answers[r] = 0 /\ answers' = [answers EXCEPT ![r] = 1]

Queued(r) ==
    /\ UNCHANGED <<answers, serving>>
    /\ \/ rq[r] = "new" /\ rq' = [rq EXCEPT ![r] = "queued"]
       \/ rq[r] = "queued" /\ rq' = [rq EXCEPT ![r] = "done"]
       \/ rq[r] = "queued" /\ (\A q \in Requests : ~Holding(q)) /\ rq' = [rq EXCEPT ![r] = "sent"]

ServiceMove == Unheard \/ \E r \in Requests : Concluded(r) \/ Told(r) \/ Queued(r)

\* The phases of RequestService.
LEMMA Phases ==
    ASSUME NEW s \in RequestStates
    PROVE  /\ Phase(s) = "held" <=> s \in {"sent", "starting", "active", "cancelling"}
           /\ Phase(s) = "over" <=> s = "done"
           /\ Phase(s) = "waiting" <=> s = "queued"
           /\ Phase(s) = "new" <=> s = "new"
BY DEF Phase, RequestStates

\* Such a step is one of RequestService, or a stutter.
LEMMA ServiceStep ==
    ASSUME ControlInv, WorkIsHeld, ControlInv', WorkIsHeld', ServiceMove
    PROVE  [Service!Next]_(Service!vars)
<1> DEFINE ph == [r \in Requests |-> Phase(rq[r])]
           phn == [r \in Requests |-> Phase(rq'[r])]
<1>1. /\ rq \in [Requests -> RequestStates] /\ rq' \in [Requests -> RequestStates]
      /\ answers \in [Requests -> Nat] /\ answers' \in [Requests -> Nat]
      /\ \A q, r \in Requests : Holding(q) /\ Holding(r) => q = r
      /\ \A q, r \in Requests : Holding(q)' /\ Holding(r)' => q = r
  <2>1. ClientTypes /\ ClientTypes'
    BY DEF ControlInv, TypeOK, ClientTypes
  <2>2. PermitIsAlone /\ PermitIsAlone'
    BY DEF ControlInv, Ledger
  <2> QED
    BY <2>1, <2>2 DEF ClientTypes, PermitIsAlone
<1>2. /\ \A r \in Requests : Holding(r) <=> ph[r] = "held"
      /\ \A r \in Requests : Holding(r)' <=> phn[r] = "held"
  BY <1>1, Phases DEF Holding
<1>3. CASE Unheard
  <2>1. phn = ph
    BY <1>3 DEF Unheard, SamePhases
  <2>2. CASE serving' = serving
    BY <1>3, <2>1, <2>2 DEF Unheard, Service!vars
  <2>3. CASE serving' = None
    BY <1>3, <2>1, <2>3 DEF Unheard, Service!Next, Service!Stop
  <2>4. CASE serving' # None /\ serving' # serving
    <3>1. serving' \in Requests /\ rq'[serving'] \in {"sent", "starting", "active", "cancelling"}
      BY <2>4 DEF WorkIsHeld, Holding
    <3>2. PICK r \in Requests : r = serving'
      BY <3>1
    <3>3. phn[r] = "held" /\ ph[r] = "held"
      BY <1>2, <2>1, <3>1, <3>2 DEF Holding
    <3>4. serving = None
      BY <1>1, <1>2, <2>4, <3>2, <3>3 DEF WorkIsHeld
    <3>5. Service!Start(r)
      BY <1>3, <2>1, <3>2, <3>3, <3>4 DEF Unheard, Service!Start
    <3> QED
      BY <3>5 DEF Service!Next
  <2> QED
    BY <2>2, <2>3, <2>4
<1>4. ASSUME NEW r \in Requests, Concluded(r) PROVE Service!Conclude(r)
  <2>1. ph[r] = "held"
    BY <1>2, <1>4 DEF Concluded
  <2>2. phn = [ph EXCEPT ![r] = "over"]
    BY <1>1, <1>4, Phases DEF Concluded, RequestStates
  <2>3. serving' = None
    <3>1. \A q \in Requests : phn[q] # "held"
      BY <1>1, <1>2, <1>4, <2>2 DEF Concluded
    <3> QED
      BY <1>2, <3>1 DEF WorkIsHeld, Holding
  <2> QED
    BY <1>4, <2>1, <2>2, <2>3 DEF Concluded, Service!Conclude, Service!Hears
<1>5. ASSUME NEW r \in Requests, Told(r) PROVE Service!Tell(r)
  <2>1. phn = ph /\ ph[r] = "held"
    BY <1>2, <1>5 DEF Told, SamePhases
  <2> QED
    BY <1>5, <2>1 DEF Told, Service!Tell, Service!Hears
<1>6. ASSUME NEW r \in Requests, Queued(r) PROVE Service!Next
  <2>1. CASE rq[r] = "new" /\ rq' = [rq EXCEPT ![r] = "queued"]
    <3>1. ph[r] = "new" /\ phn = [ph EXCEPT ![r] = "waiting"]
      BY <1>1, <2>1, Phases DEF RequestStates
    <3>2. Service!Submit(r)
      BY <1>6, <3>1 DEF Queued, Service!Submit
    <3> QED
      BY <3>2 DEF Service!Next
  <2>2. CASE rq[r] = "queued" /\ rq' = [rq EXCEPT ![r] = "done"]
    <3>1. ph[r] = "waiting" /\ phn = [ph EXCEPT ![r] = "over"]
      BY <1>1, <2>2, Phases DEF RequestStates
    <3>2. Service!Leave(r)
      BY <1>6, <3>1 DEF Queued, Service!Leave
    <3> QED
      BY <3>2 DEF Service!Next
  <2>3. CASE rq[r] = "queued" /\ (\A q \in Requests : ~Holding(q)) /\ rq' = [rq EXCEPT ![r] = "sent"]
    <3>1. /\ ph[r] = "waiting" /\ phn = [ph EXCEPT ![r] = "held"]
          /\ \A q \in Requests : ph[q] # "held"
      BY <1>1, <1>2, <2>3, Phases DEF RequestStates
    <3>2. Service!Grant(r)
      BY <1>6, <3>1 DEF Queued, Service!Grant
    <3> QED
      BY <3>2 DEF Service!Next
  <2> QED
    BY <1>6, <2>1, <2>2, <2>3 DEF Queued
<1> QED
  BY <1>3, <1>4, <1>5, <1>6 DEF ServiceMove, Service!Next
\* No client hears anything, and no permit comes back.
LEMMA StillMove ==
    /\ UNCHANGED clientVars => ServiceMove
    /\ UNCHANGED <<rq, answers>> => ServiceMove
BY DEF clientVars, SamePhases, Unheard, ServiceMove

\* A request that holds the permit goes on to hold it.
LEMMA RenamedMove ==
    ASSUME ControlInv, NEW r \in Requests, Holding(r), NEW s \in {"starting", "active", "cancelling"},
           rq' = [rq EXCEPT ![r] = s]
    PROVE  SamePhases
<1>1. rq \in [Requests -> RequestStates] /\ s \in RequestStates
  BY TypeParts DEF ControlInv, ClientTypes, RequestStates
<1>2. Phase(s) = "held" /\ Phase(rq[r]) = "held"
  BY <1>1, Phases DEF Holding
<1> QED
  BY <1>1, <1>2 DEF SamePhases

\* Nothing is released.
LEMMA ReleaseNone == ASSUME ControlInv, Release({}, {}) PROVE ServiceMove
<1>1. rq \in [Requests -> RequestStates] /\ answers \in [Requests -> Nat]
  BY TypeParts DEF ControlInv, ClientTypes
<1>2. rq' = rq /\ answers' = answers
  BY <1>1 DEF Release
<1> QED
  BY <1>2, StillMove

\* One request is released, and told or not.
LEMMA ReleaseMove ==
    ASSUME ControlInv, NEW r \in Requests, Holding(r), NEW T, T = {} \/ (T = {r} /\ rq[r] # "cancelling"),
           Release({r}, T)
    PROVE  ServiceMove
<1>1. rq \in [Requests -> RequestStates] /\ answers \in [Requests -> Nat]
  BY TypeParts DEF ControlInv, ClientTypes
<1>2. rq' = [rq EXCEPT ![r] = "done"]
  BY <1>1 DEF Release
<1>3. CASE T = {}
  <2>1. answers' = answers
    BY <1>1, <1>3 DEF Release
  <2> QED
    BY <1>2, <2>1 DEF Concluded, ServiceMove
<1>4. CASE T = {r} /\ rq[r] # "cancelling"
  <2>1. answers[r] = 0
    BY <1>1, <1>4 DEF ControlInv, Ledger, AnswersAreCounted, Holding
  <2>2. answers' = [q \in Requests |-> IF q = r THEN 1 ELSE answers[q]]
    <3>1. answers' = [q \in Requests |-> IF q \in {r} THEN answers[q] + 1 ELSE answers[q]]
      BY <1>4 DEF Release
    <3> QED
      BY <2>1, <3>1
  <2>3. answers' = [answers EXCEPT ![r] = 1]
    BY <1>1, <2>2
  <2> QED
    BY <1>2, <2>1, <2>3 DEF Concluded, ServiceMove
<1> QED
  BY <1>3, <1>4

\* A containment releases the active request, if there is one.
LEMMA ContainMove == ASSUME ControlInv, NEW p, Contain(p, {}, {}) PROVE ServiceMove
<1>1. CASE active = None
  <2>1. Release({}, {})
    BY <1>1 DEF Contain
  <2> QED
    BY <2>1, ReleaseNone
<1>2. CASE active # None
  <2>1. active \in Requests /\ rq[active] = "active"
    BY <1>2, Holds DEF ControlInv, Posture, ActiveIsTracked
  <2>2. {} \cup ({active} \ {None}) = {active} /\ {active} \cup {} = {active}
    BY <1>2
  <2>3. Release({active}, {active})
    BY <2>2 DEF Contain
  <2> QED
    BY <2>1, <2>3, ReleaseMove DEF Holding
<1> QED
  BY <1>1, <1>2

\* A request that is being started is refused, dropped or failed.
LEMMA StartingMove ==
    ASSUME ControlInv, Starting,
           \/ Release({cur}, {cur}) \/ Release({cur}, {})
           \/ Contain("top", {cur}, {}) \/ Contain("top", {}, {cur})
    PROVE  ServiceMove
<1>1. cur \in Requests /\ rq[cur] = "starting" /\ active = None
  BY Holds DEF ControlInv, Posture, PositionIsSound, Starting, ActivePositions
<1>2. /\ Contain("top", {cur}, {}) => Release({cur}, {cur})
      /\ Contain("top", {}, {cur}) => Release({cur}, {})
  <2>1. /\ {cur} \cup ({active} \ {None}) = {cur} /\ {cur} \cup {} = {cur}
        /\ {} \cup ({active} \ {None}) = {} /\ {} \cup {cur} = {cur}
    BY <1>1
  <2> QED
    BY <2>1 DEF Contain
<1> QED
  BY <1>1, <1>2, ReleaseMove DEF Holding

\* The end of a cancellation, or of a recovery from one.
LEMMA CancelledMove ==
    ASSUME ControlInv, at \in {"cancel", "replace", "recover", "select"},
           (Release({cur}, {}) /\ at = "cancel") \/ Release({cur} \ {None}, {})
    PROVE  ServiceMove
<1>1. CASE cur = None
  <2>1. at # "cancel" /\ {cur} \ {None} = {}
    BY <1>1, Holds, ProtocolAssumption
  <2> QED
    BY <2>1, ReleaseNone
<1>2. CASE cur # None
  <2>1. cur \in Requests /\ rq[cur] = "cancelling"
    BY <1>2, TypeParts DEF ControlInv, Posture, PositionIsSound, NameTypes
  <2>2. {cur} \ {None} = {cur}
    BY <1>2
  <2>3. Release({cur}, {})
    BY <2>2
  <2> QED
    BY <2>1, <2>3, ReleaseMove DEF Holding
<1> QED
  BY <1>1, <1>2

\* An error in a wait.
LEMMA TroubleMove == ASSUME ControlInv, Trouble PROVE ServiceMove
<1>1. CASE Uncontained
  BY <1>1, StillMove DEF Trouble, Uncontained
<1>2. CASE ~Uncontained /\ at \in {"startup", "swap"}
  BY <1>2, StartingMove DEF Trouble, Starting
<1>3. CASE ~Uncontained /\ at \notin {"startup", "swap"}
  BY <1>3, ContainMove DEF Trouble
<1> QED
  BY <1>1, <1>2, <1>3

\* Every step of the loop is one of those RequestService knows.
LEMMA ServiceMoves == ControlInv /\ Next => ServiceMove
<1> SUFFICES ASSUME ControlInv, Next PROVE ServiceMove
    OBVIOUS
<1>1. CASE WorkerAnswers
  BY <1>1, StillMove DEF WorkerAnswers
<1>2. CASE WorkerAdvances
  BY <1>2, StillMove DEF WorkerAdvances
<1>3. CASE WorkerCrashes
  BY <1>3, StillMove DEF WorkerCrashes
<1>4. CASE DrainLimit
  BY <1>4, StillMove, ContainMove DEF DrainLimit, AwaitReply
<1>5. CASE DrainClear
  BY <1>5, StillMove, ContainMove DEF DrainClear, AwaitReply
<1>6. CASE Observe
  BY <1>6, StillMove DEF Observe
<1>7. CASE ReadEvent
  <2>1. PICK e : e = Head(events)
    OBVIOUS
  <2>2. e \in Events /\ ~Violates(e) /\ ApplyToRequest(e)
    BY <1>7, <2>1, Holds, FirstMessage DEF ReadEvent
  <2>3. CASE EndsRequest(e)
    <3>1. active \in Requests /\ rq[active] = "active"
      BY <2>2, <2>3, EventForms, ProtocolAssumption DEF Violates, ControlInv, Posture, ActiveIsTracked
    <3>2. (IF EndsRequest(e) THEN {active} ELSE {}) = {active}
      BY <2>3
    <3>3. Release({active}, {active})
      BY <2>2, <3>2 DEF ApplyToRequest
    <3> QED
      BY <3>1, <3>3, ReleaseMove DEF Holding
  <2>4. CASE ~EndsRequest(e)
    BY <2>2, <2>4, ReleaseNone DEF ApplyToRequest
  <2> QED
    BY <2>3, <2>4
<1>8. CASE ReadViolation
  BY <1>8, TroubleMove DEF ReadViolation
<1>9. CASE ReadEnd
  BY <1>9, TroubleMove DEF ReadEnd
<1>10. CASE WaitTimesOut
  <2>1. CASE at = "startup"
    BY <1>10, <2>1, StartingMove DEF WaitTimesOut, Starting
  <2>2. CASE at = "swap"
    BY <1>10, <2>2, StartingMove DEF WaitTimesOut, Starting
  <2>3. CASE at = "restore"
    BY <1>10, <2>3, StillMove DEF WaitTimesOut
  <2>4. CASE at \in {"limit", "clear"}
    BY <1>10, <2>4, ContainMove DEF WaitTimesOut
  <2> QED
    BY <1>10, <2>1, <2>2, <2>3, <2>4 DEF WaitTimesOut
<1>11. CASE ReadCleared
  BY <1>11, StillMove DEF ReadCleared
<1>12. CASE StartupDone
  BY <1>12, StillMove DEF StartupDone
<1>13. CASE ChooseModel
  <2>1. CASE Refuse
    BY <1>13, <2>1, StartingMove DEF ChooseModel, Refuse, Starting
  <2>2. CASE Contain("top", {cur}, {})
    BY <1>13, <2>2, StartingMove DEF ChooseModel, Starting
  <2> QED
    BY <1>13, <2>1, <2>2, StillMove DEF ChooseModel, AskForModel
<1>14. CASE ReadSwapReply
  BY <1>14, StillMove DEF ReadSwapReply
<1>15. CASE ReadSwapFailure
  <2>1. CASE at = "restore"
    BY <1>15, <2>1, StillMove DEF ReadSwapFailure
  <2>2. CASE at = "swap"
    BY <1>15, <2>2, StartingMove DEF ReadSwapFailure, Refuse, Starting
  <2> QED
    BY <1>15, <2>1, <2>2 DEF ReadSwapFailure, Swapping
<1>16. CASE Dispatch
  <2>1. CASE DropDisconnected
    BY <1>16, <2>1, StartingMove DEF Dispatch, DropDisconnected, Starting
  <2>2. CASE RejectStart
    BY <1>16, <2>2, StartingMove DEF Dispatch, RejectStart, Refuse, Starting
  <2>3. CASE StartRequest
    <3>1. cur \in Requests /\ rq[cur] = "starting"
      BY <1>16 DEF Dispatch, ControlInv, Posture, PositionIsSound, Starting
    <3>2. rq' = [rq EXCEPT ![cur] = "active"] /\ answers' = answers
      BY <2>3 DEF StartRequest
    <3> QED
      BY <3>1, <3>2, RenamedMove DEF Holding, Unheard, ServiceMove
  <2>4. CASE FailStart
    BY <1>16, <2>4, StartingMove DEF Dispatch, FailStart, Starting
  <2> QED
    BY <1>16, <2>1, <2>2, <2>3, <2>4 DEF Dispatch
<1>17. CASE ReadCancelled
  <2>1. CASE Release({cur}, {})
    BY <1>17, <2>1, CancelledMove DEF ReadCancelled
  <2> QED
    BY <1>17, <2>1, StillMove DEF ReadCancelled
<1>18. CASE CancelFails
  BY <1>18, StillMove DEF CancelFails
<1>19. CASE ReplaceUncancelled
  <2>1. CASE Release({cur} \ {None}, {})
    BY <1>19, <2>1, CancelledMove DEF ReplaceUncancelled
  <2> QED
    BY <1>19, <2>1, StillMove DEF ReplaceUncancelled, Relaunch, StayDown
<1>20. CASE ReadRecovery
  <2>1. CASE Release({cur} \ {None}, {})
    BY <1>20, <2>1, CancelledMove DEF ReadRecovery
  <2> QED
    BY <1>20, <2>1, StillMove DEF ReadRecovery
<1>21. CASE RecoveryFails
  BY <1>21, CancelledMove DEF RecoveryFails, StayDown
<1>22. CASE CandidateAcknowledged
  BY <1>22, StillMove DEF CandidateAcknowledged
<1>23. CASE CandidateRejected
  BY <1>23, StillMove DEF CandidateRejected
<1>24. CASE CommitCandidate
  BY <1>24, StillMove DEF CommitCandidate
<1>25. CASE StopTrusted
  BY <1>25, StillMove DEF StopTrusted
<1>26. CASE CloseTrustedFails
  BY <1>26, StillMove DEF CloseTrustedFails
<1>27. CASE LaunchDemoted
  BY <1>27, StillMove DEF LaunchDemoted
<1>28. CASE ReadHandshake
  BY <1>28, StillMove DEF ReadHandshake
<1>29. CASE HandshakeFails
  BY <1>29, StillMove DEF HandshakeFails
<1>30. CASE ReloadModel
  BY <1>30, StillMove DEF ReloadModel
<1>31. CASE CancelAbandoned
  <2>1. active \in Requests /\ rq[active] = "active"
    BY <1>31, Holds, TypeParts, ProtocolAssumption DEF CancelAbandoned, ControlInv, ClientTypes, Posture, ActiveIsTracked
  <2>2. SamePhases
    BY <1>31, <2>1, RenamedMove DEF CancelAbandoned, BeginCancel, Holding
  <2> QED
    BY <1>31, <2>2 DEF CancelAbandoned, Unheard, ServiceMove
<1>32. CASE CancelBackpressured
  <2>1. active \in Requests /\ rq[active] = "active"
    BY <1>32, Holds, TypeParts, ProtocolAssumption DEF CancelBackpressured, ControlInv, ClientTypes, Posture, ActiveIsTracked
  <2>2. SamePhases
    BY <1>32, <2>1, RenamedMove DEF CancelBackpressured, BeginCancel, Holding
  <2> QED
    BY <1>32, <2>2 DEF CancelBackpressured, Unheard, ServiceMove
<1>33. CASE CancelOverdue
  <2>1. active \in Requests /\ rq[active] = "active"
    BY <1>33, Holds, TypeParts, ProtocolAssumption DEF CancelOverdue, ControlInv, ClientTypes, Posture, ActiveIsTracked
  <2>2. SamePhases
    BY <1>33, <2>1, RenamedMove DEF CancelOverdue, BeginCancel, Holding
  <2>3. answers \in [Requests -> Nat] /\ answers[active] = 0
    BY <2>1, TypeParts DEF ControlInv, ClientTypes, Ledger, AnswersAreCounted
  <2>4. UNCHANGED serving
    BY <1>33 DEF CancelOverdue, SendCancel, Send, workerVars
  <2>5. CASE Kind[active] = "image"
    <3>1. answers' = [answers EXCEPT ![active] = 1]
      BY <1>33, <2>3, <2>5 DEF CancelOverdue
    <3> QED
      BY <2>1, <2>2, <2>3, <2>4, <3>1 DEF Told, Holding, ServiceMove
  <2>6. CASE Kind[active] # "image"
    <3>1. answers' = answers
      BY <1>33, <2>3, <2>6 DEF CancelOverdue
    <3> QED
      BY <2>2, <3>1 DEF Unheard, ServiceMove
  <2> QED
    BY <2>5, <2>6
<1>34. CASE RelaunchContained
  <2>1. CASE Release({cur} \ {None}, {})
    BY <1>34, <2>1, CancelledMove DEF RelaunchContained
  <2> QED
    BY <1>34, <2>1, StillMove DEF RelaunchContained, Relaunch, StayDown
<1>35. CASE LoadDeadlinePasses
  BY <1>35, ContainMove DEF LoadDeadlinePasses
<1>36. CASE IdleTick
  BY <1>36, StillMove DEF IdleTick
<1>37. CASE UpdateLimit
  BY <1>37, StillMove, ContainMove DEF UpdateLimit, AwaitReply
<1>38. CASE ClearPromptCache
  BY <1>38, StillMove, ContainMove DEF ClearPromptCache, AwaitReply
<1>39. CASE RestartWorker
  BY <1>39, StillMove DEF RestartWorker
<1>40. CASE DemoteWorker
  BY <1>40, StillMove DEF DemoteWorker
<1>41. CASE Shutdown
  <2> DEFINE over == {r \in Requests : rq[r] = "sent"} \cup ({active} \ {None})
             told == {active} \ {None}
  <2>1. Release(over, told) /\ told \subseteq over
    BY <1>41 DEF Shutdown
  <2>2. over \subseteq Requests /\ \A r \in over : Holding(r)
    BY Holds DEF ControlInv, Posture, ActiveIsTracked, Holding
  <2>3. \A r \in told : rq[r] # "cancelling"
    BY DEF ControlInv, Posture, ActiveIsTracked
  <2>4. CASE over = {}
    BY <2>1, <2>4, ReleaseNone
  <2>5. CASE over # {}
    <3>1. PICK r \in over : TRUE
      BY <2>5
    <3>2. over = {r}
      BY <2>2, <3>1 DEF ControlInv, Ledger, PermitIsAlone
    <3>3. told = {} \/ told = {r}
      BY <2>1, <3>2
    <3> HIDE DEF over, told
    <3> QED
      BY <2>1, <2>2, <2>3, <3>1, <3>2, <3>3, ReleaseMove
  <2> QED
    BY <2>4, <2>5
<1>42. ASSUME NEW r \in Requests, Submit(r) PROVE ServiceMove
  BY <1>42 DEF Submit, Queued, ServiceMove, workerVars
<1>43. ASSUME NEW r \in Requests, SendRequest(r) PROVE ServiceMove
  BY <1>43 DEF SendRequest, Queued, ServiceMove, workerVars
<1>44. ASSUME NEW r \in Requests, HangUp(r) PROVE ServiceMove
  <2>1. CASE rq[r] = "queued"
    <3>1. rq' = [rq EXCEPT ![r] = "done"] /\ UNCHANGED <<answers, serving>>
      BY <1>44, <2>1 DEF HangUp, workerVars
    <3> QED
      BY <2>1, <3>1 DEF Queued, ServiceMove
  <2>2. CASE rq[r] # "queued"
    <3>1. rq' = [rq EXCEPT ![r] = rq[r]] /\ answers' = answers
      BY <1>44, <2>2 DEF HangUp
    <3>2. rq' = rq
      BY <3>1, TypeParts DEF ControlInv, ClientTypes
    <3> QED
      BY <3>1, <3>2, StillMove
  <2> QED
    BY <2>1, <2>2
<1>45. ASSUME NEW r \in Requests, TakeRequest(r) PROVE ServiceMove
  <2>1. CASE rq' = [rq EXCEPT ![r] = "starting"] /\ answers' = answers
    BY <1>45, <2>1, RenamedMove DEF TakeRequest, Holding, Unheard, ServiceMove
  <2>2. CASE Release({r}, {r})
    BY <1>45, <2>2, ReleaseMove DEF TakeRequest, Holding
  <2> QED
    BY <1>45, <2>1, <2>2 DEF TakeRequest
<1> QED
  BY <1>1, <1>2, <1>3, <1>4, <1>5, <1>6, <1>7, <1>8, <1>9, <1>10, <1>11, <1>12, <1>13, <1>14,
      <1>15, <1>16, <1>17, <1>18, <1>19, <1>20, <1>21, <1>22, <1>23, <1>24, <1>25, <1>26,
      <1>27, <1>28, <1>29, <1>30, <1>31, <1>32, <1>33, <1>34, <1>35, <1>36, <1>37, <1>38,
      <1>39, <1>40, <1>41, <1>42, <1>43, <1>44, <1>45
      DEF Next, Worker, Steps, Arms, Client

(***************************************************************************)
(* Where a kill never fails, the loop implements RequestService as far as  *)
(* safety goes, whatever else the worker, its launch and the clients do:   *)
(* its initial states are initial states of RequestService, and each of    *)
(* its steps is a step of RequestService or a stutter.                     *)
(***************************************************************************)
THEOREM LoopServesRequests ==
    ASSUME "killFails" \notin Faults
    PROVE  Spec => Service!Init /\ [][Service!Next]_(Service!vars)
<1>1. Init => Service!Init /\ KillIsFinal
  BY DEF Init, Service!Init, Phase, KillIsFinal
<1>2. ControlInv /\ PipeInv /\ KillIsFinal /\ [Next]_vars => KillIsFinal'
  <2> SUFFICES ASSUME ControlInv, KillIsFinal, UNCHANGED vars PROVE KillIsFinal'
    BY KillKept
  <2> QED
    BY DEF KillIsFinal, vars, workerVars, loopVars, healthVars
<1>3. ControlInv /\ WorkIsHeld /\ ControlInv' /\ WorkIsHeld' /\ [Next]_vars => [Service!Next]_(Service!vars)
  <2> SUFFICES ASSUME ControlInv, WorkIsHeld, ControlInv', WorkIsHeld', [Next]_vars
               PROVE  [Service!Next]_(Service!vars)
    OBVIOUS
  <2>1. CASE UNCHANGED vars
    BY <2>1, StillMove, ServiceStep DEF vars
  <2> QED
    BY <2>1, ServiceMoves, ServiceStep
<1>4. ControlInv /\ PipeInv /\ KillIsFinal => WorkIsHeld
  BY WorkHeld
<1> QED
  BY <1>1, <1>2, <1>3, <1>4, LoopInductive, PTL DEF Spec
-----------------------------------------------------------------------------
(***************************************************************************)
(* A stopped worker is recovered                                           *)
(***************************************************************************)

\* Without a ceiling update and a demotion the loop never takes the positions
\* of either, at work its worker has not been reaped, and between two waits a
\* worker that is not on its way up is published as unavailable.
NoDetour ==
    ~pendingLimit /\ at \notin {"limit", "stop", "launch", "handshake", "reload", "restore"}

AtWork ==
    at \in {"startup", "choose", "swap", "dispatch", "candidate", "commit", "abandon"} => Running

Recovers ==
    at \notin {"cancel", "replace", "recover", "exited"} =>
        \/ Running /\ (isReady \/ loadDeadline)
        \/ /\ ~isReady /\ status = "Unavailable"
           /\ Running => "killFails" \in Faults

StoppedInv == NoDetour /\ AtWork /\ Recovers

\* Whoever stops the worker publishes that it is stopped.
LEMMA StoppedKept ==
    Controls \cap {"limit", "demote"} = {} /\ ControlInv /\ StoppedInv /\ Next => StoppedInv'
<1> SUFFICES ASSUME "limit" \notin Controls, "demote" \notin Controls, ControlInv, StoppedInv, Next PROVE StoppedInv'
    OBVIOUS
<1> USE ProtocolAssumption, LoopAssumption, TypeParts DEF ControlInv, StoppedInv, NoDetour, AtWork, Recovers, Running, DeadIsSilent, NameTypes, Posture, ReadyIsPublished, PositionIsSound, Starting
<1>1. CASE WorkerAnswers
  BY <1>1 DEF WorkerAnswers, loopVars, healthVars, pendingVars, activeVars, Becomes
<1>2. CASE WorkerAdvances
  BY <1>2 DEF WorkerAdvances, loopVars, healthVars, pendingVars, activeVars, Becomes
<1>3. CASE WorkerCrashes
  BY <1>3 DEF WorkerCrashes, loopVars, workerVars, healthVars, pendingVars, activeVars
<1>4. CASE DrainLimit
  BY <1>4 DEF DrainLimit, loopVars, workerVars, healthVars, pendingVars, activeVars, Writable,
      AwaitReply, Contain, Stay, Send, ForceTerminate, PublishUnavailable, Settle, Reap
<1>5. CASE DrainClear
  BY <1>5 DEF DrainClear, loopVars, workerVars, healthVars, pendingVars, activeVars, Writable,
      AwaitReply, Contain, Stay, Send, ForceTerminate, PublishUnavailable, Settle, Reap
<1>6. CASE Observe
  BY <1>6 DEF Observe, loopVars, workerVars, healthVars, pendingVars, activeVars, Running, Stay
<1>7. CASE ReadEvent
  BY <1>7 DEF ReadEvent, loopVars, workerVars, healthVars, pendingVars, activeVars, Pumping,
      ApplyToHealth, Continue, Consume, Settle, Stay
<1>8. CASE ReadViolation
  BY <1>8 DEF ReadViolation, loopVars, workerVars, healthVars, pendingVars, activeVars,
      Pumping, Trouble, Uncontained, Consume, Settle, Contain, ForceTerminate,
      PublishUnavailable, Reap
<1>9. CASE ReadEnd
  BY <1>9 DEF ReadEnd, loopVars, workerVars, healthVars, pendingVars, activeVars, Pumping,
      Trouble, Reap, Uncontained, Settle, Contain, ForceTerminate, PublishUnavailable
<1>10. CASE WaitTimesOut
  BY <1>10 DEF WaitTimesOut, loopVars, workerVars, healthVars, pendingVars, activeVars,
      Pumping, Contain, Settle, ForceTerminate, PublishUnavailable, Reap
<1>11. CASE ReadCleared
  BY <1>11 DEF ReadCleared, loopVars, workerVars, healthVars, pendingVars, activeVars, Consume,
      Settle
<1>12. CASE StartupDone
  BY <1>12 DEF StartupDone, loopVars, workerVars, healthVars, pendingVars, activeVars, Pumping,
      Stay
<1>13. CASE ChooseModel
  BY <1>13 DEF ChooseModel, loopVars, workerVars, healthVars, pendingVars, activeVars, Stay,
      Refuse, Writable, AskForModel, Contain, Settle, Send, ForceTerminate, PublishUnavailable,
      Reap
<1>14. CASE ReadSwapReply
  BY <1>14 DEF ReadSwapReply, loopVars, workerVars, healthVars, pendingVars, activeVars,
      Swapping, Settle, Consume
<1>15. CASE ReadSwapFailure
  BY <1>15 DEF ReadSwapFailure, loopVars, workerVars, healthVars, pendingVars, activeVars,
      Swapping, PublishUnavailable, Consume, Settle, Refuse
<1>16. CASE Dispatch
  BY <1>16 DEF Dispatch, loopVars, workerVars, healthVars, pendingVars, activeVars,
      DropDisconnected, RejectStart, StartRequest, FailStart, Settle, Refuse, Writable, Send,
      Stay, Contain, ForceTerminate, PublishUnavailable, Reap
<1>17. CASE ReadCancelled
  BY <1>17 DEF ReadCancelled, loopVars, workerVars, healthVars, pendingVars, activeVars,
      Consume, Settle, Stay
<1>18. CASE CancelFails
  BY <1>18 DEF CancelFails, loopVars, workerVars, healthVars, pendingVars, activeVars, Reap,
      Stay
<1>19. CASE ReplaceUncancelled
  BY <1>19 DEF ReplaceUncancelled, loopVars, workerVars, healthVars, pendingVars, activeVars,
      Relaunch, StayDown, Launch, PublishUnavailable, Reap, Settle
<1>20. CASE ReadRecovery
  BY <1>20 DEF ReadRecovery, loopVars, workerVars, healthVars, pendingVars, activeVars, Settle,
      Consume
<1>21. CASE RecoveryFails
  BY <1>21 DEF RecoveryFails, loopVars, workerVars, healthVars, pendingVars, activeVars,
      ForceTerminate, StayDown, Reap, PublishUnavailable, Settle
<1>22. CASE CandidateAcknowledged
  BY <1>22 DEF CandidateAcknowledged, loopVars, workerVars, healthVars, pendingVars,
      activeVars, Stay
<1>23. CASE CandidateRejected
  BY <1>23 DEF CandidateRejected, loopVars, workerVars, healthVars, pendingVars, activeVars,
      Settle
<1>24. CASE CommitCandidate
  BY <1>24 DEF CommitCandidate, loopVars, workerVars, healthVars, pendingVars, activeVars,
      Settle
<1>25. CASE StopTrusted
  BY <1>25 DEF StopTrusted, loopVars, workerVars, healthVars, pendingVars, activeVars, Reap,
      Stay
<1>26. CASE CloseTrustedFails
  BY <1>26 DEF CloseTrustedFails, loopVars, workerVars, healthVars, pendingVars, activeVars,
      Reap, PublishUnavailable, Settle
<1>27. CASE LaunchDemoted
  BY <1>27 DEF LaunchDemoted, loopVars, workerVars, healthVars, pendingVars, activeVars,
      Launch, Stay, PublishUnavailable, Settle
<1>28. CASE ReadHandshake
  BY <1>28 DEF ReadHandshake, loopVars, workerVars, healthVars, pendingVars, activeVars, Consume
<1>29. CASE HandshakeFails
  BY <1>29 DEF HandshakeFails, loopVars, workerVars, healthVars, pendingVars, activeVars, Reap,
      PublishUnavailable, Settle
<1>30. CASE ReloadModel
  BY <1>30 DEF ReloadModel, loopVars, workerVars, healthVars, pendingVars, activeVars,
      Writable, Send, Settle
<1>31. CASE CancelAbandoned
  BY <1>31 DEF CancelAbandoned, loopVars, workerVars, healthVars, pendingVars, activeVars,
      BeginCancel, Writable
<1>32. CASE CancelBackpressured
  BY <1>32 DEF CancelBackpressured, loopVars, workerVars, healthVars, pendingVars, activeVars,
      BeginCancel, Writable
<1>33. CASE CancelOverdue
  BY <1>33 DEF CancelOverdue, loopVars, workerVars, healthVars, pendingVars, activeVars,
      BeginCancel, Writable
<1>34. CASE RelaunchContained
  BY <1>34 DEF RelaunchContained, loopVars, workerVars, healthVars, pendingVars, activeVars,
      Running, Relaunch, Launch, PublishUnavailable, Reap, StayDown, Settle
<1>35. CASE LoadDeadlinePasses
  BY <1>35 DEF LoadDeadlinePasses, loopVars, workerVars, healthVars, pendingVars, activeVars,
      Running, Contain, ForceTerminate, PublishUnavailable, Settle, Reap
<1>36. CASE IdleTick
  BY <1>36 DEF IdleTick, loopVars, workerVars, healthVars, pendingVars, activeVars, Running,
      Settle
<1>37. CASE UpdateLimit
  BY <1>37 DEF UpdateLimit, loopVars, workerVars, healthVars, pendingVars, activeVars, Settle,
      Writable, AwaitReply, Send
<1>38. CASE ClearPromptCache
  BY <1>38 DEF ClearPromptCache, loopVars, workerVars, healthVars, pendingVars, activeVars,
      Settle, Writable, AwaitReply, Contain, Send, ForceTerminate, PublishUnavailable, Reap
<1>39. CASE RestartWorker
  BY <1>39 DEF RestartWorker, loopVars, workerVars, healthVars, pendingVars, activeVars,
      ReplacementAllowed, Stay, Settle
<1>40. CASE DemoteWorker
  BY <1>40 DEF DemoteWorker, loopVars, workerVars, healthVars, pendingVars, activeVars,
      ReplacementAllowed, PublishUnavailable, Settle
<1>41. CASE Shutdown
  BY <1>41 DEF Shutdown, loopVars, workerVars, healthVars, pendingVars, activeVars,
      PublishUnavailable, ForceTerminate, Settle, Reap
<1>42. ASSUME NEW r \in Requests, Submit(r) PROVE StoppedInv'
  BY <1>42 DEF Submit, loopVars, workerVars, healthVars, pendingVars, activeVars
<1>43. ASSUME NEW r \in Requests, SendRequest(r) PROVE StoppedInv'
  BY <1>43 DEF SendRequest, loopVars, workerVars, healthVars, pendingVars, activeVars
<1>44. ASSUME NEW r \in Requests, HangUp(r) PROVE StoppedInv'
  BY <1>44 DEF HangUp, loopVars, workerVars, healthVars, pendingVars, activeVars
<1>45. ASSUME NEW r \in Requests, TakeRequest(r) PROVE StoppedInv'
  BY <1>45 DEF TakeRequest, loopVars, workerVars, healthVars, pendingVars, activeVars, Running,
      Settle
<1> QED
  BY <1>1, <1>2, <1>3, <1>4, <1>5, <1>6, <1>7, <1>8, <1>9, <1>10, <1>11, <1>12, <1>13, <1>14,
      <1>15, <1>16, <1>17, <1>18, <1>19, <1>20, <1>21, <1>22, <1>23, <1>24, <1>25, <1>26,
      <1>27, <1>28, <1>29, <1>30, <1>31, <1>32, <1>33, <1>34, <1>35, <1>36, <1>37, <1>38,
      <1>39, <1>40, <1>41, <1>42, <1>43, <1>44, <1>45
      DEF Next, Worker, Steps, Arms, Client

(***************************************************************************)
(* Whenever the loop rests in its select, the worker runs and is ready or  *)
(* has a deadline to become so, or it is published as unavailable, which   *)
(* is what schedules its relaunch: for every set of requests, models and   *)
(* faults, without ceiling updates (a run refutes it with them) and        *)
(* demotions.                                                              *)
(***************************************************************************)
THEOREM StoppedWorkerIsRecovered ==
    ASSUME Controls \cap {"limit", "demote"} = {}
    PROVE  Spec => []StoppedIsRecovered
<1>1. Init => StoppedInv
  BY DEF Init, StoppedInv, NoDetour, AtWork, Recovers, Running
<1>2. ControlInv /\ PipeInv /\ StoppedInv /\ [Next]_vars => StoppedInv'
  <2> SUFFICES ASSUME StoppedInv, UNCHANGED vars PROVE StoppedInv'
    BY StoppedKept
  <2> QED
    BY DEF StoppedInv, NoDetour, AtWork, Recovers, Running, vars, workerVars, loopVars, healthVars, pendingVars
<1>3. StoppedInv => StoppedIsRecovered
  BY DEF StoppedInv, Recovers, StoppedIsRecovered
<1> QED
  BY <1>1, <1>2, <1>3, LoopInductive, PTL DEF Spec
-----------------------------------------------------------------------------
(***************************************************************************)
(* The model a request is served by                                        *)
(***************************************************************************)

Swaps == {c \in Commands : c.type = "SwapModel"}
SwapReplies == {e \in Events : e.type \in {"Swapped", "SwapFailed", "ModelLost"}}

\* A worker that greets has no model and was asked for none.
GreetingHoldsNone ==
    proc = "up" =>
        /\ Free(events, Idles) \/ (model = None /\ Free(commands, Swaps) /\ Free(events, SwapReplies))
        /\ at \in {"recover", "handshake"} => model = None

\* The published model is the one the worker holds, and no swap is under way.
Published == model = readyModel /\ Free(commands, Swaps) /\ Free(events, SwapReplies)

ModelIsPublished ==
    proc = "up" /\ isReady /\ ~Swapping /\ at # "exited" => Published

\* One swap is asked for, and answered once; the answer says what the worker holds.
Followed(t) ==
    /\ \A c \in Says(commands) : c \in Swaps => c.of = t
    /\ NoneAfter(commands, Swaps, Swaps)
    /\ Free(commands, Swaps) \/ (model = readyModel /\ "Swapped" \notin staged /\ Free(events, SwapReplies))
    /\ NoneAfter(events, SwapReplies, SwapReplies)
    /\ Free(events, SwapReplies) \/ "Swapped" \notin staged
    /\ \A e \in Says(events) :
          /\ e.type = "Swapped" => model = t
          /\ e.type = "SwapFailed" => model = readyModel
          /\ e.type = "ModelLost" => model = None
    /\ "Swapped" \in staged => model = t

SwapIsFollowed == proc = "up" /\ Swapping => Followed(Target)

\* A restoration talks to a worker that has just greeted, about nothing else.
Restoring(m) ==
    \/ staged = {} /\ commands = <<Message("SwapModel", m)>> /\ events = << >>
    \/ /\ staged = {} /\ commands = << >>
       /\ \/ events = <<Message("Swapped", m), Message("Config", m)>>
          \/ events = <<Message("ModelLost", None)>>
          \/ events = <<Message("SwapFailed", None)>>
    \/ staged = {"Swapped"} /\ commands = << >> /\ events = <<Message("Config", m)>>

RestoreIsFresh ==
    /\ proc = "up" /\ at = "reload" => commands = << >> /\ events = << >>
    /\ proc = "up" /\ at = "restore" => Restoring(cur)

\* A request is dispatched when its model is published.
DispatchIsMatched == at = "dispatch" /\ Wants[cur] \in Catalog => readyModel = Wants[cur]

\* A request that is asked for or served finds its model.
Finds(r) == Wants[r] \in Catalog => model = Wants[r]

GenerateIsMatched ==
    /\ serving # None => Finds(serving)
    /\ \A c \in Says(commands) : c \in Generates => Finds(c.of)
    /\ Free(commands, Swaps) \/ (serving = None /\ Free(commands, Generates))

ModelInv ==
    /\ GreetingHoldsNone /\ ModelIsPublished /\ SwapIsFollowed /\ RestoreIsFresh
    /\ DispatchIsMatched /\ GenerateIsMatched

\* The messages about a swap.
LEMMA SwapMessages ==
    /\ Swaps \cap Generates = {}
    /\ \A c \in Commands : c.type = "SwapModel" <=> c \in Swaps
    /\ \A e \in Events : e.type \in {"Swapped", "SwapFailed", "ModelLost"} <=> e \in SwapReplies
    /\ SwapReplies \cap RequestEvents = {} /\ SwapReplies \cap Idles = {}
BY DEF Swaps, SwapReplies, Generates, RequestEvents, Idles

\* An event of a request is no reply to a swap.
LEMMA AboutNoSwap ==
    ASSUME NEW r \in Requests
    PROVE  /\ Free(Ending(r), SwapReplies) /\ Free(Failure(r), SwapReplies)
           /\ Free(<<Progress(r)>>, SwapReplies) /\ Free(<<Message("Completed", r)>>, SwapReplies)
           /\ Free(<< >>, SwapReplies)
<1>1. ASSUME NEW t \in {"Output", "Finalized", "Completed", "Failed", "Progress", "Ended", "Released"}
      PROVE  Message(t, r) \notin SwapReplies
  BY DEF Message, SwapReplies
<1>2. ASSUME NEW e, NEW f, e \notin SwapReplies, f \notin SwapReplies
      PROVE  Free(<<e>>, SwapReplies) /\ Free(<<e, f>>, SwapReplies)
  <2>1. Len(<<e>>) = 1 /\ <<e>>[1] = e /\ Len(<<e, f>>) = 2 /\ <<e, f>>[1] = e /\ <<e, f>>[2] = f
    OBVIOUS
  <2>2. Says(<<e>>) = {e} /\ Says(<<e, f>>) = {e, f}
    BY <2>1 DEF Says
  <2> QED
    BY <1>2, <2>2 DEF Free
<1>3. Free(Ending(r), SwapReplies) /\ Free(Failure(r), SwapReplies)
  BY <1>1, <1>2 DEF Ending, Failure
<1>4. Free(<<Progress(r)>>, SwapReplies) /\ Free(<<Message("Completed", r)>>, SwapReplies)
  BY <1>1, <1>2 DEF Progress
<1> QED
  BY <1>3, <1>4, EmptyPipe

\* An answer to anything but a swap keeps the model and says nothing of a swap.
LEMMA AnswerHolds ==
    ASSUME NEW c \in Commands, NEW r \in Requests \cup {None}, NEW m, NEW x \in Answers(c, r, m),
           c \notin Swaps \/ r # None
    PROVE  /\ Free(x.emit, SwapReplies) /\ (x.lives => x.holds = m)
           /\ x.serves = None \/ x.serves = r \/ (c \in Generates /\ x.serves = c.of)
<1>1. c.type = "SwapModel" <=> c \in Swaps
  BY SwapMessages
<1>2. c.type = "Generate" => c.of \in Requests /\ c \in Generates
  BY CommandForms, MessageSets
<1>3. ASSUME NEW t \in PlainReplies PROVE Free(<<Message(t, None)>>, SwapReplies)
  <2>1. Message(t, None) \notin SwapReplies
    BY DEF Message, SwapReplies, PlainReplies
  <2>2. Len(<<Message(t, None)>>) = 1 /\ <<Message(t, None)>>[1] = Message(t, None)
    OBVIOUS
  <2> QED
    BY <2>1, <2>2 DEF Free, Says
<1>4. CASE r = None
  <2>1. IdleForm(x, c, m) /\ c.type # "SwapModel"
    BY <1>1, <1>4, AnswerForms
  <2>2. CASE c.type = "Generate"
    BY <1>2, <2>1, <2>2, AboutNoSwap DEF IdleForm, StartForm, Replies
  <2>3. CASE c.type = "Cancel"
    BY <2>1, <2>3, EmptyPipe DEF IdleForm, Replies
  <2>4. CASE c.type \in {"UpdateLimit", "ClearCache"}
    BY <1>3, <2>1, <2>4, EmptyPipe DEF IdleForm, Replies, Dies
  <2> QED
    BY <2>1, <2>2, <2>3, <2>4, CommandForms
<1>5. CASE r # None
  <2>1. BusyForm(x, c, r, m) /\ r \in Requests
    BY <1>5, AnswerForms
  <2> QED
    BY <1>2, <1>3, <2>1, AboutNoSwap DEF BusyForm, Replies, PlainReplies
<1> QED
  BY <1>4, <1>5

\* A busy worker that goes on keeps its model.
LEMMA AdvanceHolds ==
    ASSUME NEW r \in Requests, NEW m, NEW x \in Advances(r, m)
    PROVE  Free(x.emit, SwapReplies) /\ (x.lives => x.holds = m) /\ x.serves \in {None, r}
BY AdvanceForms, AboutNoSwap DEF AdvanceForm, Replies, Dies

\* The worker answers a swap.
LEMMA SwapAnswer ==
    ASSUME NEW c \in Swaps, NEW m, NEW x \in Answers(c, None, m)
    PROVE  /\ x.serves = None /\ x.lives
           /\ \/ x.emit = <<Message("Swapped", c.of), Message("Config", c.of)>> /\ x.holds = c.of
              \/ x.emit = <<Message("ModelLost", None)>> /\ x.holds = None
              \/ x.emit = <<Message("SwapFailed", None)>> /\ x.holds = m
           /\ NoneAfter(x.emit, SwapReplies, SwapReplies)
           /\ \A e \in Says(x.emit) :
                 /\ e.type = "Swapped" => x.holds = c.of
                 /\ e.type = "SwapFailed" => x.holds = m
                 /\ e.type = "ModelLost" => x.holds = None
<1>1. c \in Commands /\ c.type = "SwapModel"
  BY DEF Swaps
<1>2. LoadForm(x, c.of, m)
  BY <1>1, AnswerForms DEF IdleForm
<1>3. CASE Replies(x, <<Message("Swapped", c.of), Message("Config", c.of)>>, None, c.of)
  <2> DEFINE e == Message("Swapped", c.of)
             f == Message("Config", c.of)
  <2>1. Len(<<e, f>>) = 2 /\ <<e, f>>[1] = e /\ <<e, f>>[2] = f
    OBVIOUS
  <2>2. f \notin SwapReplies /\ f.type = "Config" /\ e.type = "Swapped"
    BY DEF Message, SwapReplies
  <2>3. x.emit = <<e, f>> /\ x.holds = c.of /\ x.serves = None /\ x.lives
    BY <1>3 DEF Replies
  <2> HIDE DEF e, f
  <2>4. NoneAfter(<<e, f>>, SwapReplies, SwapReplies)
    BY <2>1, <2>2 DEF NoneAfter
  <2>5. Says(<<e, f>>) = {e, f}
    BY <2>1 DEF Says
  <2>6. x.emit = <<Message("Swapped", c.of), Message("Config", c.of)>>
    BY <2>3 DEF e, f
  <2> QED
    BY <2>2, <2>3, <2>4, <2>5, <2>6
<1>4. ASSUME NEW t \in {"ModelLost", "SwapFailed"}
      PROVE  /\ NoneAfter(<<Message(t, None)>>, SwapReplies, SwapReplies)
             /\ \A e \in Says(<<Message(t, None)>>) : e.type = t
  <2>1. Len(<<Message(t, None)>>) = 1 /\ <<Message(t, None)>>[1] = Message(t, None)
    OBVIOUS
  <2>2. Message(t, None).type = t
    BY DEF Message
  <2> QED
    BY <2>1, <2>2 DEF NoneAfter, Says
<1>5. CASE Replies(x, <<Message("ModelLost", None)>>, None, None)
  BY <1>4, <1>5 DEF Replies
<1>6. CASE Replies(x, <<Message("SwapFailed", None)>>, None, m)
  BY <1>4, <1>6 DEF Replies
<1> QED
  BY <1>2, <1>3, <1>5, <1>6 DEF LoadForm

\* A worker that has ended can break none of it.
LEMMA DeadModel ==
    ASSUME proc' # "up", commands' = << >>, serving' = None, DispatchIsMatched'
    PROVE  ModelInv'
BY EmptyPipe DEF ModelInv, GreetingHoldsNone, ModelIsPublished, SwapIsFollowed, RestoreIsFresh, GenerateIsMatched

\* The worker answers a swap: it is idle, and nothing else was said of a swap.
LEMMA SwapAnsweredModel ==
    ASSUME ControlInv, PipeInv, ModelInv, proc = "up", commands # << >>, NEW c \in Swaps, c = Head(commands),
           NEW x \in Answers(c, serving, model), Becomes(x), commands' = Tail(commands),
           UNCHANGED <<at, cur, staged, isReady, readyModel>>
    PROVE  ModelInv'
<1>1. /\ Says(commands') \subseteq Says(commands) /\ c \in Says(commands)
      /\ \A R, S : NoneAfter(commands, R, S) => NoneAfter(commands', R, S)
      /\ \A R, S : NoneAfter(commands, R, S) /\ c \in R => Free(commands', S)
  BY Holds, ReadPipe
<1>2. ~Free(commands, Swaps)
  BY <1>1 DEF Free
<1>3. serving = None /\ Free(commands, Generates)
  BY <1>2 DEF ModelInv, GenerateIsMatched
<1>4. /\ x.serves = None /\ x.lives
      /\ \/ x.emit = <<Message("Swapped", c.of), Message("Config", c.of)>> /\ x.holds = c.of
         \/ x.emit = <<Message("ModelLost", None)>> /\ x.holds = None
         \/ x.emit = <<Message("SwapFailed", None)>> /\ x.holds = model
      /\ NoneAfter(x.emit, SwapReplies, SwapReplies)
      /\ \A e \in Says(x.emit) :
            /\ e.type = "Swapped" => x.holds = c.of
            /\ e.type = "SwapFailed" => x.holds = model
            /\ e.type = "ModelLost" => x.holds = None
  BY <1>3, SwapAnswer
<1>5. c \in Commands /\ AnswerIsTyped(x) /\ Free(x.emit, Idles)
  <2>1. c \in Commands
    BY DEF Swaps
  <2> QED
    BY <2>1, AnswersTyped, AnswersGreetNot, TypeParts DEF ControlInv, WorkerTypes
<1>6. /\ serving' = None /\ proc' = "up" /\ model' = x.holds
      /\ events' = events \o x.emit /\ x.emit \in Seq(Events) /\ events \in Seq(Events)
  BY <1>4, <1>5, Holds DEF Becomes, AnswerIsTyped
<1>7. Says(events') = Says(events) \cup Says(x.emit)
  BY <1>6, ExtendedPipe
<1>8. GreetingHoldsNone'
  <2>1. Free(events, Idles)
    BY <1>2 DEF ModelInv, GreetingHoldsNone
  <2>2. Free(events', Idles)
    BY <1>5, <1>7, <2>1 DEF Free
  <2> QED
    BY <2>2 DEF GreetingHoldsNone, ControlInv, HandshakeIsQuiet
<1>9. ModelIsPublished'
  BY <1>2 DEF ModelInv, ModelIsPublished, Published, Swapping
<1>10. SwapIsFollowed'
  <2> SUFFICES ASSUME Swapping PROVE Followed(Target)'
    BY DEF SwapIsFollowed, Swapping
  <2>1. PICK t : t = Target
    OBVIOUS
  <2>2. Followed(t)
    BY <2>1 DEF ModelInv, SwapIsFollowed
  <2>3. c.of = t /\ model = readyModel /\ "Swapped" \notin staged /\ Free(events, SwapReplies)
    BY <1>1, <1>2, <2>2 DEF Followed
  <2>4. Free(commands', Swaps)
    BY <1>1, <2>2 DEF Followed
  <2>5. NoneAfter(events, SwapReplies, SwapReplies) /\ NoneAfter(events', SwapReplies, SwapReplies)
    BY <1>4, <1>6, <2>2, <2>3, ExtendedPipe DEF Followed
  <2>6. \A e \in Says(events) : e.type \notin {"Swapped", "SwapFailed", "ModelLost"}
    <3>1. Says(events) \subseteq Events
      BY Holds DEF Says
    <3> QED
      BY <2>3, <3>1, SwapMessages DEF Free
  <2>7. \A e \in Says(events') :
            /\ e.type = "Swapped" => model' = t
            /\ e.type = "SwapFailed" => model' = readyModel
            /\ e.type = "ModelLost" => model' = None
    BY <1>4, <1>6, <1>7, <2>3, <2>6
  <2>8. Followed(t)'
    BY <2>3, <2>4, <2>5, <2>7 DEF Followed, Free, NoneAfter, Says
  <2>9. Target' = t
    BY <2>1 DEF Target
  <2> QED
    BY <2>8, <2>9 DEF Followed
<1>11. RestoreIsFresh'
  <2>1. at # "reload"
    BY DEF ModelInv, RestoreIsFresh
  <2>2. ASSUME at = "restore" PROVE Restoring(cur)'
    <3>1. staged = {} /\ commands = <<Message("SwapModel", cur)>> /\ events = << >>
      BY <2>2 DEF ModelInv, RestoreIsFresh, Restoring
    <3>2. c = Message("SwapModel", cur) /\ commands' = << >>
      BY <3>1
    <3>3. c.of = cur
      BY <3>2 DEF Message
    <3>4. events' = x.emit
      BY <1>6, <3>1
    <3> QED
      BY <1>4, <3>1, <3>2, <3>3, <3>4 DEF Restoring
  <2> QED
    BY <2>1, <2>2 DEF RestoreIsFresh, Restoring
<1>12. DispatchIsMatched'
  BY DEF ModelInv, DispatchIsMatched
<1>13. GenerateIsMatched'
  BY <1>1, <1>3, <1>6 DEF GenerateIsMatched, Free
<1> QED
  BY <1>8, <1>9, <1>10, <1>11, <1>12, <1>13 DEF ModelInv

\* The worker says something that is not about a swap, and keeps its model.
LEMMA SaidModel ==
    ASSUME ControlInv, PipeInv, ModelInv, NEW u \in Seq(Events), Free(u, SwapReplies), Free(u, Idles),
           proc = "up", proc' = "up", model' = model, events' = events \o u,
           \/ commands = << >> /\ commands' = commands /\ serving # None /\ serving' \in {None, serving}
           \/ /\ commands # << >> /\ Head(commands) \notin Swaps /\ commands' = Tail(commands)
              /\ serving' \in {None, serving} \/ (Head(commands) \in Generates /\ serving' = Head(commands).of),
           UNCHANGED <<at, cur, staged, isReady, readyModel>>
    PROVE  ModelInv'
<1>1. events \in Seq(Events) /\ commands \in Seq(Commands)
  BY Holds
<1>2. Says(events') = Says(events) \cup Says(u)
  BY <1>1, ExtendedPipe
<1>3. /\ Says(commands') \subseteq Says(commands)
      /\ \A R, S : NoneAfter(commands, R, S) => NoneAfter(commands', R, S)
      /\ commands # << >> => Head(commands) \in Says(commands)
  <2>1. CASE commands' = commands
    <3>1. commands # << >> => Head(commands) \in Says(commands)
      BY <1>1, ReadPipe
    <3> QED
      BY <2>1, <3>1
  <2>2. CASE commands # << >> /\ commands' = Tail(commands)
    BY <1>1, <2>2, ReadPipe
  <2> QED
    BY <2>1, <2>2
<1>4. /\ \A S : Free(commands, S) => Free(commands', S)
      /\ Free(events, SwapReplies) => Free(events', SwapReplies)
      /\ Free(events, Idles) => Free(events', Idles)
  BY <1>2, <1>3 DEF Free
<1>5. GreetingHoldsNone'
  BY <1>4 DEF ModelInv, GreetingHoldsNone
<1>6. ModelIsPublished'
  BY <1>4 DEF ModelInv, ModelIsPublished, Published, Swapping
<1>7. SwapIsFollowed'
  <2> SUFFICES ASSUME Swapping PROVE Followed(Target)'
    BY DEF SwapIsFollowed, Swapping
  <2>1. PICK t : t = Target
    OBVIOUS
  <2>2. Followed(t)
    BY <2>1 DEF ModelInv, SwapIsFollowed
  <2>3. NoneAfter(events', SwapReplies, SwapReplies)
    <3>1. NoneAfter(u, SwapReplies, SwapReplies)
      BY DEF NoneAfter, Free, Says
    <3> QED
      BY <1>1, <2>2, <3>1, ExtendedPipe DEF Followed
  <2>4. \A e \in Says(u) : e.type \notin {"Swapped", "SwapFailed", "ModelLost"}
    <3>1. Says(u) \subseteq Events
      BY DEF Says
    <3> QED
      BY <3>1, SwapMessages DEF Free
  <2>5. Followed(t)'
    BY <1>2, <1>3, <1>4, <2>2, <2>3, <2>4 DEF Followed
  <2>6. Target' = t
    BY <2>1 DEF Target
  <2> QED
    BY <2>5, <2>6 DEF Followed
<1>8. RestoreIsFresh'
  <2> SUFFICES ASSUME at \in {"reload", "restore"} PROVE FALSE
    BY DEF RestoreIsFresh
  <2>1. Clean
    BY Holds DEF PipeInv, TrustedIsClean, ControlInv, Posture, PositionIsSound, ReadyIsPublished, ActivePositions
  <2>2. serving = None /\ commands # << >>
    BY <2>1 DEF Clean
  <2>3. at = "restore" /\ commands = <<Message("SwapModel", cur)>>
    BY <2>2 DEF ModelInv, RestoreIsFresh, Restoring
  <2>4. Head(commands) = Message("SwapModel", cur) /\ Head(commands) \in Commands
    BY <2>3, <1>1
  <2>5. Head(commands) \in Swaps
    BY <2>4, SwapMessages DEF Message
  <2> QED
    BY <2>2, <2>5
<1>9. DispatchIsMatched'
  BY DEF ModelInv, DispatchIsMatched
<1>10. GenerateIsMatched'
  BY <1>3, <1>4 DEF ModelInv, GenerateIsMatched, Finds, Free
<1> QED
  BY <1>5, <1>6, <1>7, <1>8, <1>9, <1>10 DEF ModelInv

\* The worker answers a command.
LEMMA AnswersModel == ASSUME ControlInv, PipeInv, ModelInv, WorkerAnswers PROVE ModelInv'
<1>0. /\ UNCHANGED <<at, cur, staged, isReady, readyModel>> /\ proc = "up" /\ commands # << >>
      /\ WorkerTypes
  BY TypeParts DEF WorkerAnswers, ControlInv, loopVars, healthVars
<1>1. PICK c : c = Head(commands)
  OBVIOUS
<1>2. PICK x \in Answers(c, serving, model) :
         Becomes(x) /\ commands' = IF x.lives THEN Tail(commands) ELSE << >>
  BY <1>1 DEF WorkerAnswers
<1>3. c \in Commands
  BY <1>0, <1>1, FirstMessage DEF WorkerTypes
<1>4. AnswerIsTyped(x) /\ Free(x.emit, Idles)
  BY <1>0, <1>2, <1>3, AnswersTyped, AnswersGreetNot DEF WorkerTypes
<1>5. DispatchIsMatched'
  BY <1>0 DEF ModelInv, DispatchIsMatched
<1>6. CASE ~x.lives
  BY <1>2, <1>4, <1>5, <1>6, DeadModel DEF Becomes, AnswerIsTyped
<1>7. CASE x.lives /\ c \in Swaps
  BY <1>0, <1>1, <1>2, <1>7, SwapAnsweredModel
<1>8. CASE x.lives /\ c \notin Swaps
  <2>0. serving \in Requests \cup {None}
    BY <1>0 DEF WorkerTypes
  <2>1. /\ Free(x.emit, SwapReplies) /\ (x.lives => x.holds = model)
        /\ x.serves = None \/ x.serves = serving \/ (c \in Generates /\ x.serves = c.of)
    BY <1>2, <1>3, <1>8, <2>0, AnswerHolds
  <2>2. /\ proc' = "up" /\ model' = model /\ events' = events \o x.emit /\ x.emit \in Seq(Events)
        /\ serving' = x.serves /\ commands' = Tail(commands)
    BY <1>2, <1>4, <1>8, <2>1 DEF Becomes, AnswerIsTyped
  <2> QED
    BY <1>0, <1>1, <1>4, <1>8, <2>1, <2>2, SaidModel
<1> QED
  BY <1>6, <1>7, <1>8

\* A busy worker goes on.
LEMMA AdvancesModel == ASSUME ControlInv, PipeInv, ModelInv, WorkerAdvances PROVE ModelInv'
<1>0. /\ UNCHANGED <<at, cur, staged, isReady, readyModel, commands>> /\ proc = "up" /\ commands = << >>
      /\ serving \in Requests /\ serving # None /\ WorkerTypes
  BY TypeParts DEF WorkerAdvances, ControlInv, WorkerTypes, loopVars, healthVars
<1>1. PICK r : r = serving
  OBVIOUS
<1>2. PICK x \in Advances(r, model) : Becomes(x)
  BY <1>1 DEF WorkerAdvances
<1>3. AnswerIsTyped(x) /\ Free(x.emit, SwapReplies) /\ (x.lives => x.holds = model) /\ x.serves \in {None, r}
  BY <1>0, <1>1, <1>2, AdvancesTyped, AdvanceHolds DEF WorkerTypes
<1>4. Free(x.emit, Idles)
  BY <1>0, <1>1, <1>2, AdvanceForms, AdvanceReply DEF Carries, About
<1>5. DispatchIsMatched'
  BY <1>0 DEF ModelInv, DispatchIsMatched
<1>6. CASE ~x.lives
  BY <1>0, <1>2, <1>3, <1>5, <1>6, DeadModel DEF Becomes, AnswerIsTyped
<1>7. CASE x.lives
  <2>1. /\ proc' = "up" /\ model' = model /\ events' = events \o x.emit /\ x.emit \in Seq(Events)
        /\ serving' \in {None, serving}
    BY <1>1, <1>2, <1>3, <1>7 DEF Becomes, AnswerIsTyped
  <2> QED
    BY <1>0, <1>3, <1>4, <2>1, SaidModel
<1> QED
  BY <1>6, <1>7

\* The worker dies.
LEMMA CrashModel == ASSUME ControlInv, ModelInv, WorkerCrashes PROVE ModelInv'
<1>1. /\ proc' = "exited" /\ commands' = << >> /\ serving' = None
      /\ UNCHANGED <<at, cur, readyModel>>
  BY DEF WorkerCrashes, loopVars, healthVars
<1>2. DispatchIsMatched'
  BY <1>1 DEF ModelInv, DispatchIsMatched
<1> QED
  BY <1>1, <1>2, DeadModel

(***************************************************************************)
(* The steps of the loop                                                   *)
(***************************************************************************)

\* The waits whose talk with the worker the invariant follows.
Followers == {"swap", "restore", "recover", "handshake", "reload"}

\* A step that writes or reads, but asks for no model.
Talks ==
    /\ UNCHANGED <<proc, serving, model>>
    /\ events' = events \/ (events # << >> /\ events' = Tail(events))
    /\ \/ commands' = commands
       \/ \E c \in Commands : /\ c \notin Swaps /\ commands' = Append(commands, c)
                              /\ c \in Generates => Finds(c.of) /\ Free(commands, Swaps)

\* Such a step keeps the invariant, if it leaves the waits and what it then
\* publishes is what the worker holds.
LEMMA TalkModel ==
    ASSUME ControlInv, ModelInv, Talks, at' \notin Followers, DispatchIsMatched',
           proc = "up" /\ isReady' /\ at' # "exited" =>
               readyModel' = model /\ Free(commands, Swaps) /\ Free(events', SwapReplies)
    PROVE  ModelInv'
<1>1. UNCHANGED <<proc, serving, model>>
  BY DEF Talks
<1>2. Says(events') \subseteq Says(events)
  <2>1. CASE events' = events
    BY <2>1
  <2>2. CASE events # << >> /\ events' = Tail(events)
    BY <2>2, Holds, ReadPipe
  <2> QED
    BY <2>1, <2>2 DEF Talks
<1>3. /\ Free(commands, Swaps) => Free(commands', Swaps)
      /\ \A c \in Says(commands') : c \in Generates => c \in Says(commands) \/ (Finds(c.of) /\ Free(commands, Swaps))
  <2>1. CASE commands' = commands
    BY <2>1
  <2>2. ASSUME NEW c \in Commands, c \notin Swaps, commands' = Append(commands, c),
               c \in Generates => Finds(c.of) /\ Free(commands, Swaps)
        PROVE  /\ Free(commands, Swaps) => Free(commands', Swaps)
               /\ \A d \in Says(commands') :
                     d \in Generates => d \in Says(commands) \/ (Finds(d.of) /\ Free(commands, Swaps))
    <3>1. Says(commands') = Says(commands) \cup {c}
      BY <2>2, Holds, WrittenPipe
    <3> QED
      BY <2>2, <3>1 DEF Free
  <2> QED
    BY <2>1, <2>2 DEF Talks
<1>4. \A S : Free(events, S) => Free(events', S)
  BY <1>2 DEF Free
<1>5. GreetingHoldsNone'
  BY <1>1, <1>3, <1>4 DEF ModelInv, GreetingHoldsNone, Followers
<1>6. ModelIsPublished'
  BY <1>1, <1>3 DEF ModelIsPublished, Published
<1>7. SwapIsFollowed' /\ RestoreIsFresh'
  BY DEF SwapIsFollowed, RestoreIsFresh, Swapping, Followers
<1>8. GenerateIsMatched'
  <2>1. serving' # None => Finds(serving)'
    BY <1>1 DEF ModelInv, GenerateIsMatched, Finds
  <2>2. ASSUME NEW c \in Says(commands'), c \in Generates PROVE Finds(c.of)'
    BY <1>1, <1>3, <2>2 DEF ModelInv, GenerateIsMatched, Finds
  <2>3. Free(commands', Swaps) \/ (serving' = None /\ Free(commands', Generates))
    BY <1>1, <1>3 DEF ModelInv, GenerateIsMatched, Free
  <2> QED
    BY <2>1, <2>2, <2>3 DEF GenerateIsMatched
<1> QED
  BY <1>5, <1>6, <1>7, <1>8 DEF ModelInv

\* The steps that are such talk.
LEMMA TalkForms ==
    /\ UNCHANGED workerVars => Talks
    /\ events # << >> /\ Consume => Talks
    /\ \A c \in Commands : c \notin Swaps \cup Generates /\ Send(c) => Talks
BY DEF Talks, workerVars, Consume, Send

\* Nothing of the worker is published that was not published before.
LEMMA CalmModel ==
    ASSUME ControlInv, ModelInv, Talks, at' \notin Followers, DispatchIsMatched', at \notin {"swap", "restore", "exited"},
           isReady' => isReady /\ readyModel' = readyModel
    PROVE  ModelInv'
<1>1. Free(events, SwapReplies) => Free(events', SwapReplies)
  <2>1. CASE events' = events
    BY <2>1
  <2>2. CASE events # << >> /\ events' = Tail(events)
    BY <2>2, Holds, ReadPipe DEF Free
  <2> QED
    BY <2>1, <2>2 DEF Talks
<1>2. proc = "up" /\ isReady' => Published
  BY DEF ModelInv, ModelIsPublished, Swapping
<1> QED
  BY <1>1, <1>2, TalkModel DEF Published

\* A worker that is left alone and not trusted, or that the loop leaves behind.
LEMMA DownModel ==
    ASSUME ControlInv, ModelInv, UNCHANGED workerVars, at' \notin Followers \cup {"dispatch"},
           ~isReady' \/ at' = "exited"
    PROVE  ModelInv'
<1>1. DispatchIsMatched'
  BY DEF DispatchIsMatched
<1> QED
  BY <1>1, TalkForms, TalkModel

\* A worker that is stopped.
LEMMA StopModel == ASSUME Reap, at' # "dispatch" PROVE ModelInv'
BY DeadModel DEF Reap, DispatchIsMatched

\* A worker that is launched.
LEMMA LaunchModel ==
    ASSUME Launch, ~isReady', at' \in {"recover", "handshake"}
    PROVE  ModelInv'
<1>1. commands' = << >> /\ events' = Greeting /\ serving' = None /\ model' = None
  BY DEF Launch
<1>2. Message("Idle", None) \notin SwapReplies /\ Message("Config", None) \notin SwapReplies
  BY DEF Message, SwapReplies
<1>3. Free(events', SwapReplies)
  BY <1>1, <1>2, GreetingSays DEF Free
<1> QED
  BY <1>1, <1>3, EmptyPipe DEF ModelInv, GreetingHoldsNone, ModelIsPublished, SwapIsFollowed, RestoreIsFresh,
     DispatchIsMatched, GenerateIsMatched, Swapping

\* A containment.
LEMMA ContainModel ==
    ASSUME ControlInv, ModelInv, NEW p \in {"top", "tidy", "observe"}, NEW A, NEW B, Contain(p, A, B)
    PROVE  ModelInv'
<1>1. (Reap \/ UNCHANGED workerVars) /\ isReady' = FALSE /\ at' = p
  BY DEF Contain, ForceTerminate, Settle
<1> QED
  BY <1>1, StopModel, DownModel DEF Followers

\* A worker that stays down, or is relaunched.
LEMMA RelaunchModel ==
    ASSUME ControlInv, ModelInv, isReady' = FALSE, Relaunch \/ (StayDown /\ (Reap \/ UNCHANGED workerVars))
    PROVE  ModelInv'
<1>1. StayDown => at' = "top"
  BY DEF StayDown, Settle
<1> QED
  BY <1>1, StopModel, DownModel, LaunchModel DEF Relaunch, Followers

\* A step of a client.
LEMMA StillModel ==
    ASSUME ModelInv, UNCHANGED <<workerVars, loopVars, healthVars>>
    PROVE  ModelInv'
<1>1. UNCHANGED <<proc, commands, events, serving, model, at, cur, staged, isReady, readyModel>>
  BY DEF workerVars, loopVars, healthVars
<1>2. (Published' <=> Published) /\ (Followed(Target)' <=> Followed(Target)) /\ (Restoring(cur)' <=> Restoring(cur))
  BY <1>1 DEF Published, Followed, Restoring, Target
<1> QED
  BY <1>1, <1>2 DEF ModelInv, GreetingHoldsNone, ModelIsPublished, SwapIsFollowed, RestoreIsFresh,
     DispatchIsMatched, GenerateIsMatched, Finds, Swapping

\* A model is asked for.
LEMMA AskModel ==
    ASSUME ControlInv, PipeInv, ModelInv, at \in {"choose", "reload"}, Writable, NEW m \in Models,
           Send(Message("SwapModel", m)), UNCHANGED <<isReady, readyModel, cur>>, staged' = {},
           at' = IF at = "choose" THEN "swap" ELSE "restore", m = IF at = "choose" THEN Wants[cur] ELSE cur
    PROVE  ModelInv'
<1>1. PICK c : c = Message("SwapModel", m)
  OBVIOUS
<1>2. c \in Commands /\ c \in Swaps /\ c \notin Generates /\ c.of = m
  BY <1>1, CommandTypes DEF Message, Swaps, Generates
<1>3. commands' = Append(commands, c) /\ UNCHANGED <<proc, events, serving, model>> /\ proc = "up"
  BY <1>1 DEF Send, Writable
<1>4. isReady /\ status = "Ready" /\ active = None
  BY Holds DEF ControlInv, Posture, PositionIsSound, ReadyIsPublished, Starting, ActivePositions
<1>5. Clean /\ Free(events, Idles)
  BY <1>3, <1>4 DEF PipeInv, TrustedIsClean, GreetingIsFirst
<1>6. Published
  BY <1>3, <1>4 DEF ModelInv, ModelIsPublished, Swapping
<1>7. /\ Says(commands') = Says(commands) \cup {c}
      /\ \A R, S : NoneAfter(commands, R, S) /\ (c \notin S \/ Free(commands, R)) => NoneAfter(commands', R, S)
  BY <1>2, <1>3, Holds, WrittenPipe
<1>8. GreetingHoldsNone' /\ ModelIsPublished' /\ DispatchIsMatched'
  BY <1>3, <1>5 DEF GreetingHoldsNone, ModelIsPublished, DispatchIsMatched, Swapping
<1>9. SwapIsFollowed'
  <2>1. NoneAfter(commands, Swaps, Swaps) /\ NoneAfter(events, SwapReplies, SwapReplies)
    BY <1>6 DEF Published, NoneAfter, Free, Says
  <2>2. \A e \in Says(events) : e.type \notin {"Swapped", "SwapFailed", "ModelLost"}
    <3>1. Says(events) \subseteq Events
      BY Holds DEF Says
    <3> QED
      BY <1>6, <3>1, SwapMessages DEF Free, Published
  <2>3. \A d \in Says(commands') : d \in Swaps => d.of = m
    BY <1>2, <1>6, <1>7 DEF Published, Free
  <2>4. Followed(m)'
    BY <1>3, <1>6, <1>7, <2>1, <2>2, <2>3 DEF Followed, Published
  <2>5. Target' = m
    BY DEF Target
  <2> QED
    BY <2>4, <2>5 DEF SwapIsFollowed, Followed
<1>10. RestoreIsFresh'
  <2> SUFFICES ASSUME at = "reload" PROVE Restoring(cur)'
    BY DEF RestoreIsFresh, Restoring
  <2>1. commands = << >> /\ events = << >>
    BY <1>3 DEF ModelInv, RestoreIsFresh
  <2>2. commands' = <<Message("SwapModel", cur)>>
    BY <1>1, <1>3, <2>1
  <2> QED
    BY <1>3, <2>1, <2>2 DEF Restoring
<1>11. GenerateIsMatched'
  BY <1>2, <1>3, <1>5, <1>7 DEF GenerateIsMatched, Clean, Free
<1> QED
  BY <1>8, <1>9, <1>10, <1>11 DEF ModelInv

\* What a restoration reads is the reply it waits for.
LEMMA RestoreIsAnswered ==
    ASSUME ControlInv, ModelInv, at = "restore", proc = "up", events # << >>, NEW e, e = Head(events)
    PROVE  /\ Claimed(e) /\ ~Mismatched(e)
           /\ e.type = "Swapped" => staged = {} /\ Tail(events) = <<Message("Config", cur)>>
           /\ e.type = "Config" => staged = {"Swapped"}
           /\ commands = << >>
<1>1. expects
  BY DEF ControlInv, Posture, PositionIsSound
<1>2. Restoring(cur) /\ Target = cur
  BY DEF ModelInv, RestoreIsFresh, Target
<1>3. CASE events = <<Message("Swapped", cur), Message("Config", cur)>> /\ staged = {} /\ commands = << >>
  <2>1. e = Message("Swapped", cur) /\ Tail(events) = <<Message("Config", cur)>>
    BY <1>3
  <2>2. e.type = "Swapped" /\ e.of = cur
    BY <2>1 DEF Message
  <2> QED
    BY <1>2, <1>3, <2>1, <2>2 DEF Claimed, Mismatched, Swapping
<1>4. CASE events = <<Message("ModelLost", None)>> /\ commands = << >>
  <2>1. e = Message("ModelLost", None)
    BY <1>4
  <2>2. e.type = "ModelLost"
    BY <2>1 DEF Message
  <2> QED
    BY <1>4, <2>2 DEF Claimed, Mismatched, Swapping
<1>5. CASE events = <<Message("SwapFailed", None)>> /\ commands = << >>
  <2>1. e = Message("SwapFailed", None)
    BY <1>5
  <2>2. e.type = "SwapFailed"
    BY <2>1 DEF Message
  <2> QED
    BY <1>5, <2>2 DEF Claimed, Mismatched, Swapping
<1>6. CASE events = <<Message("Config", cur)>> /\ staged = {"Swapped"} /\ commands = << >>
  <2>1. e = Message("Config", cur)
    BY <1>6
  <2>2. e.type = "Config" /\ e.of = cur
    BY <2>1 DEF Message
  <2> QED
    BY <1>1, <1>2, <1>6, <2>2 DEF Claimed, Mismatched, Swapping
<1> QED
  BY <1>2, <1>3, <1>4, <1>5, <1>6 DEF Restoring

\* A wait for a swap is ready, and its worker has greeted.
LEMMA SwappingIsReady ==
    ASSUME ControlInv, PipeInv, Swapping
    PROVE  isReady /\ (proc = "up" => Free(events, Idles))
<1>1. isReady
  BY DEF ControlInv, Posture, PositionIsSound, Starting, Swapping
<1> QED
  BY <1>1 DEF PipeInv, GreetingIsFirst

\* A worker that has ended says the last of its words.
LEMMA LastWordsModel ==
    ASSUME ControlInv, proc # "up", Consume, DispatchIsMatched'
    PROVE  ModelInv'
BY DeadModel DEF ControlInv, DeadIsSilent, Consume

\* An event is handed to handle_worker_event.
LEMMA EventModel == ASSUME ControlInv, PipeInv, ModelInv, ReadEvent PROVE ModelInv'
<1>1. PICK e : e = Head(events)
  OBVIOUS
<1>2. /\ Pumping /\ events # << >> /\ ~Claimed(e) /\ ~Violates(e) /\ ApplyToHealth(e) /\ Continue(e)
      /\ Consume /\ e \in Events
  BY <1>1, Holds, FirstMessage DEF ReadEvent
<1>3. at # "dispatch" /\ at' # "dispatch" /\ DispatchIsMatched'
  BY <1>2, Holds DEF Pumping, Continue, Settle, Stay, DispatchIsMatched
<1>4. /\ Head(events) \in Says(events) /\ Says(events') \subseteq Says(events)
      /\ \A R, S : NoneAfter(events, R, S) => NoneAfter(events', R, S)
      /\ UNCHANGED <<proc, commands, serving, model>>
  BY <1>2, Holds, ReadPipe DEF Consume
<1>5. CASE proc # "up"
  BY <1>2, <1>3, <1>5, LastWordsModel
<1>6. CASE proc = "up" /\ Swapping
  <2>1. at = "swap"
    BY <1>1, <1>2, <1>6, RestoreIsAnswered DEF Swapping
  <2>2. e.type \notin {"Swapped", "SwapFailed", "ModelLost"}
    BY <1>2, <1>6 DEF Claimed
  <2>3. isReady /\ Free(events, Idles) /\ Free(events', Idles)
    BY <1>4, <1>6, SwappingIsReady DEF Free
  <2>4. e.type # "Idle"
    BY <1>2, <2>3 DEF Violates
  <2>5. UNCHANGED <<readyModel, at, cur, staged>>
    BY <1>2, <2>1, <2>4 DEF ApplyToHealth, Continue, Stay
  <2>6. PICK t : t = Target
    OBVIOUS
  <2>7. Followed(t)
    BY <1>6, <2>6 DEF ModelInv, SwapIsFollowed
  <2>8. Free(events, SwapReplies) => Free(events', SwapReplies)
    BY <1>4 DEF Free
  <2>9. Followed(t)' /\ Target' = t
    BY <1>4, <2>5, <2>6, <2>7, <2>8 DEF Followed, Target
  <2>10. SwapIsFollowed'
    BY <2>9 DEF SwapIsFollowed, Followed
  <2>11. GreetingHoldsNone' /\ ModelIsPublished' /\ RestoreIsFresh'
    BY <2>1, <2>3, <2>5 DEF GreetingHoldsNone, ModelIsPublished, RestoreIsFresh, Swapping
  <2>12. GenerateIsMatched'
    BY <1>4 DEF ModelInv, GenerateIsMatched, Finds
  <2> QED
    BY <1>3, <2>10, <2>11, <2>12 DEF ModelInv
<1>7. CASE proc = "up" /\ ~Swapping
  <2>1. at' \notin Followers /\ at \notin {"swap", "restore", "exited"}
    BY <1>2, <1>7, Holds DEF Pumping, Swapping, Continue, Settle, Stay, Followers
  <2>2. Talks
    BY <1>2, TalkForms
  <2>3. CASE e.type = "Idle"
    <3>1. e \in Idles /\ e \in Says(events)
      BY <1>1, <1>2, <1>4, <2>3, MessageSets
    <3>2. model = None /\ Free(commands, Swaps) /\ Free(events, SwapReplies)
      BY <1>7, <3>1 DEF ModelInv, GreetingHoldsNone, Free
    <3>3. readyModel' = None /\ Free(events', SwapReplies)
      BY <1>2, <1>4, <2>3, <3>2 DEF ApplyToHealth, Free
    <3> QED
      BY <1>3, <2>1, <2>2, <3>2, <3>3, TalkModel
  <2>4. CASE e.type # "Idle"
    <3>1. readyModel' = readyModel
      BY <1>2, <2>4 DEF ApplyToHealth
    <3>2. isReady' => isReady
      BY <1>2, <2>4, Zenon DEF ApplyToHealth
    <3> QED
      BY <1>3, <2>1, <2>2, <3>1, <3>2, CalmModel
  <2> QED
    BY <2>3, <2>4
<1> QED
  BY <1>5, <1>6, <1>7

\* The loop takes an event for a violation.
LEMMA ViolationModel == ASSUME ControlInv, PipeInv, ModelInv, ReadViolation PROVE ModelInv'
<1>1. CASE ~Uncontained
  BY <1>1, TroubleIsContained, ContainModel DEF ReadViolation
<1>2. CASE Uncontained
  <2>1. Consume /\ events # << >> /\ UNCHANGED healthVars /\ at' = "top"
    BY <1>2 DEF ReadViolation, Trouble, Uncontained, Settle
  <2>2. DispatchIsMatched'
    BY <2>1 DEF DispatchIsMatched
  <2>3. CASE proc # "up"
    BY <2>1, <2>2, <2>3, LastWordsModel
  <2>4. CASE proc = "up" /\ at = "restore"
    <3>1. PICK e : e = Head(events)
      OBVIOUS
    <3>2. Claimed(e) /\ ~Mismatched(e)
      BY <2>1, <2>4, <3>1, RestoreIsAnswered
    <3> QED
      BY <3>1, <3>2 DEF ReadViolation
  <2>5. CASE at # "restore"
    BY <1>2, <2>1, <2>2, <2>5, TalkForms, CalmModel DEF Uncontained, healthVars, Followers
  <2> QED
    BY <2>3, <2>4, <2>5
<1> QED
  BY <1>1, <1>2

\* The reply to a swap is read.
LEMMA SwapReplyModel == ASSUME ControlInv, PipeInv, ModelInv, ReadSwapReply PROVE ModelInv'
<1>1. PICK e, t, now : e = Head(events) /\ t = Target /\ now = staged \cup {e.type}
  OBVIOUS
<1>2. /\ Swapping /\ events # << >> /\ Consume /\ e \in Events /\ isReady' = isReady
      /\ e.type \in {"Swapped", "Config"} /\ Claimed(e) /\ ~Mismatched(e)
  BY <1>1, Holds, FirstMessage DEF ReadSwapReply, healthVars
<1>3. /\ e \in Says(events) /\ Says(events') \subseteq Says(events)
      /\ \A R, S : NoneAfter(events, R, S) => NoneAfter(events', R, S)
      /\ \A R, S : NoneAfter(events, R, S) /\ e \in R => Free(events', S)
      /\ UNCHANGED <<proc, commands, serving, model>>
  BY <1>1, <1>2, Holds, ReadPipe DEF Consume
<1>4. ASSUME "Swapped" \in now, expects => "Config" \in now
      PROVE  at' = (IF at = "restore" THEN "top" ELSE "dispatch") /\ readyModel' = t /\ (at = "swap" => cur' = cur)
  BY <1>1, <1>2, <1>4 DEF ReadSwapReply, Settle, Swapping
<1>5. ASSUME ~("Swapped" \in now /\ (expects => "Config" \in now))
      PROVE  staged' = now /\ UNCHANGED <<at, cur, isReady, readyModel>>
  BY <1>1, <1>5 DEF ReadSwapReply, healthVars
<1>6. DispatchIsMatched'
  <2>1. at = "swap" => t = Wants[cur]
    BY <1>1 DEF Target
  <2> QED
    BY <1>2, <1>4, <1>5, <2>1 DEF DispatchIsMatched, Swapping
<1>7. CASE proc # "up"
  BY <1>2, <1>6, <1>7, LastWordsModel
<1>8. CASE proc = "up"
  <2>1. Followed(t)
    BY <1>1, <1>2, <1>8 DEF ModelInv, SwapIsFollowed
  <2>2. e \in SwapReplies <=> e.type = "Swapped"
    BY <1>2, SwapMessages
  <2>3. "Swapped" \in now => model = t /\ Free(commands, Swaps) /\ Free(events', SwapReplies)
    <3>1. CASE "Swapped" \in staged
      BY <1>3, <2>1, <3>1 DEF Followed, Free
    <3>2. CASE e.type = "Swapped"
      BY <1>3, <2>1, <2>2, <3>2 DEF Followed, Free
    <3> QED
      BY <1>1, <3>1, <3>2
  <2>4. CASE "Swapped" \in now /\ (expects => "Config" \in now)
    <3>1. at' \notin Followers
      BY <1>4, <2>4 DEF Followers
    <3>2. Talks
      BY <1>2, TalkForms
    <3> QED
      BY <1>4, <1>6, <2>3, <2>4, <3>1, <3>2, TalkModel
  <2>5. CASE ~("Swapped" \in now /\ (expects => "Config" \in now))
    <3>1. staged' = now /\ UNCHANGED <<at, cur, isReady, readyModel>>
      BY <1>5, <2>5
    <3>2. Followed(t)'
      <4>1. Free(events, SwapReplies) => Free(events', SwapReplies)
        BY <1>3 DEF Free
      <4>2. "Swapped" \in now \/ "Swapped" \notin staged
        BY <1>1
      <4>3. Free(commands, Swaps) \/ (model = readyModel /\ "Swapped" \notin now /\ Free(events', SwapReplies))
        BY <2>1, <2>3, <4>1 DEF Followed
      <4> QED
        BY <1>3, <2>1, <2>3, <3>1, <4>3 DEF Followed
    <3>3. SwapIsFollowed'
      <4>1. Target' = t
        BY <1>1, <3>1 DEF Target
      <4> QED
        BY <3>2, <4>1 DEF SwapIsFollowed, Followed
    <3>4. RestoreIsFresh'
      <4> SUFFICES ASSUME at = "restore" PROVE Restoring(cur)'
        BY <1>2, <3>1 DEF RestoreIsFresh, Swapping, Restoring
      <4>1. /\ e.type = "Swapped" => staged = {} /\ Tail(events) = <<Message("Config", cur)>>
            /\ e.type = "Config" => staged = {"Swapped"}
            /\ commands = << >>
        BY <1>1, <1>2, <1>8, RestoreIsAnswered
      <4>2. e.type = "Swapped"
        BY <1>1, <1>2, <2>5, <4>1
      <4>3. staged' = {"Swapped"} /\ commands' = << >> /\ events' = <<Message("Config", cur)>>
        BY <1>1, <1>2, <1>3, <3>1, <4>1, <4>2 DEF Consume
      <4> QED
        BY <3>1, <4>3 DEF Restoring
    <3>5. GreetingHoldsNone' /\ ModelIsPublished'
      <4>1. Free(events', Idles)
        BY <1>2, <1>3, <1>8, SwappingIsReady DEF Free
      <4> QED
        BY <1>2, <3>1, <4>1 DEF GreetingHoldsNone, ModelIsPublished, Swapping
    <3>6. GenerateIsMatched'
      BY <1>3 DEF ModelInv, GenerateIsMatched, Finds
    <3> QED
      BY <1>6, <3>3, <3>4, <3>5, <3>6 DEF ModelInv
  <2> QED
    BY <2>4, <2>5
<1> QED
  BY <1>7, <1>8

\* A failed load is read.
LEMMA SwapFailureModel == ASSUME ControlInv, PipeInv, ModelInv, ReadSwapFailure PROVE ModelInv'
<1>1. PICK e, t : e = Head(events) /\ t = Target
  OBVIOUS
<1>2. /\ Swapping /\ events # << >> /\ Consume /\ e \in Events /\ e.type \in {"SwapFailed", "ModelLost"}
      /\ at' = "top"
  BY <1>1, Holds, FirstMessage DEF ReadSwapFailure, Refuse, Settle
<1>3. /\ e.type = "ModelLost" => readyModel' = None
      /\ e.type = "SwapFailed" => readyModel' = readyModel
  BY <1>1 DEF ReadSwapFailure, PublishUnavailable, healthVars
<1>4. /\ e \in Says(events)
      /\ \A R, S : NoneAfter(events, R, S) /\ e \in R => Free(events', S)
  BY <1>1, <1>2, Holds, ReadPipe DEF Consume
<1>5. DispatchIsMatched'
  BY <1>2 DEF DispatchIsMatched
<1>6. CASE proc # "up"
  BY <1>2, <1>5, <1>6, LastWordsModel
<1>7. CASE proc = "up"
  <2>1. Followed(t)
    BY <1>1, <1>2, <1>7 DEF ModelInv, SwapIsFollowed
  <2>2. e \in SwapReplies
    BY <1>2, SwapMessages
  <2>3. readyModel' = model /\ Free(commands, Swaps) /\ Free(events', SwapReplies)
    BY <1>2, <1>3, <1>4, <2>1, <2>2 DEF Followed, Free
  <2> QED
    BY <1>2, <1>5, <2>3, TalkForms, TalkModel DEF Followers
<1> QED
  BY <1>6, <1>7

\* A new worker says a part of its greeting.
LEMMA AckModel ==
    ASSUME ControlInv, PipeInv, ModelInv, at \in {"recover", "handshake"}, events # << >>, Consume,
           IF Recovered(staged \cup {Head(events).type})
           THEN at' \in {"top", "reload"} /\ readyModel' = None
           ELSE UNCHANGED <<at, isReady, readyModel>>
    PROVE  ModelInv'
<1>1. UNCHANGED <<proc, commands, serving, model>> /\ events' = Tail(events)
  BY DEF Consume
<1>2. commands = << >> /\ serving = None /\ ~isReady
  BY Holds DEF ControlInv, HandshakeIsQuiet
<1>3. DispatchIsMatched'
  BY DEF DispatchIsMatched
<1>4. CASE proc # "up"
  BY <1>3, <1>4, LastWordsModel
<1>5. CASE proc = "up"
  <2>1. model = None
    BY <1>5 DEF ModelInv, GreetingHoldsNone
  <2>2. \/ staged = {} /\ events = Greeting
        \/ staged = {"Idle"} /\ events = <<Message("Config", None)>>
    BY <1>5 DEF PipeInv, HandshakeIsFresh
  <2>3. CASE staged = {} /\ events = Greeting
    <3>1. Head(events) = Message("Idle", None)
      BY <2>3 DEF Greeting
    <3>2. Head(events).type = "Idle"
      BY <3>1 DEF Message
    <3>3. UNCHANGED <<at, isReady, readyModel>>
      BY <2>3, <3>2 DEF Recovered
    <3>4. Free(events', SwapReplies)
      <4>1. \A d \in Says(Greeting) : d \notin SwapReplies
        BY GreetingSays DEF Message, SwapReplies
      <4>2. Says(events') \subseteq Says(events)
        BY <1>1, Holds, ReadPipe
      <4> QED
        BY <2>3, <4>1, <4>2 DEF Free
    <3> QED
      BY <1>1, <1>2, <1>3, <2>1, <3>3, <3>4, EmptyPipe DEF ModelInv, GreetingHoldsNone, ModelIsPublished,
         SwapIsFollowed, RestoreIsFresh, GenerateIsMatched, Swapping
  <2>4. CASE staged = {"Idle"} /\ events = <<Message("Config", None)>>
    <3>1. Head(events) = Message("Config", None) /\ events' = << >>
      BY <1>1, <2>4
    <3>2. Head(events).type = "Config"
      BY <3>1 DEF Message
    <3>3. at' \in {"top", "reload"} /\ readyModel' = None
      BY <2>4, <3>2 DEF Recovered
    <3> QED
      BY <1>1, <1>2, <1>3, <2>1, <3>1, <3>3, EmptyPipe DEF ModelInv, GreetingHoldsNone, ModelIsPublished,
         Published, SwapIsFollowed, RestoreIsFresh, GenerateIsMatched, Swapping
  <2> QED
    BY <2>2, <2>3, <2>4
<1> QED
  BY <1>4, <1>5

\* The candidate takes the place of the trusted worker.
LEMMA CommitModel == ASSUME CommitCandidate PROVE ModelInv'
<1>1. /\ commands' = << >> /\ events' = << >> /\ serving' = None /\ at' = "top"
      /\ model' = None /\ readyModel' = None
  BY DEF CommitCandidate, Settle
<1> QED
  BY <1>1, EmptyPipe DEF ModelInv, GreetingHoldsNone, ModelIsPublished, Published, SwapIsFollowed, RestoreIsFresh,
     DispatchIsMatched, GenerateIsMatched, Swapping

\* A step that leaves the worker and what is published alone.
LEMMA QuietModel ==
    ASSUME ControlInv, ModelInv, UNCHANGED <<workerVars, isReady, readyModel>>,
           at' \notin Followers \cup {"dispatch"}, at \notin {"swap", "restore", "exited"}
    PROVE  ModelInv'
<1>1. DispatchIsMatched'
  BY DEF DispatchIsMatched
<1> QED
  BY <1>1, TalkForms, CalmModel

\* A ceiling update or a cache clear is sent.
LEMMA TellModel ==
    ASSUME ControlInv, ModelInv, NEW t \in {"UpdateLimit", "ClearCache"}, Send(Message(t, None)),
           UNCHANGED <<isReady, readyModel>>, at' \notin Followers \cup {"dispatch"},
           at \notin {"swap", "restore", "exited"}
    PROVE  ModelInv'
<1>1. Message(t, None) \in Commands /\ Message(t, None) \notin Swaps \cup Generates
  BY CommandTypes DEF Message, Swaps, Generates
<1>2. DispatchIsMatched'
  BY DEF DispatchIsMatched
<1> QED
  BY <1>1, <1>2, TalkForms, CalmModel

\* A request is sent to the worker that holds its model.
LEMMA StartModel ==
    ASSUME ControlInv, PipeInv, ModelInv, at = "dispatch", StartRequest
    PROVE  ModelInv'
<1>1. PICK c : c = Message("Generate", cur)
  OBVIOUS
<1>2. isReady /\ cur \in Requests /\ proc = "up"
  BY DEF ControlInv, Posture, PositionIsSound, Starting, StartRequest, Writable
<1>3. Published
  BY <1>2 DEF ModelInv, ModelIsPublished, Swapping
<1>4. Finds(cur) /\ Free(commands, Swaps)
  BY <1>3 DEF ModelInv, DispatchIsMatched, Published, Finds
<1>5. c \in Commands /\ c \notin Swaps /\ c.of = cur
  BY <1>1, <1>2, CommandTypes DEF Message, Swaps
<1>6. Talks
  BY <1>1, <1>4, <1>5 DEF StartRequest, Send, Talks
<1>7. at' \in {"abandon", "top"} /\ UNCHANGED healthVars
  BY DEF StartRequest, Stay, Settle
<1>8. DispatchIsMatched'
  BY <1>7 DEF DispatchIsMatched
<1> QED
  BY <1>6, <1>7, <1>8, CalmModel DEF healthVars, Followers

\* The first worker holds no model.
LEMMA ModelInit == Init => ModelInv
<1> SUFFICES ASSUME Init PROVE ModelInv
    OBVIOUS
<1>1. commands = << >> /\ events = Greeting /\ serving = None /\ model = None /\ ~isReady /\ at = "top"
  BY DEF Init
<1>2. Message("Idle", None) \notin SwapReplies /\ Message("Config", None) \notin SwapReplies
  BY DEF Message, SwapReplies
<1>3. Free(events, SwapReplies)
  BY <1>1, <1>2, GreetingSays DEF Free
<1> QED
  BY <1>1, <1>3, EmptyPipe DEF ModelInv, GreetingHoldsNone, ModelIsPublished, SwapIsFollowed, RestoreIsFresh,
     DispatchIsMatched, GenerateIsMatched, Swapping

\* Every step keeps the model invariant, where no restoration gives up a load
\* that goes on.
LEMMA ModelNext ==
    ASSUME "slowLoad" \notin Faults
    PROVE  ControlInv /\ PipeInv /\ ModelInv /\ [Next]_vars => ModelInv'
<1> SUFFICES ASSUME ControlInv, PipeInv, ModelInv, [Next]_vars PROVE ModelInv'
    OBVIOUS
<1> USE Holds
<1>1. CASE WorkerAnswers
  BY <1>1, AnswersModel
<1>2. CASE WorkerAdvances
  BY <1>2, AdvancesModel
<1>3. CASE WorkerCrashes
  BY <1>3, CrashModel
<1>4. CASE DrainLimit
  <2>1. CASE UNCHANGED workerVars /\ UNCHANGED healthVars /\ at' \in {"top", "tidy", "observe"}
    BY <1>4, <2>1, QuietModel DEF DrainLimit, healthVars, Followers
  <2>2. ASSUME NEW p \in {"top", "tidy", "observe"}, Contain(p, {}, {}) PROVE ModelInv'
    BY <2>2, ContainModel
  <2>3. CASE Send(Message("UpdateLimit", None)) /\ UNCHANGED healthVars /\ at' = "limit"
    BY <1>4, <2>3, TellModel DEF DrainLimit, healthVars, Followers
  <2> QED
    BY <1>4, <2>1, <2>2, <2>3 DEF DrainLimit, AwaitReply, Stay, Settle
<1>5. CASE DrainClear
  <2>1. CASE UNCHANGED workerVars /\ UNCHANGED healthVars /\ at' \in {"top", "tidy", "observe"}
    BY <1>5, <2>1, QuietModel DEF DrainClear, healthVars, Followers
  <2>2. ASSUME NEW p \in {"top", "tidy", "observe"}, Contain(p, {}, {}) PROVE ModelInv'
    BY <2>2, ContainModel
  <2>3. CASE Send(Message("ClearCache", None)) /\ UNCHANGED healthVars /\ at' = "clear"
    BY <1>5, <2>3, TellModel DEF DrainClear, healthVars, Followers
  <2> QED
    BY <1>5, <2>1, <2>2, <2>3 DEF DrainClear, AwaitReply, Stay, Settle
<1>6. CASE Observe
  BY <1>6, QuietModel DEF Observe, Stay, healthVars, Followers
<1>7. CASE ReadEvent
  BY <1>7, EventModel
<1>8. CASE ReadViolation
  BY <1>8, ViolationModel
<1>9. CASE ReadEnd
  <2>1. Reap /\ Trouble
    BY <1>9 DEF ReadEnd
  <2>2. CASE Uncontained
    BY <2>1, <2>2, StopModel DEF Trouble, Uncontained, Settle
  <2>3. CASE ~Uncontained
    BY <2>1, <2>3, TroubleIsContained, ContainModel
  <2> QED
    BY <2>2, <2>3
<1>10. CASE WaitTimesOut
  <2>1. ASSUME NEW p \in {"top", "tidy", "observe"}, NEW A, NEW B, Contain(p, A, B) PROVE ModelInv'
    BY <2>1, ContainModel
  <2> QED
    BY <1>10, <2>1 DEF WaitTimesOut
<1>11. CASE ReadCleared
  <2>1. at' \in {"top", "tidy", "observe"} /\ UNCHANGED healthVars /\ Talks /\ at = "clear"
    BY <1>11, TalkForms DEF ReadCleared, Settle
  <2> QED
    BY <2>1, CalmModel DEF healthVars, Followers, DispatchIsMatched
<1>12. CASE StartupDone
  BY <1>12, QuietModel DEF StartupDone, Stay, healthVars, Followers
<1>13. CASE ChooseModel
  <2>1. CASE UNCHANGED <<workerVars, healthVars>> /\ at' = "top"
    BY <1>13, <2>1, QuietModel DEF ChooseModel, healthVars, Followers
  <2>2. CASE NeedsNoSwap /\ UNCHANGED <<workerVars, healthVars, cur>> /\ at' = "dispatch"
    <3>1. Wants[cur] \in Catalog => readyModel = Wants[cur]
      BY <2>2 DEF NeedsNoSwap
    <3>2. DispatchIsMatched'
      BY <2>2, <3>1 DEF DispatchIsMatched, healthVars
    <3> QED
      BY <1>13, <2>2, <3>2, TalkForms, CalmModel DEF ChooseModel, healthVars, Followers
  <2>3. CASE Writable /\ AskForModel
    <3>1. Wants[cur] \in Models
      BY <1>13, LoopAssumption DEF ChooseModel, ControlInv, Posture, PositionIsSound, Starting
    <3>2. PICK m \in Models : m = Wants[cur]
      BY <3>1
    <3> QED
      BY <1>13, <2>3, <3>2, AskModel DEF ChooseModel, AskForModel, healthVars
  <2>4. CASE Contain("top", {cur}, {})
    BY <2>4, ContainModel
  <2> QED
    BY <1>13, <2>1, <2>2, <2>3, <2>4 DEF ChooseModel, Refuse, Stay, Settle
<1>14. CASE ReadSwapReply
  BY <1>14, SwapReplyModel
<1>15. CASE ReadSwapFailure
  BY <1>15, SwapFailureModel
<1>16. CASE Dispatch
  <2>1. CASE DropDisconnected \/ RejectStart
    BY <1>16, <2>1, QuietModel DEF Dispatch, DropDisconnected, RejectStart, Refuse, Settle, healthVars, Followers
  <2>2. CASE StartRequest
    BY <1>16, <2>2, StartModel DEF Dispatch
  <2>3. CASE FailStart
    BY <2>3, ContainModel DEF FailStart
  <2> QED
    BY <1>16, <2>1, <2>2, <2>3 DEF Dispatch
<1>17. CASE ReadCancelled
  <2>1. at' \in {"top", "cancel", "replace"} /\ UNCHANGED healthVars /\ Talks /\ at = "cancel"
    BY <1>17, TalkForms DEF ReadCancelled, Settle, Stay, loopVars
  <2> QED
    BY <2>1, CalmModel DEF healthVars, Followers, DispatchIsMatched
<1>18. CASE CancelFails
  <2>1. at' = "replace" /\ UNCHANGED healthVars /\ (Reap \/ UNCHANGED workerVars)
    BY <1>18 DEF CancelFails, Stay
  <2> QED
    BY <1>18, <2>1, StopModel, QuietModel DEF CancelFails, healthVars, Followers
<1>19. CASE ReplaceUncancelled
  BY <1>19, RelaunchModel DEF ReplaceUncancelled
<1>20. CASE ReadRecovery
  BY <1>20, AckModel DEF ReadRecovery, Settle, healthVars
<1>21. CASE RecoveryFails
  BY <1>21, RelaunchModel DEF RecoveryFails, ForceTerminate
<1>22. CASE CandidateAcknowledged
  BY <1>22, QuietModel DEF CandidateAcknowledged, Stay, healthVars, Followers
<1>23. CASE CandidateRejected
  BY <1>23, QuietModel DEF CandidateRejected, Settle, healthVars, Followers
<1>24. CASE CommitCandidate
  BY <1>24, CommitModel
<1>25. CASE StopTrusted
  BY <1>25, StopModel DEF StopTrusted, Stay
<1>26. CASE CloseTrustedFails
  BY <1>26, StopModel, DownModel DEF CloseTrustedFails, Settle, Followers
<1>27. CASE LaunchDemoted
  <2>1. ~isReady'
    BY <1>27 DEF LaunchDemoted, ControlInv, Posture, PositionIsSound
  <2> QED
    BY <1>27, <2>1, LaunchModel, DownModel DEF LaunchDemoted, Stay, Settle, Followers
<1>28. CASE ReadHandshake
  BY <1>28, AckModel DEF ReadHandshake, healthVars
<1>29. CASE HandshakeFails
  BY <1>29, StopModel DEF HandshakeFails, Settle
<1>30. CASE ReloadModel
  <2>1. CASE UNCHANGED workerVars /\ at' = "top"
    BY <1>30, <2>1, QuietModel DEF ReloadModel, healthVars, Followers
  <2>2. CASE cur # None /\ Writable /\ Send(Message("SwapModel", cur)) /\ at' = "restore" /\ UNCHANGED <<cur, staged>>
    <3>1. cur \in Models /\ staged = {}
      BY <1>30, <2>2, TypeParts DEF ReloadModel, ControlInv, Posture, PositionIsSound, NameTypes
    <3>2. PICK m \in Models : m = cur
      BY <3>1
    <3> QED
      BY <1>30, <2>2, <3>1, <3>2, AskModel DEF ReloadModel, healthVars
  <2> QED
    BY <1>30, <2>1, <2>2 DEF ReloadModel, Settle
<1>31. CASE CancelAbandoned
  <2>1. at' \in {"cancel", "replace"} /\ UNCHANGED healthVars /\ at \in {"select", "abandon"}
    BY <1>31 DEF CancelAbandoned, BeginCancel
  <2>2. active \in Requests
    BY <1>31, Holds, TypeParts, ProtocolAssumption DEF CancelAbandoned, ControlInv, ClientTypes
  <2>3. PICK c : c = Message("Cancel", active)
    OBVIOUS
  <2>4. c \in Commands /\ c \notin Swaps \cup Generates
    BY <2>2, <2>3, CommandTypes DEF Message, Swaps, Generates
  <2>5. Talks
    BY <1>31, <2>3, <2>4 DEF CancelAbandoned, SendCancel, Send, Talks, workerVars
  <2> QED
    BY <2>1, <2>5, CalmModel DEF healthVars, Followers, DispatchIsMatched
<1>32. CASE CancelBackpressured
  <2>1. at' \in {"cancel", "replace"} /\ UNCHANGED healthVars /\ at \in {"select", "abandon"}
    BY <1>32 DEF CancelBackpressured, BeginCancel
  <2>2. active \in Requests
    BY <1>32, Holds, TypeParts, ProtocolAssumption DEF CancelBackpressured, ControlInv, ClientTypes
  <2>3. PICK c : c = Message("Cancel", active)
    OBVIOUS
  <2>4. c \in Commands /\ c \notin Swaps \cup Generates
    BY <2>2, <2>3, CommandTypes DEF Message, Swaps, Generates
  <2>5. Talks
    BY <1>32, <2>3, <2>4 DEF CancelBackpressured, SendCancel, Send, Talks, workerVars
  <2> QED
    BY <2>1, <2>5, CalmModel DEF healthVars, Followers, DispatchIsMatched
<1>33. CASE CancelOverdue
  <2>1. at' \in {"cancel", "replace"} /\ UNCHANGED healthVars /\ at \in {"select", "abandon"}
    BY <1>33 DEF CancelOverdue, BeginCancel
  <2>2. active \in Requests
    BY <1>33, Holds, TypeParts, ProtocolAssumption DEF CancelOverdue, ControlInv, ClientTypes
  <2>3. PICK c : c = Message("Cancel", active)
    OBVIOUS
  <2>4. c \in Commands /\ c \notin Swaps \cup Generates
    BY <2>2, <2>3, CommandTypes DEF Message, Swaps, Generates
  <2>5. Talks
    BY <1>33, <2>3, <2>4 DEF CancelOverdue, SendCancel, Send, Talks, workerVars
  <2> QED
    BY <2>1, <2>5, CalmModel DEF healthVars, Followers, DispatchIsMatched
<1>34. CASE RelaunchContained
  BY <1>34, RelaunchModel DEF RelaunchContained
<1>35. CASE LoadDeadlinePasses
  BY <1>35, ContainModel DEF LoadDeadlinePasses
<1>36. CASE IdleTick
  BY <1>36, QuietModel DEF IdleTick, Settle, healthVars, Followers
<1>37. CASE UpdateLimit
  <2>1. CASE UNCHANGED workerVars /\ UNCHANGED healthVars /\ at' \in {"top", "tidy", "observe"}
    BY <1>37, <2>1, QuietModel DEF UpdateLimit, healthVars, Followers
  <2>2. ASSUME NEW p \in {"top", "tidy", "observe"}, Contain(p, {}, {}) PROVE ModelInv'
    BY <2>2, ContainModel
  <2>3. CASE Send(Message("UpdateLimit", None)) /\ UNCHANGED healthVars /\ at' = "limit"
    BY <1>37, <2>3, TellModel DEF UpdateLimit, healthVars, Followers
  <2> QED
    BY <1>37, <2>1, <2>2, <2>3 DEF UpdateLimit, AwaitReply, Stay, Settle
<1>38. CASE ClearPromptCache
  <2>1. CASE UNCHANGED workerVars /\ UNCHANGED healthVars /\ at' \in {"top", "tidy", "observe"}
    BY <1>38, <2>1, QuietModel DEF ClearPromptCache, healthVars, Followers
  <2>2. ASSUME NEW p \in {"top", "tidy", "observe"}, Contain(p, {}, {}) PROVE ModelInv'
    BY <2>2, ContainModel
  <2>3. CASE Send(Message("ClearCache", None)) /\ UNCHANGED healthVars /\ at' = "clear"
    BY <1>38, <2>3, TellModel DEF ClearPromptCache, healthVars, Followers
  <2> QED
    BY <1>38, <2>1, <2>2, <2>3 DEF ClearPromptCache, AwaitReply, Stay, Settle
<1>39. CASE RestartWorker
  BY <1>39, QuietModel DEF RestartWorker, Stay, Settle, healthVars, Followers
<1>40. CASE DemoteWorker
  <2>1. CASE UNCHANGED workerVars /\ ~isReady' /\ at' = "stop"
    BY <2>1, DownModel DEF Followers
  <2>2. CASE UNCHANGED workerVars /\ UNCHANGED healthVars /\ at' = "top"
    BY <1>40, <2>2, QuietModel DEF DemoteWorker, healthVars, Followers
  <2> QED
    BY <1>40, <2>1, <2>2 DEF DemoteWorker, Settle
<1>41. CASE Shutdown
  <2>1. at' = "exited" /\ (Reap \/ UNCHANGED workerVars)
    BY <1>41 DEF Shutdown, Settle, ForceTerminate
  <2> QED
    BY <2>1, StopModel, DownModel DEF Followers
<1>42. ASSUME NEW r \in Requests, Submit(r) PROVE ModelInv'
  BY <1>42, StillModel DEF Submit
<1>43. ASSUME NEW r \in Requests, SendRequest(r) PROVE ModelInv'
  BY <1>43, StillModel DEF SendRequest
<1>44. ASSUME NEW r \in Requests, HangUp(r) PROVE ModelInv'
  BY <1>44, StillModel DEF HangUp
<1>45. ASSUME NEW r \in Requests, TakeRequest(r) PROVE ModelInv'
  BY <1>45, QuietModel DEF TakeRequest, Settle, healthVars, Followers
<1>46. CASE UNCHANGED vars
  BY <1>46, StillModel DEF vars
<1> QED
  BY <1>1, <1>2, <1>3, <1>4, <1>5, <1>6, <1>7, <1>8, <1>9, <1>10, <1>11, <1>12, <1>13, <1>14,
      <1>15, <1>16, <1>17, <1>18, <1>19, <1>20, <1>21, <1>22, <1>23, <1>24, <1>25, <1>26,
      <1>27, <1>28, <1>29, <1>30, <1>31, <1>32, <1>33, <1>34, <1>35, <1>36, <1>37, <1>38,
      <1>39, <1>40, <1>41, <1>42, <1>43, <1>44, <1>45, <1>46
      DEF Next, Worker, Steps, Arms, Client

\* The model invariant holds throughout.
LEMMA ModelInductive == ASSUME "slowLoad" \notin Faults PROVE Spec => []ModelInv
<1>1. Init => ModelInv
  BY ModelInit
<1>2. ControlInv /\ PipeInv /\ ModelInv /\ [Next]_vars => ModelInv'
  BY ModelNext
<1>3. Spec => [](ControlInv /\ PipeInv)
  BY LoopInductive
<1> QED
  BY <1>1, <1>2, <1>3, PTL DEF Spec

(***************************************************************************)
(* A request that names a model of the catalog is only ever served by that *)
(* model, unless a restoration gives up a load that then goes on: the swap *)
(* it leaves in the pipe changes the model behind the published one.       *)
(* (ensure_requested_model_loaded)                                         *)
(***************************************************************************)
THEOREM RequestsFindTheirModel == ASSUME "slowLoad" \notin Faults PROVE Spec => []ServedByItsModel
<1>1. ModelInv => ServedByItsModel
  BY DEF ModelInv, GenerateIsMatched, Finds, ServedByItsModel
<1> QED
  BY <1>1, ModelInductive, PTL

(***************************************************************************)
(* The model the health snapshot publishes is the model the worker holds,  *)
(* through failed loads, replacements and demotions, under the same        *)
(* condition (publish_staged_model_swap, reject_model_swap).               *)
(***************************************************************************)
THEOREM PublishedModelIsHeld == ASSUME "slowLoad" \notin Faults PROVE Spec => []PublishedModelIsLoaded
<1>1. ModelInv => PublishedModelIsLoaded
  BY DEF ModelInv, ModelIsPublished, Published, PublishedModelIsLoaded, Normal
<1> QED
  BY <1>1, ModelInductive, PTL

-----------------------------------------------------------------------------
(***************************************************************************)
(* What the worker may say at each position of the loop                    *)
(***************************************************************************)

Updates == {c \in Commands : c.type = "UpdateLimit"}
Clears == {c \in Commands : c.type = "ClearCache"}
LimitWords == {e \in Events : e.type \in LimitReplies}
Cleareds == {e \in Events : e.type = "Cleared"}
Swappeds == {e \in Events : e.type = "Swapped"}
Configs == {e \in Events : e.type = "Config"}
LoadFailures == {e \in Events : e.type \in {"SwapFailed", "ModelLost"}}

\* The commands and replies about another model than t.
OtherSwaps(t) == {c \in Swaps : c.of # t}
OtherWords(t) == {e \in Events : e.type \in {"Swapped", "Config"} /\ e.of # t}

\* The events about the course of an image or embeddings request.
Outcomes == {e \in RequestEvents : e.type = "Ended"}
Reports == {e \in RequestEvents : e.type \in {"Progress", "Ended"}}
Finals == {e \in RequestEvents : e.type = "Released"}

\* Neither a command of C nor a reply of E is under way, or one at most.
Quiet(cs, es, C, E) == Free(cs, C) /\ Free(es, E)

One(cs, es, C, E) ==
    /\ NoneAfter(cs, C, C) /\ NoneAfter(es, E, E)
    /\ Free(cs, C) \/ Free(es, E)

\* A ceiling update and a cache clear are under way only where they are awaited.
LimitsAreAwaited ==
    IF at = "limit" THEN One(commands, events, Updates, LimitWords)
    ELSE Quiet(commands, events, Updates, LimitWords)

ClearsAreAwaited ==
    IF at = "clear" THEN One(commands, events, Clears, Cleareds)
    ELSE Quiet(commands, events, Clears, Cleareds)

\* A swap is asked for and acknowledged once, by two replies.
SwapAwaited(t) ==
    /\ One(commands, events, Swaps, Swappeds) /\ One(commands, events, Swaps, Configs)
    /\ Quiet(commands, events, OtherSwaps(t), OtherWords(t))
    /\ "Swapped" \in staged => Quiet(commands, events, Swaps, Swappeds)
    /\ "Config" \in staged => Quiet(commands, events, Swaps, Configs)

SwapsAreAwaited ==
    IF Swapping THEN SwapAwaited(Target) ELSE Quiet(commands, events, Swaps, Swappeds)

\* Another configuration is that of a worker that greets, and not known yet.
ConfigIsNews ==
    /\ config = NoConfig /\ readyModel = None
    /\ NoneAfter(events, Configs, Configs) /\ Free(events, OtherWords(None))

ConfigsAreKnown == ~Swapping => Free(events, Configs) \/ ConfigIsNews

\* A worker that has yet to greet is not ready, and was not asked for anything.
GreetingIsOpen ==
    /\ Free(events, Idles) \/ (~isReady /\ ~startupApplied)
    /\ at \in {"recover", "handshake"} =>
          /\ "Idle" \in staged => Free(events, Idles)
          /\ "Config" \in staged => Free(events, Configs)

LoadsSucceed == Free(events, LoadFailures)

\* A request is started, and a swap asked for, when the configuration is known.
StartIsConfigured ==
    /\ isReady /\ startupApplied /\ at # "exited" => config # NoConfig
    /\ at \in {"choose", "swap", "dispatch", "abandon", "cancel", "replace"} \/ active # None => startupApplied
    /\ at \in {"reload", "restore"} => config # NoConfig
    /\ Swapping => expects
    /\ at \in {"stop", "launch", "recover", "handshake"} => config = NoConfig /\ readyModel = None

\* The events a request of its kind may have.
Fits(e) ==
    IF Kind[e.of] = "chat" THEN e.type \in {"Output", "Finalized", "Completed", "Failed"}
    ELSE e.type \in {"Progress", "Ended", "Released"}

Misfits(r) == {e \in RequestEvents : e.of # r \/ ~Fits(e)}

\* The events are about r, fit its kind, and stop with its end.
Only(r) ==
    /\ Free(events, Misfits(r))
    /\ NoneAfter(events, Endings, RequestEvents)

\* An outcome comes once, after all progress, and before the finalization.
Ordered ==
    /\ NoneAfter(events, Outcomes, Reports)
    /\ ended => Free(events, Reports)
    /\ (Free(events, Outcomes) /\ ~ended) \/ (serving = None /\ Free(commands, Generates))
    /\ ended \/ Free(events, Finals) \/ ~Free(events, Outcomes)

RequestsAreKept ==
    /\ active = None /\ at \notin {"cancel", "replace"} => Free(events, RequestEvents)
    /\ active # None => Only(active) /\ Ordered
    /\ at = "cancel" => Only(cur)

Words ==
    /\ LimitsAreAwaited /\ ClearsAreAwaited /\ SwapsAreAwaited
    /\ ConfigsAreKnown /\ GreetingIsOpen /\ LoadsSucceed /\ RequestsAreKept

TalkInv == StartIsConfigured /\ Words

\* The messages these sets are made of.
LEMMA WordSets ==
    /\ \A e \in Events : /\ e \in LimitWords <=> e.type \in LimitReplies
                         /\ e \in Cleareds <=> e.type = "Cleared"
                         /\ e \in Swappeds <=> e.type = "Swapped"
                         /\ e \in Configs <=> e.type = "Config"
                         /\ e \in LoadFailures <=> e.type \in {"SwapFailed", "ModelLost"}
                         /\ e \in Outcomes <=> e.type = "Ended"
                         /\ e \in Reports <=> e.type \in {"Progress", "Ended"}
                         /\ e \in Finals <=> e.type = "Released"
                         /\ e \in Endings <=> e.type \in {"Completed", "Failed", "Released"}
                         /\ e \in Idles <=> e.type = "Idle"
    /\ Outcomes \subseteq Reports /\ Reports \subseteq RequestEvents
    /\ Finals \subseteq Endings /\ Endings \subseteq RequestEvents
    /\ RequestEvents \subseteq Events
    /\ \A r : Misfits(r) \subseteq RequestEvents
    /\ \A c \in Commands : /\ c \in Updates <=> c.type = "UpdateLimit"
                           /\ c \in Clears <=> c.type = "ClearCache"
                           /\ c \in Swaps <=> c.type = "SwapModel"
                           /\ c \in Generates <=> c.type = "Generate"
<1>1. /\ \A e \in Events : /\ e \in LimitWords <=> e.type \in LimitReplies
                           /\ e \in Cleareds <=> e.type = "Cleared"
                           /\ e \in Swappeds <=> e.type = "Swapped"
                           /\ e \in Configs <=> e.type = "Config"
                           /\ e \in LoadFailures <=> e.type \in {"SwapFailed", "ModelLost"}
                           /\ e \in Idles <=> e.type = "Idle"
  BY DEF LimitWords, Cleareds, Swappeds, Configs, LoadFailures, Idles
<1>2. RequestEvents \subseteq Events
  BY DEF Events
<1>3. ASSUME NEW e \in Events
      PROVE  /\ e \in Outcomes <=> e.type = "Ended"
             /\ e \in Reports <=> e.type \in {"Progress", "Ended"}
             /\ e \in Finals <=> e.type = "Released"
             /\ e \in Endings <=> e.type \in {"Completed", "Failed", "Released"}
  <2>1. e.type \in {"Progress", "Ended", "Released", "Completed", "Failed"} => e \in RequestEvents
    BY DEF Events, RequestEvents
  <2> QED
    BY <2>1 DEF Outcomes, Reports, Finals, Endings, EndsRequest
<1>4. /\ Outcomes \subseteq Reports /\ Reports \subseteq RequestEvents
      /\ Finals \subseteq Endings /\ Endings \subseteq RequestEvents
      /\ \A r : Misfits(r) \subseteq RequestEvents
  BY DEF Outcomes, Reports, Finals, Endings, EndsRequest, Misfits
<1>5. \A c \in Commands : /\ c \in Updates <=> c.type = "UpdateLimit"
                          /\ c \in Clears <=> c.type = "ClearCache"
                          /\ c \in Swaps <=> c.type = "SwapModel"
                          /\ c \in Generates <=> c.type = "Generate"
  BY DEF Updates, Clears, Swaps, Generates
<1> QED
  BY <1>1, <1>2, <1>3, <1>4, <1>5

\* t holds no more of C than s does, and in no other order.
NoMore(t, s, C) == (Free(s, C) => Free(t, C)) /\ (NoneAfter(s, C, C) => NoneAfter(t, C, C))

\* The ways a pipe changes without gaining anything of C.
LEMMA LessPipe ==
    ASSUME NEW T, NEW s \in Seq(T), NEW C
    PROVE  /\ NoMore(s, s, C) /\ NoMore(<< >>, s, C)
           /\ s # << >> => NoMore(Tail(s), s, C)
           /\ \A c \in T : c \notin C => NoMore(Append(s, c), s, C)
           /\ \A u \in Seq(T) : Free(u, C) => NoMore(s \o u, s, C)
           /\ \A k \in 0..Len(s) : NoMore(SubSeq(s, 1, k), s, C)
<1>1. NoMore(s, s, C) /\ NoMore(<< >>, s, C)
  BY EmptyPipe DEF NoMore
<1>2. ASSUME s # << >> PROVE NoMore(Tail(s), s, C)
  BY <1>2, ReadPipe DEF NoMore, Free
<1>3. ASSUME NEW c \in T, c \notin C PROVE NoMore(Append(s, c), s, C)
  BY <1>3, WrittenPipe DEF NoMore, Free
<1>4. ASSUME NEW u \in Seq(T), Free(u, C) PROVE NoMore(s \o u, s, C)
  <2>1. NoneAfter(u, C, C)
    BY <1>4 DEF NoneAfter, Free, Says
  <2> QED
    BY <1>4, <2>1, ExtendedPipe DEF NoMore, Free
<1>5. ASSUME NEW k \in 0..Len(s) PROVE NoMore(SubSeq(s, 1, k), s, C)
  BY <1>5, CutPipe, FirstPart DEF NoMore, Free
<1> QED
  BY <1>1, <1>2, <1>3, <1>4, <1>5

\* What a pair of pipes keeps when neither gains anything.
LEMMA PairKept ==
    ASSUME NEW cs, NEW es, NEW cs2, NEW es2, NEW C, NEW E, NoMore(cs2, cs, C), NoMore(es2, es, E)
    PROVE  /\ Quiet(cs, es, C, E) => Quiet(cs2, es2, C, E)
           /\ One(cs, es, C, E) => One(cs2, es2, C, E)
BY DEF Quiet, One, NoMore

\* Nothing under way is at most one thing.
LEMMA QuietIsOne ==
    ASSUME NEW cs, NEW es, NEW C, NEW E, Quiet(cs, es, C, E)
    PROVE  One(cs, es, C, E)
BY DEF Quiet, One, Free, NoneAfter, Says

\* A command is written when nothing is under way.
LEMMA PairAsked ==
    ASSUME NEW cs \in Seq(Commands), NEW es, NEW C, NEW E, NEW c \in Commands, Quiet(cs, es, C, E)
    PROVE  One(Append(cs, c), es, C, E)
<1>1. One(cs, es, C, E)
  BY QuietIsOne
<1> QED
  BY <1>1, WrittenPipe DEF One, Quiet

\* The worker reads a command and adds the events u: a reply of E answers a
\* command of C.
LEMMA PairAnswered ==
    ASSUME NEW cs \in Seq(Commands), cs # << >>, NEW es \in Seq(Events), NEW u \in Seq(Events), NEW C, NEW E,
           (Head(cs) \in C /\ NoneAfter(u, E, E)) \/ Free(u, E)
    PROVE  /\ Quiet(cs, es, C, E) => Quiet(Tail(cs), es \o u, C, E)
           /\ One(cs, es, C, E) => One(Tail(cs), es \o u, C, E)
<1>1. NoMore(Tail(cs), cs, C) /\ Head(cs) \in Says(cs)
  BY LessPipe, ReadPipe
<1>2. CASE Free(u, E)
  <2>1. NoMore(es \o u, es, E)
    BY <1>2, LessPipe
  <2> QED
    BY <1>1, <2>1, PairKept
<1>3. CASE Head(cs) \in C /\ NoneAfter(u, E, E)
  <2>1. ~Free(cs, C)
    BY <1>1, <1>3 DEF Free
  <2>2. ASSUME One(cs, es, C, E) PROVE One(Tail(cs), es \o u, C, E)
    <3>1. Free(Tail(cs), C) /\ Free(es, E) /\ NoneAfter(es, E, E) /\ NoneAfter(Tail(cs), C, C)
      BY <1>1, <1>3, <2>1, <2>2, ReadPipe DEF One, NoMore
    <3>2. NoneAfter(es \o u, E, E)
      BY <1>3, <3>1, ExtendedPipe
    <3> QED
      BY <3>1, <3>2 DEF One
  <2> QED
    BY <2>1, <2>2 DEF Quiet
<1> QED
  BY <1>2, <1>3

\* The awaited reply is read: nothing is under way any more.
LEMMA PairHeard ==
    ASSUME NEW cs, NEW es \in Seq(Events), es # << >>, NEW C, NEW E, One(cs, es, C, E), Head(es) \in E
    PROVE  Quiet(cs, Tail(es), C, E)
<1>1. Free(Tail(es), E) /\ Head(es) \in Says(es)
  BY ReadPipe DEF One
<1> QED
  BY <1>1 DEF One, Quiet, Free

\* The invariant says that no event is taken for a violation.
LEMMA TalkIsKept == ASSUME ControlInv, TalkInv PROVE WellBehavedWorkerKept
<1> SUFFICES ASSUME events # << >>, NEW e, e = Head(events)
             PROVE  /\ Pumping => IF Claimed(e) THEN ~Mismatched(e) ELSE ~Violates(e)
                    /\ at = "cancel" /\ Kind[cur] # "embeddings" => Acknowledges(e) \/ Drained(e)
  BY DEF WellBehavedWorkerKept
<1>1. e \in Events /\ e \in Says(events) /\ events \in Seq(Events)
  BY Holds, FirstMessage, ReadPipe
<1>2. \A S : Free(events, S) => e \notin S
  BY <1>1 DEF Free
<1>3. e.type = "Idle" => ~isReady /\ ~startupApplied /\ active = None
  BY <1>1, <1>2, WordSets, Holds DEF TalkInv, Words, GreetingIsOpen
<1>4. ~Swapping /\ e.type = "Config" => config = NoConfig /\ readyModel = None /\ e.of = None
  <2> SUFFICES ASSUME ~Swapping, e.type = "Config" PROVE ConfigIsNews /\ e.of = None
    BY DEF ConfigIsNews
  <2>1. ConfigIsNews
    BY <1>1, <1>2, WordSets DEF TalkInv, Words, ConfigsAreKnown
  <2> QED
    BY <1>1, <1>2, <2>1 DEF ConfigIsNews, OtherWords
<1>5. e.type \notin {"SwapFailed", "ModelLost"}
  BY <1>1, <1>2, WordSets DEF TalkInv, Words, LoadsSucceed
<1>6. e.type = "Swapped" => Swapping
  BY <1>1, <1>2, WordSets DEF TalkInv, Words, SwapsAreAwaited, Quiet
<1>7. e.type = "Cleared" => at = "clear"
  BY <1>1, <1>2, WordSets DEF TalkInv, Words, ClearsAreAwaited, Quiet
<1>8. e.type \in LimitReplies => at = "limit"
  BY <1>1, <1>2, WordSets DEF TalkInv, Words, LimitsAreAwaited, Quiet
<1>9. ASSUME Swapping, e.type \in {"Swapped", "Config"} PROVE e.of = Target /\ e.type \notin staged
  <2>1. PICK t : t = Target
    OBVIOUS
  <2>2. SwapAwaited(t)
    BY <1>9, <2>1 DEF TalkInv, Words, SwapsAreAwaited
  <2>3. e \notin OtherWords(t)
    BY <1>2, <2>2 DEF SwapAwaited, Quiet
  <2>4. e.type \notin staged
    BY <1>1, <1>2, <1>9, <2>2, WordSets DEF SwapAwaited, Quiet
  <2> QED
    BY <1>1, <1>9, <2>1, <2>3, <2>4 DEF OtherWords
<1>10. ASSUME Pumping PROVE IF Claimed(e) THEN ~Mismatched(e) ELSE ~Violates(e)
  <2>1. CASE Claimed(e)
    BY <1>9, <2>1 DEF Claimed, Mismatched
  <2>2. CASE ~Claimed(e)
    <3>1. Swapping => expects
      BY DEF TalkInv, StartIsConfigured
    <3>2. e.type = "Config" => ~Swapping
      BY <2>2, <3>1 DEF Claimed
    <3>3. e.type \notin {"Swapped", "Cleared"}
      BY <1>6, <1>7, <2>2 DEF Claimed
    <3>4. at \notin {"cancel", "replace"}
      BY <1>10 DEF Pumping
    <3>5. ASSUME e \in RequestEvents
          PROVE  /\ active # None /\ e.of = active
                 /\ e.type \in {"Progress", "Ended"} => ~ended
                 /\ e.type = "Released" => ended
      <4>1. active # None
        BY <1>2, <3>4, <3>5 DEF TalkInv, Words, RequestsAreKept
      <4>2. PICK r : r = active
        OBVIOUS
      <4>3. Only(r) /\ Ordered
        BY <4>1, <4>2 DEF TalkInv, Words, RequestsAreKept
      <4>4. e.of = r
        BY <1>2, <3>5, <4>3 DEF Only, Misfits
      <4>5. e.type \in {"Progress", "Ended"} => ~ended
        BY <1>1, <1>2, <4>3, WordSets DEF Ordered
      <4>6. ASSUME e.type = "Released", ~ended PROVE FALSE
        <5>1. e \in Finals /\ e \in Endings /\ e \notin Outcomes
          BY <1>1, <4>6, WordSets
        <5>2. Free(Tail(events), RequestEvents) /\ Says(events) = Says(Tail(events)) \cup {e}
          BY <1>1, <4>3, <5>1, ReadPipe DEF Only
        <5>3. Free(events, Outcomes)
          BY <5>1, <5>2, WordSets DEF Free
        <5> QED
          BY <1>2, <4>3, <4>6, <5>1, <5>3 DEF Ordered
      <4> QED
        BY <4>1, <4>2, <4>4, <4>5, <4>6
    <3>6. e.type \in {"Progress", "Ended", "Released"} => e \in RequestEvents
      BY <1>1, WordSets
    <3> QED
      BY <1>3, <1>4, <1>5, <2>2, <3>2, <3>3, <3>5, <3>6 DEF Violates
  <2> QED
    BY <2>1, <2>2
<1>11. ASSUME at = "cancel", Kind[cur] # "embeddings" PROVE Acknowledges(e) \/ Drained(e)
  <2>1. isReady /\ startupApplied /\ config # NoConfig /\ cur \in Requests
    BY <1>11, Holds DEF TalkInv, StartIsConfigured
  <2>2. ~Swapping
    BY <1>11 DEF Swapping
  <2>3. e.type \notin {"Idle", "Config", "SwapFailed", "ModelLost", "Swapped", "Cleared"}
    BY <1>3, <1>4, <1>5, <1>6, <1>7, <1>11, <2>1, <2>2
  <2>4. e \in RequestEvents
    BY <1>1, <1>8, <1>11, <2>3 DEF Events, LimitReplies
  <2>5. PICK r : r = cur
    OBVIOUS
  <2>6. Only(r)
    BY <1>11, <2>5 DEF TalkInv, Words, RequestsAreKept
  <2>7. e.of = r /\ Fits(e)
    BY <1>2, <2>4, <2>6 DEF Only, Misfits
  <2>8. Kind[r] \in {"chat", "image"}
    BY <1>11, <2>1, <2>5, ProtocolAssumption DEF Kinds
  <2> QED
    BY <2>5, <2>7, <2>8 DEF Fits, Acknowledges, Drained
<1> QED
  BY <1>10, <1>11

\* A worker that has something to say is trusted, where kills work.
LEMMA HeardIsTrusted ==
    ASSUME ControlInv, KillIsFinal, events # << >> \/ proc = "up"
    PROVE  status # "Unavailable" /\ at # "exited"
<1>1. proc # "reaped"
  BY DEF ControlInv, DeadIsSilent
<1> QED
  BY <1>1 DEF KillIsFinal, ControlInv, Posture, PositionIsSound

\* Nothing is said of what was not asked for: what an answer holds.
Utters(c, u) ==
    /\ c \in Updates \/ Free(u, LimitWords)
    /\ c \in Clears \/ Free(u, Cleareds)
    /\ c \in Swaps \/ Free(u, Swappeds \cup Configs)
    /\ \A t : c \in OtherSwaps(t) \/ c \notin Swaps \/ Free(u, OtherWords(t))
    /\ NoneAfter(u, LimitWords, LimitWords) /\ NoneAfter(u, Cleareds, Cleareds)
    /\ NoneAfter(u, Swappeds, Swappeds) /\ NoneAfter(u, Configs, Configs)
    /\ Free(u, LoadFailures) /\ Free(u, Idles)

\* One message, or two.
LEMMA ShortPipes ==
    ASSUME NEW e, NEW f
    PROVE  /\ Says(<<e>>) = {e} /\ Says(<<e, f>>) = {e, f}
           /\ \A R, S : NoneAfter(<<e>>, R, S)
           /\ \A R, S : e \notin R \/ f \notin S => NoneAfter(<<e, f>>, R, S)
<1>1. Len(<<e>>) = 1 /\ <<e>>[1] = e
  OBVIOUS
<1>2. Len(<<e, f>>) = 2 /\ <<e, f>>[1] = e /\ <<e, f>>[2] = f
  OBVIOUS
<1>3. PICK s, t : s = <<e>> /\ t = <<e, f>>
  OBVIOUS
<1>4. Says(s) = {e} /\ \A R, S : NoneAfter(s, R, S)
  BY <1>1, <1>3 DEF Says, NoneAfter
<1>5. Says(t) = {e, f} /\ \A R, S : e \notin R \/ f \notin S => NoneAfter(t, R, S)
  <2>1. Len(t) = 2 /\ t[1] = e /\ t[2] = f
    BY <1>2, <1>3
  <2>2. Says(t) = {e, f}
    BY <2>1 DEF Says
  <2>3. ASSUME NEW R, NEW S, e \notin R \/ f \notin S, NEW i \in 1..Len(t), NEW j \in 1..Len(t), i < j, t[i] \in R
        PROVE  t[j] \notin S
    <3>1. i = 1 /\ j = 2
      BY <2>1, <2>3
    <3> QED
      BY <2>1, <2>3, <3>1
  <2> QED
    BY <2>2, <2>3 DEF NoneAfter
<1> QED
  BY <1>3, <1>4, <1>5

\* The sets of events that are not about a request have nothing in common with
\* those that are.
LEMMA OtherEvents ==
    ASSUME NEW u, \A e \in Says(u) : e \in RequestEvents
    PROVE  /\ Free(u, LimitWords) /\ Free(u, Cleareds) /\ Free(u, Swappeds \cup Configs) /\ Free(u, LoadFailures)
           /\ Free(u, Idles) /\ \A t : Free(u, OtherWords(t))
<1>1. \A e \in RequestEvents : e.type \in {"Output", "Finalized", "Completed", "Failed", "Progress", "Ended", "Released"}
  BY DEF RequestEvents
<1> QED
  BY <1>1 DEF Free, LimitWords, LimitReplies, Cleareds, Swappeds, Configs, LoadFailures, Idles, OtherWords

\* The events u are a part of the conversation about r.
Speaks(u, r) ==
    /\ \A e \in Says(u) : e \in RequestEvents
    /\ Free(u, Misfits(r))
    /\ NoneAfter(u, Endings, RequestEvents) /\ NoneAfter(u, Outcomes, Reports)
    /\ Free(u, Finals) \/ ~Free(u, Outcomes)

\* What is said of a request.
LEMMA SpokenOf ==
    ASSUME NEW r \in Requests
    PROVE  /\ Speaks(Ending(r), r) /\ Speaks(Failure(r), r) /\ Speaks(<<Progress(r)>>, r) /\ Speaks(<< >>, r)
           /\ Kind[r] = "chat" => Speaks(<<Message("Completed", r)>>, r)
<1>1. ASSUME NEW t \in {"Output", "Finalized", "Completed", "Failed", "Progress", "Ended", "Released"}
      PROVE  /\ Message(t, r) \in RequestEvents /\ Message(t, r).type = t /\ Message(t, r).of = r
             /\ Message(t, r) \in Events
             /\ (IF Kind[r] = "chat" THEN t \in {"Output", "Finalized", "Completed", "Failed"}
                 ELSE t \in {"Progress", "Ended", "Released"}) => Message(t, r) \notin Misfits(r)
  <2>1. Message(t, r) \in RequestEvents /\ Message(t, r).type = t /\ Message(t, r).of = r
    BY DEF Message, RequestEvents
  <2>2. (IF Kind[r] = "chat" THEN t \in {"Output", "Finalized", "Completed", "Failed"}
         ELSE t \in {"Progress", "Ended", "Released"}) => Fits(Message(t, r))
    BY <2>1 DEF Fits
  <2> QED
    BY <2>1, <2>2, WordSets DEF Misfits
<1>2. ASSUME NEW t \in {"Output", "Completed", "Failed", "Progress"},
             t \in {"Output", "Completed", "Failed"} <=> Kind[r] = "chat"
      PROVE  Speaks(<<Message(t, r)>>, r)
  <2>1. PICK e : e = Message(t, r)
    OBVIOUS
  <2>2. e \in RequestEvents /\ e \in Events /\ e.type = t /\ e \notin Misfits(r)
    BY <1>1, <1>2, <2>1
  <2>3. e \notin Finals
    BY <2>2, WordSets
  <2>4. PICK u : u = <<e>> /\ Says(u) = {e} /\ \A R, S : NoneAfter(u, R, S)
    BY ShortPipes
  <2>5. Speaks(u, r)
    BY <2>2, <2>3, <2>4 DEF Speaks, Free
  <2> QED
    BY <2>1, <2>4, <2>5
<1>3. ASSUME Kind[r] = "chat" PROVE Speaks(<<Message("Finalized", r), Message("Completed", r)>>, r)
  <2>1. PICK e, f : e = Message("Finalized", r) /\ f = Message("Completed", r)
    OBVIOUS
  <2>2. /\ e \in RequestEvents /\ e \in Events /\ e.type = "Finalized" /\ e \notin Misfits(r)
        /\ f \in RequestEvents /\ f \in Events /\ f.type = "Completed" /\ f \notin Misfits(r)
    BY <1>1, <1>3, <2>1
  <2>3. e \notin Finals /\ f \notin Finals /\ e \notin Endings /\ e \notin Outcomes
    BY <2>2, WordSets
  <2>4. PICK u : /\ u = <<e, f>> /\ Says(u) = {e, f}
                 /\ \A R, S : e \notin R \/ f \notin S => NoneAfter(u, R, S)
    BY ShortPipes
  <2>5. Speaks(u, r)
    BY <2>2, <2>3, <2>4 DEF Speaks, Free
  <2> QED
    BY <2>1, <2>4, <2>5
<1>4. ASSUME Kind[r] # "chat" PROVE Speaks(<<Message("Ended", r), Message("Released", r)>>, r)
  <2>1. PICK e, f : e = Message("Ended", r) /\ f = Message("Released", r)
    OBVIOUS
  <2>2. /\ e \in RequestEvents /\ e \in Events /\ e.type = "Ended" /\ e \notin Misfits(r)
        /\ f \in RequestEvents /\ f \in Events /\ f.type = "Released" /\ f \notin Misfits(r)
    BY <1>1, <1>4, <2>1
  <2>3. e \notin Endings /\ e \in Outcomes /\ f \notin Reports
    BY <2>2, WordSets
  <2>4. PICK u : /\ u = <<e, f>> /\ Says(u) = {e, f}
                 /\ \A R, S : e \notin R \/ f \notin S => NoneAfter(u, R, S)
    BY ShortPipes
  <2>5. Speaks(u, r)
    BY <2>2, <2>3, <2>4 DEF Speaks, Free
  <2> QED
    BY <2>1, <2>4, <2>5
<1>5. Speaks(<< >>, r)
  BY EmptyPipe DEF Speaks
<1>6. Speaks(Ending(r), r) /\ Speaks(Failure(r), r)
  BY <1>2, <1>3, <1>4 DEF Ending, Failure
<1>7. Speaks(<<Progress(r)>>, r)
  BY <1>2 DEF Progress
<1> QED
  BY <1>2, <1>5, <1>6, <1>7

\* What is said of a request is said of nothing else.
LEMMA SpeechUtters ==
    ASSUME NEW u, NEW r, NEW c, Speaks(u, r)
    PROVE  Utters(c, u)
<1>1. /\ Free(u, LimitWords) /\ Free(u, Cleareds) /\ Free(u, Swappeds \cup Configs) /\ Free(u, LoadFailures)
      /\ Free(u, Idles) /\ \A t : Free(u, OtherWords(t))
  BY OtherEvents DEF Speaks
<1>2. Free(u, Swappeds) /\ Free(u, Configs)
  BY <1>1 DEF Free
<1>3. \A C : Free(u, C) => NoneAfter(u, C, C)
  BY DEF Free, NoneAfter, Says
<1> QED
  BY <1>1, <1>2, <1>3 DEF Utters

\* What the worker says when it starts a request.
LEMMA StartSpeaks ==
    ASSUME NEW r \in Requests, NEW m, NEW x \in Starts(r, m)
    PROVE  /\ Speaks(x.emit, r) /\ x.lives
           /\ x.serves = None \/ Free(x.emit, Outcomes)
<1>1. Kind[r] \in {"chat", "image", "embeddings"}
  BY ProtocolAssumption DEF Kinds
<1>2. \/ x = Answer(Failure(r), None, m, TRUE)
      \/ x = Answer(Ending(r), None, m, TRUE)
      \/ x = Answer(<< >>, r, m, TRUE)
      \/ x = Answer(<<Message("Completed", r)>>, None, m, TRUE) /\ Kind[r] = "chat"
  BY <1>1 DEF Starts
<1>3. \/ Replies(x, Failure(r), None, m) \/ Replies(x, Ending(r), None, m)
      \/ Replies(x, << >>, r, m)
      \/ Replies(x, <<Message("Completed", r)>>, None, m) /\ Kind[r] = "chat"
  BY <1>2 DEF Answer, Replies
<1> QED
  BY <1>3, SpokenOf, EmptyPipe DEF Replies

\* What it says when it goes on with one.
LEMMA AdvanceSpeaks ==
    ASSUME NEW r \in Requests, NEW m, NEW x \in Advances(r, m)
    PROVE  Speaks(x.emit, r) /\ (x.serves = None \/ (x.serves = r /\ Free(x.emit, Outcomes)))
<1>1. Free(<<Progress(r)>>, Outcomes)
  <2>1. PICK e : e = Progress(r)
    OBVIOUS
  <2>2. e.type # "Ended"
    BY <2>1 DEF Progress, Message
  <2>3. PICK u : u = <<e>> /\ Says(u) = {e}
    BY ShortPipes
  <2>4. Free(u, Outcomes)
    BY <2>2, <2>3 DEF Free, Outcomes
  <2> QED
    BY <2>1, <2>3, <2>4
<1> QED
  BY <1>1, AdvanceForms, SpokenOf DEF AdvanceForm, Replies, Dies

\* The plain replies answer their commands.
LEMMA PlainUtters ==
    ASSUME NEW c, NEW t \in PlainReplies, t \in LimitReplies => c \in Updates, t = "Cleared" => c \in Clears
    PROVE  Utters(c, <<Message(t, None)>>) /\ Free(<<Message(t, None)>>, RequestEvents)
<1>1. PICK e : e = Message(t, None)
  OBVIOUS
<1>2. e.type = t /\ t \in {"LimitChanged", "LimitRejected", "RestartRequired", "Cleared"}
  BY <1>1 DEF Message, PlainReplies
<1>3. /\ t \notin LimitReplies => e \notin LimitWords
      /\ t # "Cleared" => e \notin Cleareds
      /\ e \notin Swappeds \cup Configs /\ e \notin LoadFailures /\ e \notin Idles /\ e \notin RequestEvents
      /\ \A y : e \notin OtherWords(y)
  BY <1>2 DEF LimitWords, Cleareds, Swappeds, Configs, LoadFailures, Idles, OtherWords, RequestEvents
<1>4. PICK u : u = <<e>> /\ Says(u) = {e} /\ \A R, S : NoneAfter(u, R, S)
  BY ShortPipes
<1>5. Utters(c, u) /\ Free(u, RequestEvents)
  BY <1>2, <1>3, <1>4 DEF Utters, Free, LimitReplies
<1> QED
  BY <1>1, <1>4, <1>5

\* Nor does silence.
LEMMA SilenceUtters == ASSUME NEW c PROVE Utters(c, << >>) /\ Free(<< >>, RequestEvents)
BY EmptyPipe DEF Utters

\* The acknowledgement of a swap.
LEMMA SwapUtters ==
    ASSUME NEW c \in Swaps
    PROVE  Utters(c, <<Message("Swapped", c.of), Message("Config", c.of)>>)
<1>1. PICK e, f : e = Message("Swapped", c.of) /\ f = Message("Config", c.of)
  OBVIOUS
<1>2. e.type = "Swapped" /\ e.of = c.of /\ f.type = "Config" /\ f.of = c.of
  BY <1>1 DEF Message
<1>3. /\ e \notin LimitWords /\ e \notin Cleareds /\ e \notin LoadFailures /\ e \notin Idles /\ e \notin Configs
      /\ f \notin LimitWords /\ f \notin Cleareds /\ f \notin LoadFailures /\ f \notin Idles /\ f \notin Swappeds
  BY <1>2 DEF LimitWords, LimitReplies, Cleareds, LoadFailures, Idles, Configs, Swappeds
<1>4. \A t : c \in OtherSwaps(t) \/ (e \notin OtherWords(t) /\ f \notin OtherWords(t))
  BY <1>2 DEF OtherSwaps, OtherWords
<1>5. PICK u : /\ u = <<e, f>> /\ Says(u) = {e, f}
               /\ \A R, S : e \notin R \/ f \notin S => NoneAfter(u, R, S)
  BY ShortPipes
<1>6. Utters(c, u)
  BY <1>3, <1>4, <1>5 DEF Utters, Free
<1> QED
  BY <1>1, <1>5, <1>6

\* What the worker answers, where loads succeed.
LEMMA AnswerSpeaks ==
    ASSUME "loadFails" \notin Faults, NEW c \in Commands, NEW r \in Requests \cup {None}, NEW m,
           NEW x \in Answers(c, r, m)
    PROVE  /\ c \in Generates => c.of \in Requests
           /\ ~(c \in Generates /\ r # None) => Utters(c, x.emit)
           /\ r = None /\ c \in Generates => /\ Speaks(x.emit, c.of)
                                             /\ x.serves = None \/ Free(x.emit, Outcomes)
           /\ r # None /\ c \notin Generates => /\ Speaks(x.emit, r) \/ Free(x.emit, RequestEvents)
                                                /\ x.serves = None \/ (x.serves = r /\ Free(x.emit, Outcomes))
           /\ r = None /\ c \notin Generates => Free(x.emit, RequestEvents) /\ x.serves = None
           /\ ~x.lives => x.emit = << >>
<1> USE ProtocolAssumption
<1>1. CASE r = None /\ c.type = "Generate"
  <2>1. c.of \in Requests /\ x \in Starts(c.of, m) /\ c \in Generates
    BY <1>1, CommandForms, WordSets DEF Answers, IdleAnswers
  <2> QED
    BY <1>1, <2>1, StartSpeaks, SpeechUtters
<1>2. CASE r = None /\ c.type = "Cancel"
  <2>1. x = Answer(<< >>, None, m, TRUE)
    BY <1>2 DEF Answers, IdleAnswers
  <2>2. Replies(x, << >>, None, m)
    BY <2>1 DEF Answer, Replies
  <2> QED
    BY <1>2, <2>2, SilenceUtters, WordSets DEF Replies
<1>3. CASE r = None /\ c.type = "SwapModel"
  <2>1. x = Answer(<<Message("Swapped", c.of), Message("Config", c.of)>>, None, c.of, TRUE)
    BY <1>3 DEF Answers, IdleAnswers, Loads
  <2>2. Replies(x, <<Message("Swapped", c.of), Message("Config", c.of)>>, None, c.of)
    BY <2>1 DEF Answer, Replies
  <2>3. c \in Swaps /\ c \notin Generates
    BY <1>3, WordSets
  <2>4. Free(<<Message("Swapped", c.of), Message("Config", c.of)>>, RequestEvents)
    BY SwapReply
  <2> QED
    BY <1>3, <2>2, <2>3, <2>4, SwapUtters DEF Replies
<1>4. CASE r = None /\ c.type \in {"UpdateLimit", "ClearCache"}
  <2>1. \/ x = Answer(<< >>, None, None, FALSE)
        \/ \E t \in PlainReplies : /\ x = Answer(<<Message(t, None)>>, None, m, TRUE)
                                   /\ IF t \in LimitReplies THEN c.type = "UpdateLimit" ELSE c.type = "ClearCache"
    BY <1>4 DEF Answers, IdleAnswers, PlainReplies, LimitReplies, Death
  <2>2. c \notin Generates
    BY <1>4, WordSets
  <2>3. CASE x = Answer(<< >>, None, None, FALSE)
    <3>1. Dies(x, << >>)
      BY <2>3 DEF Answer, Dies
    <3> QED
      BY <1>4, <2>2, <3>1, SilenceUtters DEF Dies
  <2>4. ASSUME NEW t \in PlainReplies, x = Answer(<<Message(t, None)>>, None, m, TRUE),
               IF t \in LimitReplies THEN c.type = "UpdateLimit" ELSE c.type = "ClearCache"
        PROVE  Replies(x, <<Message(t, None)>>, None, m) /\ Utters(c, x.emit) /\ Free(x.emit, RequestEvents)
    <3>1. Replies(x, <<Message(t, None)>>, None, m)
      BY <2>4 DEF Answer, Replies
    <3>2. t \in LimitReplies => c \in Updates
      BY <2>4, WordSets
    <3>3. t = "Cleared" => c \in Clears
      BY <2>4, WordSets DEF LimitReplies
    <3>4. Utters(c, <<Message(t, None)>>) /\ Free(<<Message(t, None)>>, RequestEvents)
      BY <3>2, <3>3, PlainUtters
    <3> QED
      BY <3>1, <3>4 DEF Replies
  <2> QED
    BY <1>4, <2>1, <2>2, <2>3, <2>4 DEF Replies
<1>5. CASE r # None /\ c.type = "Generate"
  <2>1. BusyForm(x, c, r, m) /\ c \in Generates /\ c.of \in Requests
    BY <1>5, AnswerForms, WordSets, CommandForms
  <2>2. Replies(x, Failure(c.of), r, m)
    BY <1>5, <2>1 DEF BusyForm
  <2> QED
    BY <1>5, <2>1, <2>2 DEF Replies
<1>6. CASE r # None /\ c.type # "Generate"
  <2>1. BusyForm(x, c, r, m) /\ r \in Requests /\ c \notin Generates
    BY <1>6, AnswerForms, WordSets
  <2>2. CASE Replies(x, Ending(r), None, m)
    BY <1>6, <2>1, <2>2, SpokenOf, SpeechUtters DEF Replies
  <2>3. CASE c.type = "UpdateLimit" /\ Replies(x, <<Message("LimitRejected", None)>>, r, m)
    <3>1. Utters(c, <<Message("LimitRejected", None)>>) /\ Free(<<Message("LimitRejected", None)>>, RequestEvents)
      BY <2>3, WordSets, PlainUtters DEF PlainReplies
    <3>2. Free(x.emit, RequestEvents) /\ Free(x.emit, Outcomes) /\ Utters(c, x.emit)
      BY <2>3, <3>1, WordSets DEF Replies, Free
    <3> QED
      BY <1>6, <2>1, <2>3, <3>2 DEF Replies
  <2>4. CASE Replies(x, << >>, r, m)
    BY <1>6, <2>1, <2>4, SilenceUtters, EmptyPipe DEF Replies
  <2> QED
    BY <1>6, <2>1, <2>2, <2>3, <2>4 DEF BusyForm
<1> QED
  BY <1>1, <1>2, <1>3, <1>4, <1>5, <1>6, CommandForms

(***************************************************************************)
(* The steps of the loop, by what they do to the talk                      *)
(***************************************************************************)

\* The waits for a reply.
Waits == {"limit", "clear", "swap", "restore"}

\* The commands that are waited for.
LEMMA AwaitedCommands ==
    /\ Updates \subseteq ControlCommands /\ Clears \subseteq ControlCommands /\ Swaps \subseteq ControlCommands
    /\ \A t : OtherSwaps(t) \subseteq ControlCommands
    /\ Updates \cap Clears = {} /\ Updates \cap Swaps = {} /\ Clears \cap Swaps = {}
    /\ \A t : OtherSwaps(t) \subseteq Swaps
BY DEF Updates, Clears, Swaps, OtherSwaps, ControlCommands

\* Nothing is in the pipes of a worker that was stopped, or has just replaced one.
LEMMA EmptiedWords ==
    ASSUME commands' = << >>, events' = << >>, serving' = None
    PROVE  Words'
<1>1. \A C, E : Quiet(<< >>, << >>, C, E) /\ One(<< >>, << >>, C, E)
  BY EmptyPipe DEF Quiet, One
<1>2. LimitsAreAwaited' /\ ClearsAreAwaited' /\ SwapsAreAwaited'
  BY <1>1 DEF LimitsAreAwaited, ClearsAreAwaited, SwapsAreAwaited, SwapAwaited
<1>3. ConfigsAreKnown' /\ GreetingIsOpen' /\ LoadsSucceed'
  BY EmptyPipe DEF ConfigsAreKnown, GreetingIsOpen, LoadsSucceed
<1>4. RequestsAreKept'
  BY EmptyPipe DEF RequestsAreKept, Only, Ordered
<1> QED
  BY <1>2, <1>3, <1>4 DEF Words

\* A worker is stopped.
LEMMA StoppedWords == ASSUME Reap PROVE Words'
BY EmptiedWords DEF Reap

\* What a worker says at its start.
LEMMA GreetingWords ==
    /\ \A R : Message("Idle", None) \notin R /\ Message("Config", None) \notin R => Free(Greeting, R)
    /\ NoneAfter(Greeting, Configs, Configs)
    /\ Free(Greeting, OtherWords(None)) /\ Free(Greeting, Swappeds) /\ Free(Greeting, LimitWords)
    /\ Free(Greeting, Cleareds) /\ Free(Greeting, LoadFailures) /\ Free(Greeting, RequestEvents)
<1>1. PICK e, f : e = Message("Idle", None) /\ f = Message("Config", None)
  OBVIOUS
<1>2. PICK u : /\ u = Greeting /\ Says(u) = {e, f}
               /\ \A R, S : e \notin R \/ f \notin S => NoneAfter(u, R, S)
  BY <1>1, ShortPipes DEF Greeting
<1>3. e.type = "Idle" /\ f.type = "Config" /\ f.of = None
  BY <1>1 DEF Message
<1>4. e \notin Configs
  BY <1>3 DEF Configs
<1>5. /\ e \notin OtherWords(None) /\ e \notin Swappeds /\ e \notin LimitWords /\ e \notin Cleareds
      /\ e \notin LoadFailures /\ e \notin RequestEvents
      /\ f \notin OtherWords(None) /\ f \notin Swappeds /\ f \notin LimitWords /\ f \notin Cleareds
      /\ f \notin LoadFailures /\ f \notin RequestEvents
  BY <1>3 DEF OtherWords, Swappeds, LimitWords, LimitReplies, Cleareds, LoadFailures, RequestEvents
<1> QED
  BY <1>1, <1>2, <1>4, <1>5 DEF Free

\* A worker that greets says nothing else.
LEMMA GreetedWords ==
    ASSUME commands' = << >>, events' = Greeting, ~isReady', ~startupApplied', staged' = {},
           config' = NoConfig, readyModel' = None, active' = None, at' \notin Waits \cup {"cancel", "replace"}
    PROVE  Words'
<1>1. LimitsAreAwaited' /\ ClearsAreAwaited' /\ SwapsAreAwaited'
  BY EmptyPipe, GreetingWords DEF LimitsAreAwaited, ClearsAreAwaited, SwapsAreAwaited, Quiet, Waits, Swapping
<1>2. ConfigsAreKnown' /\ GreetingIsOpen' /\ LoadsSucceed'
  BY GreetingWords DEF ConfigsAreKnown, ConfigIsNews, GreetingIsOpen, LoadsSucceed
<1>3. RequestsAreKept'
  BY GreetingWords DEF RequestsAreKept
<1> QED
  BY <1>1, <1>2, <1>3 DEF Words

\* A step that asks for nothing and is not told anything new keeps the waits.
LEMMA AwaitedLess ==
    ASSUME Words, \A C : C \subseteq ControlCommands => NoMore(commands', commands, C),
           \A E : NoMore(events', events, E),
           (at' = at /\ UNCHANGED <<cur, staged>>) \/ (at \notin Waits /\ ~Swapping')
    PROVE  LimitsAreAwaited' /\ ClearsAreAwaited' /\ SwapsAreAwaited' /\ LoadsSucceed'
<1>1. \A C, E : C \subseteq ControlCommands =>
         /\ Quiet(commands, events, C, E) => Quiet(commands', events', C, E)
         /\ One(commands, events, C, E) => One(commands', events', C, E)
  BY PairKept
<1>2. LimitsAreAwaited'
  BY <1>1, QuietIsOne, AwaitedCommands DEF Words, LimitsAreAwaited, Waits
<1>3. ClearsAreAwaited'
  BY <1>1, QuietIsOne, AwaitedCommands DEF Words, ClearsAreAwaited, Waits
<1>4. SwapsAreAwaited'
  <2>1. CASE ~Swapping'
    <3>1. ~Swapping
      BY <2>1 DEF Waits, Swapping
    <3> QED
      BY <1>1, <2>1, <3>1, AwaitedCommands DEF Words, SwapsAreAwaited
  <2>2. CASE Swapping'
    <3>1. at' = at /\ UNCHANGED <<cur, staged>> /\ Swapping
      BY <2>2 DEF Swapping
    <3>2. PICK t : t = Target
      OBVIOUS
    <3>3. Target' = t
      BY <3>1, <3>2 DEF Target
    <3>4. SwapAwaited(t)
      BY <3>1, <3>2 DEF Words, SwapsAreAwaited
    <3>5. SwapAwaited(t)'
      BY <1>1, <3>1, <3>4, AwaitedCommands DEF SwapAwaited
    <3> QED
      BY <2>2, <3>3, <3>5 DEF SwapsAreAwaited, SwapAwaited
  <2> QED
    BY <2>1, <2>2
<1>5. LoadsSucceed'
  BY DEF Words, LoadsSucceed, NoMore
<1> QED
  BY <1>2, <1>3, <1>4, <1>5

\* Nor does it bring a configuration that is not known.
LEMMA ConfigsLess ==
    ASSUME Words, \A E : NoMore(events', events, E), ~Swapping,
           UNCHANGED <<config, readyModel>> \/ (config' = NoConfig /\ readyModel' = None)
    PROVE  ConfigsAreKnown'
BY DEF Words, ConfigsAreKnown, ConfigIsNews, NoMore

\* What is trusted no more than before still is.
LEMMA GreetingLess ==
    ASSUME Words, \A E : NoMore(events', events, E), isReady' => isReady, startupApplied' => startupApplied \/ isReady,
           at' \notin {"recover", "handshake"}
    PROVE  GreetingIsOpen'
BY DEF Words, GreetingIsOpen, NoMore

\* The worker is left alone, and the loop waits for nothing.
LEMMA QuietWords ==
    ASSUME Words, ControlInv, UNCHANGED workerVars, at \notin Waits, at' \notin Waits \cup {"recover", "handshake", "cancel"},
           \/ UNCHANGED <<active, ended>> /\ at \notin {"cancel", "replace"}
           \/ at' = "replace" /\ active' = None,
           UNCHANGED <<config, readyModel>> \/ (config' = NoConfig /\ readyModel' = None),
           isReady' => isReady, startupApplied' => startupApplied \/ isReady
    PROVE  Words'
<1>1. UNCHANGED <<commands, events, serving>>
  BY DEF workerVars
<1>2. (\A C : NoMore(commands', commands, C)) /\ (\A E : NoMore(events', events, E))
  BY <1>1 DEF NoMore
<1>3. ~Swapping /\ ~Swapping'
  BY DEF Swapping, Waits
<1>4. LimitsAreAwaited' /\ ClearsAreAwaited' /\ SwapsAreAwaited' /\ LoadsSucceed'
  BY <1>2, <1>3, AwaitedLess
<1>5. ConfigsAreKnown' /\ GreetingIsOpen'
  BY <1>2, <1>3, ConfigsLess, GreetingLess
<1>6. RequestsAreKept'
  BY <1>1 DEF Words, RequestsAreKept, Only, Ordered
<1> QED
  BY <1>4, <1>5, <1>6 DEF Words

\* Nothing of the talk changes.
LEMMA StillWords ==
    ASSUME Words, UNCHANGED <<workerVars, loopVars, healthVars, startupApplied, activeVars>>
    PROVE  Words'
<1>1. UNCHANGED <<commands, events, serving, at, cur, staged, isReady, startupApplied, config, readyModel, active, ended>>
  BY DEF workerVars, loopVars, healthVars, activeVars
<1>2. LimitsAreAwaited' /\ ClearsAreAwaited' /\ SwapsAreAwaited' /\ LoadsSucceed'
  BY <1>1, AwaitedLess DEF NoMore
<1>3. ConfigsAreKnown' /\ GreetingIsOpen'
  BY <1>1 DEF Words, ConfigsAreKnown, ConfigIsNews, GreetingIsOpen, Swapping
<1>4. RequestsAreKept'
  BY <1>1 DEF Words, RequestsAreKept, Only, Ordered
<1> QED
  BY <1>2, <1>3, <1>4 DEF Words

\* A ceiling update or a cache clear is sent, and awaited.
LEMMA AskedWords ==
    ASSUME ControlInv, Words, NEW c \in Commands, Send(c),
           (c \in Updates /\ at' = "limit") \/ (c \in Clears /\ at' = "clear"),
           at \notin Waits, active = None, at \notin {"cancel", "replace"},
           UNCHANGED <<active, isReady, startupApplied, config, readyModel>>
    PROVE  Words'
<1>1. commands' = Append(commands, c) /\ UNCHANGED <<events, serving>> /\ commands \in Seq(Commands)
  BY Holds DEF Send
<1>2. (\A C : c \notin C => NoMore(commands', commands, C)) /\ (\A E : NoMore(events', events, E))
  BY <1>1, LessPipe DEF NoMore
<1>3. /\ \A C, E : c \notin C /\ Quiet(commands, events, C, E) => Quiet(commands', events', C, E)
      /\ \A C, E : Quiet(commands, events, C, E) => One(commands', events', C, E)
  BY <1>1, <1>2, PairKept, PairAsked
<1>4. ~Swapping /\ ~Swapping' /\ at # "limit" /\ at # "clear"
  BY DEF Swapping, Waits
<1>5. LimitsAreAwaited' /\ ClearsAreAwaited'
  BY <1>3, <1>4, AwaitedCommands DEF Words, LimitsAreAwaited, ClearsAreAwaited
<1>6. SwapsAreAwaited' /\ LoadsSucceed'
  BY <1>1, <1>3, <1>4, AwaitedCommands DEF Words, SwapsAreAwaited, LoadsSucceed
<1>7. ConfigsAreKnown' /\ GreetingIsOpen'
  BY <1>2, <1>4, ConfigsLess, GreetingLess
<1>8. RequestsAreKept'
  BY <1>1 DEF Words, RequestsAreKept
<1> QED
  BY <1>5, <1>6, <1>7, <1>8 DEF Words

\* A model is asked for, and awaited.
LEMMA SwapAskedWords ==
    ASSUME ControlInv, TalkInv, at \in {"choose", "reload"}, NEW m \in Models, Send(Message("SwapModel", m)),
           staged' = {}, Swapping', Target' = m,
           UNCHANGED <<active, isReady, startupApplied, config, readyModel>>
    PROVE  Words'
<1>1. PICK c : c = Message("SwapModel", m)
  OBVIOUS
<1>2. c \in Commands /\ c \in Swaps /\ c.of = m
  BY <1>1, CommandTypes DEF Message, Swaps
<1>3. commands' = Append(commands, c) /\ UNCHANGED <<events, serving>> /\ commands \in Seq(Commands)
  BY <1>1, Holds DEF Send
<1>4. (\A C : c \notin C => NoMore(commands', commands, C)) /\ (\A E : NoMore(events', events, E))
  BY <1>2, <1>3, LessPipe DEF NoMore
<1>5. /\ \A C, E : c \notin C /\ Quiet(commands, events, C, E) => Quiet(commands', events', C, E)
      /\ \A C, E : Quiet(commands, events, C, E) => One(commands', events', C, E)
  BY <1>2, <1>3, <1>4, PairKept, PairAsked
<1>6. /\ ~Swapping /\ at \notin {"limit", "clear", "cancel", "replace"} /\ at' \notin {"limit", "clear", "cancel", "replace"}
      /\ at' \notin {"recover", "handshake"} /\ active = None
  BY Holds DEF Swapping, ActivePositions
<1>7. LimitsAreAwaited' /\ ClearsAreAwaited' /\ LoadsSucceed'
  BY <1>2, <1>3, <1>5, <1>6, AwaitedCommands DEF TalkInv, Words, LimitsAreAwaited, ClearsAreAwaited, LoadsSucceed
<1>8. config # NoConfig
  BY DEF TalkInv, StartIsConfigured, ControlInv, Posture, PositionIsSound, Starting
<1>9. Free(events, Configs) /\ Free(events, Swappeds) /\ Free(commands, Swaps)
  BY <1>6, <1>8 DEF TalkInv, Words, ConfigsAreKnown, ConfigIsNews, SwapsAreAwaited, Quiet
<1>10. SwapAwaited(m)'
  <2>1. One(commands', events', Swaps, Swappeds) /\ One(commands', events', Swaps, Configs)
    BY <1>5, <1>9 DEF Quiet
  <2>2. OtherWords(m) \subseteq Swappeds \cup Configs /\ OtherSwaps(m) \subseteq Swaps /\ c \notin OtherSwaps(m)
    BY <1>2 DEF OtherWords, Swappeds, Configs, OtherSwaps
  <2>3. Quiet(commands, events, OtherSwaps(m), OtherWords(m))
    BY <1>9, <2>2 DEF Quiet, Free
  <2>4. Quiet(commands', events', OtherSwaps(m), OtherWords(m))
    BY <1>5, <2>2, <2>3
  <2> QED
    BY <2>1, <2>4 DEF SwapAwaited
<1>11. SwapsAreAwaited' /\ ConfigsAreKnown'
  BY <1>10 DEF SwapsAreAwaited, ConfigsAreKnown, SwapAwaited
<1>12. GreetingIsOpen'
  BY <1>4, <1>6, GreetingLess DEF TalkInv
<1>13. RequestsAreKept'
  BY <1>3, <1>6 DEF TalkInv, Words, RequestsAreKept
<1> QED
  BY <1>7, <1>11, <1>12, <1>13 DEF Words

\* A request is sent to the worker.
LEMMA StartedWords ==
    ASSUME ControlInv, Words, at = "dispatch", Send(Message("Generate", cur)), active' = cur, ended' = FALSE,
           at' \in {"top", "abandon"}, UNCHANGED <<isReady, startupApplied, config, readyModel>>
    PROVE  Words'
<1>1. PICK c : c = Message("Generate", cur)
  OBVIOUS
<1>2. c \in Commands /\ c.type = "Generate" /\ active = None
  BY <1>1, Holds, CommandTypes DEF Message, ActivePositions
<1>3. commands' = Append(commands, c) /\ UNCHANGED <<events, serving>> /\ commands \in Seq(Commands)
  BY <1>1, Holds DEF Send
<1>4. \A C : C \subseteq ControlCommands => NoMore(commands', commands, C)
  <2>1. c \notin ControlCommands
    BY <1>2 DEF ControlCommands
  <2> QED
    BY <1>2, <1>3, <2>1, LessPipe
<1>5. \A E : NoMore(events', events, E)
  BY <1>3 DEF NoMore
<1>6. ~Swapping /\ ~Swapping' /\ at \notin Waits
  BY DEF Swapping, Waits
<1>7. LimitsAreAwaited' /\ ClearsAreAwaited' /\ SwapsAreAwaited' /\ LoadsSucceed'
  BY <1>4, <1>5, <1>6, AwaitedLess
<1>8. ConfigsAreKnown' /\ GreetingIsOpen'
  BY <1>5, <1>6, ConfigsLess, GreetingLess
<1>9. RequestsAreKept'
  <2>1. Free(events', RequestEvents)
    BY <1>2, <1>3 DEF Words, RequestsAreKept
  <2>2. \A S : S \subseteq RequestEvents => Free(events', S)
    BY <2>1 DEF Free
  <2>3. \A R : R \subseteq RequestEvents => \A S : NoneAfter(events', R, S)
    BY <2>1 DEF Free, NoneAfter, Says
  <2> QED
    BY <2>2, <2>3, WordSets DEF RequestsAreKept, Only, Ordered
<1> QED
  BY <1>7, <1>8, <1>9 DEF Words

\* The active request is cancelled; an output may be dropped with it.
LEMMA CancelWords ==
    ASSUME ControlInv, Words, at \in {"select", "abandon"}, active # None, active' = None, cur' = active,
           at' \in {"cancel", "replace"}, UNCHANGED <<serving, isReady, startupApplied, config, readyModel>>,
           events' = events \/ (events # << >> /\ events' = Tail(events)),
           commands' = commands \/ commands' = Append(commands, Message("Cancel", active))
    PROVE  Words'
<1>1. PICK r, c : r = active /\ c = Message("Cancel", r)
  OBVIOUS
<1>2. c \in Commands /\ c \notin ControlCommands /\ commands \in Seq(Commands) /\ events \in Seq(Events)
  BY <1>1, Holds, CommandTypes DEF Message, ControlCommands
<1>3. \A C : C \subseteq ControlCommands => NoMore(commands', commands, C)
  BY <1>1, <1>2, LessPipe
<1>4. \A E : NoMore(events', events, E)
  BY <1>2, LessPipe
<1>5. ~Swapping /\ ~Swapping' /\ at \notin Waits
  BY DEF Swapping, Waits
<1>6. LimitsAreAwaited' /\ ClearsAreAwaited' /\ SwapsAreAwaited' /\ LoadsSucceed'
  BY <1>3, <1>4, <1>5, AwaitedLess
<1>7. ConfigsAreKnown' /\ GreetingIsOpen'
  BY <1>4, <1>5, ConfigsLess, GreetingLess
<1>8. RequestsAreKept'
  <2>1. Only(r)
    BY <1>1 DEF Words, RequestsAreKept
  <2>2. NoneAfter(events, Endings, RequestEvents) => NoneAfter(events', Endings, RequestEvents)
    <3>1. CASE events' = events
      BY <3>1
    <3>2. CASE events # << >> /\ events' = Tail(events)
      BY <1>2, <3>2, ReadPipe
    <3> QED
      BY <3>1, <3>2
  <2>3. Free(events', Misfits(r))
    BY <1>4, <2>1 DEF Only, NoMore
  <2> QED
    BY <1>1, <2>1, <2>2, <2>3 DEF RequestsAreKept, Only
<1> QED
  BY <1>6, <1>7, <1>8 DEF Words

\* An event is read: what is left.
LEMMA HeardPipe ==
    ASSUME ControlInv, events # << >>, Consume, NEW e, e = Head(events)
    PROVE  /\ e \in Events /\ e \in Says(events) /\ Says(events) = Says(events') \cup {e}
           /\ \A C : NoMore(commands', commands, C)
           /\ \A E : NoMore(events', events, E)
           /\ \A R, S : NoneAfter(events, R, S) => NoneAfter(events', R, S)
           /\ \A R, S : NoneAfter(events, R, S) /\ e \in R => Free(events', S)
           /\ UNCHANGED <<commands, serving>> /\ events' = Tail(events)
<1>1. UNCHANGED <<commands, serving>> /\ events' = Tail(events) /\ events \in Seq(Events)
  BY Holds DEF Consume
<1>2. \A C : NoMore(commands', commands, C)
  BY <1>1 DEF NoMore
<1>3. \A E : NoMore(events', events, E)
  BY <1>1, LessPipe
<1> QED
  BY <1>1, <1>2, <1>3, ReadPipe, FirstMessage

\* The reply to an update or a clear is read.
LEMMA RepliedWords ==
    ASSUME ControlInv, Words, events # << >>, Consume, NEW e, e = Head(events), at' \notin Waits,
           (at = "limit" /\ e \in LimitWords) \/ (at = "clear" /\ e \in Cleareds)
    PROVE  LimitsAreAwaited' /\ ClearsAreAwaited' /\ SwapsAreAwaited' /\ LoadsSucceed'
<1>1. /\ \A C : NoMore(commands', commands, C)
      /\ \A E : NoMore(events', events, E)
      /\ commands' = commands /\ events' = Tail(events) /\ events \in Seq(Events)
  BY HeardPipe, Holds
<1>2. \A C, E : Quiet(commands, events, C, E) => Quiet(commands', events', C, E)
  BY <1>1, PairKept
<1>3. \A C, E : One(commands, events, C, E) /\ e \in E => Quiet(commands', events', C, E)
  BY <1>1, PairHeard
<1>4. ~Swapping /\ ~Swapping' /\ at' # "limit" /\ at' # "clear"
  BY DEF Swapping, Waits
<1>5. LimitsAreAwaited' /\ ClearsAreAwaited'
  BY <1>2, <1>3, <1>4 DEF Words, LimitsAreAwaited, ClearsAreAwaited
<1>6. SwapsAreAwaited' /\ LoadsSucceed'
  BY <1>1, <1>2, <1>4 DEF Words, SwapsAreAwaited, LoadsSucceed, NoMore
<1> QED
  BY <1>5, <1>6

\* The worker says that the cache is cleared.
LEMMA ClearedWords == ASSUME ControlInv, Words, ReadCleared PROVE Words'
<1>1. PICK e : e = Head(events)
  OBVIOUS
<1>2. /\ at = "clear" /\ events # << >> /\ e.type = "Cleared" /\ Consume /\ at' \in {"top", "tidy", "observe"}
      /\ UNCHANGED <<active, isReady, startupApplied, config, readyModel>> /\ active = None
  BY <1>1, Holds DEF ReadCleared, Settle, healthVars, activeVars, ActivePositions
<1>3. e \in Events /\ \A E : NoMore(events', events, E)
  BY <1>1, <1>2, HeardPipe
<1>4. ~Swapping /\ at' \notin Waits
  BY <1>2 DEF Swapping, Waits
<1>5. LimitsAreAwaited' /\ ClearsAreAwaited' /\ SwapsAreAwaited' /\ LoadsSucceed'
  BY <1>1, <1>2, <1>3, <1>4, RepliedWords, WordSets
<1>6. ConfigsAreKnown'
  BY <1>2, <1>3, <1>4, ConfigsLess
<1>7. GreetingIsOpen'
  BY <1>2, <1>3, GreetingLess
<1>8. RequestsAreKept'
  BY <1>2, <1>3 DEF Words, RequestsAreKept, NoMore
<1> QED
  BY <1>5, <1>6, <1>7, <1>8 DEF Words

\* An event is handed to handle_worker_event: the requests.
LEMMA EventRequests ==
    ASSUME ControlInv, RequestsAreKept, events # << >>, Consume, NEW e, e = Head(events), ApplyToRequest(e),
           ~Violates(e), at \notin {"cancel", "replace"}, at' \notin {"cancel", "replace"}
    PROVE  RequestsAreKept'
<1>1. /\ e \in Events /\ e \in Says(events) /\ Says(events) = Says(events') \cup {e}
      /\ \A E : NoMore(events', events, E)
      /\ \A R, S : NoneAfter(events, R, S) => NoneAfter(events', R, S)
      /\ \A R, S : NoneAfter(events, R, S) /\ e \in R => Free(events', S)
      /\ UNCHANGED <<commands, serving>>
  BY HeardPipe
<1>2. CASE EndsRequest(e)
  <2>1. e \in Endings /\ e \in RequestEvents /\ e.of \in Requests
    BY <1>1, <1>2, EventForms, MessageSets
  <2>2. active # None
    BY <2>1, ProtocolAssumption DEF Violates
  <2>3. PICK r : r = active
    OBVIOUS
  <2>4. Only(r)
    BY <2>2, <2>3 DEF RequestsAreKept
  <2>5. Free(events', RequestEvents)
    BY <1>1, <2>1, <2>4 DEF Only
  <2>6. active' = None
    BY <1>2 DEF ApplyToRequest
  <2> QED
    BY <2>5, <2>6 DEF RequestsAreKept
<1>3. CASE ~EndsRequest(e) /\ active = None
  <2>1. active' = None
    BY <1>3 DEF ApplyToRequest
  <2>2. Free(events', RequestEvents)
    BY <1>1, <1>3 DEF RequestsAreKept, NoMore
  <2> QED
    BY <2>1, <2>2 DEF RequestsAreKept
<1>4. CASE ~EndsRequest(e) /\ active # None
  <2>1. PICK r : r = active
    OBVIOUS
  <2>2. active' = r /\ ended' = (ended \/ e.type = "Ended")
    BY <1>4, <2>1 DEF ApplyToRequest
  <2>3. Only(r) /\ Ordered
    BY <1>4, <2>1 DEF RequestsAreKept
  <2>4. Only(r)'
    BY <1>1, <2>3 DEF Only, NoMore
  <2>5. Ordered'
    <3>1. NoneAfter(events', Outcomes, Reports)
      BY <1>1, <2>3 DEF Ordered
    <3>2. CASE e.type = "Ended"
      <4>1. e \in Outcomes
        BY <1>1, <3>2, WordSets
      <4>2. Free(events', Reports) /\ ~Free(events, Outcomes)
        BY <1>1, <2>3, <4>1 DEF Ordered, Free
      <4>3. ended'
        BY <2>2, <3>2, Zenon
      <4> QED
        BY <1>1, <2>3, <3>1, <4>2, <4>3 DEF Ordered
    <3>3. CASE e.type # "Ended"
      <4>1. e \notin Outcomes
        BY <1>1, <3>3, WordSets
      <4>2. ended' <=> ended
        BY <2>2, <3>3, Zenon
      <4>3. /\ Free(events, Reports) => Free(events', Reports)
            /\ Free(events, Outcomes) => Free(events', Outcomes)
            /\ Free(events, Finals) => Free(events', Finals)
        BY <1>1 DEF NoMore
      <4>4. Free(events', Outcomes) => Free(events, Outcomes)
        BY <1>1, <4>1 DEF Free
      <4>5. UNCHANGED <<commands, serving>>
        BY <1>1
      <4>6. ended' => Free(events', Reports)
        BY <2>3, <4>2, <4>3 DEF Ordered
      <4>7. (Free(events', Outcomes) /\ ~ended') \/ (serving' = None /\ Free(commands', Generates))
        BY <2>3, <4>2, <4>3, <4>5 DEF Ordered
      <4>8. ended' \/ Free(events', Finals) \/ ~Free(events', Outcomes)
        BY <2>3, <4>2, <4>3, <4>4 DEF Ordered
      <4> QED
        BY <3>1, <4>6, <4>7, <4>8 DEF Ordered
    <3> QED
      BY <3>2, <3>3
  <2> QED
    BY <1>4, <2>1, <2>2, <2>4, <2>5 DEF RequestsAreKept, Only
<1> QED
  BY <1>2, <1>3, <1>4

\* An event is handed to handle_worker_event.
LEMMA EventWords == ASSUME ControlInv, PipeInv, TalkInv, ReadEvent PROVE Words'
<1>1. PICK e : e = Head(events)
  OBVIOUS
<1>2. /\ Pumping /\ events # << >> /\ ~Claimed(e) /\ ~Violates(e) /\ ApplyToHealth(e) /\ ApplyToRequest(e)
      /\ Continue(e) /\ Consume /\ UNCHANGED startupApplied
  BY <1>1 DEF ReadEvent
<1>3. /\ e \in Events /\ e \in Says(events)
      /\ \A C : NoMore(commands', commands, C)
      /\ \A E : NoMore(events', events, E)
      /\ \A R, S : NoneAfter(events, R, S) /\ e \in R => Free(events', S)
  BY <1>1, <1>2, HeardPipe
<1>4. /\ at \notin {"cancel", "replace", "recover", "handshake"}
      /\ at' \notin {"cancel", "replace", "recover", "handshake"}
  BY <1>2, Holds DEF Pumping, Continue, Settle, Stay
<1>5. LimitsAreAwaited' /\ ClearsAreAwaited' /\ SwapsAreAwaited' /\ LoadsSucceed'
  <2>1. CASE at = "limit" /\ e.type \in LimitReplies
    <3>1. at' \in {"top", "tidy", "observe"}
      BY <1>2, <2>1, Holds DEF Continue, Settle
    <3> QED
      BY <1>1, <1>2, <1>3, <2>1, <3>1, RepliedWords, WordSets DEF TalkInv, Waits
  <2>2. CASE at = "select"
    <3>1. at' = "top"
      BY <1>2, <2>2 DEF Continue, Settle
    <3> QED
      BY <1>3, <2>2, <3>1, AwaitedLess DEF TalkInv, Waits, Swapping
  <2>3. CASE at # "select" /\ ~(at = "limit" /\ e.type \in LimitReplies)
    <3>1. at' = at /\ UNCHANGED <<cur, staged>>
      BY <1>2, <2>3 DEF Continue, Stay
    <3> QED
      BY <1>3, <3>1, AwaitedLess DEF TalkInv
  <2> QED
    BY <2>1, <2>2, <2>3
<1>6. ConfigsAreKnown'
  <2>1. CASE Swapping
    BY <1>2, <2>1 DEF ConfigsAreKnown, Swapping, Continue, Stay
  <2>2. CASE ~Swapping /\ e.type = "Idle"
    <3>1. config' = NoConfig /\ readyModel' = None
      BY <1>2, <2>2 DEF ApplyToHealth
    <3> QED
      BY <1>3, <2>2, <3>1, ConfigsLess DEF TalkInv
  <2>3. CASE ~Swapping /\ e.type = "Config"
    <3>1. e \in Configs
      BY <1>3, <2>3, WordSets
    <3>2. NoneAfter(events, Configs, Configs)
      BY <1>3, <2>3, <3>1 DEF TalkInv, Words, ConfigsAreKnown, ConfigIsNews, Free
    <3> QED
      BY <1>3, <3>1, <3>2 DEF ConfigsAreKnown
  <2>4. CASE ~Swapping /\ e.type \notin {"Idle", "Config"}
    <3>1. UNCHANGED <<config, readyModel>>
      BY <1>2, <2>4 DEF ApplyToHealth
    <3> QED
      BY <1>3, <2>4, <3>1, ConfigsLess DEF TalkInv
  <2> QED
    BY <2>1, <2>2, <2>3, <2>4
<1>7. GreetingIsOpen'
  <2>1. CASE e.type = "Idle"
    <3>1. e \in Idles
      BY <1>3, <2>1, WordSets
    <3>2. Free(events', Idles)
      BY <1>3, <3>1 DEF PipeInv, GreetingIsFirst
    <3> QED
      BY <1>4, <3>2 DEF GreetingIsOpen
  <2>2. CASE e.type # "Idle"
    <3>1. isReady' => isReady
      BY <1>2, <2>2, Zenon DEF ApplyToHealth
    <3> QED
      BY <1>2, <1>3, <1>4, <3>1, GreetingLess DEF TalkInv
  <2> QED
    BY <2>1, <2>2
<1>8. RequestsAreKept'
  BY <1>1, <1>2, <1>4, EventRequests DEF TalkInv, Words
<1> QED
  BY <1>5, <1>6, <1>7, <1>8 DEF Words

\* The acknowledgements of a swap are read.
LEMMA SwapReplyWords == ASSUME ControlInv, TalkInv, ReadSwapReply PROVE Words'
<1>1. PICK e, t, now : e = Head(events) /\ t = Target /\ now = staged \cup {e.type}
  OBVIOUS
<1>2. /\ Swapping /\ events # << >> /\ Consume /\ UNCHANGED <<isReady, startupApplied, active>>
      /\ e.type \in {"Swapped", "Config"}
  BY <1>1 DEF ReadSwapReply, healthVars, activeVars
<1>3. /\ e \in Events /\ commands' = commands /\ events' = Tail(events) /\ events \in Seq(Events)
      /\ \A C : NoMore(commands', commands, C)
      /\ \A E : NoMore(events', events, E)
  BY <1>1, <1>2, HeardPipe, Holds
<1>4. /\ \A C, E : Quiet(commands, events, C, E) => Quiet(commands', events', C, E)
      /\ \A C, E : One(commands, events, C, E) => One(commands', events', C, E)
      /\ \A C, E : One(commands, events, C, E) /\ e \in E => Quiet(commands', events', C, E)
  BY <1>1, <1>2, <1>3, PairKept, PairHeard
<1>5. SwapAwaited(t) /\ expects /\ active = None
  BY <1>1, <1>2, Holds DEF TalkInv, Words, SwapsAreAwaited, StartIsConfigured, Swapping, ActivePositions
<1>6. "Swapped" \in now => Quiet(commands', events', Swaps, Swappeds)
  <2>1. e.type = "Swapped" => e \in Swappeds
    BY <1>3, WordSets
  <2> QED
    BY <1>1, <1>4, <1>5, <2>1 DEF SwapAwaited
<1>7. "Config" \in now => Quiet(commands', events', Swaps, Configs)
  <2>1. e.type = "Config" => e \in Configs
    BY <1>3, WordSets
  <2> QED
    BY <1>1, <1>4, <1>5, <2>1 DEF SwapAwaited
<1>8. \/ /\ "Swapped" \in now /\ "Config" \in now /\ at' \in {"top", "dispatch"}
      \/ staged' = now /\ UNCHANGED <<at, cur, config, readyModel>>
  <2>1. CASE "Swapped" \in now /\ "Config" \in now
    BY <1>1, <2>1 DEF ReadSwapReply, Settle
  <2>2. CASE ~("Swapped" \in now /\ "Config" \in now)
    BY <1>1, <1>5, <2>2 DEF ReadSwapReply, healthVars
  <2> QED
    BY <2>1, <2>2
<1>9. at \notin {"limit", "clear", "cancel", "replace"} /\ at' \notin {"limit", "clear", "cancel", "replace", "recover", "handshake"}
  BY <1>2, <1>8 DEF Swapping
<1>10. LimitsAreAwaited' /\ ClearsAreAwaited' /\ LoadsSucceed'
  BY <1>3, <1>4, <1>9 DEF TalkInv, Words, LimitsAreAwaited, ClearsAreAwaited, LoadsSucceed, NoMore
<1>11. SwapsAreAwaited' /\ ConfigsAreKnown'
  <2>1. CASE "Swapped" \in now /\ "Config" \in now /\ at' \in {"top", "dispatch"}
    BY <1>6, <1>7, <2>1 DEF SwapsAreAwaited, ConfigsAreKnown, Swapping, Quiet
  <2>2. CASE staged' = now /\ UNCHANGED <<at, cur, config, readyModel>>
    <3>1. SwapAwaited(t)'
      BY <1>4, <1>5, <1>6, <1>7, <2>2 DEF SwapAwaited
    <3>2. Target' = t /\ Swapping'
      BY <1>1, <1>2, <2>2 DEF Target, Swapping
    <3> QED
      BY <3>1, <3>2 DEF SwapsAreAwaited, ConfigsAreKnown, SwapAwaited
  <2> QED
    BY <1>8, <2>1, <2>2
<1>12. GreetingIsOpen'
  BY <1>2, <1>3, <1>9, GreetingLess DEF TalkInv
<1>13. RequestsAreKept'
  BY <1>2, <1>3, <1>5, <1>9 DEF TalkInv, Words, RequestsAreKept, NoMore
<1> QED
  BY <1>10, <1>11, <1>12, <1>13 DEF Words

\* An event of a cancelled request is read.
LEMMA CancelledWords == ASSUME ControlInv, Words, ReadCancelled PROVE Words'
<1>1. PICK e, r : e = Head(events) /\ r = cur
  OBVIOUS
<1>2. /\ at = "cancel" /\ events # << >> /\ Consume /\ UNCHANGED <<active, isReady, startupApplied, config, readyModel>>
      /\ active = None
      /\ \/ Acknowledges(e) /\ at' = "top"
         \/ at' = "cancel" /\ cur' = r
         \/ at' = "replace"
  BY <1>1, Holds DEF ReadCancelled, Settle, Stay, healthVars, activeVars, loopVars, ActivePositions
<1>3. /\ e \in Events
      /\ \A C : NoMore(commands', commands, C)
      /\ \A E : NoMore(events', events, E)
      /\ \A R, S : NoneAfter(events, R, S) => NoneAfter(events', R, S)
      /\ \A R, S : NoneAfter(events, R, S) /\ e \in R => Free(events', S)
  BY <1>1, <1>2, HeardPipe
<1>4. ~Swapping /\ ~Swapping' /\ at \notin Waits
  BY <1>2 DEF Swapping, Waits
<1>5. LimitsAreAwaited' /\ ClearsAreAwaited' /\ SwapsAreAwaited' /\ LoadsSucceed'
  BY <1>3, <1>4, AwaitedLess
<1>6. ConfigsAreKnown'
  BY <1>2, <1>3, <1>4, ConfigsLess
<1>7. GreetingIsOpen'
  BY <1>2, <1>3, GreetingLess
<1>8. Only(r)
  BY <1>1, <1>2 DEF Words, RequestsAreKept
<1>9. CASE Acknowledges(e) /\ at' = "top"
  <2>1. e \in Endings
    BY <1>3, <1>9, WordSets DEF Acknowledges
  <2>2. Free(events', RequestEvents)
    BY <1>3, <1>8, <2>1 DEF Only
  <2>3. RequestsAreKept'
    BY <1>2, <1>9, <2>2 DEF RequestsAreKept
  <2> QED
    BY <1>5, <1>6, <1>7, <2>3 DEF Words
<1>10. CASE at' = "cancel" /\ cur' = r
  <2>1. RequestsAreKept'
    BY <1>2, <1>3, <1>8, <1>10 DEF RequestsAreKept, Only, NoMore
  <2> QED
    BY <1>5, <1>6, <1>7, <2>1 DEF Words
<1>11. CASE at' = "replace"
  <2>1. RequestsAreKept'
    BY <1>2, <1>11 DEF RequestsAreKept
  <2> QED
    BY <1>5, <1>6, <1>7, <2>1 DEF Words
<1> QED
  BY <1>2, <1>9, <1>10, <1>11

\* A new worker says a part of its greeting.
LEMMA AckWords ==
    ASSUME ControlInv, PipeInv, Words, at \in {"recover", "handshake"}, events # << >>, Consume,
           NEW now, now = staged \cup {Head(events).type}, UNCHANGED <<active, startupApplied>>,
           IF Recovered(now) THEN at' \in {"top", "reload"}
           ELSE staged' = now /\ UNCHANGED <<at, isReady, config, readyModel>>
    PROVE  Words'
<1>1. PICK e : e = Head(events)
  OBVIOUS
<1>2. /\ e \in Events
      /\ \A C : NoMore(commands', commands, C)
      /\ \A E : NoMore(events', events, E)
      /\ \A R, S : NoneAfter(events, R, S) /\ e \in R => Free(events', S)
      /\ e \in Says(events)
  BY <1>1, HeardPipe
<1>3. ~Swapping /\ ~Swapping' /\ at \notin Waits /\ active = None /\ at' \notin {"cancel", "replace"}
  BY Holds DEF Swapping, Waits, ActivePositions
<1>4. LimitsAreAwaited' /\ ClearsAreAwaited' /\ SwapsAreAwaited' /\ LoadsSucceed'
  BY <1>2, <1>3, AwaitedLess
<1>5. "Idle" \in now => Free(events', Idles)
  <2>1. e.type = "Idle" => e \in Idles
    BY <1>2, WordSets
  <2> QED
    BY <1>1, <1>2, <2>1 DEF Words, GreetingIsOpen, PipeInv, GreetingIsFirst, NoMore
<1>6. "Config" \in now => Free(events', Configs)
  <2>1. e.type = "Config" => e \in Configs
    BY <1>2, WordSets
  <2>2. NoneAfter(events, Configs, Configs) \/ Free(events, Configs)
    BY <1>3 DEF Words, ConfigsAreKnown, ConfigIsNews
  <2> QED
    BY <1>1, <1>2, <2>1, <2>2 DEF Words, GreetingIsOpen, NoMore, Free
<1>7. ConfigsAreKnown' /\ GreetingIsOpen'
  <2>1. CASE Recovered(now)
    BY <1>5, <1>6, <2>1 DEF ConfigsAreKnown, GreetingIsOpen, Recovered
  <2>2. CASE ~Recovered(now)
    <3>1. ConfigsAreKnown'
      BY <1>2, <1>3, <2>2, ConfigsLess
    <3>2. Free(events, Idles) => Free(events', Idles)
      BY <1>2 DEF NoMore
    <3> QED
      BY <1>5, <1>6, <2>2, <3>1, <3>2 DEF Words, GreetingIsOpen
  <2> QED
    BY <2>1, <2>2
<1>8. RequestsAreKept'
  BY <1>2, <1>3 DEF Words, RequestsAreKept, NoMore
<1> QED
  BY <1>4, <1>7, <1>8 DEF Words

(***************************************************************************)
(* The steps of the worker                                                 *)
(***************************************************************************)

\* What is under way between C and E stays so.
Lasts(C, E) ==
    /\ Quiet(commands, events, C, E) => Quiet(commands', events', C, E)
    /\ One(commands, events, C, E) => One(commands', events', C, E)

\* A step of the worker that answers what it was asked keeps the waits.
LEMMA LastingWords ==
    ASSUME Words, Lasts(Updates, LimitWords), Lasts(Clears, Cleareds), Lasts(Swaps, Swappeds), Lasts(Swaps, Configs),
           \A t : Quiet(commands, events, OtherSwaps(t), OtherWords(t)) => Quiet(commands', events', OtherSwaps(t), OtherWords(t)),
           NoMore(events', events, LoadFailures), NoMore(events', events, Idles),
           Free(commands, Swaps) => NoMore(events', events, Configs) /\ NoMore(events', events, OtherWords(None)),
           UNCHANGED <<at, cur, staged, isReady, startupApplied, config, readyModel>>
    PROVE  /\ LimitsAreAwaited' /\ ClearsAreAwaited' /\ SwapsAreAwaited'
           /\ ConfigsAreKnown' /\ GreetingIsOpen' /\ LoadsSucceed'
<1>1. LimitsAreAwaited' /\ ClearsAreAwaited'
  BY DEF Words, LimitsAreAwaited, ClearsAreAwaited, Lasts
<1>2. ~Swapping => NoMore(events', events, Configs) /\ NoMore(events', events, OtherWords(None))
  BY DEF Words, SwapsAreAwaited, Quiet
<1>3. SwapsAreAwaited'
  <2>1. CASE Swapping
    <3>1. PICK t : t = Target
      OBVIOUS
    <3>2. Target' = t /\ Swapping'
      BY <2>1, <3>1 DEF Target, Swapping
    <3>3. SwapAwaited(t)
      BY <2>1, <3>1 DEF Words, SwapsAreAwaited
    <3>4. SwapAwaited(t)'
      BY <3>3 DEF SwapAwaited, Lasts
    <3> QED
      BY <3>2, <3>4 DEF SwapsAreAwaited, SwapAwaited
  <2>2. CASE ~Swapping
    BY <2>2 DEF Words, SwapsAreAwaited, Swapping, Lasts
  <2> QED
    BY <2>1, <2>2
<1>4. ConfigsAreKnown'
  BY <1>2 DEF Words, ConfigsAreKnown, ConfigIsNews, Swapping, NoMore
<1>5. GreetingIsOpen'
  <2>1. at \in {"recover", "handshake"} => ~Swapping
    BY DEF Swapping
  <2> QED
    BY <1>2, <2>1 DEF Words, GreetingIsOpen, NoMore
<1>6. LoadsSucceed'
  BY DEF Words, LoadsSucceed, NoMore
<1> QED
  BY <1>1, <1>3, <1>4, <1>5, <1>6

\* The worker takes c, the first command, and says u; or it ends without a word.
LEMMA AnsweredWords ==
    ASSUME ControlInv, Words, commands # << >>, NEW c, c = Head(commands), NEW u \in Seq(Events), Utters(c, u),
           events' = events \o u, commands' = Tail(commands) \/ (commands' = << >> /\ u = << >>),
           UNCHANGED <<at, cur, staged, isReady, startupApplied, config, readyModel>>
    PROVE  /\ LimitsAreAwaited' /\ ClearsAreAwaited' /\ SwapsAreAwaited'
           /\ ConfigsAreKnown' /\ GreetingIsOpen' /\ LoadsSucceed'
<1>1. commands \in Seq(Commands) /\ events \in Seq(Events) /\ c \in Says(commands)
  BY Holds, ReadPipe
<1>2. \A E : Free(u, E) => NoMore(events', events, E)
  BY <1>1, LessPipe
<1>3. ASSUME NEW C, NEW E, (c \in C /\ NoneAfter(u, E, E)) \/ Free(u, E)
      PROVE  Lasts(C, E)
  <2>1. CASE commands' = Tail(commands)
    BY <1>1, <1>3, <2>1, PairAnswered DEF Lasts
  <2>2. CASE commands' = << >> /\ u = << >>
    <3>1. NoMore(commands', commands, C)
      BY <1>1, <2>2, LessPipe
    <3>2. NoMore(events', events, E)
      BY <1>2, <2>2, EmptyPipe
    <3> QED
      BY <3>1, <3>2, PairKept DEF Lasts
  <2> QED
    BY <2>1, <2>2
<1>4. Free(u, Swappeds \cup Configs) => Free(u, Swappeds) /\ Free(u, Configs) /\ \A t : Free(u, OtherWords(t))
  BY DEF Free, OtherWords, Swappeds, Configs
<1>5. /\ Lasts(Updates, LimitWords) /\ Lasts(Clears, Cleareds)
      /\ Lasts(Swaps, Swappeds) /\ Lasts(Swaps, Configs)
  BY <1>3, <1>4 DEF Utters
<1>6. ASSUME NEW t, Quiet(commands, events, OtherSwaps(t), OtherWords(t))
      PROVE  Quiet(commands', events', OtherSwaps(t), OtherWords(t))
  <2>1. c \notin OtherSwaps(t)
    BY <1>1, <1>6 DEF Quiet, Free
  <2>2. Free(u, OtherWords(t))
    BY <1>4, <2>1 DEF Utters
  <2> QED
    BY <1>3, <1>6, <2>2 DEF Lasts
<1>7. NoMore(events', events, LoadFailures) /\ NoMore(events', events, Idles)
  BY <1>2 DEF Utters
<1>8. Free(commands, Swaps) => NoMore(events', events, Configs) /\ NoMore(events', events, OtherWords(None))
  <2>1. Free(commands, Swaps) => c \notin Swaps
    BY <1>1 DEF Free
  <2> QED
    BY <1>2, <1>4, <2>1 DEF Utters
<1> QED
  BY <1>5, <1>6, <1>7, <1>8, LastingWords

\* What is said next of r: nothing, or a part of the conversation about it.
GoesOn(u, r) ==
    \/ /\ Free(u, RequestEvents)
       /\ serving = None /\ Free(commands, Generates) => serving' = None /\ Free(commands', Generates)
    \/ /\ Speaks(u, r) /\ Free(events, Endings)
       /\ ~(serving = None /\ Free(commands, Generates))
       /\ serving' = None \/ Free(u, Outcomes)
       /\ Free(commands', Generates)

\* The conversation about r is still about r.
LEMMA OnlyGoesOn ==
    ASSUME ControlInv, NEW u \in Seq(Events), events' = events \o u, NEW r, Only(r), GoesOn(u, r)
    PROVE  Only(r)'
<1>1. events \in Seq(Events) /\ Says(events') = Says(events) \cup Says(u)
  BY Holds, ExtendedPipe
<1>2. Free(u, Misfits(r))
  BY WordSets DEF GoesOn, Speaks, Free
<1>3. NoneAfter(events', Endings, RequestEvents)
  <2>1. CASE Free(u, RequestEvents)
    <3>1. NoneAfter(u, Endings, RequestEvents)
      BY <2>1 DEF NoneAfter, Free, Says
    <3> QED
      BY <1>1, <2>1, <3>1, ExtendedPipe DEF Only
  <2>2. CASE Speaks(u, r) /\ Free(events, Endings)
    BY <1>1, <2>2, ExtendedPipe DEF Only, Speaks
  <2> QED
    BY <2>1, <2>2 DEF GoesOn
<1> QED
  BY <1>1, <1>2, <1>3 DEF Only, Free

\* Its outcome still comes in its place.
LEMMA OrderGoesOn ==
    ASSUME ControlInv, NEW u \in Seq(Events), events' = events \o u, NEW r, Ordered, GoesOn(u, r), UNCHANGED ended
    PROVE  Ordered'
<1>1. events \in Seq(Events) /\ Says(events') = Says(events) \cup Says(u)
  BY Holds, ExtendedPipe
<1>2. CASE Free(u, RequestEvents) /\ (serving = None /\ Free(commands, Generates) => serving' = None /\ Free(commands', Generates))
  <2>1. Free(u, Outcomes) /\ Free(u, Reports) /\ Free(u, Finals)
    BY <1>2, WordSets DEF Free
  <2>2. /\ Free(events', Outcomes) <=> Free(events, Outcomes)
        /\ Free(events', Reports) <=> Free(events, Reports)
        /\ Free(events', Finals) <=> Free(events, Finals)
    BY <1>1, <2>1 DEF Free
  <2>3. NoneAfter(u, Outcomes, Reports)
    BY <2>1 DEF NoneAfter, Free, Says
  <2>4. NoneAfter(events', Outcomes, Reports)
    BY <1>1, <2>1, <2>3, ExtendedPipe DEF Ordered
  <2> QED
    BY <1>2, <2>2, <2>4 DEF Ordered
<1>3. CASE /\ Speaks(u, r) /\ Free(events, Endings) /\ ~(serving = None /\ Free(commands, Generates))
           /\ serving' = None \/ Free(u, Outcomes)
           /\ Free(commands', Generates)
  <2>1. Free(events, Outcomes) /\ ~ended /\ Free(events, Finals)
    BY <1>3, WordSets DEF Ordered, Free
  <2>2. NoneAfter(events', Outcomes, Reports)
    BY <1>1, <1>3, <2>1, ExtendedPipe DEF Ordered, Speaks
  <2>3. Free(u, Outcomes) <=> Free(events', Outcomes)
    BY <1>1, <2>1 DEF Free
  <2>4. Free(u, Finals) <=> Free(events', Finals)
    BY <1>1, <2>1 DEF Free
  <2> QED
    BY <1>3, <2>1, <2>2, <2>3, <2>4 DEF Ordered, Speaks
<1> QED
  BY <1>2, <1>3 DEF GoesOn

\* The worker says something: the requests.
LEMMA SaidRequests ==
    ASSUME ControlInv, PipeInv, KillIsFinal, RequestsAreKept, proc = "up", UNCHANGED <<at, cur, active, ended>>,
           NEW u \in Seq(Events), events' = events \o u,
           \A r \in Requests : ServesOnly(r) => GoesOn(u, r), Clean => Free(u, RequestEvents)
    PROVE  RequestsAreKept'
<1>1. events \in Seq(Events) /\ Says(events') = Says(events) \cup Says(u) /\ status # "Unavailable"
  BY Holds, ExtendedPipe, HeardIsTrusted
<1>2. ASSUME active = None, at \notin {"cancel", "replace"} PROVE Free(events', RequestEvents)
  BY <1>1, <1>2 DEF PipeInv, TrustedIsClean, Clean, Free
<1>3. ASSUME NEW r, active = r, r # None PROVE Only(r)' /\ Ordered'
  <2>1. r \in Requests /\ ServesOnly(r) /\ Only(r) /\ Ordered
    BY <1>3, Holds DEF PipeInv, ServedIsTracked, RequestsAreKept
  <2> QED
    BY <2>1, OnlyGoesOn, OrderGoesOn
<1>4. ASSUME NEW r, cur = r, at = "cancel" PROVE Only(r)'
  <2>1. r \in Requests /\ ServesOnly(r) /\ Only(r)
    BY <1>4, Holds DEF PipeInv, ServedIsTracked, RequestsAreKept
  <2> QED
    BY <2>1, OnlyGoesOn
<1> QED
  BY <1>2, <1>3, <1>4 DEF RequestsAreKept, Only

\* The worker answers a command.
LEMMA AnswersWords ==
    ASSUME "loadFails" \notin Faults, ControlInv, PipeInv, KillIsFinal, Words, WorkerAnswers
    PROVE  Words'
<1>1. PICK c : c = Head(commands)
  OBVIOUS
<1>2. PICK x \in Answers(c, serving, model) :
         Becomes(x) /\ commands' = IF x.lives THEN Tail(commands) ELSE << >>
  BY <1>1 DEF WorkerAnswers
<1>3. /\ proc = "up" /\ commands # << >> /\ commands \in Seq(Commands) /\ c \in Commands
      /\ events \in Seq(Events) /\ serving \in Requests \cup {None} /\ status # "Unavailable"
      /\ UNCHANGED <<at, cur, staged, isReady, startupApplied, config, readyModel, active, ended>>
  BY <1>1, FirstMessage, TypeParts, HeardIsTrusted
     DEF WorkerAnswers, ControlInv, WorkerTypes, loopVars, healthVars, activeVars
<1>4. PICK u : u = x.emit /\ u \in Seq(Events) /\ events' = events \o u /\ serving' = x.serves
  BY <1>2, <1>3, AnswersTyped, TypeParts DEF Becomes, AnswerIsTyped, ControlInv, WorkerTypes
<1>5. /\ c \in Says(commands) /\ Says(commands') \subseteq Says(commands)
      /\ \A R, S : NoneAfter(commands, R, S) /\ c \in R => Free(commands', S)
  <2>1. CASE x.lives
    BY <1>1, <1>2, <1>3, <2>1, ReadPipe
  <2>2. CASE ~x.lives
    BY <1>1, <1>2, <1>3, <2>2, ReadPipe, EmptyPipe
  <2> QED
    BY <2>1, <2>2
<1>6. ~(c \in Generates /\ serving # None)
  BY <1>3, <1>5, Holds DEF PipeInv, TrustedIsClean, Clean, ServedIsTracked, ServesOnly, Free
<1>7. /\ c \in Generates => c.of \in Requests
      /\ Utters(c, u)
      /\ serving = None /\ c \in Generates => Speaks(u, c.of) /\ (serving' = None \/ Free(u, Outcomes))
      /\ serving # None /\ c \notin Generates => /\ Speaks(u, serving) \/ Free(u, RequestEvents)
                                                 /\ serving' = None \/ Free(u, Outcomes)
      /\ serving = None /\ c \notin Generates => Free(u, RequestEvents) /\ serving' = None
      /\ ~x.lives => u = << >>
  BY <1>2, <1>3, <1>4, <1>6, AnswerSpeaks
<1>8. /\ LimitsAreAwaited' /\ ClearsAreAwaited' /\ SwapsAreAwaited'
      /\ ConfigsAreKnown' /\ GreetingIsOpen' /\ LoadsSucceed'
  <2>1. commands' = Tail(commands) \/ (commands' = << >> /\ u = << >>)
    BY <1>2, <1>7
  <2> QED
    BY <1>1, <1>3, <1>4, <1>7, <2>1, AnsweredWords
<1>9. ASSUME NEW r \in Requests, ServesOnly(r) PROVE GoesOn(u, r)
  <2>1. CASE serving = None /\ c \in Generates
    <3>1. c.of = r /\ ~Free(commands, Generates) /\ Free(commands', Generates)
      BY <1>5, <1>9, <2>1 DEF ServesOnly, Free
    <3>2. Free(events, Endings)
      BY <1>9, <3>1 DEF ServesOnly
    <3> QED
      BY <1>7, <2>1, <3>1, <3>2 DEF GoesOn
  <2>2. CASE serving = None /\ c \notin Generates
    BY <1>5, <1>7, <2>2 DEF GoesOn, Free
  <2>3. CASE serving # None
    <3>1. serving = r /\ Free(commands, Generates) /\ Free(events, Endings) /\ Free(commands', Generates)
      BY <1>5, <1>9, <2>3 DEF ServesOnly, Free
    <3> QED
      BY <1>6, <1>7, <2>3, <3>1 DEF GoesOn
  <2> QED
    BY <2>1, <2>2, <2>3
<1>10. Clean => Free(u, RequestEvents)
  BY <1>5, <1>7 DEF Clean, Free
<1>11. RequestsAreKept'
  BY <1>3, <1>4, <1>9, <1>10, SaidRequests DEF Words
<1> QED
  BY <1>8, <1>11 DEF Words

\* A busy worker goes on.
LEMMA AdvancesWords ==
    ASSUME ControlInv, PipeInv, KillIsFinal, Words, WorkerAdvances
    PROVE  Words'
<1>1. PICK q \in Requests, x \in Advances(serving, model) : q = serving /\ Becomes(x)
  BY TypeParts DEF WorkerAdvances, ControlInv, WorkerTypes
<1>2. /\ proc = "up" /\ commands = << >> /\ commands' = << >> /\ serving # None
      /\ events \in Seq(Events) /\ model \in Models \cup {None}
      /\ UNCHANGED <<at, cur, staged, isReady, startupApplied, config, readyModel, active, ended>>
  BY TypeParts DEF WorkerAdvances, ControlInv, WorkerTypes, loopVars, healthVars, activeVars
<1>3. PICK u : u = x.emit /\ u \in Seq(Events) /\ events' = events \o u /\ serving' = x.serves
  BY <1>1, <1>2, AdvancesTyped DEF Becomes, AnswerIsTyped
<1>4. Speaks(u, q) /\ (serving' = None \/ Free(u, Outcomes))
  BY <1>1, <1>3, AdvanceSpeaks
<1>5. /\ Free(u, LimitWords) /\ Free(u, Cleareds) /\ Free(u, Swappeds) /\ Free(u, Configs) /\ Free(u, LoadFailures)
      /\ Free(u, Idles) /\ \A t : Free(u, OtherWords(t))
  <2>1. /\ Free(u, LimitWords) /\ Free(u, Cleareds) /\ Free(u, Swappeds \cup Configs) /\ Free(u, LoadFailures)
        /\ Free(u, Idles) /\ \A t : Free(u, OtherWords(t))
    BY <1>4, OtherEvents DEF Speaks
  <2> QED
    BY <2>1 DEF Free
<1>6. \A E : Free(u, E) => NoMore(events', events, E)
  BY <1>2, <1>3, LessPipe
<1>7. ASSUME NEW C, NEW E, Free(u, E) PROVE Lasts(C, E)
  <2>1. NoMore(events', events, E) /\ NoMore(commands', commands, C)
    BY <1>2, <1>6, <1>7 DEF NoMore
  <2> QED
    BY <2>1, PairKept DEF Lasts
<1>8. /\ LimitsAreAwaited' /\ ClearsAreAwaited' /\ SwapsAreAwaited'
      /\ ConfigsAreKnown' /\ GreetingIsOpen' /\ LoadsSucceed'
  <2>1. /\ Lasts(Updates, LimitWords) /\ Lasts(Clears, Cleareds) /\ Lasts(Swaps, Swappeds) /\ Lasts(Swaps, Configs)
        /\ \A t : Lasts(OtherSwaps(t), OtherWords(t))
    BY <1>5, <1>7
  <2>2. \A t : Quiet(commands, events, OtherSwaps(t), OtherWords(t)) => Quiet(commands', events', OtherSwaps(t), OtherWords(t))
    BY <2>1 DEF Lasts
  <2> QED
    BY <1>2, <1>5, <1>6, <2>1, <2>2, LastingWords
<1>9. ASSUME NEW r \in Requests, ServesOnly(r) PROVE GoesOn(u, r)
  <2>1. r = q /\ Free(events, Endings)
    BY <1>1, <1>2, <1>9 DEF ServesOnly
  <2> QED
    BY <1>2, <1>4, <2>1, EmptyPipe DEF GoesOn
<1>10. ~Clean
  BY <1>2 DEF Clean
<1>11. RequestsAreKept'
  BY <1>2, <1>3, <1>9, <1>10, SaidRequests DEF Words
<1> QED
  BY <1>8, <1>11 DEF Words

\* The worker dies with some of its events written: an outcome is written
\* before its finalization.
LEMMA CrashWords ==
    ASSUME ControlInv, Words, WorkerCrashes
    PROVE  Words'
<1>1. PICK k \in 0..Len(events) : events' = SubSeq(events, 1, k)
  BY DEF WorkerCrashes
<1>2. /\ commands' = << >> /\ serving' = None /\ events \in Seq(Events) /\ commands \in Seq(Commands)
      /\ UNCHANGED <<at, cur, staged, isReady, startupApplied, config, readyModel, active, ended>>
  BY Holds DEF WorkerCrashes, loopVars, healthVars, activeVars
<1>3. (\A C : NoMore(commands', commands, C)) /\ (\A E : NoMore(events', events, E))
  BY <1>1, <1>2, LessPipe
<1>4. \A R, S : NoneAfter(events, R, S) => NoneAfter(events', R, S)
  BY <1>1, <1>2, CutPipe
<1>5. \A C, E : Lasts(C, E)
  BY <1>3, PairKept DEF Lasts
<1>6. /\ LimitsAreAwaited' /\ ClearsAreAwaited' /\ SwapsAreAwaited'
      /\ ConfigsAreKnown' /\ GreetingIsOpen' /\ LoadsSucceed'
  <2>1. \A t : Quiet(commands, events, OtherSwaps(t), OtherWords(t)) => Quiet(commands', events', OtherSwaps(t), OtherWords(t))
    BY <1>5 DEF Lasts
  <2> QED
    BY <1>2, <1>3, <1>5, <2>1, LastingWords
<1>7. ASSUME NEW r, Only(r) PROVE Only(r)'
  BY <1>3, <1>4, <1>7 DEF Only, NoMore
<1>8. ASSUME Ordered, NoneAfter(events, Endings, RequestEvents) PROVE Ordered'
  <2>1. NoneAfter(events', Outcomes, Reports) /\ (ended' => Free(events', Reports))
    BY <1>2, <1>3, <1>4, <1>8 DEF Ordered, NoMore
  <2>2. serving' = None /\ Free(commands', Generates)
    BY <1>2, EmptyPipe
  <2>3. ASSUME ~ended', ~Free(events', Finals) PROVE ~Free(events', Outcomes)
    <3>1. Len(events') = k /\ (\A i \in 1..k : events'[i] = events[i]) /\ 1..k \subseteq 1..Len(events)
      BY <1>1, <1>2
    <3>2. PICK i \in 1..k : events[i] \in Finals
      BY <2>3, <3>1 DEF Free, Says
    <3>3. ~Free(events, Finals)
      BY <3>1, <3>2 DEF Free, Says
    <3>4. PICK j \in 1..Len(events) : events[j] \in Outcomes
      BY <1>2, <1>8, <2>3, <3>3 DEF Ordered, Free, Says
    <3>5. events[i] \in Endings /\ events[j] \in RequestEvents /\ i \in 1..Len(events) /\ i # j
      <4>1. events[i] \in Endings /\ events[j] \in RequestEvents /\ i \in 1..Len(events)
        BY <3>1, <3>2, <3>4, WordSets
      <4>2. events[i].type = "Released" /\ events[j].type = "Ended"
        BY <3>2, <3>4 DEF Finals, Outcomes
      <4> QED
        BY <4>1, <4>2
    <3>6. ~(i < j)
      BY <1>8, <3>4, <3>5 DEF NoneAfter
    <3>7. j \in 1..k
      BY <1>1, <3>2, <3>4, <3>5, <3>6
    <3> QED
      BY <3>1, <3>4, <3>7 DEF Free, Says
  <2> QED
    BY <2>1, <2>2, <2>3 DEF Ordered
<1>9. RequestsAreKept'
  <2>1. active = None /\ at \notin {"cancel", "replace"} => Free(events', RequestEvents)
    BY <1>3 DEF Words, RequestsAreKept, NoMore
  <2>2. ASSUME NEW r, active = r, r # None PROVE Only(r)' /\ Ordered'
    BY <1>7, <1>8, <2>2 DEF Words, RequestsAreKept, Only
  <2>3. ASSUME NEW r, cur = r, at = "cancel" PROVE Only(r)'
    BY <1>7, <2>3 DEF Words, RequestsAreKept
  <2> QED
    BY <1>2, <2>1, <2>2, <2>3 DEF RequestsAreKept, Only
<1> QED
  BY <1>6, <1>9 DEF Words

(***************************************************************************)
(* The configuration is known before it is relied on                       *)
(***************************************************************************)

\* Where loads succeed, none is reported as failed.
LEMMA LoadSucceeds == ASSUME ControlInv, Words PROVE ~ReadSwapFailure
<1> SUFFICES ASSUME ReadSwapFailure PROVE FALSE
    OBVIOUS
<1>1. PICK e : e = Head(events) /\ e.type \in {"SwapFailed", "ModelLost"} /\ events # << >>
  BY DEF ReadSwapFailure
<1>2. e \in Events /\ e \in Says(events)
  BY <1>1, Holds, FirstMessage, ReadPipe
<1> QED
  BY <1>1, <1>2, WordSets DEF Words, LoadsSucceed, Free

\* An event is read: a greeting is read before the startup is applied.
LEMMA EventStart == ASSUME ControlInv, TalkInv, ReadEvent PROVE StartIsConfigured'
<1>1. PICK e : e = Head(events)
  OBVIOUS
<1>2. /\ Pumping /\ events # << >> /\ ApplyToHealth(e) /\ Continue(e) /\ UNCHANGED startupApplied
      /\ active' = IF EndsRequest(e) THEN None ELSE active
  BY <1>1 DEF ReadEvent, ApplyToRequest
<1>3. e \in Events /\ e \in Says(events)
  BY <1>1, <1>2, Holds, FirstMessage, ReadPipe
<1>4. e.type = "Idle" => ~isReady /\ ~startupApplied
  BY <1>3, WordSets DEF TalkInv, Words, GreetingIsOpen, Free
<1>5. e.type = "Config" => e.of # NoConfig
  BY <1>3, EventForms, LoopAssumption
<1>6. /\ at \in {"select", "limit", "clear", "swap", "restore", "startup"} /\ (active' # None => active # None)
      /\ (at' = at /\ expects' = expects) \/ at' \in {"top", "tidy", "observe"}
  BY <1>2, Holds DEF Pumping, Continue, Settle, Stay
<1>7. StartIsConfigured /\ (at = "restore" => isReady)
  BY DEF TalkInv, ControlInv, Posture, PositionIsSound
<1>8. CASE e.type = "Idle"
  <2>1. at \notin {"swap", "restore"} /\ active = None
    BY <1>4, <1>7, <1>8 DEF StartIsConfigured
  <2> QED
    BY <1>2, <1>4, <1>6, <1>8, <2>1 DEF StartIsConfigured, Swapping
<1>9. CASE e.type # "Idle"
  <2>1. (isReady' => isReady) /\ (config' = config \/ config' # NoConfig)
    <3>1. isReady' => isReady
      BY <1>2, <1>9, Zenon DEF ApplyToHealth
    <3>2. config' = config \/ config' # NoConfig
      BY <1>2, <1>5, <1>9 DEF ApplyToHealth
    <3> QED
      BY <3>1, <3>2
  <2> QED
    BY <1>2, <1>6, <1>7, <2>1 DEF StartIsConfigured, Swapping
<1> QED
  BY <1>8, <1>9

\* Every step of the loop keeps that a request is started, and a model asked
\* for, with a configuration that is known.
LEMMA StartKept == ASSUME ControlInv, TalkInv, Next PROVE StartIsConfigured'
<1> USE ProtocolAssumption, LoopAssumption, TypeParts DEF ControlInv, TalkInv, StartIsConfigured, Swapping, Posture,
      ActiveIsTracked, PositionIsSound, Starting, ActivePositions, NameTypes, ClientTypes
<1>1. CASE WorkerAnswers
  BY <1>1 DEF WorkerAnswers, loopVars, healthVars, activeVars
<1>2. CASE WorkerAdvances
  BY <1>2 DEF WorkerAdvances, loopVars, healthVars, activeVars
<1>3. CASE WorkerCrashes
  BY <1>3 DEF WorkerCrashes, loopVars, healthVars, activeVars
<1>4. CASE DrainLimit
  BY <1>4 DEF DrainLimit, loopVars, healthVars, activeVars, AwaitReply, Contain, Stay, PublishUnavailable,
      Settle
<1>5. CASE DrainClear
  BY <1>5 DEF DrainClear, loopVars, healthVars, activeVars, ControlIsIdle, AwaitReply, Contain, Stay,
      PublishUnavailable, Settle
<1>6. CASE Observe
  BY <1>6 DEF Observe, loopVars, healthVars, activeVars, Stay
<1>7. CASE ReadEvent
  BY <1>7, EventStart
<1>8. CASE ReadViolation
  BY <1>8 DEF ReadViolation, loopVars, healthVars, activeVars, Pumping, Claimed, Mismatched, Violates, Trouble,
      Uncontained, Swapping, Target, Settle, Contain, PublishUnavailable
<1>9. CASE ReadEnd
  BY <1>9 DEF ReadEnd, loopVars, healthVars, activeVars, Pumping, Trouble, Uncontained, Settle, Contain,
      PublishUnavailable
<1>10. CASE WaitTimesOut
  BY <1>10 DEF WaitTimesOut, loopVars, healthVars, activeVars, Pumping, Contain, Settle, PublishUnavailable
<1>11. CASE ReadCleared
  BY <1>11 DEF ReadCleared, loopVars, healthVars, activeVars, Settle
<1>12. CASE StartupDone
  BY <1>12 DEF StartupDone, loopVars, healthVars, activeVars, Pumping, Stay
<1>13. CASE ChooseModel
  BY <1>13 DEF ChooseModel, loopVars, healthVars, activeVars, NeedsNoSwap, Stay, Refuse, AskForModel, Contain,
      Settle, PublishUnavailable
<1>14. CASE ReadSwapReply
  BY <1>14 DEF ReadSwapReply, loopVars, healthVars, activeVars, Swapping, Claimed, Mismatched, Settle, Target
<1>15. CASE ReadSwapFailure
  BY <1>15, LoadSucceeds
<1>16. CASE Dispatch
  BY <1>16 DEF Dispatch, loopVars, healthVars, activeVars, DropDisconnected, RejectStart, StartRequest,
      FailStart, Settle, Refuse, Stay, Contain, PublishUnavailable
<1>17. CASE ReadCancelled
  BY <1>17 DEF ReadCancelled, loopVars, healthVars, activeVars, Acknowledges, Settle, Drained, Stay
<1>18. CASE CancelFails
  BY <1>18 DEF CancelFails, loopVars, healthVars, activeVars, Stay
<1>19. CASE ReplaceUncancelled
  BY <1>19 DEF ReplaceUncancelled, loopVars, healthVars, activeVars, Relaunch, StayDown, PublishUnavailable,
      Settle
<1>20. CASE ReadRecovery
  BY <1>20 DEF ReadRecovery, loopVars, healthVars, activeVars, Settle
<1>21. CASE RecoveryFails
  BY <1>21 DEF RecoveryFails, loopVars, healthVars, activeVars, StayDown, PublishUnavailable, Settle
<1>22. CASE CandidateAcknowledged
  BY <1>22 DEF CandidateAcknowledged, loopVars, healthVars, activeVars, Stay
<1>23. CASE CandidateRejected
  BY <1>23 DEF CandidateRejected, loopVars, healthVars, activeVars, Settle
<1>24. CASE CommitCandidate
  BY <1>24 DEF CommitCandidate, loopVars, healthVars, activeVars, Settle
<1>25. CASE StopTrusted
  BY <1>25 DEF StopTrusted, loopVars, healthVars, activeVars, Stay
<1>26. CASE CloseTrustedFails
  BY <1>26 DEF CloseTrustedFails, loopVars, healthVars, activeVars, PublishUnavailable, Settle
<1>27. CASE LaunchDemoted
  BY <1>27 DEF LaunchDemoted, loopVars, healthVars, activeVars, Stay, PublishUnavailable, Settle
<1>28. CASE ReadHandshake
  BY <1>28 DEF ReadHandshake, loopVars, healthVars, activeVars
<1>29. CASE HandshakeFails
  BY <1>29 DEF HandshakeFails, loopVars, healthVars, activeVars, PublishUnavailable, Settle
<1>30. CASE ReloadModel
  BY <1>30 DEF ReloadModel, loopVars, healthVars, activeVars, Settle
<1>31. CASE CancelAbandoned
  BY <1>31 DEF CancelAbandoned, loopVars, healthVars, activeVars, BeginCancel, SendCancel
<1>32. CASE CancelBackpressured
  BY <1>32 DEF CancelBackpressured, loopVars, healthVars, activeVars, BeginCancel
<1>33. CASE CancelOverdue
  BY <1>33 DEF CancelOverdue, loopVars, healthVars, activeVars, BeginCancel, SendCancel
<1>34. CASE RelaunchContained
  <2>1. active = None
    BY <1>34 DEF RelaunchContained, RelaunchIsOwed
  <2> QED
    BY <1>34, <2>1 DEF RelaunchContained, Relaunch, StayDown, PublishUnavailable, Settle, activeVars
<1>35. CASE LoadDeadlinePasses
  BY <1>35 DEF LoadDeadlinePasses, loopVars, healthVars, activeVars, Contain, PublishUnavailable, Settle
<1>36. CASE IdleTick
  BY <1>36 DEF IdleTick, loopVars, healthVars, activeVars, Settle
<1>37. CASE UpdateLimit
  BY <1>37 DEF UpdateLimit, loopVars, healthVars, activeVars, Settle, AwaitReply
<1>38. CASE ClearPromptCache
  BY <1>38 DEF ClearPromptCache, loopVars, healthVars, activeVars, ControlIsIdle, Settle, AwaitReply, Contain,
      PublishUnavailable
<1>39. CASE RestartWorker
  BY <1>39 DEF RestartWorker, loopVars, healthVars, activeVars, ReplacementAllowed, Stay, Settle
<1>40. CASE DemoteWorker
  BY <1>40 DEF DemoteWorker, loopVars, healthVars, activeVars, ReplacementAllowed, PublishUnavailable, Settle
<1>41. CASE Shutdown
  BY <1>41 DEF Shutdown, loopVars, healthVars, activeVars, PublishUnavailable, Settle
<1>42. ASSUME NEW r \in Requests, Submit(r) PROVE StartIsConfigured'
  BY <1>42 DEF Submit, loopVars, healthVars, activeVars
<1>43. ASSUME NEW r \in Requests, SendRequest(r) PROVE StartIsConfigured'
  BY <1>43 DEF SendRequest, loopVars, healthVars, activeVars
<1>44. ASSUME NEW r \in Requests, HangUp(r) PROVE StartIsConfigured'
  BY <1>44 DEF HangUp, loopVars, healthVars, activeVars
<1>45. ASSUME NEW r \in Requests, TakeRequest(r) PROVE StartIsConfigured'
  BY <1>45 DEF TakeRequest, loopVars, healthVars, activeVars, Settle
<1> QED
  BY <1>1, <1>2, <1>3, <1>4, <1>5, <1>6, <1>7, <1>8, <1>9, <1>10, <1>11, <1>12, <1>13, <1>14,
      <1>15, <1>16, <1>17, <1>18, <1>19, <1>20, <1>21, <1>22, <1>23, <1>24, <1>25, <1>26,
      <1>27, <1>28, <1>29, <1>30, <1>31, <1>32, <1>33, <1>34, <1>35, <1>36, <1>37, <1>38,
      <1>39, <1>40, <1>41, <1>42, <1>43, <1>44, <1>45
      DEF Next, Worker, Steps, Arms, Client

(***************************************************************************)
(* The talk is kept                                                        *)
(***************************************************************************)

\* A worker that is contained is stopped.
LEMMA ContainWords ==
    ASSUME "killFails" \notin Faults, NEW p, NEW A, NEW B, Contain(p, A, B)
    PROVE  Words'
BY StoppedWords DEF Contain, ForceTerminate

\* A worker is relaunched, or stays down.
LEMMA RelaunchWords ==
    ASSUME Relaunch, isReady' = FALSE, active' = None
    PROVE  Words'
<1>1. CASE Reap
  BY <1>1, StoppedWords
<1>2. CASE Launch /\ startupApplied' = FALSE /\ PublishUnavailable("Loading") /\ at' = "recover" /\ staged' = {}
  BY <1>2, GreetedWords DEF Launch, PublishUnavailable, Waits
<1> QED
  BY <1>1, <1>2 DEF Relaunch

\* What a well-behaved worker says is not taken for a violation.
LEMMA NoViolation ==
    ASSUME ControlInv, KillIsFinal, TalkInv
    PROVE  ~ReadViolation
<1> SUFFICES ASSUME ReadViolation PROVE FALSE
    OBVIOUS
<1>1. /\ events # << >> /\ Pumping
      /\ IF Claimed(Head(events)) THEN Mismatched(Head(events)) ELSE Violates(Head(events))
  BY DEF ReadViolation
<1>2. status # "Unavailable" /\ WellBehavedWorkerKept
  BY <1>1, HeardIsTrusted, TalkIsKept
<1> QED
  BY <1>1, <1>2 DEF WellBehavedWorkerKept

\* The requests without a subject.
LEMMA PlainRequests ==
    /\ Message("UpdateLimit", None) \in Commands /\ Message("UpdateLimit", None) \in Updates
    /\ Message("ClearCache", None) \in Commands /\ Message("ClearCache", None) \in Clears
BY DEF Commands, Updates, Clears, Message

\* A cancellation is written if it can be.
LEMMA CancelTold ==
    ASSUME SendCancel
    PROVE  /\ UNCHANGED <<serving, events>>
           /\ commands' = commands \/ commands' = Append(commands, Message("Cancel", active))
BY DEF SendCancel, Send, workerVars

\* Every step keeps what may be said at each position of the loop.
LEMMA WordsNext ==
    ASSUME "killFails" \notin Faults, "loadFails" \notin Faults, "slowLoad" \notin Faults,
           ControlInv, PipeInv, KillIsFinal, TalkInv, [Next]_vars
    PROVE  Words'
<1> USE Holds DEF TalkInv
<1>1. CASE WorkerAnswers
  BY <1>1, AnswersWords
<1>2. CASE WorkerAdvances
  BY <1>2, AdvancesWords
<1>3. CASE WorkerCrashes
  BY <1>3, CrashWords
<1>4. CASE DrainLimit
  <2>1. CASE UNCHANGED <<workerVars, healthVars, startupApplied, activeVars>> /\ at' \in {"top", "tidy", "observe"}
    BY <1>4, <2>1, QuietWords DEF DrainLimit, Waits, healthVars, activeVars
  <2>2. ASSUME NEW p, Contain(p, {}, {}) PROVE Words'
    BY <2>2, ContainWords
  <2>3. CASE /\ active = None /\ Send(Message("UpdateLimit", None)) /\ at' = "limit"
             /\ UNCHANGED <<healthVars, startupApplied, activeVars>>
    BY <1>4, <2>3, PlainRequests, AskedWords DEF DrainLimit, Waits, healthVars, activeVars
  <2> QED
    BY <1>4, <2>1, <2>2, <2>3 DEF DrainLimit, AwaitReply, Stay, Settle
<1>5. CASE DrainClear
  <2>1. CASE UNCHANGED <<workerVars, healthVars, startupApplied, activeVars>> /\ at' \in {"top", "tidy", "observe"}
    BY <1>5, <2>1, QuietWords DEF DrainClear, Waits, healthVars, activeVars
  <2>2. ASSUME NEW p, Contain(p, {}, {}) PROVE Words'
    BY <2>2, ContainWords
  <2>3. CASE /\ active = None /\ Send(Message("ClearCache", None)) /\ at' = "clear"
             /\ UNCHANGED <<healthVars, startupApplied, activeVars>>
    BY <1>5, <2>3, PlainRequests, AskedWords DEF DrainClear, Waits, healthVars, activeVars
  <2> QED
    BY <1>5, <2>1, <2>2, <2>3 DEF DrainClear, AwaitReply, Stay, Settle, ControlIsIdle
<1>6. CASE Observe
  BY <1>6, QuietWords DEF Observe, Stay, Waits, healthVars, activeVars
<1>7. CASE ReadEvent
  BY <1>7, EventWords
<1>8. CASE ReadViolation
  BY <1>8, NoViolation
<1>9. CASE ReadEnd
  BY <1>9, StoppedWords DEF ReadEnd
<1>10. CASE WaitTimesOut
  <2>1. ASSUME NEW p, NEW A, NEW B, Contain(p, A, B) PROVE Words'
    BY <2>1, ContainWords
  <2> QED
    BY <1>10, <2>1 DEF WaitTimesOut
<1>11. CASE ReadCleared
  BY <1>11, ClearedWords
<1>12. CASE StartupDone
  <2>1. isReady
    BY <1>12 DEF StartupDone, ControlInv, Posture, PositionIsSound, Starting
  <2> QED
    BY <1>12, <2>1, QuietWords DEF StartupDone, Stay, Waits, healthVars, activeVars
<1>13. CASE ChooseModel
  <2>1. CASE UNCHANGED <<workerVars, healthVars, startupApplied, activeVars>> /\ at' \in {"top", "dispatch"}
    BY <1>13, <2>1, QuietWords DEF ChooseModel, Waits, healthVars, activeVars
  <2>2. CASE AskForModel
    <3>1. Wants[cur] \in Models
      BY <1>13, LoopAssumption DEF ChooseModel, ControlInv, Posture, PositionIsSound, Starting
    <3>2. PICK m \in Models : m = Wants[cur]
      BY <3>1
    <3>3. Swapping' /\ Target' = m
      BY <2>2, <3>2 DEF AskForModel, Swapping, Target
    <3> QED
      BY <1>13, <2>2, <3>2, <3>3, SwapAskedWords DEF ChooseModel, AskForModel, healthVars, activeVars
  <2>3. CASE Contain("top", {cur}, {})
    BY <2>3, ContainWords
  <2> QED
    BY <1>13, <2>1, <2>2, <2>3 DEF ChooseModel, Refuse, Stay, Settle
<1>14. CASE ReadSwapReply
  BY <1>14, SwapReplyWords
<1>15. CASE ReadSwapFailure
  BY <1>15, LoadSucceeds
<1>16. CASE Dispatch
  <2>1. CASE DropDisconnected \/ RejectStart
    BY <1>16, <2>1, QuietWords
       DEF Dispatch, DropDisconnected, RejectStart, Refuse, Settle, Waits, healthVars, activeVars
  <2>2. CASE StartRequest
    BY <1>16, <2>2, StartedWords DEF Dispatch, StartRequest, Stay, Settle, healthVars
  <2>3. CASE FailStart
    BY <2>3, ContainWords DEF FailStart
  <2> QED
    BY <1>16, <2>1, <2>2, <2>3 DEF Dispatch
<1>17. CASE ReadCancelled
  BY <1>17, CancelledWords
<1>18. CASE CancelFails
  <2>1. /\ at = "cancel" /\ at' = "replace" /\ active' = None /\ (Reap \/ UNCHANGED workerVars)
        /\ UNCHANGED <<isReady, startupApplied, config, readyModel>>
    BY <1>18 DEF CancelFails, Stay, healthVars, activeVars, ActivePositions
  <2>2. CASE UNCHANGED workerVars
    BY <2>1, <2>2, QuietWords DEF Waits
  <2> QED
    BY <2>1, <2>2, StoppedWords
<1>19. CASE ReplaceUncancelled
  BY <1>19, RelaunchWords DEF ReplaceUncancelled, activeVars, ActivePositions
<1>20. CASE ReadRecovery
  <2>1. PICK now : now = staged \cup {Head(events).type}
    OBVIOUS
  <2>2. /\ at = "recover" /\ events # << >> /\ Consume /\ UNCHANGED <<active, startupApplied>>
        /\ IF Recovered(now) THEN at' = "top" ELSE staged' = now /\ UNCHANGED <<at, isReady, config, readyModel>>
    BY <1>20, <2>1 DEF ReadRecovery, Settle, healthVars, activeVars
  <2> QED
    BY <2>1, <2>2, AckWords
<1>21. CASE RecoveryFails
  BY <1>21, StoppedWords DEF RecoveryFails, ForceTerminate
<1>22. CASE CandidateAcknowledged
  BY <1>22, QuietWords DEF CandidateAcknowledged, Stay, Waits, healthVars, activeVars
<1>23. CASE CandidateRejected
  BY <1>23, QuietWords DEF CandidateRejected, Settle, Waits, healthVars, activeVars
<1>24. CASE CommitCandidate
  BY <1>24, EmptiedWords DEF CommitCandidate
<1>25. CASE StopTrusted
  BY <1>25, StoppedWords DEF StopTrusted
<1>26. CASE CloseTrustedFails
  BY <1>26 DEF CloseTrustedFails
<1>27. CASE LaunchDemoted
  <2>1. /\ at = "launch" /\ config = NoConfig /\ readyModel = None /\ ~isReady' /\ active' = None /\ staged = {}
        /\ UNCHANGED <<active, ended, isReady>>
    BY <1>27 DEF LaunchDemoted, StartIsConfigured, activeVars, ActivePositions
  <2>2. CASE Launch /\ startupApplied' = FALSE /\ Stay("handshake") /\ UNCHANGED <<readyModel, config>>
    BY <2>1, <2>2, GreetedWords DEF Launch, Stay, Waits
  <2>3. CASE PublishUnavailable("Unavailable") /\ Settle("top") /\ UNCHANGED <<workerVars, startupApplied>>
    BY <2>1, <2>3, QuietWords DEF PublishUnavailable, Settle, Waits
  <2> QED
    BY <1>27, <2>2, <2>3 DEF LaunchDemoted
<1>28. CASE ReadHandshake
  <2>1. PICK now : now = staged \cup {Head(events).type}
    OBVIOUS
  <2>2. /\ at = "handshake" /\ events # << >> /\ Consume /\ UNCHANGED <<active, startupApplied>>
        /\ IF Recovered(now) THEN at' = "reload" ELSE staged' = now /\ UNCHANGED <<at, isReady, config, readyModel>>
    BY <1>28, <2>1 DEF ReadHandshake, healthVars, activeVars
  <2> QED
    BY <2>1, <2>2, AckWords
<1>29. CASE HandshakeFails
  BY <1>29, StoppedWords DEF HandshakeFails
<1>30. CASE ReloadModel
  <2>1. CASE UNCHANGED workerVars /\ at' = "top"
    BY <1>30, <2>1, QuietWords DEF ReloadModel, Waits, healthVars, activeVars
  <2>2. CASE cur # None /\ Send(Message("SwapModel", cur)) /\ at' = "restore" /\ UNCHANGED <<cur, staged>>
    <3>1. cur \in Models /\ staged = {}
      BY <1>30, <2>2, TypeParts DEF ReloadModel, ControlInv, Posture, PositionIsSound, NameTypes
    <3>2. PICK m \in Models : m = cur
      BY <3>1
    <3>3. Swapping' /\ Target' = m
      BY <2>2, <3>2 DEF Swapping, Target
    <3> QED
      BY <1>30, <2>2, <3>1, <3>2, <3>3, SwapAskedWords DEF ReloadModel, healthVars, activeVars
  <2> QED
    BY <1>30, <2>1, <2>2 DEF ReloadModel, Settle
<1>31. CASE CancelAbandoned
  <2>1. active # None
    BY <1>31, TypeParts, ProtocolAssumption DEF CancelAbandoned, ControlInv, ClientTypes
  <2>2. /\ at \in {"select", "abandon"} /\ active' = None /\ cur' = active /\ at' \in {"cancel", "replace"}
        /\ UNCHANGED <<serving, isReady, startupApplied, config, readyModel>>
        /\ events' = events \/ (events # << >> /\ events' = Tail(events))
        /\ commands' = commands \/ commands' = Append(commands, Message("Cancel", active))
    BY <1>31, CancelTold DEF CancelAbandoned, BeginCancel, healthVars
  <2> QED
    BY <2>1, <2>2, CancelWords
<1>32. CASE CancelBackpressured
  <2>1. active # None
    BY <1>32, TypeParts, ProtocolAssumption DEF CancelBackpressured, ControlInv, ClientTypes
  <2>2. /\ at \in {"select", "abandon"} /\ active' = None /\ cur' = active /\ at' \in {"cancel", "replace"}
        /\ UNCHANGED <<serving, isReady, startupApplied, config, readyModel>>
        /\ events' = events \/ (events # << >> /\ events' = Tail(events))
        /\ commands' = commands \/ commands' = Append(commands, Message("Cancel", active))
    BY <1>32 DEF CancelBackpressured, BeginCancel, healthVars
  <2> QED
    BY <2>1, <2>2, CancelWords
<1>33. CASE CancelOverdue
  <2>1. active # None
    BY <1>33, TypeParts, ProtocolAssumption DEF CancelOverdue, ControlInv, ClientTypes
  <2>2. /\ at \in {"select", "abandon"} /\ active' = None /\ cur' = active /\ at' \in {"cancel", "replace"}
        /\ UNCHANGED <<serving, isReady, startupApplied, config, readyModel>>
        /\ events' = events \/ (events # << >> /\ events' = Tail(events))
        /\ commands' = commands \/ commands' = Append(commands, Message("Cancel", active))
    BY <1>33, CancelTold DEF CancelOverdue, BeginCancel, healthVars
  <2> QED
    BY <2>1, <2>2, CancelWords
<1>34. CASE RelaunchContained
  <2>1. active = None
    BY <1>34 DEF RelaunchContained, ControlInv, RelaunchIsOwed
  <2> QED
    BY <1>34, <2>1, RelaunchWords DEF RelaunchContained, activeVars
<1>35. CASE LoadDeadlinePasses
  BY <1>35, ContainWords DEF LoadDeadlinePasses
<1>36. CASE IdleTick
  BY <1>36, QuietWords DEF IdleTick, Settle, Waits, healthVars, activeVars
<1>37. CASE UpdateLimit
  <2>1. CASE UNCHANGED <<workerVars, healthVars, startupApplied, activeVars>> /\ at' \in {"top", "tidy", "observe"}
    BY <1>37, <2>1, QuietWords DEF UpdateLimit, Waits, healthVars, activeVars
  <2>2. ASSUME NEW p, Contain(p, {}, {}) PROVE Words'
    BY <2>2, ContainWords
  <2>3. CASE /\ active = None /\ Send(Message("UpdateLimit", None)) /\ at' = "limit"
             /\ UNCHANGED <<healthVars, startupApplied, activeVars>>
    BY <1>37, <2>3, PlainRequests, AskedWords DEF UpdateLimit, Waits, healthVars, activeVars
  <2> QED
    BY <1>37, <2>1, <2>2, <2>3 DEF UpdateLimit, AwaitReply, Stay, Settle
<1>38. CASE ClearPromptCache
  <2>1. CASE UNCHANGED <<workerVars, healthVars, startupApplied, activeVars>> /\ at' \in {"top", "tidy", "observe"}
    BY <1>38, <2>1, QuietWords DEF ClearPromptCache, Waits, healthVars, activeVars
  <2>2. ASSUME NEW p, Contain(p, {}, {}) PROVE Words'
    BY <2>2, ContainWords
  <2>3. CASE /\ active = None /\ Send(Message("ClearCache", None)) /\ at' = "clear"
             /\ UNCHANGED <<healthVars, startupApplied, activeVars>>
    BY <1>38, <2>3, PlainRequests, AskedWords DEF ClearPromptCache, Waits, healthVars, activeVars
  <2> QED
    BY <1>38, <2>1, <2>2, <2>3 DEF ClearPromptCache, AwaitReply, Stay, Settle, ControlIsIdle
<1>39. CASE RestartWorker
  BY <1>39, QuietWords DEF RestartWorker, Stay, Settle, Waits, healthVars, activeVars
<1>40. CASE DemoteWorker
  BY <1>40, QuietWords DEF DemoteWorker, PublishUnavailable, Settle, Waits, healthVars, activeVars
<1>41. CASE Shutdown
  BY <1>41, StoppedWords DEF Shutdown, ForceTerminate
<1>42. ASSUME NEW r \in Requests, Submit(r) \/ SendRequest(r) \/ HangUp(r) PROVE Words'
  BY <1>42, StillWords DEF Submit, SendRequest, HangUp
<1>43. ASSUME NEW r \in Requests, TakeRequest(r) PROVE Words'
  BY <1>43, QuietWords DEF TakeRequest, Settle, Waits, healthVars, activeVars
<1>44. CASE UNCHANGED vars
  BY <1>44, StillWords DEF vars
<1> QED
  BY <1>1, <1>2, <1>3, <1>4, <1>5, <1>6, <1>7, <1>8, <1>9, <1>10, <1>11, <1>12, <1>13, <1>14,
     <1>15, <1>16, <1>17, <1>18, <1>19, <1>20, <1>21, <1>22, <1>23, <1>24, <1>25, <1>26, <1>27, <1>28,
     <1>29, <1>30, <1>31, <1>32, <1>33, <1>34, <1>35, <1>36, <1>37, <1>38, <1>39, <1>40, <1>41, <1>42,
     <1>43, <1>44
     DEF Next, Worker, Steps, Arms, Client

\* The talk at the start.
LEMMA TalkInit == Init => TalkInv
<1> SUFFICES ASSUME Init PROVE TalkInv
    OBVIOUS
<1>1. /\ commands = << >> /\ events = Greeting /\ ~isReady /\ ~startupApplied /\ staged = {}
      /\ config = NoConfig /\ readyModel = None /\ active = None /\ at = "top"
  BY DEF Init
<1>2. StartIsConfigured
  BY <1>1 DEF StartIsConfigured, Swapping
<1>3. LimitsAreAwaited /\ ClearsAreAwaited /\ SwapsAreAwaited
  BY <1>1, EmptyPipe, GreetingWords DEF LimitsAreAwaited, ClearsAreAwaited, SwapsAreAwaited, Quiet, Swapping
<1>4. ConfigsAreKnown /\ GreetingIsOpen /\ LoadsSucceed
  BY <1>1, GreetingWords DEF ConfigsAreKnown, ConfigIsNews, GreetingIsOpen, LoadsSucceed
<1>5. RequestsAreKept
  BY <1>1, GreetingWords DEF RequestsAreKept
<1> QED
  BY <1>2, <1>3, <1>4, <1>5 DEF TalkInv, Words

(***************************************************************************)
(* The loop never takes what a well-behaved worker says for a violation of *)
(* the protocol, whatever crashes, cancellations, deadlines, cache clears, *)
(* replacements and demotions interleave: not in its select, not in a wait *)
(* for a reply, not while it drains a cancelled request                    *)
(* (handle_worker_event, wait_for_model_swap,                              *)
(* react_to_cancellation_event).  Ceiling updates are excluded, because    *)
(* the code does contain a correct worker for them: an update that meets a *)
(* swap leaves the daemon and the worker with two configuration            *)
(* generations, and the next swap is rejected for it                       *)
(* (stage_runtime_policy_acknowledgement), a check that Mismatched leaves  *)
(* out and MemoryTransaction has.  TLC refutes it without any of the other *)
(* three hypotheses: a failed load, a load that a restoration gives up,    *)
(* and a worker that survives its kill after a clear timed out each leave  *)
(* a word in the pipe that nobody waits for any more.                      *)
(***************************************************************************)
THEOREM GoodWorkerIsKept ==
    ASSUME "limit" \notin Controls,
           Faults \cap {"killFails", "loadFails", "slowLoad"} = {}
    PROVE  Spec => []WellBehavedWorkerKept
<1>1. "killFails" \notin Faults /\ "loadFails" \notin Faults /\ "slowLoad" \notin Faults
  OBVIOUS
<1>2. Init => KillIsFinal /\ TalkInv
  <2>1. Init => KillIsFinal
    BY DEF Init, KillIsFinal
  <2> QED
    BY <2>1, TalkInit
<1>3. ControlInv /\ PipeInv /\ KillIsFinal /\ TalkInv /\ [Next]_vars => KillIsFinal' /\ TalkInv'
  <2> SUFFICES ASSUME ControlInv, PipeInv, KillIsFinal, TalkInv, [Next]_vars PROVE KillIsFinal' /\ TalkInv'
    OBVIOUS
  <2>1. Words'
    BY <1>1, WordsNext
  <2>2. CASE Next
    BY <1>1, <2>1, <2>2, KillKept, StartKept DEF TalkInv
  <2>3. CASE UNCHANGED vars
    <3>1. StartIsConfigured'
      BY <2>3 DEF TalkInv, StartIsConfigured, Swapping, vars, loopVars, healthVars, activeVars
    <3>2. KillIsFinal'
      BY <2>3 DEF KillIsFinal, vars, workerVars, loopVars, healthVars
    <3> QED
      BY <2>1, <3>1, <3>2 DEF TalkInv
  <2> QED
    BY <2>2, <2>3
<1>4. ControlInv /\ TalkInv => WellBehavedWorkerKept
  BY TalkIsKept
<1> QED
  BY <1>2, <1>3, <1>4, LoopInductive, PTL DEF Spec
=============================================================================
