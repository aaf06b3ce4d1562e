------------------------- MODULE WorkerLoopProofs -------------------------
(***************************************************************************)
(* The worker loop keeps two invariants, for every number of requests and  *)
(* models, every pipe bound, every fault and every control command.        *)
(* ControlInv says what the loop holds at each of its positions: the       *)
(* request it works for, its permit, the answers that were sent and the    *)
(* health it publishes.  PipeInv says what the two pipes can hold: a       *)
(* worker that is trusted and has no request is clean of all earlier ones, *)
(* the end of a request is the last word about it, a greeting comes once   *)
(* and before anything else, and no control command follows a request.     *)
(* The safety properties of WorkerLoop follow from the two.                *)
(***************************************************************************)
EXTENDS WorkerLoop, TLAPS

(***************************************************************************)
(* The types of the messages and of the worker's answers                   *)
(***************************************************************************)

WorkerTypes ==
    /\ proc \in {"up", "exited", "reaped"}
    /\ commands \in Seq(Commands)
    /\ events \in Seq(Events)
    /\ serving \in Requests \cup {None}
    /\ model \in Models \cup {None}

\* The commands the loop writes are commands of the protocol.
LEMMA CommandTypes ==
    /\ \A r \in Requests : Message("Generate", r) \in Commands /\ Message("Cancel", r) \in Commands
    /\ \A m \in Models : Message("SwapModel", m) \in Commands
    /\ Message("UpdateLimit", None) \in Commands
    /\ Message("ClearCache", None) \in Commands
BY DEF Message, Commands

\* The events the worker writes are events of the protocol.
LEMMA EventTypes ==
    /\ \A r \in Requests, t \in {"Output", "Finalized", "Completed", "Failed", "Progress", "Ended", "Released"} :
          Message(t, r) \in Events
    /\ \A m \in Models : Message("Swapped", m) \in Events /\ Message("Config", m) \in Events
    /\ Message("Config", None) \in Events
    /\ \A t \in {"Idle", "SwapFailed", "ModelLost", "Cleared", "LimitChanged", "LimitRejected", "RestartRequired"} :
          Message(t, None) \in Events
BY DEF Message, Events, RequestEvents

\* A command is about a request, about a model, or about nothing.
LEMMA CommandForms ==
    ASSUME NEW c \in Commands
    PROVE  /\ c.type \in {"Generate", "Cancel", "SwapModel", "UpdateLimit", "ClearCache"}
           /\ c.type \in {"Generate", "Cancel"} => c.of \in Requests
           /\ c.type = "SwapModel" => c.of \in Models
BY DEF Commands

\* The events of an answer are written as a tuple.
LEMMA EventTuples ==
    /\ << >> \in Seq(Events)
    /\ \A e \in Events : <<e>> \in Seq(Events)
    /\ \A e, f \in Events : <<e, f>> \in Seq(Events)
OBVIOUS

\* A greeting is made of events of the protocol.
LEMMA GreetingType == Greeting \in Seq(Events)
BY EventTypes, EventTuples DEF Greeting

\* So are the words that end, fail or report a request.
LEMMA ClosingTypes ==
    ASSUME NEW r \in Requests
    PROVE  Ending(r) \in Seq(Events) /\ Failure(r) \in Seq(Events) /\ Progress(r) \in Events
BY EventTypes, EventTuples DEF Ending, Failure, Progress

\* The answer x: its events, the request it serves, the model it holds, its life.
Replies(x, emit, serves, holds) == x.emit = emit /\ x.serves = serves /\ x.holds = holds /\ x.lives = TRUE

Dies(x, emit) == x.emit = emit /\ x.serves = None /\ x.holds = None /\ x.lives = FALSE

\* A request that the idle worker starts is refused, done at once, or served.
StartForm(x, r, m) ==
    \/ Replies(x, Failure(r), None, m)
    \/ Replies(x, Ending(r), None, m)
    \/ Replies(x, <<Message("Completed", r)>>, None, m)
    \/ Replies(x, << >>, r, m)

\* A model is loaded, lost, or the one that was loaded is kept.
LoadForm(x, y, m) ==
    \/ Replies(x, <<Message("Swapped", y), Message("Config", y)>>, None, y)
    \/ Replies(x, <<Message("ModelLost", None)>>, None, None)
    \/ Replies(x, <<Message("SwapFailed", None)>>, None, m)

\* The answers that are about no request.
PlainReplies == {"LimitChanged", "LimitRejected", "RestartRequired", "Cleared"}

IdleForm(x, c, m) ==
    \/ c.type = "Generate" /\ StartForm(x, c.of, m)
    \/ c.type = "Cancel" /\ Replies(x, << >>, None, m)
    \/ c.type = "SwapModel" /\ LoadForm(x, c.of, m)
    \/ /\ c.type \in {"UpdateLimit", "ClearCache"}
       /\ Dies(x, << >>) \/ \E t \in PlainReplies : Replies(x, <<Message(t, None)>>, None, m)

BusyForm(x, c, r, m) ==
    \/ c.type = "Generate" /\ Replies(x, Failure(c.of), r, m)
    \/ c.type = "Cancel" /\ Replies(x, Ending(r), None, m)
    \/ c.type = "UpdateLimit" /\ Replies(x, <<Message("LimitRejected", None)>>, r, m)
    \/ c.type # "Generate" /\ Replies(x, << >>, r, m)

\* How a busy worker goes on.
AdvanceForm(x, r, m) ==
    \/ Replies(x, <<Progress(r)>>, r, m)
    \/ Replies(x, Ending(r), None, m)
    \/ Replies(x, Failure(r), None, m)
    \/ Dies(x, Failure(r))
    \/ Dies(x, << >>)

\* What an idle worker answers has one of these forms.
LEMMA IdleAnswerForm ==
    ASSUME NEW c \in Commands, NEW m, NEW x \in IdleAnswers(c, m)
    PROVE  IdleForm(x, c, m)
<1> USE ProtocolAssumption
<1>1. CASE c.type = "Generate"
  <2>1. c.of \in Requests /\ x \in Starts(c.of, m)
    BY <1>1, CommandForms DEF IdleAnswers
  <2>2. Kind[c.of] \in {"chat", "image", "embeddings"}
    BY <2>1 DEF Kinds
  <2>3. \/ x = Answer(Failure(c.of), None, m, TRUE)
        \/ x = Answer(Ending(c.of), None, m, TRUE)
        \/ x = Answer(<< >>, c.of, m, TRUE)
        \/ x = Answer(<<Message("Completed", c.of)>>, None, m, TRUE)
    BY <2>1, <2>2 DEF Starts
  <2> QED
    BY <1>1, <2>3 DEF Answer, IdleForm, StartForm, Replies
<1>2. CASE c.type = "Cancel"
  <2>1. x = Answer(<< >>, None, m, TRUE)
    BY <1>2 DEF IdleAnswers
  <2> QED
    BY <1>2, <2>1 DEF Answer, IdleForm, Replies
<1>3. CASE c.type = "SwapModel"
  <2>1. x \in Loads(c.of, m)
    BY <1>3 DEF IdleAnswers
  <2>2. \/ x = Answer(<<Message("Swapped", c.of), Message("Config", c.of)>>, None, c.of, TRUE)
        \/ x = Answer(<<Message("ModelLost", None)>>, None, None, TRUE)
        \/ x = Answer(<<Message("SwapFailed", None)>>, None, m, TRUE)
    BY <2>1 DEF Loads
  <2> QED
    BY <1>3, <2>2 DEF Answer, IdleForm, LoadForm, Replies
<1>4. CASE c.type \in {"UpdateLimit", "ClearCache"}
  <2>1. x \in Death \/ \E t \in PlainReplies : x = Answer(<<Message(t, None)>>, None, m, TRUE)
    BY <1>4 DEF IdleAnswers, PlainReplies
  <2>2. CASE x \in Death
    <3>1. x = Answer(<< >>, None, None, FALSE)
      BY <2>2 DEF Death
    <3>2. Dies(x, << >>)
      BY <3>1 DEF Answer, Dies
    <3> QED
      BY <1>4, <3>2 DEF IdleForm
  <2>3. ASSUME NEW t \in PlainReplies, x = Answer(<<Message(t, None)>>, None, m, TRUE)
        PROVE  IdleForm(x, c, m)
    <3>1. Replies(x, <<Message(t, None)>>, None, m)
      BY <2>3 DEF Answer, Replies
    <3> QED
      BY <1>4, <3>1 DEF IdleForm
  <2> QED
    BY <2>1, <2>2, <2>3
<1> QED
  BY <1>1, <1>2, <1>3, <1>4, CommandForms

\* What a busy worker answers has one of these.
LEMMA BusyAnswerForm ==
    ASSUME NEW c \in Commands, NEW r \in Requests, NEW m, NEW x \in BusyAnswers(c, r, m)
    PROVE  BusyForm(x, c, r, m)
<1>1. \/ c.type = "Generate" /\ x = Answer(Failure(c.of), r, m, TRUE)
      \/ c.type = "Cancel" /\ x = Answer(Ending(r), None, m, TRUE)
      \/ c.type = "UpdateLimit" /\ x = Answer(<<Message("LimitRejected", None)>>, r, m, TRUE)
      \/ c.type # "Generate" /\ x = Answer(<< >>, r, m, TRUE)
  BY CommandForms DEF BusyAnswers
<1> QED
  BY <1>1 DEF Answer, BusyForm, Replies

\* The answer to a command, by whether the worker is busy.
LEMMA AnswerForms ==
    ASSUME NEW c \in Commands, NEW r \in Requests \cup {None}, NEW m, NEW x \in Answers(c, r, m)
    PROVE  /\ r = None => IdleForm(x, c, m)
           /\ r # None => BusyForm(x, c, r, m)
BY IdleAnswerForm, BusyAnswerForm DEF Answers

\* A busy worker that goes on has one of these forms.
LEMMA AdvanceForms ==
    ASSUME NEW r \in Requests, NEW m, NEW x \in Advances(r, m)
    PROVE  AdvanceForm(x, r, m)
<1>1. \/ x = Answer(<<Progress(r)>>, r, m, TRUE)
      \/ x = Answer(Ending(r), None, m, TRUE)
      \/ x = Answer(Failure(r), None, m, TRUE)
      \/ x = Answer(Failure(r), None, None, FALSE)
      \/ x = Answer(<< >>, None, None, FALSE)
  BY DEF Advances, Death
<1> QED
  BY <1>1 DEF Answer, AdvanceForm, Replies, Dies

\* The type of an answer; one that ends the worker leaves nothing behind.
AnswerIsTyped(x) ==
    /\ x.emit \in Seq(Events)
    /\ x.serves \in Requests \cup {None}
    /\ x.holds \in Models \cup {None}
    /\ x.lives \in BOOLEAN
    /\ ~x.lives => x.serves = None /\ x.holds = None

\* An answer to a command is well typed.
LEMMA AnswersTyped ==
    ASSUME NEW c \in Commands, NEW r \in Requests \cup {None}, NEW m \in Models \cup {None},
           NEW x \in Answers(c, r, m)
    PROVE  AnswerIsTyped(x)
<1> USE DEF AnswerIsTyped
<1>1. CASE r = None
  <2>1. IdleForm(x, c, m)
    BY <1>1, AnswerForms
  <2>2. CASE c.type = "Generate"
    <3>1. c.of \in Requests /\ StartForm(x, c.of, m)
      BY <2>1, <2>2, CommandForms DEF IdleForm
    <3>2. /\ Failure(c.of) \in Seq(Events) /\ Ending(c.of) \in Seq(Events)
          /\ <<Message("Completed", c.of)>> \in Seq(Events)
      BY <3>1, ClosingTypes, EventTypes, EventTuples
    <3> QED
      BY <3>1, <3>2, EventTuples DEF StartForm, Replies
  <2>3. CASE c.type = "Cancel"
    BY <2>1, <2>3, EventTuples DEF IdleForm, Replies
  <2>4. CASE c.type = "SwapModel"
    <3>1. c.of \in Models /\ LoadForm(x, c.of, m)
      BY <2>1, <2>4, CommandForms DEF IdleForm
    <3>2. /\ <<Message("Swapped", c.of), Message("Config", c.of)>> \in Seq(Events)
          /\ <<Message("ModelLost", None)>> \in Seq(Events)
          /\ <<Message("SwapFailed", None)>> \in Seq(Events)
      BY <3>1, EventTypes, EventTuples
    <3> QED
      BY <3>1, <3>2 DEF LoadForm, Replies
  <2>5. CASE c.type \in {"UpdateLimit", "ClearCache"}
    <3>1. \A t \in PlainReplies : <<Message(t, None)>> \in Seq(Events)
      BY EventTypes, EventTuples DEF PlainReplies
    <3> QED
      BY <2>1, <2>5, <3>1, EventTuples DEF IdleForm, Replies, Dies
  <2> QED
    BY <2>2, <2>3, <2>4, <2>5, CommandForms
<1>2. CASE r # None
  <2>1. BusyForm(x, c, r, m) /\ r \in Requests
    BY <1>2, AnswerForms
  <2>2. /\ c.type = "Generate" => Failure(c.of) \in Seq(Events)
        /\ Ending(r) \in Seq(Events)
        /\ <<Message("LimitRejected", None)>> \in Seq(Events)
    BY <2>1, CommandForms, ClosingTypes, EventTypes, EventTuples
  <2> QED
    BY <2>1, <2>2, EventTuples DEF BusyForm, Replies
<1> QED
  BY <1>1, <1>2

\* So is a step of a busy worker.
LEMMA AdvancesTyped ==
    ASSUME NEW r \in Requests, NEW m \in Models \cup {None}, NEW x \in Advances(r, m)
    PROVE  AnswerIsTyped(x)
<1>1. Ending(r) \in Seq(Events) /\ Failure(r) \in Seq(Events) /\ <<Progress(r)>> \in Seq(Events)
  BY ClosingTypes, EventTuples
<1> QED
  BY <1>1, AdvanceForms, EventTuples DEF AdvanceForm, Replies, Dies, AnswerIsTyped

-----------------------------------------------------------------------------
(***************************************************************************)
(* The control invariant: what the loop holds at each of its positions     *)
(***************************************************************************)

FlagTypes ==
    /\ expects \in BOOLEAN
    /\ isReady \in BOOLEAN
    /\ loadDeadline \in BOOLEAN
    /\ startupApplied \in BOOLEAN
    /\ ended \in BOOLEAN
    /\ pendingLimit \in BOOLEAN
    /\ pendingClear \in BOOLEAN

NameTypes ==
    /\ at \in Positions
    /\ back \in {"top", "tidy", "observe"}
    /\ cur \in Requests \cup Models \cup {None}
    /\ staged \in SUBSET {"Swapped", "Config", "Idle"}
    /\ relaunch \in {"none", "due", "spent"}
    /\ status \in {"Loading", "Ready", "Unavailable"}
    /\ readyModel \in Models \cup {None}
    /\ config \in Models \cup {None, NoConfig}
    /\ active \in Requests \cup {None}

ClientTypes ==
    /\ rq \in [Requests -> RequestStates]
    /\ gone \in SUBSET Requests
    /\ answers \in [Requests -> Nat]

\* The type invariant in the parts that the proofs treat apart.
LEMMA TypeParts == TypeOK <=> WorkerTypes /\ FlagTypes /\ NameTypes /\ ClientTypes
BY DEF TypeOK, WorkerTypes, FlagTypes, NameTypes, ClientTypes

\* The messages in a pipe.
Says(s) == {s[i] : i \in 1..Len(s)}

\* A worker that is greeting has been told nothing.
HandshakeIsQuiet ==
    at \in {"recover", "handshake"} =>
        commands = << >> /\ serving = None /\ Says(events) \subseteq Says(Greeting)

\* A worker that has ended holds nothing, and a reaped one has nothing to read.
DeadIsSilent ==
    /\ proc # "up" => commands = << >> /\ serving = None /\ model = None
    /\ proc = "reaped" => events = << >>

\* A relaunch is owed, or none is left, for a worker that is stopped.
RelaunchIsOwed ==
    relaunch # "none" =>
        /\ proc = "reaped" /\ events = << >> /\ ~isReady
        /\ at \in {"top", "tidy", "observe", "select", "exited"}

\* A request is being started.
Starting == at \in {"startup", "choose", "swap", "dispatch"}

\* Where a request may be active.
ActivePositions == {"top", "tidy", "observe", "select", "abandon"}

\* Health says ready when the loop is.
ReadyIsPublished == at # "exited" => (isReady <=> status = "Ready")

\* A request is active in a ready loop that waits for nothing.
ActiveIsTracked ==
    active # None => at \in ActivePositions /\ isReady /\ rq[active] = "active"

\* What the loop holds at each of its positions.
PositionIsSound ==
    /\ at \in {"top", "tidy", "observe", "select", "limit", "clear", "candidate", "commit"} => cur = None
    /\ Starting => cur \in Requests /\ rq[cur] = "starting" /\ isReady
    /\ at = "abandon" => active # None
    /\ at \in {"cancel", "replace"} => cur \in Requests /\ rq[cur] = "cancelling" /\ isReady
    /\ at = "recover" => ~isReady /\ cur \notin Models /\ (cur # None => rq[cur] = "cancelling")
    /\ at \in {"candidate", "commit"} => isReady
    /\ at \in {"stop", "launch", "handshake"} => ~isReady /\ cur \notin Requests /\ status = "Loading"
    /\ at = "reload" => isReady /\ cur \notin Requests
    /\ at = "restore" => isReady /\ cur \in Models /\ expects
    /\ at = "exited" => status = "Unavailable"

\* Acknowledgements are staged only by the waits that collect them.
StagedIsCurrent == at \notin {"swap", "recover", "handshake", "restore"} => staged = {}

Posture == ReadyIsPublished /\ ActiveIsTracked /\ PositionIsSound /\ StagedIsCurrent

\* Only a request that is over, or about to be, has been answered.
AnswersAreCounted ==
    \A r \in Requests :
        /\ answers[r] \in {0, 1}
        /\ answers[r] = 1 => rq[r] \in {"cancelling", "done"}

\* One request holds the active permit.
PermitIsAlone == \A q, r \in Requests : Holding(q) /\ Holding(r) => q = r

Ledger == AnswersAreCounted /\ PermitIsAlone

ControlInv == TypeOK /\ DeadIsSilent /\ HandshakeIsQuiet /\ RelaunchIsOwed /\ Posture /\ Ledger

\* The first message of a pipe, and what is left when it has been read.
LEMMA FirstMessage ==
    ASSUME NEW S, NEW s \in Seq(S), s # << >>
    PROVE  /\ Head(s) \in S /\ Head(s) \in Says(s)
           /\ Tail(s) \in Seq(S) /\ Says(Tail(s)) \subseteq Says(s)
<1>1. Len(s) \in Nat \ {0} /\ Head(s) = s[1]
  OBVIOUS
<1>2. Head(s) \in S /\ Head(s) \in Says(s)
  BY <1>1 DEF Says
<1>3. Tail(s) \in Seq(S) /\ Len(Tail(s)) = Len(s) - 1 /\ \A i \in 1..Len(s) - 1 : Tail(s)[i] = s[i + 1]
  BY <1>1
<1>4. Says(Tail(s)) \subseteq Says(s)
  BY <1>1, <1>3 DEF Says
<1> QED
  BY <1>2, <1>3, <1>4

\* A pipe of which only a first part was written.
LEMMA FirstPart ==
    ASSUME NEW S, NEW s \in Seq(S), NEW k \in 0..Len(s)
    PROVE  SubSeq(s, 1, k) \in Seq(S) /\ Says(SubSeq(s, 1, k)) \subseteq Says(s)
<1>1. /\ SubSeq(s, 1, k) \in Seq(S) /\ Len(SubSeq(s, 1, k)) = k
      /\ \A i \in 1..k : SubSeq(s, 1, k)[i] = s[i]
  OBVIOUS
<1> QED
  BY <1>1 DEF Says

\* An event of a request that the loop takes for its end is about a request.
LEMMA EventForms ==
    ASSUME NEW e \in Events
    PROVE  /\ e.type = "Config" => e.of \in Models \cup {None}
           /\ e.type = "Swapped" => e.of \in Models
           /\ EndsRequest(e) => e \in RequestEvents /\ e.of \in Requests
           /\ e \in RequestEvents => e.of \in Requests
BY DEF Events, RequestEvents, EndsRequest

\* What a worker says at its start.
LEMMA GreetingSays == Says(Greeting) = {Message("Idle", None), Message("Config", None)}
<1>1. Len(Greeting) = 2 /\ Greeting[1] = Message("Idle", None) /\ Greeting[2] = Message("Config", None)
  BY DEF Greeting
<1> QED
  BY <1>1 DEF Says

\* Flags stay flags.
LEMMA FlagsKept == ControlInv /\ Next => FlagTypes'
<1> SUFFICES ASSUME ControlInv, Next PROVE FlagTypes'
    OBVIOUS
<1> USE ProtocolAssumption, LoopAssumption, TypeParts DEF ControlInv, FlagTypes
<1>1. CASE WorkerAnswers
  BY <1>1 DEF WorkerAnswers, workerVars, loopVars, healthVars, activeVars, pendingVars,
      clientVars, Answers, Becomes, IdleAnswers, BusyAnswers, Starts, Answer, Loads, Failure,
      Ending
<1>2. CASE WorkerAdvances
  BY <1>2 DEF WorkerAdvances, workerVars, loopVars, healthVars, activeVars, pendingVars,
      clientVars, Advances, Becomes, Answer, Progress, Ending, Failure
<1>3. CASE WorkerCrashes
  BY <1>3 DEF WorkerCrashes, workerVars, loopVars, healthVars, activeVars, pendingVars,
      clientVars
<1>4. CASE DrainLimit
  BY <1>4 DEF DrainLimit, workerVars, loopVars, healthVars, activeVars, pendingVars,
      clientVars, AwaitReply, Contain, Stay, Release, PublishUnavailable, Settle
<1>5. CASE DrainClear
  BY <1>5 DEF DrainClear, workerVars, loopVars, healthVars, activeVars, pendingVars,
      clientVars, ControlIsIdle, AwaitReply, Contain, Stay, Release, PublishUnavailable, Settle
<1>6. CASE Observe
  BY <1>6 DEF Observe, workerVars, loopVars, healthVars, activeVars, pendingVars, clientVars,
      Stay
<1>7. CASE ReadEvent
  BY <1>7 DEF ReadEvent, workerVars, loopVars, healthVars, activeVars, pendingVars, clientVars,
      Pumping, Claimed, Violates, ApplyToHealth, ApplyToRequest, Continue, Swapping,
      EndsRequest, Release, Settle, LimitReplies, Stay
<1>8. CASE ReadViolation
  BY <1>8, ZenonT(40) DEF ReadViolation, workerVars, loopVars, healthVars, activeVars, pendingVars,
      clientVars, Pumping, Claimed, Mismatched, Violates, Trouble, Uncontained, Swapping,
      Target, Settle, Contain, Release, PublishUnavailable
<1>9. CASE ReadEnd
  BY <1>9, ZenonT(40) DEF ReadEnd, workerVars, loopVars, healthVars, activeVars, pendingVars, clientVars,
      Pumping, Trouble, Uncontained, Settle, Contain, Release, PublishUnavailable
<1>10. CASE WaitTimesOut
  BY <1>10, ZenonT(40) DEF WaitTimesOut, workerVars, loopVars, healthVars, activeVars, pendingVars,
      clientVars, Pumping, Contain, Settle, Release, PublishUnavailable
<1>11. CASE ReadCleared
  BY <1>11 DEF ReadCleared, workerVars, loopVars, healthVars, activeVars, pendingVars,
      clientVars, Settle
<1>12. CASE StartupDone
  BY <1>12 DEF StartupDone, workerVars, loopVars, healthVars, activeVars, pendingVars,
      clientVars, Pumping, Stay
<1>13. CASE ChooseModel
  BY <1>13 DEF ChooseModel, workerVars, loopVars, healthVars, activeVars, pendingVars,
      clientVars, NeedsNoSwap, Stay, Refuse, AskForModel, Contain, Release, Settle,
      PublishUnavailable
<1>14. CASE ReadSwapReply
  BY <1>14 DEF ReadSwapReply, workerVars, loopVars, healthVars, activeVars, pendingVars,
      clientVars, Swapping, Claimed, Mismatched, Settle, Target
<1>15. CASE ReadSwapFailure
  BY <1>15 DEF ReadSwapFailure, workerVars, loopVars, healthVars, activeVars, pendingVars,
      clientVars, Swapping, PublishUnavailable, Settle, Refuse, Release
<1>16. CASE Dispatch
  BY <1>16 DEF Dispatch, workerVars, loopVars, healthVars, activeVars, pendingVars, clientVars,
      DropDisconnected, RejectStart, StartRequest, FailStart, Release, Settle, Refuse, Stay,
      Contain, PublishUnavailable
<1>17. CASE ReadCancelled
  BY <1>17 DEF ReadCancelled, workerVars, loopVars, healthVars, activeVars, pendingVars,
      clientVars, Acknowledges, Release, Settle, Drained, Stay
<1>18. CASE CancelFails
  BY <1>18 DEF CancelFails, workerVars, loopVars, healthVars, activeVars, pendingVars,
      clientVars, Stay
<1>19. CASE ReplaceUncancelled
  BY <1>19 DEF ReplaceUncancelled, workerVars, loopVars, healthVars, activeVars, pendingVars,
      clientVars, Relaunch, StayDown, PublishUnavailable, Release, Settle
<1>20. CASE ReadRecovery
  BY <1>20 DEF ReadRecovery, workerVars, loopVars, healthVars, activeVars, pendingVars,
      clientVars, Release, Settle
<1>21. CASE RecoveryFails
  BY <1>21 DEF RecoveryFails, workerVars, loopVars, healthVars, activeVars, pendingVars,
      clientVars, StayDown, PublishUnavailable, Release, Settle
<1>22. CASE CandidateAcknowledged
  BY <1>22 DEF CandidateAcknowledged, workerVars, loopVars, healthVars, activeVars,
      pendingVars, clientVars, Stay
<1>23. CASE CandidateRejected
  BY <1>23 DEF CandidateRejected, workerVars, loopVars, healthVars, activeVars, pendingVars,
      clientVars, Settle
<1>24. CASE CommitCandidate
  BY <1>24 DEF CommitCandidate, workerVars, loopVars, healthVars, activeVars, pendingVars,
      clientVars, Settle
<1>25. CASE StopTrusted
  BY <1>25 DEF StopTrusted, workerVars, loopVars, healthVars, activeVars, pendingVars,
      clientVars, Stay
<1>26. CASE CloseTrustedFails
  BY <1>26 DEF CloseTrustedFails, workerVars, loopVars, healthVars, activeVars, pendingVars,
      clientVars, PublishUnavailable, Settle
<1>27. CASE LaunchDemoted
  BY <1>27 DEF LaunchDemoted, workerVars, loopVars, healthVars, activeVars, pendingVars,
      clientVars, Stay, PublishUnavailable, Settle
<1>28. CASE ReadHandshake
  BY <1>28 DEF ReadHandshake, workerVars, loopVars, healthVars, activeVars, pendingVars,
      clientVars
<1>29. CASE HandshakeFails
  BY <1>29 DEF HandshakeFails, workerVars, loopVars, healthVars, activeVars, pendingVars,
      clientVars, PublishUnavailable, Settle
<1>30. CASE ReloadModel
  BY <1>30 DEF ReloadModel, workerVars, loopVars, healthVars, activeVars, pendingVars,
      clientVars, Settle
<1>31. CASE CancelAbandoned
  BY <1>31 DEF CancelAbandoned, workerVars, loopVars, healthVars, activeVars, pendingVars,
      clientVars, BeginCancel, SendCancel
<1>32. CASE CancelBackpressured
  BY <1>32 DEF CancelBackpressured, workerVars, loopVars, healthVars, activeVars, pendingVars,
      clientVars, BeginCancel
<1>33. CASE CancelOverdue
  BY <1>33 DEF CancelOverdue, workerVars, loopVars, healthVars, activeVars, pendingVars,
      clientVars, BeginCancel, SendCancel
<1>34. CASE RelaunchContained
  BY <1>34 DEF RelaunchContained, workerVars, loopVars, healthVars, activeVars, pendingVars,
      clientVars, Relaunch, PublishUnavailable, StayDown, Release, Settle
<1>35. CASE LoadDeadlinePasses
  BY <1>35 DEF LoadDeadlinePasses, workerVars, loopVars, healthVars, activeVars, pendingVars,
      clientVars, Contain, Release, PublishUnavailable, Settle
<1>36. CASE IdleTick
  BY <1>36 DEF IdleTick, workerVars, loopVars, healthVars, activeVars, pendingVars, clientVars,
      Settle
<1>37. CASE UpdateLimit
  BY <1>37 DEF UpdateLimit, workerVars, loopVars, healthVars, activeVars, pendingVars,
      clientVars, Settle, AwaitReply
<1>38. CASE ClearPromptCache
  BY <1>38 DEF ClearPromptCache, workerVars, loopVars, healthVars, activeVars, pendingVars,
      clientVars, ControlIsIdle, Settle, AwaitReply, Contain, Release, PublishUnavailable
<1>39. CASE RestartWorker
  BY <1>39 DEF RestartWorker, workerVars, loopVars, healthVars, activeVars, pendingVars,
      clientVars, ReplacementAllowed, Stay, Settle
<1>40. CASE DemoteWorker
  BY <1>40 DEF DemoteWorker, workerVars, loopVars, healthVars, activeVars, pendingVars,
      clientVars, ReplacementAllowed, PublishUnavailable, Settle
<1>41. CASE Shutdown
  BY <1>41 DEF Shutdown, workerVars, loopVars, healthVars, activeVars, pendingVars, clientVars,
      PublishUnavailable, Release, Settle
<1>42. ASSUME NEW r \in Requests, Submit(r) PROVE FlagTypes'
  BY <1>42 DEF Submit, workerVars, loopVars, healthVars, activeVars, pendingVars, clientVars
<1>43. ASSUME NEW r \in Requests, SendRequest(r) PROVE FlagTypes'
  BY <1>43 DEF SendRequest, workerVars, loopVars, healthVars, activeVars, pendingVars,
      clientVars
<1>44. ASSUME NEW r \in Requests, HangUp(r) PROVE FlagTypes'
  BY <1>44 DEF HangUp, workerVars, loopVars, healthVars, activeVars, pendingVars, clientVars
<1>45. ASSUME NEW r \in Requests, TakeRequest(r) PROVE FlagTypes'
  BY <1>45 DEF TakeRequest, workerVars, loopVars, healthVars, activeVars, pendingVars,
      clientVars, Release, Settle
<1> QED
  BY <1>1, <1>2, <1>3, <1>4, <1>5, <1>6, <1>7, <1>8, <1>9, <1>10, <1>11, <1>12, <1>13, <1>14,
      <1>15, <1>16, <1>17, <1>18, <1>19, <1>20, <1>21, <1>22, <1>23, <1>24, <1>25, <1>26,
      <1>27, <1>28, <1>29, <1>30, <1>31, <1>32, <1>33, <1>34, <1>35, <1>36, <1>37, <1>38,
      <1>39, <1>40, <1>41, <1>42, <1>43, <1>44, <1>45
      DEF Next, Worker, Steps, Arms, Client

\* The names the loop keeps stay names: the replies it stages are the ones its
\* wait accepts.
LEMMA NamesKept == ControlInv /\ Next => NameTypes'
<1> SUFFICES ASSUME ControlInv, Next PROVE NameTypes'
    OBVIOUS
<1> USE ProtocolAssumption, LoopAssumption, TypeParts DEF ControlInv, NameTypes, WorkerTypes
<1>1. CASE WorkerAnswers
  BY <1>1, FirstMessage, EventForms DEF WorkerAnswers, workerVars, loopVars, healthVars,
      activeVars, pendingVars, clientVars, Answers, Becomes, IdleAnswers, BusyAnswers, Starts,
      Answer, Loads, Failure, Ending, Positions, Posture, PositionIsSound, Starting
<1>2. CASE WorkerAdvances
  BY <1>2, FirstMessage, EventForms DEF WorkerAdvances, workerVars, loopVars, healthVars,
      activeVars, pendingVars, clientVars, Advances, Becomes, Answer, Progress, Ending,
      Failure, Positions, Posture, PositionIsSound, Starting
<1>3. CASE WorkerCrashes
  BY <1>3, FirstMessage, EventForms DEF WorkerCrashes, workerVars, loopVars, healthVars,
      activeVars, pendingVars, clientVars, Positions, Posture, PositionIsSound, Starting
<1>4. CASE DrainLimit
  BY <1>4, FirstMessage, EventForms DEF DrainLimit, workerVars, loopVars, healthVars,
      activeVars, pendingVars, clientVars, AwaitReply, Contain, Stay, Release,
      PublishUnavailable, Settle, Positions, Posture, PositionIsSound, Starting
<1>5. CASE DrainClear
  BY <1>5, FirstMessage, EventForms DEF DrainClear, workerVars, loopVars, healthVars,
      activeVars, pendingVars, clientVars, ControlIsIdle, AwaitReply, Contain, Stay, Release,
      PublishUnavailable, Settle, Positions, Posture, PositionIsSound, Starting
<1>6. CASE Observe
  BY <1>6, FirstMessage, EventForms DEF Observe, workerVars, loopVars, healthVars, activeVars,
      pendingVars, clientVars, Stay, Positions, Posture, PositionIsSound, Starting
<1>7. CASE ReadEvent
  BY <1>7, FirstMessage, EventForms DEF ReadEvent, workerVars, loopVars, healthVars,
      activeVars, pendingVars, clientVars, Pumping, Claimed, Violates, ApplyToHealth,
      ApplyToRequest, Continue, Swapping, EndsRequest, Release, Settle, LimitReplies, Stay,
      Positions, Posture, PositionIsSound, Starting
<1>8. CASE ReadViolation
  BY <1>8, FirstMessage, EventForms DEF ReadViolation, workerVars, loopVars, healthVars,
      activeVars, pendingVars, clientVars, Pumping, Claimed, Mismatched, Violates, Trouble,
      Uncontained, Swapping, Target, Settle, Contain, Release, PublishUnavailable, Positions,
      Posture, PositionIsSound, Starting
<1>9. CASE ReadEnd
  BY <1>9, FirstMessage, EventForms DEF ReadEnd, workerVars, loopVars, healthVars, activeVars,
      pendingVars, clientVars, Pumping, Trouble, Uncontained, Settle, Contain, Release,
      PublishUnavailable, Positions, Posture, PositionIsSound, Starting
<1>10. CASE WaitTimesOut
  BY <1>10, FirstMessage, EventForms DEF WaitTimesOut, workerVars, loopVars, healthVars,
      activeVars, pendingVars, clientVars, Pumping, Contain, Settle, Release,
      PublishUnavailable, Positions, Posture, PositionIsSound, Starting
<1>11. CASE ReadCleared
  BY <1>11, FirstMessage, EventForms DEF ReadCleared, workerVars, loopVars, healthVars,
      activeVars, pendingVars, clientVars, Settle, Positions, Posture, PositionIsSound, Starting
<1>12. CASE StartupDone
  BY <1>12, FirstMessage, EventForms DEF StartupDone, workerVars, loopVars, healthVars,
      activeVars, pendingVars, clientVars, Pumping, Stay, Positions, Posture, PositionIsSound,
      Starting
<1>13. CASE ChooseModel
  BY <1>13 DEF ChooseModel, Stay, Refuse, Settle, AskForModel, Contain, PublishUnavailable,
      loopVars, healthVars, activeVars, Positions
<1>14. CASE ReadSwapReply
  BY <1>14, FirstMessage, EventForms DEF ReadSwapReply, workerVars, loopVars, healthVars,
      activeVars, pendingVars, clientVars, Swapping, Claimed, Mismatched, Settle, Target,
      Positions, Posture, PositionIsSound, Starting
<1>15. CASE ReadSwapFailure
  BY <1>15, FirstMessage, EventForms DEF ReadSwapFailure, workerVars, loopVars, healthVars,
      activeVars, pendingVars, clientVars, Swapping, PublishUnavailable, Settle, Refuse,
      Release, Positions, Posture, PositionIsSound, Starting
<1>16. CASE Dispatch
  BY <1>16 DEF Dispatch, DropDisconnected, RejectStart, StartRequest, FailStart, Stay, Refuse,
      Settle, Contain, PublishUnavailable, loopVars, healthVars, activeVars, Positions,
      Posture, PositionIsSound, Starting
<1>17. CASE ReadCancelled
  BY <1>17, FirstMessage, EventForms DEF ReadCancelled, workerVars, loopVars, healthVars,
      activeVars, pendingVars, clientVars, Acknowledges, Release, Settle, Drained, Stay,
      Positions, Posture, PositionIsSound, Starting
<1>18. CASE CancelFails
  BY <1>18, FirstMessage, EventForms DEF CancelFails, workerVars, loopVars, healthVars,
      activeVars, pendingVars, clientVars, Stay, Positions, Posture, PositionIsSound, Starting
<1>19. CASE ReplaceUncancelled
  BY <1>19, FirstMessage, EventForms DEF ReplaceUncancelled, workerVars, loopVars, healthVars,
      activeVars, pendingVars, clientVars, Relaunch, StayDown, PublishUnavailable, Release,
      Settle, Positions, Posture, PositionIsSound, Starting
<1>20. CASE ReadRecovery
  BY <1>20, FirstMessage, EventForms DEF ReadRecovery, workerVars, loopVars, healthVars,
      activeVars, pendingVars, clientVars, Release, Settle, Positions, Posture,
      PositionIsSound, Starting
<1>21. CASE RecoveryFails
  BY <1>21, FirstMessage, EventForms DEF RecoveryFails, workerVars, loopVars, healthVars,
      activeVars, pendingVars, clientVars, StayDown, PublishUnavailable, Release, Settle,
      Positions, Posture, PositionIsSound, Starting
<1>22. CASE CandidateAcknowledged
  BY <1>22, FirstMessage, EventForms DEF CandidateAcknowledged, workerVars, loopVars,
      healthVars, activeVars, pendingVars, clientVars, Stay, Positions, Posture,
      PositionIsSound, Starting
<1>23. CASE CandidateRejected
  BY <1>23, FirstMessage, EventForms DEF CandidateRejected, workerVars, loopVars, healthVars,
      activeVars, pendingVars, clientVars, Settle, Positions, Posture, PositionIsSound, Starting
<1>24. CASE CommitCandidate
  BY <1>24, FirstMessage, EventForms DEF CommitCandidate, workerVars, loopVars, healthVars,
      activeVars, pendingVars, clientVars, Settle, Positions, Posture, PositionIsSound, Starting
<1>25. CASE StopTrusted
  BY <1>25, FirstMessage, EventForms DEF StopTrusted, workerVars, loopVars, healthVars,
      activeVars, pendingVars, clientVars, Stay, Positions, Posture, PositionIsSound, Starting
<1>26. CASE CloseTrustedFails
  BY <1>26, FirstMessage, EventForms DEF CloseTrustedFails, workerVars, loopVars, healthVars,
      activeVars, pendingVars, clientVars, PublishUnavailable, Settle, Positions, Posture,
      PositionIsSound, Starting
<1>27. CASE LaunchDemoted
  BY <1>27, FirstMessage, EventForms DEF LaunchDemoted, workerVars, loopVars, healthVars,
      activeVars, pendingVars, clientVars, Stay, PublishUnavailable, Settle, Positions,
      Posture, PositionIsSound, Starting
<1>28. CASE ReadHandshake
  <2>1. Head(events) \in {Message("Idle", None), Message("Config", None)}
    BY <1>28, FirstMessage, GreetingSays DEF ReadHandshake, HandshakeIsQuiet
  <2>2. Head(events).type \in {"Idle", "Config"}
    BY <2>1 DEF Message
  <2> QED
    BY <1>28, <2>2 DEF ReadHandshake, loopVars, healthVars, activeVars, Positions
<1>29. CASE HandshakeFails
  BY <1>29, FirstMessage, EventForms DEF HandshakeFails, workerVars, loopVars, healthVars,
      activeVars, pendingVars, clientVars, PublishUnavailable, Settle, Positions, Posture,
      PositionIsSound, Starting
<1>30. CASE ReloadModel
  BY <1>30, FirstMessage, EventForms DEF ReloadModel, workerVars, loopVars, healthVars,
      activeVars, pendingVars, clientVars, Settle, Positions, Posture, PositionIsSound, Starting
<1>31. CASE CancelAbandoned
  BY <1>31, FirstMessage, EventForms DEF CancelAbandoned, workerVars, loopVars, healthVars,
      activeVars, pendingVars, clientVars, BeginCancel, SendCancel, Positions, Posture,
      PositionIsSound, Starting
<1>32. CASE CancelBackpressured
  BY <1>32, FirstMessage, EventForms DEF CancelBackpressured, workerVars, loopVars, healthVars,
      activeVars, pendingVars, clientVars, BeginCancel, Positions, Posture, PositionIsSound,
      Starting
<1>33. CASE CancelOverdue
  BY <1>33, FirstMessage, EventForms DEF CancelOverdue, workerVars, loopVars, healthVars,
      activeVars, pendingVars, clientVars, BeginCancel, SendCancel, Positions, Posture,
      PositionIsSound, Starting
<1>34. CASE RelaunchContained
  BY <1>34, FirstMessage, EventForms DEF RelaunchContained, workerVars, loopVars, healthVars,
      activeVars, pendingVars, clientVars, Relaunch, PublishUnavailable, StayDown, Release,
      Settle, Positions, Posture, PositionIsSound, Starting
<1>35. CASE LoadDeadlinePasses
  BY <1>35, FirstMessage, EventForms DEF LoadDeadlinePasses, workerVars, loopVars, healthVars,
      activeVars, pendingVars, clientVars, Contain, Release, PublishUnavailable, Settle,
      Positions, Posture, PositionIsSound, Starting
<1>36. CASE IdleTick
  BY <1>36, FirstMessage, EventForms DEF IdleTick, workerVars, loopVars, healthVars,
      activeVars, pendingVars, clientVars, Settle, Positions, Posture, PositionIsSound, Starting
<1>37. CASE UpdateLimit
  BY <1>37, FirstMessage, EventForms DEF UpdateLimit, workerVars, loopVars, healthVars,
      activeVars, pendingVars, clientVars, Settle, AwaitReply, Positions, Posture,
      PositionIsSound, Starting
<1>38. CASE ClearPromptCache
  BY <1>38, FirstMessage, EventForms DEF ClearPromptCache, workerVars, loopVars, healthVars,
      activeVars, pendingVars, clientVars, ControlIsIdle, Settle, AwaitReply, Contain, Release,
      PublishUnavailable, Positions, Posture, PositionIsSound, Starting
<1>39. CASE RestartWorker
  BY <1>39, FirstMessage, EventForms DEF RestartWorker, workerVars, loopVars, healthVars,
      activeVars, pendingVars, clientVars, ReplacementAllowed, Stay, Settle, Positions,
      Posture, PositionIsSound, Starting
<1>40. CASE DemoteWorker
  BY <1>40, FirstMessage, EventForms DEF DemoteWorker, workerVars, loopVars, healthVars,
      activeVars, pendingVars, clientVars, ReplacementAllowed, PublishUnavailable, Settle,
      Positions, Posture, PositionIsSound, Starting
<1>41. CASE Shutdown
  BY <1>41, FirstMessage, EventForms DEF Shutdown, workerVars, loopVars, healthVars,
      activeVars, pendingVars, clientVars, PublishUnavailable, Release, Settle, Positions,
      Posture, PositionIsSound, Starting
<1>42. ASSUME NEW r \in Requests, Submit(r) PROVE NameTypes'
  BY <1>42, FirstMessage, EventForms DEF Submit, workerVars, loopVars, healthVars, activeVars,
      pendingVars, clientVars, Positions, Posture, PositionIsSound, Starting
<1>43. ASSUME NEW r \in Requests, SendRequest(r) PROVE NameTypes'
  BY <1>43, FirstMessage, EventForms DEF SendRequest, workerVars, loopVars, healthVars,
      activeVars, pendingVars, clientVars, Positions, Posture, PositionIsSound, Starting
<1>44. ASSUME NEW r \in Requests, HangUp(r) PROVE NameTypes'
  BY <1>44, FirstMessage, EventForms DEF HangUp, workerVars, loopVars, healthVars, activeVars,
      pendingVars, clientVars, Positions, Posture, PositionIsSound, Starting
<1>45. ASSUME NEW r \in Requests, TakeRequest(r) PROVE NameTypes'
  BY <1>45, FirstMessage, EventForms DEF TakeRequest, workerVars, loopVars, healthVars,
      activeVars, pendingVars, clientVars, Release, Settle, Positions, Posture,
      PositionIsSound, Starting
<1> QED
  BY <1>1, <1>2, <1>3, <1>4, <1>5, <1>6, <1>7, <1>8, <1>9, <1>10, <1>11, <1>12, <1>13, <1>14,
      <1>15, <1>16, <1>17, <1>18, <1>19, <1>20, <1>21, <1>22, <1>23, <1>24, <1>25, <1>26,
      <1>27, <1>28, <1>29, <1>30, <1>31, <1>32, <1>33, <1>34, <1>35, <1>36, <1>37, <1>38,
      <1>39, <1>40, <1>41, <1>42, <1>43, <1>44, <1>45
      DEF Next, Worker, Steps, Arms, Client

\* The clients' books stay books.
LEMMA ClientsKept == ControlInv /\ Next => ClientTypes'
<1> SUFFICES ASSUME ControlInv, Next PROVE ClientTypes'
    OBVIOUS
<1> USE ProtocolAssumption, LoopAssumption, TypeParts DEF ControlInv, ClientTypes, RequestStates
<1>1. CASE WorkerAnswers
  BY <1>1 DEF WorkerAnswers, workerVars, loopVars, healthVars, activeVars, pendingVars,
      clientVars, Answers, Becomes, IdleAnswers, BusyAnswers, Starts, Answer, Loads, Failure,
      Ending
<1>2. CASE WorkerAdvances
  BY <1>2 DEF WorkerAdvances, workerVars, loopVars, healthVars, activeVars, pendingVars,
      clientVars, Advances, Becomes, Answer, Progress, Ending, Failure
<1>3. CASE WorkerCrashes
  BY <1>3 DEF WorkerCrashes, workerVars, loopVars, healthVars, activeVars, pendingVars,
      clientVars
<1>4. CASE DrainLimit
  BY <1>4 DEF DrainLimit, workerVars, loopVars, healthVars, activeVars, pendingVars,
      clientVars, AwaitReply, Contain, Stay, Release, PublishUnavailable, Settle
<1>5. CASE DrainClear
  BY <1>5 DEF DrainClear, workerVars, loopVars, healthVars, activeVars, pendingVars,
      clientVars, ControlIsIdle, AwaitReply, Contain, Stay, Release, PublishUnavailable, Settle
<1>6. CASE Observe
  BY <1>6 DEF Observe, workerVars, loopVars, healthVars, activeVars, pendingVars, clientVars,
      Stay
<1>7. CASE ReadEvent
  BY <1>7 DEF ReadEvent, workerVars, loopVars, healthVars, activeVars, pendingVars, clientVars,
      Pumping, Claimed, Violates, ApplyToHealth, ApplyToRequest, Continue, Swapping,
      EndsRequest, Release, Settle, LimitReplies, Stay
<1>8. CASE ReadViolation
  BY <1>8 DEF ReadViolation, workerVars, loopVars, healthVars, activeVars, pendingVars,
      clientVars, Pumping, Claimed, Mismatched, Violates, Trouble, Uncontained, Swapping,
      Target, Settle, Contain, Release, PublishUnavailable
<1>9. CASE ReadEnd
  BY <1>9 DEF ReadEnd, workerVars, loopVars, healthVars, activeVars, pendingVars, clientVars,
      Pumping, Trouble, Uncontained, Settle, Contain, Release, PublishUnavailable
<1>10. CASE WaitTimesOut
  BY <1>10 DEF WaitTimesOut, workerVars, loopVars, healthVars, activeVars, pendingVars,
      clientVars, Pumping, Contain, Settle, Release, PublishUnavailable
<1>11. CASE ReadCleared
  BY <1>11 DEF ReadCleared, workerVars, loopVars, healthVars, activeVars, pendingVars,
      clientVars, Settle
<1>12. CASE StartupDone
  BY <1>12 DEF StartupDone, workerVars, loopVars, healthVars, activeVars, pendingVars,
      clientVars, Pumping, Stay
<1>13. CASE ChooseModel
  BY <1>13 DEF ChooseModel, workerVars, loopVars, healthVars, activeVars, pendingVars,
      clientVars, NeedsNoSwap, Stay, Refuse, AskForModel, Contain, Release, Settle,
      PublishUnavailable
<1>14. CASE ReadSwapReply
  BY <1>14 DEF ReadSwapReply, workerVars, loopVars, healthVars, activeVars, pendingVars,
      clientVars, Swapping, Claimed, Mismatched, Settle, Target
<1>15. CASE ReadSwapFailure
  BY <1>15 DEF ReadSwapFailure, workerVars, loopVars, healthVars, activeVars, pendingVars,
      clientVars, Swapping, PublishUnavailable, Settle, Refuse, Release
<1>16. CASE Dispatch
  BY <1>16 DEF Dispatch, workerVars, loopVars, healthVars, activeVars, pendingVars, clientVars,
      DropDisconnected, RejectStart, StartRequest, FailStart, Release, Settle, Refuse, Stay,
      Contain, PublishUnavailable
<1>17. CASE ReadCancelled
  BY <1>17 DEF ReadCancelled, workerVars, loopVars, healthVars, activeVars, pendingVars,
      clientVars, Acknowledges, Release, Settle, Drained, Stay
<1>18. CASE CancelFails
  BY <1>18 DEF CancelFails, workerVars, loopVars, healthVars, activeVars, pendingVars,
      clientVars, Stay
<1>19. CASE ReplaceUncancelled
  BY <1>19 DEF ReplaceUncancelled, workerVars, loopVars, healthVars, activeVars, pendingVars,
      clientVars, Relaunch, StayDown, PublishUnavailable, Release, Settle
<1>20. CASE ReadRecovery
  BY <1>20 DEF ReadRecovery, workerVars, loopVars, healthVars, activeVars, pendingVars,
      clientVars, Release, Settle
<1>21. CASE RecoveryFails
  BY <1>21 DEF RecoveryFails, workerVars, loopVars, healthVars, activeVars, pendingVars,
      clientVars, StayDown, PublishUnavailable, Release, Settle
<1>22. CASE CandidateAcknowledged
  BY <1>22 DEF CandidateAcknowledged, workerVars, loopVars, healthVars, activeVars,
      pendingVars, clientVars, Stay
<1>23. CASE CandidateRejected
  BY <1>23 DEF CandidateRejected, workerVars, loopVars, healthVars, activeVars, pendingVars,
      clientVars, Settle
<1>24. CASE CommitCandidate
  BY <1>24 DEF CommitCandidate, workerVars, loopVars, healthVars, activeVars, pendingVars,
      clientVars, Settle
<1>25. CASE StopTrusted
  BY <1>25 DEF StopTrusted, workerVars, loopVars, healthVars, activeVars, pendingVars,
      clientVars, Stay
<1>26. CASE CloseTrustedFails
  BY <1>26 DEF CloseTrustedFails, workerVars, loopVars, healthVars, activeVars, pendingVars,
      clientVars, PublishUnavailable, Settle
<1>27. CASE LaunchDemoted
  BY <1>27 DEF LaunchDemoted, workerVars, loopVars, healthVars, activeVars, pendingVars,
      clientVars, Stay, PublishUnavailable, Settle
<1>28. CASE ReadHandshake
  BY <1>28 DEF ReadHandshake, workerVars, loopVars, healthVars, activeVars, pendingVars,
      clientVars
<1>29. CASE HandshakeFails
  BY <1>29 DEF HandshakeFails, workerVars, loopVars, healthVars, activeVars, pendingVars,
      clientVars, PublishUnavailable, Settle
<1>30. CASE ReloadModel
  BY <1>30 DEF ReloadModel, workerVars, loopVars, healthVars, activeVars, pendingVars,
      clientVars, Settle
<1>31. CASE CancelAbandoned
  BY <1>31 DEF CancelAbandoned, workerVars, loopVars, healthVars, activeVars, pendingVars,
      clientVars, BeginCancel, SendCancel
<1>32. CASE CancelBackpressured
  BY <1>32 DEF CancelBackpressured, workerVars, loopVars, healthVars, activeVars, pendingVars,
      clientVars, BeginCancel
<1>33. CASE CancelOverdue
  <2>1. active \in Requests /\ answers[active] + 1 \in Nat
    BY <1>33 DEF CancelOverdue, NameTypes
  <2> QED
    BY <1>33, <2>1 DEF CancelOverdue, BeginCancel
<1>34. CASE RelaunchContained
  BY <1>34 DEF RelaunchContained, workerVars, loopVars, healthVars, activeVars, pendingVars,
      clientVars, Relaunch, PublishUnavailable, StayDown, Release, Settle
<1>35. CASE LoadDeadlinePasses
  BY <1>35 DEF LoadDeadlinePasses, workerVars, loopVars, healthVars, activeVars, pendingVars,
      clientVars, Contain, Release, PublishUnavailable, Settle
<1>36. CASE IdleTick
  BY <1>36 DEF IdleTick, workerVars, loopVars, healthVars, activeVars, pendingVars, clientVars,
      Settle
<1>37. CASE UpdateLimit
  BY <1>37 DEF UpdateLimit, workerVars, loopVars, healthVars, activeVars, pendingVars,
      clientVars, Settle, AwaitReply
<1>38. CASE ClearPromptCache
  BY <1>38 DEF ClearPromptCache, workerVars, loopVars, healthVars, activeVars, pendingVars,
      clientVars, ControlIsIdle, Settle, AwaitReply, Contain, Release, PublishUnavailable
<1>39. CASE RestartWorker
  BY <1>39 DEF RestartWorker, workerVars, loopVars, healthVars, activeVars, pendingVars,
      clientVars, ReplacementAllowed, Stay, Settle
<1>40. CASE DemoteWorker
  BY <1>40 DEF DemoteWorker, workerVars, loopVars, healthVars, activeVars, pendingVars,
      clientVars, ReplacementAllowed, PublishUnavailable, Settle
<1>41. CASE Shutdown
  BY <1>41 DEF Shutdown, workerVars, loopVars, healthVars, activeVars, pendingVars, clientVars,
      PublishUnavailable, Release, Settle
<1>42. ASSUME NEW r \in Requests, Submit(r) PROVE ClientTypes'
  BY <1>42 DEF Submit, workerVars, loopVars, healthVars, activeVars, pendingVars, clientVars
<1>43. ASSUME NEW r \in Requests, SendRequest(r) PROVE ClientTypes'
  BY <1>43 DEF SendRequest, workerVars, loopVars, healthVars, activeVars, pendingVars,
      clientVars
<1>44. ASSUME NEW r \in Requests, HangUp(r) PROVE ClientTypes'
  BY <1>44 DEF HangUp, workerVars, loopVars, healthVars, activeVars, pendingVars, clientVars
<1>45. ASSUME NEW r \in Requests, TakeRequest(r) PROVE ClientTypes'
  BY <1>45, SMTT(30) DEF TakeRequest, workerVars, loopVars, healthVars, activeVars, pendingVars,
      clientVars, Release, Settle
<1> QED
  BY <1>1, <1>2, <1>3, <1>4, <1>5, <1>6, <1>7, <1>8, <1>9, <1>10, <1>11, <1>12, <1>13, <1>14,
      <1>15, <1>16, <1>17, <1>18, <1>19, <1>20, <1>21, <1>22, <1>23, <1>24, <1>25, <1>26,
      <1>27, <1>28, <1>29, <1>30, <1>31, <1>32, <1>33, <1>34, <1>35, <1>36, <1>37, <1>38,
      <1>39, <1>40, <1>41, <1>42, <1>43, <1>44, <1>45
      DEF Next, Worker, Steps, Arms, Client

\* The loop is at a position that it has the state for.
LEMMA PostureKept == ControlInv /\ Next => Posture'
<1> SUFFICES ASSUME ControlInv, Next PROVE Posture'
    OBVIOUS
<1> USE ProtocolAssumption, LoopAssumption, TypeParts DEF ControlInv, Posture, ReadyIsPublished, ActiveIsTracked, PositionIsSound, StagedIsCurrent, Starting, ActivePositions, NameTypes, ClientTypes
<1>1. CASE WorkerAnswers
  BY <1>1 DEF WorkerAnswers, workerVars, loopVars, healthVars, activeVars, pendingVars,
      clientVars, Answers, Becomes, IdleAnswers, BusyAnswers, Starts, Answer, Loads, Failure,
      Ending
<1>2. CASE WorkerAdvances
  BY <1>2 DEF WorkerAdvances, workerVars, loopVars, healthVars, activeVars, pendingVars,
      clientVars, Advances, Becomes, Answer, Progress, Ending, Failure
<1>3. CASE WorkerCrashes
  BY <1>3 DEF WorkerCrashes, workerVars, loopVars, healthVars, activeVars, pendingVars,
      clientVars
<1>4. CASE DrainLimit
  BY <1>4 DEF DrainLimit, workerVars, loopVars, healthVars, activeVars, pendingVars,
      clientVars, AwaitReply, Contain, Stay, Release, PublishUnavailable, Settle
<1>5. CASE DrainClear
  BY <1>5 DEF DrainClear, workerVars, loopVars, healthVars, activeVars, pendingVars,
      clientVars, ControlIsIdle, AwaitReply, Contain, Stay, Release, PublishUnavailable, Settle
<1>6. CASE Observe
  BY <1>6 DEF Observe, workerVars, loopVars, healthVars, activeVars, pendingVars, clientVars,
      Stay
<1>7. CASE ReadEvent
  BY <1>7 DEF ReadEvent, workerVars, loopVars, healthVars, activeVars, pendingVars, clientVars,
      Pumping, Claimed, Violates, ApplyToHealth, ApplyToRequest, Continue, Swapping,
      EndsRequest, Release, Settle, LimitReplies, Stay
<1>8. CASE ReadViolation
  BY <1>8 DEF ReadViolation, workerVars, loopVars, healthVars, activeVars, pendingVars,
      clientVars, Pumping, Claimed, Mismatched, Violates, Trouble, Uncontained, Swapping,
      Target, Settle, Contain, Release, PublishUnavailable
<1>9. CASE ReadEnd
  BY <1>9 DEF ReadEnd, workerVars, loopVars, healthVars, activeVars, pendingVars, clientVars,
      Pumping, Trouble, Uncontained, Settle, Contain, Release, PublishUnavailable
<1>10. CASE WaitTimesOut
  BY <1>10 DEF WaitTimesOut, workerVars, loopVars, healthVars, activeVars, pendingVars,
      clientVars, Pumping, Contain, Settle, Release, PublishUnavailable
<1>11. CASE ReadCleared
  BY <1>11 DEF ReadCleared, workerVars, loopVars, healthVars, activeVars, pendingVars,
      clientVars, Settle
<1>12. CASE StartupDone
  BY <1>12 DEF StartupDone, workerVars, loopVars, healthVars, activeVars, pendingVars,
      clientVars, Pumping, Stay
<1>13. CASE ChooseModel
  BY <1>13 DEF ChooseModel, workerVars, loopVars, healthVars, activeVars, pendingVars,
      clientVars, NeedsNoSwap, Stay, Refuse, AskForModel, Contain, Release, Settle,
      PublishUnavailable
<1>14. CASE ReadSwapReply
  BY <1>14 DEF ReadSwapReply, workerVars, loopVars, healthVars, activeVars, pendingVars,
      clientVars, Swapping, Claimed, Mismatched, Settle, Target
<1>15. CASE ReadSwapFailure
  BY <1>15 DEF ReadSwapFailure, workerVars, loopVars, healthVars, activeVars, pendingVars,
      clientVars, Swapping, PublishUnavailable, Settle, Refuse, Release
<1>16. CASE Dispatch
  BY <1>16, ZenonT(40) DEF Dispatch, workerVars, loopVars, healthVars, activeVars, pendingVars, clientVars,
      DropDisconnected, RejectStart, StartRequest, FailStart, Release, Settle, Refuse, Stay,
      Contain, PublishUnavailable
<1>17. CASE ReadCancelled
  BY <1>17 DEF ReadCancelled, workerVars, loopVars, healthVars, activeVars, pendingVars,
      clientVars, Acknowledges, Release, Settle, Drained, Stay
<1>18. CASE CancelFails
  BY <1>18 DEF CancelFails, workerVars, loopVars, healthVars, activeVars, pendingVars,
      clientVars, Stay
<1>19. CASE ReplaceUncancelled
  BY <1>19 DEF ReplaceUncancelled, workerVars, loopVars, healthVars, activeVars, pendingVars,
      clientVars, Relaunch, StayDown, PublishUnavailable, Release, Settle
<1>20. CASE ReadRecovery
  BY <1>20 DEF ReadRecovery, workerVars, loopVars, healthVars, activeVars, pendingVars,
      clientVars, Release, Settle
<1>21. CASE RecoveryFails
  BY <1>21 DEF RecoveryFails, workerVars, loopVars, healthVars, activeVars, pendingVars,
      clientVars, StayDown, PublishUnavailable, Release, Settle
<1>22. CASE CandidateAcknowledged
  BY <1>22 DEF CandidateAcknowledged, workerVars, loopVars, healthVars, activeVars,
      pendingVars, clientVars, Stay
<1>23. CASE CandidateRejected
  BY <1>23 DEF CandidateRejected, workerVars, loopVars, healthVars, activeVars, pendingVars,
      clientVars, Settle
<1>24. CASE CommitCandidate
  BY <1>24 DEF CommitCandidate, workerVars, loopVars, healthVars, activeVars, pendingVars,
      clientVars, Settle
<1>25. CASE StopTrusted
  BY <1>25 DEF StopTrusted, workerVars, loopVars, healthVars, activeVars, pendingVars,
      clientVars, Stay
<1>26. CASE CloseTrustedFails
  BY <1>26 DEF CloseTrustedFails, workerVars, loopVars, healthVars, activeVars, pendingVars,
      clientVars, PublishUnavailable, Settle
<1>27. CASE LaunchDemoted
  BY <1>27 DEF LaunchDemoted, workerVars, loopVars, healthVars, activeVars, pendingVars,
      clientVars, Stay, PublishUnavailable, Settle
<1>28. CASE ReadHandshake
  BY <1>28 DEF ReadHandshake, workerVars, loopVars, healthVars, activeVars, pendingVars,
      clientVars
<1>29. CASE HandshakeFails
  BY <1>29 DEF HandshakeFails, workerVars, loopVars, healthVars, activeVars, pendingVars,
      clientVars, PublishUnavailable, Settle
<1>30. CASE ReloadModel
  BY <1>30 DEF ReloadModel, workerVars, loopVars, healthVars, activeVars, pendingVars,
      clientVars, Settle
<1>31. CASE CancelAbandoned
  BY <1>31 DEF CancelAbandoned, workerVars, loopVars, healthVars, activeVars, pendingVars,
      clientVars, BeginCancel, SendCancel
<1>32. CASE CancelBackpressured
  BY <1>32 DEF CancelBackpressured, workerVars, loopVars, healthVars, activeVars, pendingVars,
      clientVars, BeginCancel
<1>33. CASE CancelOverdue
  BY <1>33 DEF CancelOverdue, workerVars, loopVars, healthVars, activeVars, pendingVars,
      clientVars, BeginCancel, SendCancel
<1>34. CASE RelaunchContained
  <2>1. active = None /\ ~isReady
    BY <1>34 DEF RelaunchContained, RelaunchIsOwed
  <2> QED
    BY <1>34, <2>1 DEF RelaunchContained, Relaunch, StayDown, PublishUnavailable, Settle, Release,
      activeVars, clientVars
<1>35. CASE LoadDeadlinePasses
  BY <1>35 DEF LoadDeadlinePasses, workerVars, loopVars, healthVars, activeVars, pendingVars,
      clientVars, Contain, Release, PublishUnavailable, Settle
<1>36. CASE IdleTick
  BY <1>36 DEF IdleTick, workerVars, loopVars, healthVars, activeVars, pendingVars, clientVars,
      Settle
<1>37. CASE UpdateLimit
  BY <1>37 DEF UpdateLimit, workerVars, loopVars, healthVars, activeVars, pendingVars,
      clientVars, Settle, AwaitReply
<1>38. CASE ClearPromptCache
  BY <1>38 DEF ClearPromptCache, workerVars, loopVars, healthVars, activeVars, pendingVars,
      clientVars, ControlIsIdle, Settle, AwaitReply, Contain, Release, PublishUnavailable
<1>39. CASE RestartWorker
  BY <1>39 DEF RestartWorker, workerVars, loopVars, healthVars, activeVars, pendingVars,
      clientVars, ReplacementAllowed, Stay, Settle
<1>40. CASE DemoteWorker
  BY <1>40 DEF DemoteWorker, workerVars, loopVars, healthVars, activeVars, pendingVars,
      clientVars, ReplacementAllowed, PublishUnavailable, Settle
<1>41. CASE Shutdown
  BY <1>41 DEF Shutdown, workerVars, loopVars, healthVars, activeVars, pendingVars, clientVars,
      PublishUnavailable, Release, Settle
<1>42. ASSUME NEW r \in Requests, Submit(r) PROVE Posture'
  BY <1>42 DEF Submit, workerVars, loopVars, healthVars, activeVars, pendingVars, clientVars
<1>43. ASSUME NEW r \in Requests, SendRequest(r) PROVE Posture'
  BY <1>43 DEF SendRequest, workerVars, loopVars, healthVars, activeVars, pendingVars,
      clientVars
<1>44. ASSUME NEW r \in Requests, HangUp(r) PROVE Posture'
  BY <1>44 DEF HangUp, workerVars, loopVars, healthVars, activeVars, pendingVars, clientVars
<1>45. ASSUME NEW r \in Requests, TakeRequest(r) PROVE Posture'
  BY <1>45 DEF TakeRequest, workerVars, loopVars, healthVars, activeVars, pendingVars,
      clientVars, Release, Settle
<1> QED
  BY <1>1, <1>2, <1>3, <1>4, <1>5, <1>6, <1>7, <1>8, <1>9, <1>10, <1>11, <1>12, <1>13, <1>14,
      <1>15, <1>16, <1>17, <1>18, <1>19, <1>20, <1>21, <1>22, <1>23, <1>24, <1>25, <1>26,
      <1>27, <1>28, <1>29, <1>30, <1>31, <1>32, <1>33, <1>34, <1>35, <1>36, <1>37, <1>38,
      <1>39, <1>40, <1>41, <1>42, <1>43, <1>44, <1>45
      DEF Next, Worker, Steps, Arms, Client

\* Permits come back, and the clients of some are told.
LEMMA ReleaseKeeps ==
    ASSUME ClientTypes, Ledger, NEW A \in SUBSET Requests, NEW B \in SUBSET A, Release(A, B),
           \A r \in B : rq[r] \notin {"cancelling", "done"}
    PROVE  Ledger'
<1>1. \A r \in B : answers[r] = 0
  BY DEF Ledger, AnswersAreCounted
<1>2. AnswersAreCounted'
  BY <1>1 DEF Release, Ledger, AnswersAreCounted, ClientTypes
<1>3. \A r \in Requests : rq'[r] = rq[r] \/ rq'[r] = "done"
  BY DEF Release
<1>4. PermitIsAlone'
  BY <1>3 DEF PermitIsAlone, Ledger, Holding
<1> QED
  BY <1>2, <1>4 DEF Ledger

\* A containment answers the active request and the one being started.
LEMMA ContainKeeps ==
    ASSUME ControlInv, NEW p, NEW A \in SUBSET Requests, NEW B \in SUBSET Requests,
           \A r \in A : rq[r] = "starting", Contain(p, A, B)
    PROVE  Ledger'
<1> DEFINE failed == A \cup ({active} \ {None})
<1>1. ClientTypes /\ Ledger /\ NameTypes
  BY TypeParts DEF ControlInv
<1>2. failed \in SUBSET Requests /\ \A r \in failed : rq[r] \notin {"cancelling", "done"}
  BY <1>1 DEF NameTypes, ControlInv, Posture, ActiveIsTracked
<1>3. Release(failed \cup B, failed)
  BY DEF Contain
<1> HIDE DEF failed
<1> QED
  BY <1>1, <1>2, <1>3, ReleaseKeeps

\* An error in a wait answers the request that waits, if one does.
LEMMA TroubleKeeps == ASSUME ControlInv, Pumping, Trouble PROVE Ledger'
<1>1. ClientTypes /\ Ledger /\ NameTypes
  BY TypeParts DEF ControlInv
<1>2. CASE Uncontained
  BY <1>1, <1>2 DEF Trouble, Uncontained, clientVars, Ledger, AnswersAreCounted, PermitIsAlone, Holding
<1>3. CASE at \in {"startup", "swap"}
  <2>1. cur \in Requests /\ rq[cur] = "starting" /\ ~Uncontained
    BY <1>3 DEF ControlInv, Posture, PositionIsSound, Starting, Uncontained
  <2>2. Contain("top", {}, {cur}) \/ Contain("top", {cur}, {})
    BY <1>3, <2>1 DEF Trouble
  <2> QED
    BY <2>1, <2>2, ContainKeeps
<1>4. CASE ~Uncontained /\ at \notin {"startup", "swap"}
  <2>1. \E p \in {"top", "tidy", back} : Contain(p, {}, {})
    BY <1>4 DEF Trouble
  <2> QED
    BY <2>1, ContainKeeps
<1> QED
  BY <1>2, <1>3, <1>4

\* No client is answered twice, no permit is given twice.
LEMMA LedgerKept == ControlInv /\ Next => Ledger'
<1> SUFFICES ASSUME ControlInv, Next PROVE Ledger'
    OBVIOUS
<1> USE ProtocolAssumption, LoopAssumption, TypeParts DEF ControlInv, NameTypes, ClientTypes
<1>1. CASE WorkerAnswers
  BY <1>1 DEF WorkerAnswers, workerVars, loopVars, healthVars, activeVars, pendingVars,
      clientVars, Answers, Becomes, IdleAnswers, BusyAnswers, Starts, Answer, Loads, Failure,
      Ending, Ledger, AnswersAreCounted, PermitIsAlone, Holding, Posture, PositionIsSound,
      ActiveIsTracked, Starting
<1>2. CASE WorkerAdvances
  BY <1>2 DEF WorkerAdvances, workerVars, loopVars, healthVars, activeVars, pendingVars,
      clientVars, Advances, Becomes, Answer, Progress, Ending, Failure, Ledger,
      AnswersAreCounted, PermitIsAlone, Holding, Posture, PositionIsSound, ActiveIsTracked,
      Starting
<1>3. CASE WorkerCrashes
  BY <1>3 DEF WorkerCrashes, workerVars, loopVars, healthVars, activeVars, pendingVars,
      clientVars, Ledger, AnswersAreCounted, PermitIsAlone, Holding, Posture, PositionIsSound,
      ActiveIsTracked, Starting
<1>4. CASE DrainLimit
  <2>1. Contain("tidy", {}, {}) \/ UNCHANGED clientVars
    BY <1>4 DEF DrainLimit, AwaitReply
  <2> QED
    BY <2>1, ContainKeeps DEF clientVars, Ledger, AnswersAreCounted, PermitIsAlone, Holding
<1>5. CASE DrainClear
  <2>1. Contain("observe", {}, {}) \/ UNCHANGED clientVars
    BY <1>5 DEF DrainClear, AwaitReply
  <2> QED
    BY <2>1, ContainKeeps DEF clientVars, Ledger, AnswersAreCounted, PermitIsAlone, Holding
<1>6. CASE Observe
  BY <1>6 DEF Observe, workerVars, loopVars, healthVars, activeVars, pendingVars, clientVars,
      Stay, Ledger, AnswersAreCounted, PermitIsAlone, Holding, Posture, PositionIsSound,
      ActiveIsTracked, Starting
<1>7. CASE ReadEvent
  <2>1. PICK e \in Events : ~Violates(e) /\ ApplyToRequest(e)
    BY <1>7, FirstMessage DEF ReadEvent, WorkerTypes
  <2>2. CASE EndsRequest(e)
    <3>1. active \in Requests /\ rq[active] = "active"
      BY <2>1, <2>2, EventForms DEF Violates, Posture, ActiveIsTracked
    <3>2. Release({active}, {active})
      BY <2>1, <2>2 DEF ApplyToRequest
    <3> QED
      BY <3>1, <3>2, ReleaseKeeps
  <2>3. CASE ~EndsRequest(e)
    <3>1. Release({}, {})
      BY <2>1, <2>3 DEF ApplyToRequest
    <3> QED
      BY <3>1, ReleaseKeeps
  <2> QED
    BY <2>2, <2>3
<1>8. CASE ReadViolation
  BY <1>8, TroubleKeeps DEF ReadViolation
<1>9. CASE ReadEnd
  BY <1>9, TroubleKeeps DEF ReadEnd
<1>10. CASE WaitTimesOut
  <2>1. CASE at \in {"startup", "swap"}
    <3>1. cur \in Requests /\ rq[cur] = "starting"
      BY <2>1 DEF Posture, PositionIsSound, Starting
    <3>2. Contain("top", {}, {cur}) \/ Contain("top", {cur}, {})
      BY <1>10, <2>1 DEF WaitTimesOut
    <3> QED
      BY <3>1, <3>2, ContainKeeps
  <2>2. CASE at \notin {"startup", "swap"}
    <3>1. Contain(back, {}, {}) \/ UNCHANGED clientVars
      BY <1>10, <2>2 DEF WaitTimesOut
    <3> QED
      BY <3>1, ContainKeeps DEF clientVars, Ledger, AnswersAreCounted, PermitIsAlone, Holding
  <2> QED
    BY <2>1, <2>2
<1>11. CASE ReadCleared
  BY <1>11 DEF ReadCleared, workerVars, loopVars, healthVars, activeVars, pendingVars,
      clientVars, Settle, Ledger, AnswersAreCounted, PermitIsAlone, Holding, Posture,
      PositionIsSound, ActiveIsTracked, Starting
<1>12. CASE StartupDone
  BY <1>12 DEF StartupDone, workerVars, loopVars, healthVars, activeVars, pendingVars,
      clientVars, Pumping, Stay, Ledger, AnswersAreCounted, PermitIsAlone, Holding, Posture,
      PositionIsSound, ActiveIsTracked, Starting
<1>13. CASE ChooseModel
  <2>1. cur \in Requests /\ rq[cur] = "starting"
    BY <1>13 DEF ChooseModel, Posture, PositionIsSound, Starting
  <2>2. Contain("top", {cur}, {}) \/ Release({cur}, {cur}) \/ UNCHANGED clientVars
    BY <1>13 DEF ChooseModel, Refuse, AskForModel
  <2> QED
    BY <2>1, <2>2, ContainKeeps, ReleaseKeeps
       DEF clientVars, Ledger, AnswersAreCounted, PermitIsAlone, Holding
<1>14. CASE ReadSwapReply
  BY <1>14 DEF ReadSwapReply, workerVars, loopVars, healthVars, activeVars, pendingVars,
      clientVars, Swapping, Claimed, Mismatched, Settle, Target, Ledger, AnswersAreCounted,
      PermitIsAlone, Holding, Posture, PositionIsSound, ActiveIsTracked, Starting
<1>15. CASE ReadSwapFailure
  <2>1. CASE at = "restore"
    BY <1>15, <2>1 DEF ReadSwapFailure, clientVars, Ledger, AnswersAreCounted, PermitIsAlone, Holding
  <2>2. CASE at = "swap"
    <3>1. cur \in Requests /\ rq[cur] = "starting"
      BY <2>2 DEF Posture, PositionIsSound, Starting
    <3>2. Release({cur}, {cur})
      BY <1>15, <2>2 DEF ReadSwapFailure, Refuse
    <3> QED
      BY <3>1, <3>2, ReleaseKeeps
  <2> QED
    BY <1>15, <2>1, <2>2 DEF ReadSwapFailure, Swapping
<1>16. CASE Dispatch
  <2>1. cur \in Requests /\ rq[cur] = "starting"
    BY <1>16 DEF Dispatch, Posture, PositionIsSound, Starting
  <2>2. CASE DropDisconnected
    <3>1. Release({cur}, {})
      BY <2>2 DEF DropDisconnected
    <3> QED
      BY <2>1, <3>1, ReleaseKeeps
  <2>3. CASE RejectStart
    <3>1. Release({cur}, {cur})
      BY <2>3 DEF RejectStart, Refuse
    <3> QED
      BY <2>1, <3>1, ReleaseKeeps
  <2>4. CASE FailStart
    BY <2>1, <2>4, ContainKeeps DEF FailStart
  <2>5. CASE StartRequest
    <3>1. rq' = [rq EXCEPT ![cur] = "active"] /\ answers' = answers
      BY <2>5 DEF StartRequest
    <3> QED
      BY <2>1, <3>1 DEF Ledger, AnswersAreCounted, PermitIsAlone, Holding
  <2> QED
    BY <1>16, <2>2, <2>3, <2>4, <2>5 DEF Dispatch
<1>17. CASE ReadCancelled
  <2>1. Release({cur}, {}) \/ UNCHANGED clientVars
    BY <1>17 DEF ReadCancelled
  <2>2. cur \in Requests
    BY <1>17 DEF ReadCancelled, Posture, PositionIsSound
  <2> QED
    BY <2>1, <2>2, ReleaseKeeps DEF clientVars, Ledger, AnswersAreCounted, PermitIsAlone, Holding
<1>18. CASE CancelFails
  BY <1>18 DEF CancelFails, workerVars, loopVars, healthVars, activeVars, pendingVars,
      clientVars, Stay, Ledger, AnswersAreCounted, PermitIsAlone, Holding, Posture,
      PositionIsSound, ActiveIsTracked, Starting
<1>19. CASE ReplaceUncancelled
  BY <1>19 DEF ReplaceUncancelled, workerVars, loopVars, healthVars, activeVars, pendingVars,
      clientVars, Relaunch, StayDown, PublishUnavailable, Release, Settle, Ledger,
      AnswersAreCounted, PermitIsAlone, Holding, Posture, PositionIsSound, ActiveIsTracked,
      Starting
<1>20. CASE ReadRecovery
  BY <1>20 DEF ReadRecovery, workerVars, loopVars, healthVars, activeVars, pendingVars,
      clientVars, Release, Settle, Ledger, AnswersAreCounted, PermitIsAlone, Holding, Posture,
      PositionIsSound, ActiveIsTracked, Starting
<1>21. CASE RecoveryFails
  BY <1>21 DEF RecoveryFails, workerVars, loopVars, healthVars, activeVars, pendingVars,
      clientVars, StayDown, PublishUnavailable, Release, Settle, Ledger, AnswersAreCounted,
      PermitIsAlone, Holding, Posture, PositionIsSound, ActiveIsTracked, Starting
<1>22. CASE CandidateAcknowledged
  BY <1>22 DEF CandidateAcknowledged, workerVars, loopVars, healthVars, activeVars,
      pendingVars, clientVars, Stay, Ledger, AnswersAreCounted, PermitIsAlone, Holding,
      Posture, PositionIsSound, ActiveIsTracked, Starting
<1>23. CASE CandidateRejected
  BY <1>23 DEF CandidateRejected, workerVars, loopVars, healthVars, activeVars, pendingVars,
      clientVars, Settle, Ledger, AnswersAreCounted, PermitIsAlone, Holding, Posture,
      PositionIsSound, ActiveIsTracked, Starting
<1>24. CASE CommitCandidate
  BY <1>24 DEF CommitCandidate, workerVars, loopVars, healthVars, activeVars, pendingVars,
      clientVars, Settle, Ledger, AnswersAreCounted, PermitIsAlone, Holding, Posture,
      PositionIsSound, ActiveIsTracked, Starting
<1>25. CASE StopTrusted
  BY <1>25 DEF StopTrusted, workerVars, loopVars, healthVars, activeVars, pendingVars,
      clientVars, Stay, Ledger, AnswersAreCounted, PermitIsAlone, Holding, Posture,
      PositionIsSound, ActiveIsTracked, Starting
<1>26. CASE CloseTrustedFails
  BY <1>26 DEF CloseTrustedFails, workerVars, loopVars, healthVars, activeVars, pendingVars,
      clientVars, PublishUnavailable, Settle, Ledger, AnswersAreCounted, PermitIsAlone,
      Holding, Posture, PositionIsSound, ActiveIsTracked, Starting
<1>27. CASE LaunchDemoted
  BY <1>27 DEF LaunchDemoted, workerVars, loopVars, healthVars, activeVars, pendingVars,
      clientVars, Stay, PublishUnavailable, Settle, Ledger, AnswersAreCounted, PermitIsAlone,
      Holding, Posture, PositionIsSound, ActiveIsTracked, Starting
<1>28. CASE ReadHandshake
  BY <1>28 DEF ReadHandshake, workerVars, loopVars, healthVars, activeVars, pendingVars,
      clientVars, Ledger, AnswersAreCounted, PermitIsAlone, Holding, Posture, PositionIsSound,
      ActiveIsTracked, Starting
<1>29. CASE HandshakeFails
  BY <1>29 DEF HandshakeFails, workerVars, loopVars, healthVars, activeVars, pendingVars,
      clientVars, PublishUnavailable, Settle, Ledger, AnswersAreCounted, PermitIsAlone,
      Holding, Posture, PositionIsSound, ActiveIsTracked, Starting
<1>30. CASE ReloadModel
  BY <1>30 DEF ReloadModel, workerVars, loopVars, healthVars, activeVars, pendingVars,
      clientVars, Settle, Ledger, AnswersAreCounted, PermitIsAlone, Holding, Posture,
      PositionIsSound, ActiveIsTracked, Starting
<1>31. CASE CancelAbandoned
  <2>1. active \in Requests /\ rq[active] = "active"
    BY <1>31 DEF CancelAbandoned, Posture, ActiveIsTracked
  <2>2. rq' = [rq EXCEPT ![active] = "cancelling"] /\ answers' = answers
    BY <1>31 DEF CancelAbandoned, BeginCancel
  <2> QED
    BY <2>1, <2>2 DEF Ledger, AnswersAreCounted, PermitIsAlone, Holding
<1>32. CASE CancelBackpressured
  <2>1. active \in Requests /\ rq[active] = "active"
    BY <1>32 DEF CancelBackpressured, Posture, ActiveIsTracked
  <2>2. rq' = [rq EXCEPT ![active] = "cancelling"] /\ answers' = answers
    BY <1>32 DEF CancelBackpressured, BeginCancel
  <2> QED
    BY <2>1, <2>2 DEF Ledger, AnswersAreCounted, PermitIsAlone, Holding
<1>33. CASE CancelOverdue
  <2>1. active \in Requests /\ rq[active] = "active" /\ answers[active] = 0
    BY <1>33 DEF CancelOverdue, Posture, ActiveIsTracked, Ledger, AnswersAreCounted
  <2>2. rq' = [rq EXCEPT ![active] = "cancelling"]
    BY <1>33 DEF CancelOverdue, BeginCancel
  <2>3. \A r \in Requests : answers'[r] = answers[r] \/ (r = active /\ answers'[r] = 1)
    BY <1>33, <2>1 DEF CancelOverdue
  <2>4. AnswersAreCounted'
    BY <2>1, <2>2, <2>3 DEF Ledger, AnswersAreCounted
  <2>5. PermitIsAlone'
    BY <2>1, <2>2 DEF Ledger, PermitIsAlone, Holding
  <2> QED
    BY <2>4, <2>5 DEF Ledger
<1>34. CASE RelaunchContained
  BY <1>34 DEF RelaunchContained, workerVars, loopVars, healthVars, activeVars, pendingVars,
      clientVars, Relaunch, PublishUnavailable, StayDown, Release, Settle, Ledger,
      AnswersAreCounted, PermitIsAlone, Holding, Posture, PositionIsSound, ActiveIsTracked,
      Starting
<1>35. CASE LoadDeadlinePasses
  BY <1>35, ContainKeeps DEF LoadDeadlinePasses
<1>36. CASE IdleTick
  BY <1>36 DEF IdleTick, workerVars, loopVars, healthVars, activeVars, pendingVars, clientVars,
      Settle, Ledger, AnswersAreCounted, PermitIsAlone, Holding, Posture, PositionIsSound,
      ActiveIsTracked, Starting
<1>37. CASE UpdateLimit
  BY <1>37 DEF UpdateLimit, workerVars, loopVars, healthVars, activeVars, pendingVars,
      clientVars, Settle, AwaitReply, Ledger, AnswersAreCounted, PermitIsAlone, Holding,
      Posture, PositionIsSound, ActiveIsTracked, Starting
<1>38. CASE ClearPromptCache
  <2>1. Contain("top", {}, {}) \/ UNCHANGED clientVars
    BY <1>38 DEF ClearPromptCache, AwaitReply
  <2> QED
    BY <2>1, ContainKeeps DEF clientVars, Ledger, AnswersAreCounted, PermitIsAlone, Holding
<1>39. CASE RestartWorker
  BY <1>39 DEF RestartWorker, workerVars, loopVars, healthVars, activeVars, pendingVars,
      clientVars, ReplacementAllowed, Stay, Settle, Ledger, AnswersAreCounted, PermitIsAlone,
      Holding, Posture, PositionIsSound, ActiveIsTracked, Starting
<1>40. CASE DemoteWorker
  BY <1>40 DEF DemoteWorker, workerVars, loopVars, healthVars, activeVars, pendingVars,
      clientVars, ReplacementAllowed, PublishUnavailable, Settle, Ledger, AnswersAreCounted,
      PermitIsAlone, Holding, Posture, PositionIsSound, ActiveIsTracked, Starting
<1>41. CASE Shutdown
  <2>1. active # None => active \in Requests /\ rq[active] = "active"
    BY DEF Posture, ActiveIsTracked
  <2> DEFINE told == {active} \ {None}
             over == {r \in Requests : rq[r] = "sent"} \cup told
  <2>2. over \in SUBSET Requests /\ told \in SUBSET over /\ \A r \in told : rq[r] \notin {"cancelling", "done"}
    BY <2>1
  <2>3. Release(over, told)
    BY <1>41 DEF Shutdown
  <2> HIDE DEF told, over
  <2> QED
    BY <2>2, <2>3, ReleaseKeeps
<1>42. ASSUME NEW r \in Requests, Submit(r) PROVE Ledger'
  BY <1>42 DEF Submit, workerVars, loopVars, healthVars, activeVars, pendingVars, clientVars,
      Ledger, AnswersAreCounted, PermitIsAlone, Holding, Posture, PositionIsSound,
      ActiveIsTracked, Starting
<1>43. ASSUME NEW r \in Requests, SendRequest(r) PROVE Ledger'
  BY <1>43 DEF SendRequest, workerVars, loopVars, healthVars, activeVars, pendingVars,
      clientVars, Ledger, AnswersAreCounted, PermitIsAlone, Holding, Posture, PositionIsSound,
      ActiveIsTracked, Starting
<1>44. ASSUME NEW r \in Requests, HangUp(r) PROVE Ledger'
  BY <1>44 DEF HangUp, workerVars, loopVars, healthVars, activeVars, pendingVars, clientVars,
      Ledger, AnswersAreCounted, PermitIsAlone, Holding, Posture, PositionIsSound,
      ActiveIsTracked, Starting
<1>45. ASSUME NEW r \in Requests, TakeRequest(r) PROVE Ledger'
  BY <1>45 DEF TakeRequest, workerVars, loopVars, healthVars, activeVars, pendingVars,
      clientVars, Release, Settle, Ledger, AnswersAreCounted, PermitIsAlone, Holding, Posture,
      PositionIsSound, ActiveIsTracked, Starting
<1> QED
  BY <1>1, <1>2, <1>3, <1>4, <1>5, <1>6, <1>7, <1>8, <1>9, <1>10, <1>11, <1>12, <1>13, <1>14,
      <1>15, <1>16, <1>17, <1>18, <1>19, <1>20, <1>21, <1>22, <1>23, <1>24, <1>25, <1>26,
      <1>27, <1>28, <1>29, <1>30, <1>31, <1>32, <1>33, <1>34, <1>35, <1>36, <1>37, <1>38,
      <1>39, <1>40, <1>41, <1>42, <1>43, <1>44, <1>45
      DEF Next, Worker, Steps, Arms, Client

\* What a step of the loop does to its worker.
LoopMove ==
    \/ UNCHANGED workerVars
    \/ Reap
    \/ Launch
    \/ events # << >> /\ Consume
    \/ \E c \in Commands : Writable /\ Send(c)

\* The steps that do something else.
OtherMove == Worker \/ CommitCandidate \/ CancelBackpressured

\* A step of the loop writes one command, reads one event, or stops or starts the
\* worker.
LEMMA LoopMoves == ControlInv /\ Next => LoopMove \/ OtherMove
<1> SUFFICES ASSUME ControlInv, Next PROVE LoopMove \/ OtherMove
    OBVIOUS
<1> USE ProtocolAssumption, LoopAssumption, TypeParts DEF ControlInv
<1>1. CASE WorkerAnswers
  BY <1>1 DEF OtherMove, Worker
<1>2. CASE WorkerAdvances
  BY <1>2 DEF OtherMove, Worker
<1>3. CASE WorkerCrashes
  BY <1>3 DEF OtherMove, Worker
<1>4. CASE DrainLimit
  BY <1>4, CommandTypes DEF DrainLimit, AwaitReply, Contain, ForceTerminate, LoopMove
<1>5. CASE DrainClear
  BY <1>5, CommandTypes DEF DrainClear, AwaitReply, Contain, ForceTerminate, LoopMove
<1>6. CASE Observe
  BY <1>6, CommandTypes DEF Observe, LoopMove
<1>7. CASE ReadEvent
  BY <1>7, CommandTypes DEF ReadEvent, Pumping, LoopMove
<1>8. CASE ReadViolation
  BY <1>8, CommandTypes DEF ReadViolation, Pumping, Trouble, Contain, ForceTerminate, LoopMove
<1>9. CASE ReadEnd
  BY <1>9, CommandTypes DEF ReadEnd, Pumping, Trouble, Contain, ForceTerminate, LoopMove
<1>10. CASE WaitTimesOut
  BY <1>10, CommandTypes DEF WaitTimesOut, Pumping, Contain, ForceTerminate, LoopMove
<1>11. CASE ReadCleared
  BY <1>11, CommandTypes DEF ReadCleared, LoopMove
<1>12. CASE StartupDone
  BY <1>12, CommandTypes DEF StartupDone, Pumping, LoopMove
<1>13. CASE ChooseModel
  <2>1. Wants[cur] \in Models
    BY <1>13 DEF ChooseModel, Posture, PositionIsSound, Starting
  <2> QED
    BY <1>13, <2>1, CommandTypes DEF ChooseModel, AskForModel, Contain, ForceTerminate, LoopMove
<1>14. CASE ReadSwapReply
  BY <1>14, CommandTypes DEF ReadSwapReply, LoopMove
<1>15. CASE ReadSwapFailure
  BY <1>15, CommandTypes DEF ReadSwapFailure, LoopMove
<1>16. CASE Dispatch
  <2>1. cur \in Requests
    BY <1>16 DEF Dispatch, Posture, PositionIsSound, Starting
  <2> QED
    BY <1>16, <2>1, CommandTypes DEF Dispatch, DropDisconnected, RejectStart, StartRequest, FailStart,
      Contain, ForceTerminate, LoopMove
<1>17. CASE ReadCancelled
  BY <1>17, CommandTypes DEF ReadCancelled, LoopMove
<1>18. CASE CancelFails
  BY <1>18, CommandTypes DEF CancelFails, LoopMove
<1>19. CASE ReplaceUncancelled
  BY <1>19, CommandTypes DEF ReplaceUncancelled, Relaunch, StayDown, LoopMove
<1>20. CASE ReadRecovery
  BY <1>20, CommandTypes DEF ReadRecovery, LoopMove
<1>21. CASE RecoveryFails
  BY <1>21, CommandTypes DEF RecoveryFails, ForceTerminate, StayDown, LoopMove
<1>22. CASE CandidateAcknowledged
  BY <1>22, CommandTypes DEF CandidateAcknowledged, LoopMove
<1>23. CASE CandidateRejected
  BY <1>23, CommandTypes DEF CandidateRejected, LoopMove
<1>24. CASE CommitCandidate
  BY <1>24 DEF OtherMove, Worker
<1>25. CASE StopTrusted
  BY <1>25, CommandTypes DEF StopTrusted, LoopMove
<1>26. CASE CloseTrustedFails
  BY <1>26, CommandTypes DEF CloseTrustedFails, LoopMove
<1>27. CASE LaunchDemoted
  BY <1>27, CommandTypes DEF LaunchDemoted, LoopMove
<1>28. CASE ReadHandshake
  BY <1>28, CommandTypes DEF ReadHandshake, LoopMove
<1>29. CASE HandshakeFails
  BY <1>29, CommandTypes DEF HandshakeFails, LoopMove
<1>30. CASE ReloadModel
  BY <1>30, CommandTypes DEF ReloadModel, LoopMove, NameTypes, Posture, PositionIsSound
<1>31. CASE CancelAbandoned
  <2>1. active \in Requests
    BY <1>31 DEF CancelAbandoned, NameTypes, ClientTypes
  <2> QED
    BY <1>31, <2>1, CommandTypes DEF CancelAbandoned, SendCancel, LoopMove
<1>32. CASE CancelBackpressured
  BY <1>32 DEF OtherMove, Worker
<1>33. CASE CancelOverdue
  <2>1. active \in Requests
    BY <1>33 DEF CancelOverdue, NameTypes, ClientTypes
  <2> QED
    BY <1>33, <2>1, CommandTypes DEF CancelOverdue, SendCancel, LoopMove
<1>34. CASE RelaunchContained
  BY <1>34, CommandTypes DEF RelaunchContained, Relaunch, StayDown, LoopMove
<1>35. CASE LoadDeadlinePasses
  BY <1>35, CommandTypes DEF LoadDeadlinePasses, Contain, ForceTerminate, LoopMove
<1>36. CASE IdleTick
  BY <1>36, CommandTypes DEF IdleTick, LoopMove
<1>37. CASE UpdateLimit
  BY <1>37, CommandTypes DEF UpdateLimit, AwaitReply, LoopMove
<1>38. CASE ClearPromptCache
  BY <1>38, CommandTypes DEF ClearPromptCache, AwaitReply, Contain, ForceTerminate, LoopMove
<1>39. CASE RestartWorker
  BY <1>39, CommandTypes DEF RestartWorker, LoopMove
<1>40. CASE DemoteWorker
  BY <1>40, CommandTypes DEF DemoteWorker, LoopMove
<1>41. CASE Shutdown
  BY <1>41, CommandTypes DEF Shutdown, ForceTerminate, LoopMove
<1>42. ASSUME NEW r \in Requests, Submit(r) PROVE LoopMove \/ OtherMove
  BY <1>42, CommandTypes DEF Submit, LoopMove
<1>43. ASSUME NEW r \in Requests, SendRequest(r) PROVE LoopMove \/ OtherMove
  BY <1>43, CommandTypes DEF SendRequest, LoopMove
<1>44. ASSUME NEW r \in Requests, HangUp(r) PROVE LoopMove \/ OtherMove
  BY <1>44, CommandTypes DEF HangUp, LoopMove
<1>45. ASSUME NEW r \in Requests, TakeRequest(r) PROVE LoopMove \/ OtherMove
  BY <1>45, CommandTypes DEF TakeRequest, LoopMove
<1> QED
  BY <1>1, <1>2, <1>3, <1>4, <1>5, <1>6, <1>7, <1>8, <1>9, <1>10, <1>11, <1>12, <1>13, <1>14,
      <1>15, <1>16, <1>17, <1>18, <1>19, <1>20, <1>21, <1>22, <1>23, <1>24, <1>25, <1>26,
      <1>27, <1>28, <1>29, <1>30, <1>31, <1>32, <1>33, <1>34, <1>35, <1>36, <1>37, <1>38,
      <1>39, <1>40, <1>41, <1>42, <1>43, <1>44, <1>45
      DEF Next, Worker, Steps, Arms, Client

\* The pipes hold messages of the protocol.
LEMMA WorkerKept == ControlInv /\ Next => WorkerTypes'
<1> SUFFICES ASSUME ControlInv, Next PROVE WorkerTypes'
    OBVIOUS
<1> USE TypeParts DEF ControlInv, WorkerTypes
<1>1. CASE WorkerAnswers
  <2>1. PICK x \in Answers(Head(commands), serving, model) :
           Becomes(x) /\ commands' = IF x.lives THEN Tail(commands) ELSE << >>
    BY <1>1 DEF WorkerAnswers
  <2>2. AnswerIsTyped(x) /\ Tail(commands) \in Seq(Commands)
    BY <1>1, AnswersTyped, FirstMessage DEF WorkerAnswers
  <2> QED
    BY <2>1, <2>2 DEF Becomes, AnswerIsTyped
<1>2. CASE WorkerAdvances
  <2>1. PICK x \in Advances(serving, model) : Becomes(x)
    BY <1>2 DEF WorkerAdvances
  <2>2. AnswerIsTyped(x)
    BY <1>2, AdvancesTyped DEF WorkerAdvances
  <2> QED
    BY <1>2, <2>1, <2>2 DEF WorkerAdvances, Becomes, AnswerIsTyped
<1>3. CASE WorkerCrashes
  BY <1>3, FirstPart DEF WorkerCrashes
<1>4. CASE CommitCandidate
  BY <1>4 DEF CommitCandidate
<1>5. CASE CancelBackpressured
  <2>1. active \in Requests /\ Message("Cancel", active) \in Commands
    BY <1>5, CommandTypes DEF CancelBackpressured, NameTypes
  <2> QED
    BY <1>5, <2>1, FirstMessage DEF CancelBackpressured
<1>6. CASE UNCHANGED workerVars
  BY <1>6 DEF workerVars
<1>7. CASE Reap
  BY <1>7 DEF Reap
<1>8. CASE Launch
  BY <1>8, GreetingType DEF Launch
<1>9. CASE events # << >> /\ Consume
  BY <1>9, FirstMessage DEF Consume
<1>10. ASSUME NEW c \in Commands, Writable, Send(c) PROVE WorkerTypes'
  BY <1>10 DEF Send
<1> QED
  BY <1>1, <1>2, <1>3, <1>4, <1>5, <1>6, <1>7, <1>8, <1>9, <1>10, LoopMoves
     DEF LoopMove, OtherMove, Worker

\* Nothing is written to a worker that is greeting, so it says no more.
LEMMA HandshakeKept == ControlInv /\ Next => HandshakeIsQuiet'
<1> SUFFICES ASSUME ControlInv, Next PROVE HandshakeIsQuiet'
    OBVIOUS
<1> USE ProtocolAssumption, LoopAssumption, TypeParts DEF ControlInv, HandshakeIsQuiet, NameTypes
<1>1. CASE WorkerAnswers
  BY <1>1 DEF WorkerAnswers, loopVars
<1>2. CASE WorkerAdvances
  BY <1>2 DEF WorkerAdvances, loopVars
<1>3. CASE WorkerCrashes
  BY <1>3, FirstPart DEF WorkerCrashes, loopVars, WorkerTypes
<1>4. CASE DrainLimit
  BY <1>4 DEF DrainLimit, loopVars, AwaitReply, Contain, Stay, Settle
<1>5. CASE DrainClear
  BY <1>5 DEF DrainClear, loopVars, AwaitReply, Contain, Stay, Settle
<1>6. CASE Observe
  BY <1>6 DEF Observe, loopVars, Stay
<1>7. CASE ReadEvent
  BY <1>7 DEF ReadEvent, Pumping, Continue, Settle, Stay
<1>8. CASE ReadViolation
  BY <1>8 DEF ReadViolation, loopVars, Trouble, Uncontained, Settle, Contain
<1>9. CASE ReadEnd
  BY <1>9 DEF ReadEnd, loopVars, Trouble, Uncontained, Settle, Contain
<1>10. CASE WaitTimesOut
  BY <1>10 DEF WaitTimesOut, loopVars, Contain, Settle
<1>11. CASE ReadCleared
  BY <1>11 DEF ReadCleared, loopVars, Settle
<1>12. CASE StartupDone
  BY <1>12 DEF StartupDone, loopVars, Stay
<1>13. CASE ChooseModel
  BY <1>13 DEF ChooseModel, loopVars, Stay, Refuse, AskForModel, Contain, Settle
<1>14. CASE ReadSwapReply
  BY <1>14 DEF ReadSwapReply, loopVars, Swapping, Settle
<1>15. CASE ReadSwapFailure
  BY <1>15 DEF ReadSwapFailure, loopVars, Swapping, Settle, Refuse
<1>16. CASE Dispatch
  BY <1>16 DEF Dispatch, loopVars, DropDisconnected, RejectStart, StartRequest, FailStart,
      Settle, Refuse, Stay, Contain
<1>17. CASE ReadCancelled
  BY <1>17 DEF ReadCancelled, loopVars, Settle, Stay
<1>18. CASE CancelFails
  BY <1>18 DEF CancelFails, loopVars, Stay
<1>19. CASE ReplaceUncancelled
  BY <1>19 DEF ReplaceUncancelled, Relaunch, Launch, StayDown, Settle, loopVars
<1>20. CASE ReadRecovery
  BY <1>20, FirstMessage DEF ReadRecovery, Consume, WorkerTypes
<1>21. CASE RecoveryFails
  BY <1>21 DEF RecoveryFails, loopVars, StayDown, Settle
<1>22. CASE CandidateAcknowledged
  BY <1>22 DEF CandidateAcknowledged, loopVars, Stay
<1>23. CASE CandidateRejected
  BY <1>23 DEF CandidateRejected, loopVars, Settle
<1>24. CASE CommitCandidate
  BY <1>24 DEF CommitCandidate, loopVars, Settle
<1>25. CASE StopTrusted
  BY <1>25 DEF StopTrusted, loopVars, Stay
<1>26. CASE CloseTrustedFails
  BY <1>26 DEF CloseTrustedFails, loopVars, Settle
<1>27. CASE LaunchDemoted
  BY <1>27 DEF LaunchDemoted, Launch, Settle, Stay
<1>28. CASE ReadHandshake
  BY <1>28, FirstMessage DEF ReadHandshake, Consume, WorkerTypes
<1>29. CASE HandshakeFails
  BY <1>29 DEF HandshakeFails, loopVars, Settle
<1>30. CASE ReloadModel
  BY <1>30 DEF ReloadModel, loopVars, Settle
<1>31. CASE CancelAbandoned
  BY <1>31 DEF CancelAbandoned, loopVars, BeginCancel
<1>32. CASE CancelBackpressured
  BY <1>32 DEF CancelBackpressured, loopVars, BeginCancel
<1>33. CASE CancelOverdue
  BY <1>33 DEF CancelOverdue, loopVars, BeginCancel
<1>34. CASE RelaunchContained
  BY <1>34 DEF RelaunchContained, Relaunch, Launch, StayDown, Settle, loopVars
<1>35. CASE LoadDeadlinePasses
  BY <1>35 DEF LoadDeadlinePasses, loopVars, Contain, Settle
<1>36. CASE IdleTick
  BY <1>36 DEF IdleTick, loopVars, Settle
<1>37. CASE UpdateLimit
  BY <1>37 DEF UpdateLimit, loopVars, Settle, AwaitReply
<1>38. CASE ClearPromptCache
  BY <1>38 DEF ClearPromptCache, loopVars, Settle, AwaitReply, Contain
<1>39. CASE RestartWorker
  BY <1>39 DEF RestartWorker, loopVars, Stay, Settle
<1>40. CASE DemoteWorker
  BY <1>40 DEF DemoteWorker, loopVars, Settle
<1>41. CASE Shutdown
  BY <1>41 DEF Shutdown, loopVars, Settle
<1>42. ASSUME NEW r \in Requests, Submit(r) PROVE HandshakeIsQuiet'
  BY <1>42 DEF Submit, workerVars, loopVars
<1>43. ASSUME NEW r \in Requests, SendRequest(r) PROVE HandshakeIsQuiet'
  BY <1>43 DEF SendRequest, workerVars, loopVars
<1>44. ASSUME NEW r \in Requests, HangUp(r) PROVE HandshakeIsQuiet'
  BY <1>44 DEF HangUp, workerVars, loopVars
<1>45. ASSUME NEW r \in Requests, TakeRequest(r) PROVE HandshakeIsQuiet'
  BY <1>45 DEF TakeRequest, loopVars, Settle
<1> QED
  BY <1>1, <1>2, <1>3, <1>4, <1>5, <1>6, <1>7, <1>8, <1>9, <1>10, <1>11, <1>12, <1>13, <1>14,
      <1>15, <1>16, <1>17, <1>18, <1>19, <1>20, <1>21, <1>22, <1>23, <1>24, <1>25, <1>26,
      <1>27, <1>28, <1>29, <1>30, <1>31, <1>32, <1>33, <1>34, <1>35, <1>36, <1>37, <1>38,
      <1>39, <1>40, <1>41, <1>42, <1>43, <1>44, <1>45
      DEF Next, Worker, Steps, Arms, Client

\* Only a running worker is written to.
LEMMA SilenceKept == ControlInv /\ Next => DeadIsSilent'
<1> SUFFICES ASSUME ControlInv, Next PROVE DeadIsSilent'
    OBVIOUS
<1> USE TypeParts DEF ControlInv, DeadIsSilent, WorkerTypes
<1>1. CASE WorkerAnswers
  <2>1. PICK x \in Answers(Head(commands), serving, model) :
           Becomes(x) /\ commands' = IF x.lives THEN Tail(commands) ELSE << >>
    BY <1>1 DEF WorkerAnswers
  <2>2. AnswerIsTyped(x)
    BY <1>1, AnswersTyped, FirstMessage DEF WorkerAnswers
  <2> QED
    BY <2>1, <2>2 DEF Becomes, AnswerIsTyped
<1>2. CASE WorkerAdvances
  <2>1. PICK x \in Advances(serving, model) : Becomes(x)
    BY <1>2 DEF WorkerAdvances
  <2>2. AnswerIsTyped(x)
    BY <1>2, AdvancesTyped DEF WorkerAdvances
  <2> QED
    BY <1>2, <2>1, <2>2 DEF WorkerAdvances, Becomes, AnswerIsTyped
<1>3. CASE WorkerCrashes
  BY <1>3 DEF WorkerCrashes
<1>4. CASE CommitCandidate
  BY <1>4 DEF CommitCandidate
<1>5. CASE CancelBackpressured
  BY <1>5 DEF CancelBackpressured, Writable
<1>6. CASE UNCHANGED workerVars
  BY <1>6 DEF workerVars
<1>7. CASE Reap
  BY <1>7 DEF Reap
<1>8. CASE Launch
  BY <1>8 DEF Launch
<1>9. CASE events # << >> /\ Consume
  BY <1>9 DEF Consume
<1>10. ASSUME NEW c \in Commands, Writable, Send(c) PROVE DeadIsSilent'
  BY <1>10 DEF Send, Writable
<1> QED
  BY <1>1, <1>2, <1>3, <1>4, <1>5, <1>6, <1>7, <1>8, <1>9, <1>10, LoopMoves
     DEF LoopMove, OtherMove, Worker

\* A relaunch is owed only while the worker is stopped.
LEMMA RelaunchKept == ControlInv /\ Next => RelaunchIsOwed'
<1> SUFFICES ASSUME ControlInv, Next PROVE RelaunchIsOwed'
    OBVIOUS
<1> USE ProtocolAssumption, LoopAssumption, TypeParts DEF ControlInv, RelaunchIsOwed, NameTypes, Posture, ReadyIsPublished, ActiveIsTracked, PositionIsSound, Starting
<1>1. CASE WorkerAnswers
  BY <1>1 DEF WorkerAnswers, loopVars, workerVars, healthVars, Becomes
<1>2. CASE WorkerAdvances
  BY <1>2 DEF WorkerAdvances, loopVars, workerVars, healthVars, Becomes
<1>3. CASE WorkerCrashes
  BY <1>3 DEF WorkerCrashes, loopVars, workerVars, healthVars
<1>4. CASE DrainLimit
  BY <1>4 DEF DrainLimit, loopVars, workerVars, healthVars, Writable, AwaitReply, Contain,
      Stay, Send, ForceTerminate, PublishUnavailable, Settle, Reap
<1>5. CASE DrainClear
  BY <1>5 DEF DrainClear, loopVars, workerVars, healthVars, Writable, AwaitReply, Contain,
      Stay, Send, ForceTerminate, PublishUnavailable, Settle, Reap
<1>6. CASE Observe
  BY <1>6 DEF Observe, Stay, Running, DeadIsSilent, workerVars, healthVars
<1>7. CASE ReadEvent
  BY <1>7 DEF ReadEvent, loopVars, workerVars, healthVars, Pumping, ApplyToHealth, Continue,
      Settle, Stay
<1>8. CASE ReadViolation
  BY <1>8 DEF ReadViolation, loopVars, workerVars, healthVars, Pumping, Trouble, Uncontained,
      Settle, Contain, ForceTerminate, PublishUnavailable, Reap
<1>9. CASE ReadEnd
  BY <1>9 DEF ReadEnd, loopVars, workerVars, healthVars, Pumping, Trouble, Reap, Uncontained,
      Settle, Contain, ForceTerminate, PublishUnavailable
<1>10. CASE WaitTimesOut
  BY <1>10 DEF WaitTimesOut, loopVars, workerVars, healthVars, Pumping, Contain, Settle,
      ForceTerminate, PublishUnavailable, Reap
<1>11. CASE ReadCleared
  BY <1>11 DEF ReadCleared, loopVars, workerVars, healthVars, Settle
<1>12. CASE StartupDone
  BY <1>12 DEF StartupDone, loopVars, workerVars, healthVars, Pumping, Stay
<1>13. CASE ChooseModel
  BY <1>13 DEF ChooseModel, loopVars, workerVars, healthVars, Stay, Refuse, Writable,
      AskForModel, Contain, Settle, Send, ForceTerminate, PublishUnavailable, Reap
<1>14. CASE ReadSwapReply
  BY <1>14 DEF ReadSwapReply, loopVars, workerVars, healthVars, Swapping, Settle
<1>15. CASE ReadSwapFailure
  BY <1>15 DEF ReadSwapFailure, loopVars, workerVars, healthVars, Swapping, PublishUnavailable,
      Settle, Refuse
<1>16. CASE Dispatch
  BY <1>16 DEF Dispatch, loopVars, workerVars, healthVars, DropDisconnected, RejectStart,
      StartRequest, FailStart, Settle, Refuse, Writable, Send, Stay, Contain, ForceTerminate,
      PublishUnavailable, Reap
<1>17. CASE ReadCancelled
  BY <1>17 DEF ReadCancelled, loopVars, workerVars, healthVars, Settle, Stay
<1>18. CASE CancelFails
  BY <1>18 DEF CancelFails, loopVars, workerVars, healthVars, Reap, Stay
<1>19. CASE ReplaceUncancelled
  BY <1>19 DEF ReplaceUncancelled, loopVars, workerVars, healthVars, Relaunch, StayDown,
      PublishUnavailable, Reap, Settle
<1>20. CASE ReadRecovery
  BY <1>20 DEF ReadRecovery, loopVars, workerVars, healthVars, Settle
<1>21. CASE RecoveryFails
  BY <1>21 DEF RecoveryFails, loopVars, workerVars, healthVars, ForceTerminate, StayDown, Reap,
      PublishUnavailable, Settle
<1>22. CASE CandidateAcknowledged
  BY <1>22 DEF CandidateAcknowledged, loopVars, workerVars, healthVars, Stay
<1>23. CASE CandidateRejected
  BY <1>23 DEF CandidateRejected, loopVars, workerVars, healthVars, Settle
<1>24. CASE CommitCandidate
  BY <1>24 DEF CommitCandidate, loopVars, workerVars, healthVars, Settle
<1>25. CASE StopTrusted
  BY <1>25 DEF StopTrusted, loopVars, workerVars, healthVars, Reap, Stay
<1>26. CASE CloseTrustedFails
  BY <1>26 DEF CloseTrustedFails, loopVars, workerVars, healthVars, Reap, PublishUnavailable,
      Settle
<1>27. CASE LaunchDemoted
  BY <1>27 DEF LaunchDemoted, loopVars, workerVars, healthVars, Stay, PublishUnavailable, Settle
<1>28. CASE ReadHandshake
  BY <1>28 DEF ReadHandshake, loopVars, workerVars, healthVars
<1>29. CASE HandshakeFails
  BY <1>29 DEF HandshakeFails, loopVars, workerVars, healthVars, Reap, PublishUnavailable,
      Settle
<1>30. CASE ReloadModel
  BY <1>30 DEF ReloadModel, loopVars, workerVars, healthVars, Writable, Send, Settle
<1>31. CASE CancelAbandoned
  <2>1. isReady
    BY <1>31 DEF CancelAbandoned, ClientTypes
  <2> QED
    BY <1>31, <2>1 DEF CancelAbandoned, BeginCancel, healthVars
<1>32. CASE CancelBackpressured
  BY <1>32 DEF CancelBackpressured, loopVars, workerVars, healthVars, BeginCancel, Writable
<1>33. CASE CancelOverdue
  BY <1>33 DEF CancelOverdue, loopVars, workerVars, healthVars, BeginCancel, Writable
<1>34. CASE RelaunchContained
  BY <1>34 DEF RelaunchContained, loopVars, workerVars, healthVars, Running, Relaunch,
      PublishUnavailable, Reap, StayDown, Settle
<1>35. CASE LoadDeadlinePasses
  BY <1>35 DEF LoadDeadlinePasses, loopVars, workerVars, healthVars, Running, Contain,
      ForceTerminate, PublishUnavailable, Settle, Reap
<1>36. CASE IdleTick
  BY <1>36 DEF IdleTick, loopVars, workerVars, healthVars, Running, Settle
<1>37. CASE UpdateLimit
  BY <1>37 DEF UpdateLimit, loopVars, workerVars, healthVars, Settle, Writable, AwaitReply, Send
<1>38. CASE ClearPromptCache
  BY <1>38 DEF ClearPromptCache, loopVars, workerVars, healthVars, Settle, Writable,
      AwaitReply, Contain, Send, ForceTerminate, PublishUnavailable, Reap
<1>39. CASE RestartWorker
  BY <1>39 DEF RestartWorker, loopVars, workerVars, healthVars, ReplacementAllowed, Stay, Settle
<1>40. CASE DemoteWorker
  BY <1>40 DEF DemoteWorker, loopVars, workerVars, healthVars, ReplacementAllowed,
      PublishUnavailable, Settle
<1>41. CASE Shutdown
  BY <1>41 DEF Shutdown, loopVars, workerVars, healthVars, PublishUnavailable, ForceTerminate,
      Settle, Reap
<1>42. ASSUME NEW r \in Requests, Submit(r) PROVE RelaunchIsOwed'
  BY <1>42 DEF Submit, loopVars, workerVars, healthVars
<1>43. ASSUME NEW r \in Requests, SendRequest(r) PROVE RelaunchIsOwed'
  BY <1>43 DEF SendRequest, loopVars, workerVars, healthVars
<1>44. ASSUME NEW r \in Requests, HangUp(r) PROVE RelaunchIsOwed'
  BY <1>44 DEF HangUp, loopVars, workerVars, healthVars
<1>45. ASSUME NEW r \in Requests, TakeRequest(r) PROVE RelaunchIsOwed'
  BY <1>45 DEF TakeRequest, loopVars, workerVars, healthVars, Running, Settle
<1> QED
  BY <1>1, <1>2, <1>3, <1>4, <1>5, <1>6, <1>7, <1>8, <1>9, <1>10, <1>11, <1>12, <1>13, <1>14,
      <1>15, <1>16, <1>17, <1>18, <1>19, <1>20, <1>21, <1>22, <1>23, <1>24, <1>25, <1>26,
      <1>27, <1>28, <1>29, <1>30, <1>31, <1>32, <1>33, <1>34, <1>35, <1>36, <1>37, <1>38,
      <1>39, <1>40, <1>41, <1>42, <1>43, <1>44, <1>45
      DEF Next, Worker, Steps, Arms, Client

\* The control invariant holds at the start.
LEMMA ControlInit == Init => ControlInv
<1> SUFFICES ASSUME Init PROVE ControlInv
    OBVIOUS
<1> USE ProtocolAssumption, LoopAssumption
<1>1. WorkerTypes /\ NameTypes
  BY GreetingType DEF Init, WorkerTypes, NameTypes, Positions
<1>2. FlagTypes
  BY DEF Init, FlagTypes
<1>3. ClientTypes
  BY DEF Init, ClientTypes, RequestStates
<1>4. DeadIsSilent
  BY DEF Init, DeadIsSilent
<1>5. Posture /\ HandshakeIsQuiet /\ RelaunchIsOwed
  BY DEF Init, Posture, ReadyIsPublished, ActiveIsTracked, PositionIsSound, StagedIsCurrent,
         Starting,
         HandshakeIsQuiet, RelaunchIsOwed
<1>6. Ledger
  BY DEF Init, Ledger, AnswersAreCounted, PermitIsAlone, Holding
<1> QED
  BY <1>1, <1>2, <1>3, <1>4, <1>5, <1>6, TypeParts DEF ControlInv

\* And every step keeps it.
LEMMA ControlNext == ControlInv /\ [Next]_vars => ControlInv'
<1> SUFFICES ASSUME ControlInv, [Next]_vars PROVE ControlInv'
    OBVIOUS
<1>1. CASE Next
  <2>1. WorkerTypes' /\ FlagTypes' /\ NameTypes' /\ ClientTypes'
    BY <1>1, WorkerKept, FlagsKept, NamesKept, ClientsKept
  <2>2. TypeOK'
    BY <2>1 DEF TypeOK, WorkerTypes, FlagTypes, NameTypes, ClientTypes
  <2> QED
    BY <1>1, <2>2, SilenceKept, HandshakeKept, RelaunchKept, PostureKept, LedgerKept DEF ControlInv
<1>2. CASE UNCHANGED vars
  <2>1. UNCHANGED <<proc, commands, events, serving, model, at, back, cur, expects, staged>>
    BY <1>2 DEF vars, workerVars, loopVars
  <2>2. UNCHANGED <<isReady, loadDeadline, startupApplied, relaunch, status, readyModel, config>>
    BY <1>2 DEF vars, healthVars
  <2>3. UNCHANGED <<active, ended, pendingLimit, pendingClear, rq, gone, answers>>
    BY <1>2 DEF vars, activeVars, pendingVars, clientVars
  <2>4. TypeOK'
    BY <2>1, <2>2, <2>3 DEF ControlInv, TypeOK
  <2>5. Posture' /\ DeadIsSilent' /\ HandshakeIsQuiet' /\ RelaunchIsOwed'
    BY <2>1, <2>2, <2>3 DEF ControlInv, Posture, ReadyIsPublished, ActiveIsTracked, PositionIsSound,
           StagedIsCurrent, Starting, DeadIsSilent, HandshakeIsQuiet, RelaunchIsOwed
  <2>6. Ledger'
    BY <2>3 DEF ControlInv, Ledger, AnswersAreCounted, PermitIsAlone, Holding
  <2> QED
    BY <2>4, <2>5, <2>6 DEF ControlInv
<1> QED
  BY <1>1, <1>2

-----------------------------------------------------------------------------
(***************************************************************************)
(* What is in a pipe, and in which order                                   *)
(***************************************************************************)

\* Nothing of S is in the pipe.
Free(s, S) == \A e \in Says(s) : e \notin S

\* Nothing of S comes after something of R.
NoneAfter(s, R, S) == \A i, j \in 1..Len(s) : i < j /\ s[i] \in R => s[j] \notin S

\* An empty pipe says nothing.
LEMMA EmptyPipe ==
    ASSUME NEW R, NEW S
    PROVE  Says(<< >>) = {} /\ Free(<< >>, S) /\ NoneAfter(<< >>, R, S)
BY DEF Says, Free, NoneAfter

\* One message is written.
LEMMA WrittenPipe ==
    ASSUME NEW T, NEW s \in Seq(T), NEW c \in T
    PROVE  /\ Says(Append(s, c)) = Says(s) \cup {c}
           /\ \A R, S : NoneAfter(s, R, S) /\ (c \notin S \/ Free(s, R)) => NoneAfter(Append(s, c), R, S)
<1> DEFINE t == Append(s, c)
<1>1. /\ Len(s) \in Nat /\ Len(t) = Len(s) + 1 /\ t[Len(s) + 1] = c
      /\ \A i \in 1..Len(s) : t[i] = s[i]
  OBVIOUS
<1> HIDE DEF t
<1>2. Says(t) = Says(s) \cup {c}
  <2>1. Says(t) \subseteq Says(s) \cup {c}
    BY <1>1 DEF Says
  <2>2. Says(s) \subseteq Says(t) /\ c \in Says(t)
    BY <1>1 DEF Says
  <2> QED
    BY <2>1, <2>2
<1>3. ASSUME NEW R, NEW S, NoneAfter(s, R, S), c \notin S \/ Free(s, R),
             NEW i \in 1..Len(t), NEW j \in 1..Len(t), i < j, t[i] \in R
      PROVE  t[j] \notin S
  <2>1. i \in 1..Len(s) /\ t[i] = s[i] /\ s[i] \in Says(s)
    BY <1>1, <1>3 DEF Says
  <2> QED
    BY <1>1, <1>3, <2>1 DEF NoneAfter, Free
<1> QED
  BY <1>2, <1>3 DEF NoneAfter, t

\* Several messages are written.
LEMMA ExtendedPipe ==
    ASSUME NEW T, NEW s \in Seq(T), NEW u \in Seq(T)
    PROVE  /\ Says(s \o u) = Says(s) \cup Says(u)
           /\ \A R, S : NoneAfter(s, R, S) /\ NoneAfter(u, R, S) /\ (Free(u, S) \/ Free(s, R))
                          => NoneAfter(s \o u, R, S)
<1> DEFINE t == s \o u
<1>1. /\ Len(s) \in Nat /\ Len(u) \in Nat /\ Len(t) = Len(s) + Len(u)
      /\ \A i \in 1..Len(s) : t[i] = s[i]
      /\ \A i \in 1..Len(t) : i > Len(s) => t[i] = u[i - Len(s)]
      /\ \A i \in 1..Len(u) : u[i] = t[i + Len(s)]
  OBVIOUS
<1> HIDE DEF t
<1>2. Says(t) = Says(s) \cup Says(u)
  <2>1. ASSUME NEW i \in 1..Len(t) PROVE t[i] \in Says(s) \cup Says(u)
    <3>1. CASE i <= Len(s)
      BY <1>1, <3>1 DEF Says
    <3>2. CASE i > Len(s)
      <4>1. i - Len(s) \in 1..Len(u) /\ t[i] = u[i - Len(s)]
        BY <1>1, <3>2
      <4> QED
        BY <4>1 DEF Says
    <3> QED
      BY <1>1, <3>1, <3>2
  <2>2. ASSUME NEW i \in 1..Len(s) PROVE s[i] \in Says(t)
    <3>1. i \in 1..Len(t) /\ t[i] = s[i]
      BY <1>1
    <3> QED
      BY <3>1 DEF Says
  <2>3. ASSUME NEW i \in 1..Len(u) PROVE u[i] \in Says(t)
    <3>1. i + Len(s) \in 1..Len(t) /\ t[i + Len(s)] = u[i]
      BY <1>1
    <3> QED
      BY <3>1 DEF Says
  <2> QED
    BY <2>1, <2>2, <2>3 DEF Says
<1>3. ASSUME NEW R, NEW S, NoneAfter(s, R, S), NoneAfter(u, R, S), Free(u, S) \/ Free(s, R),
             NEW i \in 1..Len(t), NEW j \in 1..Len(t), i < j, t[i] \in R
      PROVE  t[j] \notin S
  <2>1. CASE j <= Len(s)
    BY <1>1, <1>3, <2>1 DEF NoneAfter
  <2>2. CASE i > Len(s)
    <3>1. /\ i - Len(s) \in 1..Len(u) /\ j - Len(s) \in 1..Len(u) /\ i - Len(s) < j - Len(s)
          /\ t[i] = u[i - Len(s)] /\ t[j] = u[j - Len(s)]
      BY <1>1, <1>3, <2>2
    <3> QED
      BY <1>3, <3>1 DEF NoneAfter
  <2>3. CASE i <= Len(s) /\ j > Len(s)
    <3>1. /\ i \in 1..Len(s) /\ j - Len(s) \in 1..Len(u)
          /\ t[i] = s[i] /\ t[j] = u[j - Len(s)]
      BY <1>1, <2>3
    <3> QED
      BY <1>3, <3>1 DEF Free, Says
  <2> QED
    BY <1>1, <2>1, <2>2, <2>3
<1> QED
  BY <1>2, <1>3 DEF NoneAfter, t

\* The first message is read.
LEMMA ReadPipe ==
    ASSUME NEW T, NEW s \in Seq(T), s # << >>
    PROVE  /\ Head(s) \in Says(s)
           /\ Says(Tail(s)) \subseteq Says(s)
           /\ Says(s) = Says(Tail(s)) \cup {Head(s)}
           /\ \A R, S : NoneAfter(s, R, S) => NoneAfter(Tail(s), R, S)
           /\ \A R, S : NoneAfter(s, R, S) /\ Head(s) \in R => Free(Tail(s), S)
<1> DEFINE t == Tail(s)
<1>1. /\ Len(s) \in Nat \ {0} /\ Head(s) = s[1] /\ Len(t) = Len(s) - 1
      /\ \A i \in 1..Len(t) : t[i] = s[i + 1]
  OBVIOUS
<1> HIDE DEF t
<1>2. Head(s) \in Says(s) /\ Says(t) \subseteq Says(s)
  BY <1>1 DEF Says
<1>3. Says(s) \subseteq Says(t) \cup {Head(s)}
  <2> SUFFICES ASSUME NEW i \in 1..Len(s), i # 1 PROVE s[i] \in Says(t)
    BY <1>1 DEF Says
  <2>1. i - 1 \in 1..Len(t) /\ t[i - 1] = s[i]
    BY <1>1
  <2> QED
    BY <2>1 DEF Says
<1>4. ASSUME NEW R, NEW S, NoneAfter(s, R, S),
             NEW i \in 1..Len(t), NEW j \in 1..Len(t), i < j, t[i] \in R
      PROVE  t[j] \notin S
  <2>1. i + 1 \in 1..Len(s) /\ j + 1 \in 1..Len(s) /\ i + 1 < j + 1 /\ t[i] = s[i + 1] /\ t[j] = s[j + 1]
    BY <1>1, <1>4
  <2> QED
    BY <1>4, <2>1 DEF NoneAfter
<1>5. ASSUME NEW R, NEW S, NoneAfter(s, R, S), Head(s) \in R, NEW j \in 1..Len(t)
      PROVE  t[j] \notin S
  <2>1. 1 \in 1..Len(s) /\ j + 1 \in 1..Len(s) /\ 1 < j + 1 /\ t[j] = s[j + 1]
    BY <1>1
  <2> QED
    BY <1>1, <1>5, <2>1 DEF NoneAfter
<1>6. \A R, S : NoneAfter(s, R, S) => NoneAfter(t, R, S)
  BY <1>4 DEF NoneAfter
<1>7. \A R, S : NoneAfter(s, R, S) /\ Head(s) \in R => Free(t, S)
  BY <1>5 DEF Free, Says
<1> QED
  BY <1>2, <1>3, <1>6, <1>7 DEF t

\* Only a first part was written.
LEMMA CutPipe ==
    ASSUME NEW T, NEW s \in Seq(T), NEW k \in 0..Len(s), NEW R, NEW S, NoneAfter(s, R, S)
    PROVE  NoneAfter(SubSeq(s, 1, k), R, S)
<1>1. Len(SubSeq(s, 1, k)) = k /\ \A i \in 1..k : SubSeq(s, 1, k)[i] = s[i]
  OBVIOUS
<1> QED
  BY <1>1 DEF NoneAfter

-----------------------------------------------------------------------------
(***************************************************************************)
(* The pipe invariant: what the worker may still say and be told           *)
(***************************************************************************)

Generates == {c \in Commands : c.type = "Generate"}
ControlCommands == {c \in Commands : c.type \in {"SwapModel", "UpdateLimit", "ClearCache"}}
Endings == {e \in RequestEvents : EndsRequest(e)}
Idles == {e \in Events : e.type = "Idle"}

\* Nothing of any request is left.
Clean ==
    /\ serving = None
    /\ Free(events, RequestEvents)
    /\ Free(commands, Generates)

\* The conversation is about r alone, and its end is its last word.
ServesOnly(r) ==
    /\ \A e \in Says(events) : e \in RequestEvents => e.of = r
    /\ \A c \in Says(commands) : c \in Generates => c.of = r
    /\ serving # None => serving = r /\ Free(commands, Generates)
    /\ Free(events, Endings) \/ (serving = None /\ Free(commands, Generates))
    /\ NoneAfter(events, Endings, RequestEvents)
    /\ NoneAfter(commands, Generates, Generates)

\* A worker says once that it is idle, and before it is asked for anything.
GreetingIsFirst ==
    /\ NoneAfter(events, Idles, Idles)
    /\ proc = "up" => Free(events, Idles) \/ (Clean /\ ~isReady)

\* The acknowledgements of a new worker are staged or still to be read.
HandshakeIsFresh ==
    at \in {"recover", "handshake"} /\ proc = "up" =>
        \/ staged = {} /\ events = Greeting
        \/ staged = {"Idle"} /\ events = <<Message("Config", None)>>

\* A worker that is trusted and has no request is clean.
TrustedIsClean ==
    proc = "up" /\ status # "Unavailable" /\ active = None /\ at \notin {"cancel", "replace"} => Clean

ServedIsTracked ==
    /\ proc = "up" /\ active # None => ServesOnly(active)
    /\ proc = "up" /\ at \in {"cancel", "replace"} => ServesOnly(cur)

\* A control command is before every request, and waits for none.
ControlsAreFirst ==
    status # "Unavailable" =>
       /\ Free(commands, ControlCommands) \/ serving = None
       /\ NoneAfter(commands, Generates, ControlCommands)

PipeInv ==
    /\ GreetingIsFirst /\ HandshakeIsFresh /\ TrustedIsClean
    /\ ServedIsTracked /\ ControlsAreFirst

\* The sets of messages the invariant speaks of.
LEMMA MessageSets ==
    /\ \A c \in Commands : c.type = "Generate" <=> c \in Generates
    /\ Generates \cap ControlCommands = {}
    /\ Endings \subseteq RequestEvents /\ RequestEvents \subseteq Events
    /\ Idles \cap RequestEvents = {}
    /\ \A e \in Events : EndsRequest(e) => e \in Endings
    /\ \A e \in Events : e.type = "Idle" <=> e \in Idles
BY DEF Generates, ControlCommands, Endings, Idles, RequestEvents, EndsRequest, Events

\* The events s are about r, and an end is the last of them.
About(s, r) ==
    /\ \A e \in Says(s) : e.of = r
    /\ NoneAfter(s, Endings, RequestEvents)
    /\ Free(s, Idles)

\* The closing events of a request.
LEMMA OneEvent ==
    ASSUME NEW r \in Requests,
           NEW t \in {"Output", "Finalized", "Completed", "Failed", "Progress", "Ended", "Released"}
    PROVE  About(<<Message(t, r)>>, r)
<1>1. Len(<<Message(t, r)>>) = 1 /\ <<Message(t, r)>>[1] = Message(t, r)
  OBVIOUS
<1>2. Message(t, r).of = r /\ Message(t, r) \notin Idles
  BY DEF Message, Idles
<1> QED
  BY <1>1, <1>2 DEF About, Says, NoneAfter, Free

\* A request ends with a pair of events, the second of which is its end.
LEMMA TwoEvents ==
    ASSUME NEW r \in Requests, NEW t \in {"Finalized", "Ended"}, NEW u \in {"Completed", "Released"}
    PROVE  About(<<Message(t, r), Message(u, r)>>, r)
<1> DEFINE s == <<Message(t, r), Message(u, r)>>
<1>1. Len(s) = 2 /\ s[1] = Message(t, r) /\ s[2] = Message(u, r)
  OBVIOUS
<1>2. /\ Message(t, r).of = r /\ Message(t, r) \notin Idles /\ Message(t, r) \notin Endings
      /\ Message(u, r).of = r /\ Message(u, r) \notin Idles
  BY DEF Message, Idles, Endings, EndsRequest
<1> HIDE DEF s
<1>3. \A i \in 1..Len(s) : s[i].of = r /\ s[i] \notin Idles
  BY <1>1, <1>2
<1>4. \A i, j \in 1..Len(s) : i < j => s[i] \notin Endings
  BY <1>1, <1>2
<1>5. About(s, r)
  BY <1>3, <1>4 DEF About, Says, NoneAfter, Free
<1> QED
  BY <1>5 DEF s

\* Silence is about any request.
LEMMA NoEvent == ASSUME NEW r PROVE About(<< >>, r)
BY EmptyPipe DEF About, Free

\* An end, a failure and a report are about their request.
LEMMA ClosingAbout ==
    ASSUME NEW r \in Requests
    PROVE  About(Ending(r), r) /\ About(Failure(r), r) /\ About(<<Progress(r)>>, r)
BY OneEvent, TwoEvents DEF Ending, Failure, Progress

\* Progress is not an end.
LEMMA ProgressGoesOn ==
    ASSUME NEW r \in Requests
    PROVE  Free(<<Progress(r)>>, Endings)
<1>1. Len(<<Progress(r)>>) = 1 /\ <<Progress(r)>>[1] = Progress(r)
  OBVIOUS
<1>2. Progress(r) \notin Endings
  BY DEF Progress, Message, Endings, EndsRequest
<1> QED
  BY <1>1, <1>2 DEF Free, Says

\* The plain replies and those of a swap are about no request.
LEMMA PlainReply ==
    ASSUME NEW t \in PlainReplies \cup {"ModelLost", "SwapFailed"}
    PROVE  Free(<<Message(t, None)>>, RequestEvents) /\ Free(<<Message(t, None)>>, Idles)
<1>1. Len(<<Message(t, None)>>) = 1 /\ <<Message(t, None)>>[1] = Message(t, None)
  OBVIOUS
<1>2. Message(t, None) \notin RequestEvents /\ Message(t, None) \notin Idles
  BY DEF Message, RequestEvents, PlainReplies, Idles
<1> QED
  BY <1>1, <1>2 DEF Free, Says

\* The acknowledgement of a swap is about no request.
LEMMA SwapReply ==
    ASSUME NEW m
    PROVE  /\ Free(<<Message("Swapped", m), Message("Config", m)>>, RequestEvents)
           /\ Free(<<Message("Swapped", m), Message("Config", m)>>, Idles)
<1> DEFINE s == <<Message("Swapped", m), Message("Config", m)>>
<1>1. Len(s) = 2 /\ s[1] = Message("Swapped", m) /\ s[2] = Message("Config", m)
  OBVIOUS
<1>2. /\ Message("Swapped", m) \notin RequestEvents /\ Message("Swapped", m) \notin Idles
      /\ Message("Config", m) \notin RequestEvents /\ Message("Config", m) \notin Idles
  BY DEF Message, RequestEvents, Idles
<1> HIDE DEF s
<1>3. \A i \in 1..Len(s) : s[i] \notin RequestEvents /\ s[i] \notin Idles
  BY <1>1, <1>2
<1>4. Free(s, RequestEvents) /\ Free(s, Idles)
  BY <1>3 DEF Free, Says
<1> QED
  BY <1>4 DEF s

\* An idle worker that is not asked for a request serves none and speaks of none.
LEMMA IdleReply ==
    ASSUME NEW c \in Commands, NEW m, NEW x, IdleForm(x, c, m), c \notin Generates
    PROVE  x.serves = None /\ Free(x.emit, RequestEvents) /\ Free(x.emit, Idles)
<1>1. c.type # "Generate"
  BY MessageSets
<1>2. CASE c.type = "Cancel"
  BY <1>2, EmptyPipe DEF IdleForm, Replies
<1>3. CASE c.type = "SwapModel"
  BY <1>3, SwapReply, PlainReply DEF IdleForm, LoadForm, Replies
<1>4. CASE c.type \in {"UpdateLimit", "ClearCache"}
  BY <1>4, EmptyPipe, PlainReply DEF IdleForm, Replies, Dies
<1> QED
  BY <1>1, <1>2, <1>3, <1>4, CommandForms

\* A worker that starts a request, or goes on with one, speaks of that one only;
\* after its end it serves nothing.
Carries(x, r) ==
    /\ About(x.emit, r)
    /\ x.serves \in {None, r}
    /\ x.serves = None \/ Free(x.emit, Endings)

\* A worker that starts a request speaks of it alone.
LEMMA StartReply ==
    ASSUME NEW r \in Requests, NEW m, NEW x, StartForm(x, r, m)
    PROVE  Carries(x, r)
<1>1. CASE Replies(x, Failure(r), None, m) \/ Replies(x, Ending(r), None, m)
  BY <1>1, ClosingAbout DEF Replies, Carries
<1>2. CASE Replies(x, <<Message("Completed", r)>>, None, m)
  <2>1. About(<<Message("Completed", r)>>, r)
    BY OneEvent
  <2> QED
    BY <1>2, <2>1 DEF Replies, Carries
<1>3. CASE Replies(x, << >>, r, m)
  BY <1>3, NoEvent, EmptyPipe DEF Replies, Carries
<1> QED
  BY <1>1, <1>2, <1>3 DEF StartForm

\* And so does one that goes on.
LEMMA AdvanceReply ==
    ASSUME NEW r \in Requests, NEW m, NEW x, AdvanceForm(x, r, m)
    PROVE  Carries(x, r)
<1>1. CASE \/ Replies(x, Ending(r), None, m) \/ Replies(x, Failure(r), None, m) \/ Dies(x, Failure(r))
  BY <1>1, ClosingAbout DEF Replies, Dies, Carries
<1>2. CASE Replies(x, <<Progress(r)>>, r, m)
  BY <1>2, ClosingAbout, ProgressGoesOn DEF Replies, Carries
<1>3. CASE Dies(x, << >>)
  BY <1>3, NoEvent DEF Dies, Carries
<1> QED
  BY <1>1, <1>2, <1>3 DEF AdvanceForm

\* What a busy worker that is not asked for another request adds.
LEMMA BusyReply ==
    ASSUME NEW c \in Commands, NEW r \in Requests, NEW m, NEW x, BusyForm(x, c, r, m), c \notin Generates
    PROVE  /\ \A e \in Says(x.emit) : e \in RequestEvents => e.of = r
           /\ NoneAfter(x.emit, Endings, RequestEvents)
           /\ Free(x.emit, Idles)
           /\ x.serves \in {None, r}
           /\ x.serves = None \/ Free(x.emit, Endings)
<1>1. c.type # "Generate"
  BY MessageSets
<1>2. CASE Replies(x, Ending(r), None, m)
  BY <1>2, ClosingAbout DEF Replies, About
<1>3. CASE Replies(x, <<Message("LimitRejected", None)>>, r, m)
  <2> DEFINE s == <<Message("LimitRejected", None)>>
  <2>1. Free(s, RequestEvents) /\ Free(s, Idles)
    BY PlainReply DEF PlainReplies
  <2>2. NoneAfter(s, Endings, RequestEvents)
    BY <2>1 DEF NoneAfter, Free, Says
  <2>3. x.emit = s /\ x.serves = r
    BY <1>3 DEF Replies
  <2> HIDE DEF s
  <2> QED
    BY <2>1, <2>2, <2>3, MessageSets DEF Free
<1>4. CASE Replies(x, << >>, r, m)
  BY <1>4, EmptyPipe DEF Replies
<1> QED
  BY <1>1, <1>2, <1>3, <1>4 DEF BusyForm

\* A worker that has ended can break none of it.
LEMMA DeadPipe ==
    ASSUME proc' # "up", commands' = << >>, NoneAfter(events', Idles, Idles)
    PROVE  PipeInv'
BY EmptyPipe DEF PipeInv, GreetingIsFirst, HandshakeIsFresh, TrustedIsClean, ServedIsTracked, ControlsAreFirst

\* No answer of the worker is a second greeting.
LEMMA AnswersGreetNot ==
    ASSUME NEW c \in Commands, NEW r \in Requests \cup {None}, NEW m, NEW x \in Answers(c, r, m)
    PROVE  Free(x.emit, Idles)
<1>1. c \in Generates => c.of \in Requests /\ c.type = "Generate"
  BY CommandForms, MessageSets
<1>2. CASE r = None /\ c \in Generates
  <2>1. StartForm(x, c.of, m)
    BY <1>1, <1>2, AnswerForms DEF IdleForm
  <2> QED
    BY <1>1, <1>2, <2>1, StartReply DEF Carries, About
<1>3. CASE r = None /\ c \notin Generates
  BY <1>3, AnswerForms, IdleReply
<1>4. CASE r # None /\ c \in Generates
  <2>1. Replies(x, Failure(c.of), r, m)
    BY <1>1, <1>4, AnswerForms DEF BusyForm
  <2> QED
    BY <1>1, <1>4, <2>1, ClosingAbout DEF Replies, About
<1>5. CASE r # None /\ c \notin Generates
  BY <1>5, AnswerForms, BusyReply
<1> QED
  BY <1>2, <1>3, <1>4, <1>5

\* The events u are added to a pipe in which a request has not ended.
LEMMA TalkGoesOn ==
    ASSUME NEW s \in Seq(Events), NEW u \in Seq(Events), NEW r,
           \A e \in Says(s) : e \in RequestEvents => e.of = r,
           \A e \in Says(u) : e \in RequestEvents => e.of = r,
           NoneAfter(u, Endings, RequestEvents), Free(s, Endings)
    PROVE  /\ \A e \in Says(s \o u) : e \in RequestEvents => e.of = r
           /\ NoneAfter(s \o u, Endings, RequestEvents)
           /\ Free(u, Endings) => Free(s \o u, Endings)
<1>1. Says(s \o u) = Says(s) \cup Says(u)
  BY ExtendedPipe
<1>2. NoneAfter(s, Endings, RequestEvents)
  BY DEF NoneAfter, Free, Says
<1>3. NoneAfter(s \o u, Endings, RequestEvents)
  BY <1>2, ExtendedPipe
<1> QED
  BY <1>1, <1>3 DEF Free

\* The worker answers a command.
LEMMA AnswersPipe == ASSUME ControlInv, PipeInv, WorkerAnswers PROVE PipeInv'
<1>0. WorkerTypes /\ UNCHANGED <<at, cur, staged, isReady, status, active>>
  BY TypeParts DEF WorkerAnswers, ControlInv, loopVars, healthVars, activeVars
<1>1. PICK c : c = Head(commands)
  OBVIOUS
<1>2. PICK x \in Answers(c, serving, model) :
         Becomes(x) /\ commands' = IF x.lives THEN Tail(commands) ELSE << >>
  BY <1>1 DEF WorkerAnswers
<1>3. c \in Commands /\ proc = "up" /\ commands # << >> /\ commands \in Seq(Commands)
  BY <1>0, <1>1, FirstMessage DEF WorkerAnswers, WorkerTypes
<1>4. AnswerIsTyped(x) /\ Free(x.emit, Idles)
  BY <1>0, <1>2, <1>3, AnswersTyped, AnswersGreetNot DEF WorkerTypes
<1>5. /\ events \in Seq(Events) /\ x.emit \in Seq(Events) /\ events' = events \o x.emit
      /\ serving' = x.serves
  BY <1>0, <1>2, <1>4 DEF Becomes, AnswerIsTyped, WorkerTypes
<1>6. Says(events') = Says(events) \cup Says(x.emit)
  BY <1>5, ExtendedPipe
<1>7. NoneAfter(events', Idles, Idles)
  <2>1. NoneAfter(x.emit, Idles, Idles)
    BY <1>4 DEF NoneAfter, Free, Says
  <2> QED
    BY <1>4, <1>5, <2>1, ExtendedPipe DEF PipeInv, GreetingIsFirst
<1>8. CASE ~x.lives
  BY <1>2, <1>7, <1>8, DeadPipe DEF Becomes
<1>9. CASE x.lives
  <2>1. proc' = "up" /\ commands' = Tail(commands)
    BY <1>2, <1>9 DEF Becomes
  <2>2. /\ Says(commands') \subseteq Says(commands) /\ c \in Says(commands)
        /\ \A R, S : NoneAfter(commands, R, S) => NoneAfter(commands', R, S)
        /\ \A R, S : NoneAfter(commands, R, S) /\ c \in R => Free(commands', S)
    BY <1>1, <1>3, <2>1, ReadPipe
  <2>3. ASSUME serving = None, c \notin Generates
        PROVE  serving' = None /\ Free(x.emit, RequestEvents)
    BY <1>2, <1>3, <1>5, <2>3, AnswerForms, IdleReply
  <2>4. ASSUME Clean PROVE Clean'
    <3>1. c \notin Generates
      BY <2>2, <2>4 DEF Clean, Free
    <3>2. serving' = None /\ Free(x.emit, RequestEvents)
      BY <2>3, <2>4, <3>1 DEF Clean
    <3> QED
      BY <1>6, <2>2, <2>4, <3>2 DEF Clean, Free
  <2>5. GreetingIsFirst'
    BY <1>0, <1>3, <1>4, <1>6, <1>7, <2>4 DEF PipeInv, GreetingIsFirst, Free
  <2>6. HandshakeIsFresh'
    BY <1>0, <1>3 DEF ControlInv, HandshakeIsQuiet, HandshakeIsFresh
  <2>7. TrustedIsClean'
    BY <1>0, <1>3, <2>4 DEF PipeInv, TrustedIsClean
  <2>8. ASSUME NEW q \in Requests, ServesOnly(q) PROVE ServesOnly(q)'
    <3>1. CASE serving = None /\ c \in Generates
      <4>1. c.of = q /\ c.type = "Generate" /\ Free(events, Endings)
        BY <1>3, <2>2, <2>8, <3>1, MessageSets DEF ServesOnly, Free
      <4>2. StartForm(x, q, model)
        BY <1>0, <1>2, <1>3, <3>1, <4>1, AnswerForms DEF IdleForm, WorkerTypes
      <4>3. Carries(x, q)
        BY <4>2, StartReply
      <4>4. Free(commands', Generates)
        BY <2>2, <2>8, <3>1 DEF ServesOnly
      <4>5. /\ \A e \in Says(events') : e \in RequestEvents => e.of = q
            /\ NoneAfter(events', Endings, RequestEvents)
            /\ Free(x.emit, Endings) => Free(events', Endings)
        BY <1>5, <2>8, <4>1, <4>3, TalkGoesOn DEF ServesOnly, Carries, About
      <4> QED
        BY <1>5, <2>2, <2>8, <4>3, <4>4, <4>5 DEF ServesOnly, Carries, Free
    <3>2. CASE serving = None /\ c \notin Generates
      <4>1. serving' = None /\ Free(x.emit, RequestEvents)
        BY <2>3, <3>2
      <4>2. NoneAfter(x.emit, Endings, RequestEvents)
        BY <4>1 DEF NoneAfter, Free, Says
      <4>3. NoneAfter(events', Endings, RequestEvents)
        BY <1>5, <2>8, <4>1, <4>2, ExtendedPipe DEF ServesOnly
      <4>4. /\ Free(events, Endings) => Free(events', Endings)
            /\ Free(commands, Generates) => Free(commands', Generates)
        BY <1>6, <2>2, <4>1, MessageSets DEF Free
      <4>5. \A e \in Says(events') : e \in RequestEvents => e.of = q
        BY <1>6, <2>8, <4>1 DEF ServesOnly, Free
      <4>6. NoneAfter(commands', Generates, Generates) /\ \A d \in Says(commands') : d \in Generates => d.of = q
        BY <2>2, <2>8 DEF ServesOnly
      <4> QED
        BY <2>8, <4>1, <4>3, <4>4, <4>5, <4>6 DEF ServesOnly
    <3>3. CASE serving # None
      <4>1. serving = q /\ Free(commands, Generates) /\ Free(events, Endings) /\ c \notin Generates
        BY <2>2, <2>8, <3>3 DEF ServesOnly, Free
      <4>2. BusyForm(x, c, q, model)
        BY <1>0, <1>2, <1>3, <3>3, <4>1, AnswerForms DEF WorkerTypes
      <4>3. /\ \A e \in Says(x.emit) : e \in RequestEvents => e.of = q
            /\ NoneAfter(x.emit, Endings, RequestEvents)
            /\ x.serves \in {None, q}
            /\ x.serves = None \/ Free(x.emit, Endings)
        BY <1>3, <4>1, <4>2, BusyReply
      <4>4. /\ \A e \in Says(events') : e \in RequestEvents => e.of = q
            /\ NoneAfter(events', Endings, RequestEvents)
            /\ Free(x.emit, Endings) => Free(events', Endings)
        BY <1>5, <2>8, <4>1, <4>3, TalkGoesOn DEF ServesOnly
      <4>5. Free(commands', Generates)
        BY <2>2, <4>1 DEF Free
      <4> QED
        BY <1>5, <2>2, <2>8, <4>3, <4>4, <4>5 DEF ServesOnly, Free
    <3> QED
      BY <3>1, <3>2, <3>3
  <2>9. ServedIsTracked'
    <3>1. ASSUME active # None PROVE ServesOnly(active)'
      <4>1. ServesOnly(active) /\ active \in Requests
        BY <1>3, <3>1, TypeParts DEF PipeInv, ServedIsTracked, ControlInv, NameTypes
      <4>2. PICK q \in Requests : q = active
        BY <4>1
      <4> QED
        BY <1>0, <2>8, <4>1, <4>2 DEF ServesOnly
    <3>2. ASSUME at \in {"cancel", "replace"} PROVE ServesOnly(cur)'
      <4>1. ServesOnly(cur) /\ cur \in Requests
        BY <1>3, <3>2 DEF PipeInv, ServedIsTracked, ControlInv, Posture, PositionIsSound
      <4>2. PICK q \in Requests : q = cur
        BY <4>1
      <4> QED
        BY <1>0, <2>8, <4>1, <4>2 DEF ServesOnly
    <3> QED
      BY <1>0, <3>1, <3>2 DEF ServedIsTracked
  <2>10. ControlsAreFirst'
    <3> SUFFICES ASSUME status # "Unavailable"
                 PROVE  /\ Free(commands', ControlCommands) \/ serving' = None
                        /\ NoneAfter(commands', Generates, ControlCommands)
      BY <1>0 DEF ControlsAreFirst
    <3>1. /\ Free(commands, ControlCommands) \/ serving = None
          /\ NoneAfter(commands, Generates, ControlCommands)
      BY DEF PipeInv, ControlsAreFirst
    <3>2. CASE Free(commands, ControlCommands)
      BY <2>2, <3>1, <3>2 DEF Free
    <3>3. CASE serving = None /\ c \in Generates
      BY <2>2, <3>1, <3>3
    <3>4. CASE serving = None /\ c \notin Generates
      BY <2>2, <2>3, <3>1, <3>4
    <3> QED
      BY <3>1, <3>2, <3>3, <3>4
  <2> QED
    BY <2>5, <2>6, <2>7, <2>9, <2>10 DEF PipeInv
<1> QED
  BY <1>8, <1>9

\* A busy worker goes on.
LEMMA AdvancesPipe == ASSUME ControlInv, PipeInv, WorkerAdvances PROVE PipeInv'
<1>0. WorkerTypes /\ UNCHANGED <<commands, at, cur, staged, isReady, status, active>>
  BY TypeParts DEF WorkerAdvances, ControlInv, loopVars, healthVars, activeVars
<1>1. PICK x \in Advances(serving, model) : Becomes(x)
  BY DEF WorkerAdvances
<1>2. PICK q \in Requests : q = serving
  BY <1>0 DEF WorkerAdvances, WorkerTypes
<1>3. proc = "up" /\ commands = << >> /\ serving # None
  BY DEF WorkerAdvances
<1>4. AnswerIsTyped(x) /\ Carries(x, q)
  BY <1>0, <1>1, <1>2, AdvancesTyped, AdvanceForms, AdvanceReply DEF WorkerTypes
<1>5. /\ events \in Seq(Events) /\ x.emit \in Seq(Events) /\ events' = events \o x.emit
      /\ serving' = x.serves
  BY <1>0, <1>1, <1>4 DEF Becomes, AnswerIsTyped, WorkerTypes
<1>6. Says(events') = Says(events) \cup Says(x.emit)
  BY <1>5, ExtendedPipe
<1>7. NoneAfter(events', Idles, Idles)
  <2>1. NoneAfter(x.emit, Idles, Idles)
    BY <1>4 DEF Carries, About, NoneAfter, Free, Says
  <2> QED
    BY <1>4, <1>5, <2>1, ExtendedPipe DEF PipeInv, GreetingIsFirst, Carries, About
<1>8. CASE ~x.lives
  BY <1>0, <1>1, <1>3, <1>7, <1>8, DeadPipe DEF Becomes
<1>9. CASE x.lives
  <2>1. ~Clean /\ proc' = "up"
    BY <1>1, <1>3, <1>9 DEF Becomes, Clean
  <2>2. GreetingIsFirst'
    BY <1>0, <1>3, <1>4, <1>6, <1>7, <2>1 DEF PipeInv, GreetingIsFirst, Free, Carries, About
  <2>3. HandshakeIsFresh'
    BY <1>0, <1>3 DEF ControlInv, HandshakeIsQuiet, HandshakeIsFresh
  <2>4. TrustedIsClean'
    BY <1>0, <1>3, <2>1 DEF PipeInv, TrustedIsClean
  <2>5. ASSUME NEW r, ServesOnly(r) PROVE ServesOnly(r)'
    <3>1. r = q /\ Free(events, Endings)
      BY <1>2, <1>3, <2>5 DEF ServesOnly
    <3>2. /\ \A e \in Says(events') : e \in RequestEvents => e.of = q
          /\ NoneAfter(events', Endings, RequestEvents)
          /\ Free(x.emit, Endings) => Free(events', Endings)
      BY <1>4, <1>5, <2>5, <3>1, TalkGoesOn DEF ServesOnly, Carries, About
    <3> QED
      BY <1>0, <1>3, <1>4, <1>5, <2>5, <3>1, <3>2, EmptyPipe DEF ServesOnly, Carries
  <2>6. ServedIsTracked'
    <3>1. ASSUME active # None PROVE ServesOnly(active)'
      <4>1. PICK r : r = active
        OBVIOUS
      <4> QED
        BY <1>0, <1>3, <2>5, <3>1, <4>1 DEF PipeInv, ServedIsTracked, ServesOnly
    <3>2. ASSUME at \in {"cancel", "replace"} PROVE ServesOnly(cur)'
      <4>1. PICK r : r = cur
        OBVIOUS
      <4> QED
        BY <1>0, <1>3, <2>5, <3>2, <4>1 DEF PipeInv, ServedIsTracked, ServesOnly
    <3> QED
      BY <1>0, <3>1, <3>2 DEF ServedIsTracked
  <2>7. ControlsAreFirst'
    BY <1>0, <1>3, EmptyPipe DEF ControlsAreFirst
  <2> QED
    BY <2>2, <2>3, <2>4, <2>6, <2>7 DEF PipeInv
<1> QED
  BY <1>8, <1>9

\* The worker dies with some of its events written.
LEMMA CrashPipe == ASSUME ControlInv, PipeInv, WorkerCrashes PROVE PipeInv'
<1>1. proc' = "exited" /\ commands' = << >> /\ events \in Seq(Events)
  BY TypeParts DEF WorkerCrashes, ControlInv, WorkerTypes
<1>2. PICK k \in 0..Len(events) : events' = SubSeq(events, 1, k)
  BY DEF WorkerCrashes
<1>3. NoneAfter(events', Idles, Idles)
  BY <1>1, <1>2, CutPipe DEF PipeInv, GreetingIsFirst
<1> QED
  BY <1>1, <1>3, DeadPipe

(***************************************************************************)
(* The steps of the loop, by what they do to the pipes                     *)
(***************************************************************************)

\* The positions at which the pipe invariant says something special.
Special == {"cancel", "replace", "recover", "handshake"}

\* The worker is left alone, and the loop trusts it no more than before.
LEMMA QuietPipe ==
    ASSUME PipeInv, UNCHANGED workerVars, UNCHANGED active, isReady' => isReady,
           status' # "Unavailable" => status # "Unavailable",
           at \notin {"cancel", "replace"}, at' \notin Special
    PROVE  PipeInv'
<1>1. UNCHANGED <<proc, commands, events, serving>>
  BY DEF workerVars
<1>2. Clean' <=> Clean
  BY <1>1 DEF Clean
<1>3. ServesOnly(active)' <=> ServesOnly(active)
  BY <1>1 DEF ServesOnly
<1> QED
  BY <1>1, <1>2, <1>3 DEF PipeInv, GreetingIsFirst, HandshakeIsFresh, TrustedIsClean, ServedIsTracked,
     ControlsAreFirst, Special

\* A step of a client.
LEMMA StillPipe ==
    ASSUME PipeInv, UNCHANGED <<workerVars, loopVars, healthVars, activeVars>>
    PROVE  PipeInv'
<1>1. UNCHANGED <<proc, commands, events, serving, at, cur, staged, isReady, status, active>>
  BY DEF workerVars, loopVars, healthVars, activeVars
<1>2. Clean' <=> Clean
  BY <1>1 DEF Clean
<1>3. (ServesOnly(active)' <=> ServesOnly(active)) /\ (ServesOnly(cur)' <=> ServesOnly(cur))
  BY <1>1 DEF ServesOnly
<1> QED
  BY <1>1, <1>2, <1>3 DEF PipeInv, GreetingIsFirst, HandshakeIsFresh, TrustedIsClean, ServedIsTracked,
     ControlsAreFirst

\* The worker is given up, but could not be killed.
LEMMA DownPipe ==
    ASSUME PipeInv, UNCHANGED workerVars, status' = "Unavailable", isReady' => isReady, active' = None,
           at' \notin Special
    PROVE  PipeInv'
<1>1. UNCHANGED <<proc, commands, events, serving>>
  BY DEF workerVars
<1>2. Clean' <=> Clean
  BY <1>1 DEF Clean
<1> QED
  BY <1>1, <1>2 DEF PipeInv, GreetingIsFirst, HandshakeIsFresh, TrustedIsClean, ServedIsTracked,
     ControlsAreFirst, Special

\* The worker is stopped.
LEMMA StopPipe == ASSUME Reap PROVE PipeInv'
<1>1. proc' # "up" /\ commands' = << >> /\ events' = << >>
  BY DEF Reap
<1> QED
  BY <1>1, EmptyPipe, DeadPipe

\* A worker is launched.
LEMMA FreshPipe ==
    ASSUME Launch, ~isReady', active' = None, staged' = {}, at' \notin {"cancel", "replace"}
    PROVE  PipeInv'
<1>1. proc' = "up" /\ commands' = << >> /\ events' = Greeting /\ serving' = None
  BY DEF Launch
<1>2. Len(Greeting) = 2 /\ Greeting[1] = Message("Idle", None) /\ Greeting[2] = Message("Config", None)
  BY DEF Greeting
<1>3. Message("Config", None) \notin Idles \cup RequestEvents /\ Message("Idle", None) \notin RequestEvents
  BY DEF Message, Idles, RequestEvents
<1>4. NoneAfter(Greeting, Idles, Idles)
  BY <1>2, <1>3 DEF NoneAfter
<1>5. Free(Greeting, RequestEvents)
  BY <1>3, GreetingSays DEF Free
<1>6. Clean'
  BY <1>1, <1>5, EmptyPipe DEF Clean
<1> QED
  BY <1>1, <1>4, <1>6, EmptyPipe DEF PipeInv, GreetingIsFirst, HandshakeIsFresh, TrustedIsClean,
     ServedIsTracked, ControlsAreFirst

\* A control command is written for a worker without a request.
LEMMA TellPipe ==
    ASSUME ControlInv, PipeInv, NEW c \in ControlCommands, Writable, Send(c), active = None,
           UNCHANGED <<active, isReady, status>>, at \notin {"cancel", "replace"}, at' \notin Special
    PROVE  PipeInv'
<1>1. UNCHANGED <<proc, events, serving>> /\ commands' = Append(commands, c) /\ proc = "up"
  BY DEF Send, Writable
<1>2. commands \in Seq(Commands) /\ c \in Commands /\ c \notin Generates
  BY TypeParts, MessageSets DEF ControlInv, WorkerTypes, ControlCommands
<1>3. /\ Says(commands') = Says(commands) \cup {c}
      /\ \A R, S : NoneAfter(commands, R, S) /\ (c \notin S \/ Free(commands, R)) => NoneAfter(commands', R, S)
  BY <1>1, <1>2, WrittenPipe
<1>4. Clean => Clean'
  BY <1>1, <1>2, <1>3 DEF Clean, Free
<1>5. ControlsAreFirst'
  <2> SUFFICES ASSUME status # "Unavailable"
               PROVE  serving' = None /\ NoneAfter(commands', Generates, ControlCommands)
    BY DEF ControlsAreFirst
  <2>1. Clean
    BY <1>1 DEF PipeInv, TrustedIsClean
  <2> QED
    BY <1>1, <1>3, <2>1 DEF PipeInv, ControlsAreFirst, Clean
<1> QED
  BY <1>1, <1>4, <1>5 DEF PipeInv, GreetingIsFirst, HandshakeIsFresh, TrustedIsClean, ServedIsTracked, Special

\* An event is read that does not end the active request.  A worker that says
\* it is idle is clean.
LEMMA HearPipe ==
    ASSUME ControlInv, PipeInv, events # << >>, Consume, UNCHANGED active,
           isReady' => isReady \/ Head(events) \in Idles,
           status' # "Unavailable" => status # "Unavailable" \/ Head(events) \in Idles,
           at \notin {"cancel", "replace"}, at' \notin Special
    PROVE  PipeInv'
<1>1. UNCHANGED <<proc, commands, serving>> /\ events' = Tail(events)
  BY DEF Consume
<1>2. events \in Seq(Events)
  BY TypeParts DEF ControlInv, WorkerTypes
<1>3. /\ Says(events') \subseteq Says(events) /\ Head(events) \in Says(events)
      /\ \A R, S : NoneAfter(events, R, S) => NoneAfter(events', R, S)
      /\ \A R, S : NoneAfter(events, R, S) /\ Head(events) \in R => Free(events', S)
  BY <1>1, <1>2, ReadPipe
<1>4. Clean => Clean'
  BY <1>1, <1>3 DEF Clean, Free
<1>5. proc = "up" /\ Head(events) \in Idles => Clean /\ Free(events', Idles)
  BY <1>3 DEF PipeInv, GreetingIsFirst, Free
<1>6. Free(events, Idles) => Free(events', Idles)
  BY <1>3 DEF Free
<1>7. GreetingIsFirst'
  BY <1>1, <1>3, <1>4, <1>5, <1>6 DEF PipeInv, GreetingIsFirst
<1>8. TrustedIsClean'
  BY <1>1, <1>4, <1>5 DEF PipeInv, TrustedIsClean
<1>9. ServesOnly(active) => ServesOnly(active)'
  BY <1>1, <1>3 DEF ServesOnly, Free
<1>10. ControlsAreFirst'
  <2>1. proc = "up" \/ commands = << >>
    BY DEF ControlInv, DeadIsSilent
  <2>2. ASSUME status = "Unavailable", status' # "Unavailable", proc = "up"
        PROVE  serving = None /\ NoneAfter(commands, Generates, ControlCommands)
    <3>1. Clean
      BY <1>5, <2>2
    <3> QED
      BY <3>1 DEF Clean, NoneAfter, Free, Says
  <2> QED
    BY <1>1, <2>1, <2>2, EmptyPipe DEF PipeInv, ControlsAreFirst
<1> QED
  BY <1>1, <1>7, <1>8, <1>9, <1>10 DEF PipeInv, HandshakeIsFresh, ServedIsTracked, Special

\* The end of the conversation about r is read: nothing of it is left.
LEMMA EndOfTalk ==
    ASSUME ControlInv, NEW r, ServesOnly(r), events # << >>, Head(events) \in Endings, Consume
    PROVE  Clean'
<1>1. UNCHANGED <<proc, commands, serving>> /\ events' = Tail(events)
  BY DEF Consume
<1>2. events \in Seq(Events)
  BY TypeParts DEF ControlInv, WorkerTypes
<1>3. Head(events) \in Says(events) /\ Free(events', RequestEvents)
  BY <1>1, <1>2, ReadPipe DEF ServesOnly
<1> QED
  BY <1>1, <1>3 DEF ServesOnly, Clean, Free

\* A wait ends in a containment, or, for two waits, without one.
LEMMA ContainPipe ==
    ASSUME PipeInv, NEW p \in {"top", "tidy", "observe"}, NEW A, NEW B, Contain(p, A, B)
    PROVE  PipeInv'
<1>1. /\ Reap \/ UNCHANGED workerVars
      /\ status' = "Unavailable" /\ isReady' = FALSE /\ active' = None /\ at' = p
  BY DEF Contain, ForceTerminate, PublishUnavailable, Settle
<1> QED
  BY <1>1, StopPipe, DownPipe DEF Special

\* A worker that stays down.
LEMMA StayDownPipe ==
    ASSUME PipeInv, StayDown, Reap \/ UNCHANGED workerVars, isReady' = FALSE, active' = None
    PROVE  PipeInv'
<1>1. status' = "Unavailable" /\ at' = "top"
  BY DEF StayDown, PublishUnavailable, Settle
<1> QED
  BY <1>1, StopPipe, DownPipe DEF Special

\* A configuration is about no request.
LEMMA PlainEvent == Free(<<Message("Config", None)>>, RequestEvents)
<1>1. Len(<<Message("Config", None)>>) = 1 /\ <<Message("Config", None)>>[1] = Message("Config", None)
  OBVIOUS
<1>2. Message("Config", None) \notin RequestEvents
  BY DEF Message, RequestEvents
<1> QED
  BY <1>1, <1>2 DEF Free, Says

\* What the loop holds, as the steps below need it.
LEMMA Holds ==
    ASSUME ControlInv
    PROVE  /\ at \notin ActivePositions => active = None
           /\ active # None => active \in Requests /\ isReady /\ status = "Ready"
           /\ at \in {"dispatch", "cancel", "replace"} => cur \in Requests /\ isReady /\ status = "Ready"
           /\ at \in {"recover", "launch", "handshake"} => ~isReady
           /\ at \notin {"swap", "recover", "handshake", "restore"} => staged = {}
           /\ proc # "up" => commands = << >>
           /\ at \in Positions /\ back \in {"top", "tidy", "observe"}
           /\ events \in Seq(Events) /\ commands \in Seq(Commands)
<1> USE TypeParts DEF ControlInv, Posture, NameTypes
<1>1. at \in Positions /\ back \in {"top", "tidy", "observe"} /\ active \in Requests \cup {None}
  OBVIOUS
<1>2. at \notin {"swap", "recover", "handshake", "restore"} => staged = {}
  BY DEF StagedIsCurrent
<1>3. at \in {"dispatch", "cancel", "replace"} => cur \in Requests /\ isReady /\ status = "Ready"
  BY DEF PositionIsSound, Starting, ReadyIsPublished
<1>4. at \in {"recover", "launch", "handshake"} => ~isReady
  BY DEF PositionIsSound
<1>5. /\ at \notin ActivePositions => active = None
      /\ active # None => active \in Requests /\ isReady /\ status = "Ready"
  BY <1>1 DEF ActiveIsTracked, ActivePositions, ReadyIsPublished
<1> QED
  BY <1>1, <1>2, <1>3, <1>4, <1>5 DEF DeadIsSilent, WorkerTypes

\* An event of the conversation about r is read: it goes on.
LEMMA TalkHeard ==
    ASSUME ControlInv, NEW r, ServesOnly(r), events # << >>, Consume
    PROVE  ServesOnly(r)'
<1>1. UNCHANGED <<commands, serving>> /\ events' = Tail(events)
  BY DEF Consume
<1>2. /\ Says(events') \subseteq Says(events)
      /\ NoneAfter(events, Endings, RequestEvents) => NoneAfter(events', Endings, RequestEvents)
  BY <1>1, Holds, ReadPipe
<1> QED
  BY <1>1, <1>2 DEF ServesOnly, Free

\* The loop reads the end of the active request.
LEMMA EndPipe ==
    ASSUME ControlInv, PipeInv, events # << >>, Head(events) \in Endings, active # None, Consume,
           active' = None, isReady' = isReady, status' = status, at' \notin Special
    PROVE  PipeInv'
<1>1. UNCHANGED <<proc, commands, serving>> /\ events' = Tail(events)
  BY DEF Consume
<1>2. /\ Says(events') \subseteq Says(events)
      /\ NoneAfter(events, Idles, Idles) => NoneAfter(events', Idles, Idles)
  BY <1>1, Holds, ReadPipe
<1>3. NoneAfter(events', Idles, Idles)
  BY <1>2 DEF PipeInv, GreetingIsFirst
<1>4. CASE proc # "up"
  BY <1>1, <1>3, <1>4, Holds, DeadPipe
<1>5. CASE proc = "up"
  <2>1. PICK r : r = active
    OBVIOUS
  <2>2. ServesOnly(r)
    BY <1>5, <2>1 DEF PipeInv, ServedIsTracked
  <2>3. Clean'
    BY <2>2, EndOfTalk
  <2>4. Free(events', Idles)
    BY <1>2, <1>5, Holds DEF PipeInv, GreetingIsFirst, Free
  <2> QED
    BY <1>1, <1>3, <2>3, <2>4 DEF PipeInv, GreetingIsFirst, HandshakeIsFresh, TrustedIsClean,
       ServedIsTracked, ControlsAreFirst, Special
<1> QED
  BY <1>4, <1>5

\* An event is handed to handle_worker_event.
LEMMA EventPipe == ASSUME ControlInv, PipeInv, ReadEvent PROVE PipeInv'
<1>1. PICK e : e = Head(events)
  OBVIOUS
<1>2. /\ Pumping /\ events # << >> /\ ~Violates(e) /\ ApplyToHealth(e) /\ ApplyToRequest(e) /\ Continue(e)
      /\ Consume /\ e \in Events
  BY <1>1, Holds, FirstMessage DEF ReadEvent
<1>3. at \notin Special /\ at' \notin Special
  BY <1>2, Holds DEF Pumping, Continue, Settle, Stay, Special
<1>4. e \in Idles <=> e.type = "Idle"
  BY <1>2, MessageSets
<1>5. isReady' => isReady \/ e \in Idles
  BY <1>2, <1>4, Zenon DEF ApplyToHealth
<1>6. status' = IF e \in Idles THEN "Ready" ELSE status
  BY <1>2, <1>4 DEF ApplyToHealth
<1>7. CASE EndsRequest(e)
  <2>1. e \in Endings /\ e \in RequestEvents /\ e \notin Idles /\ e.of \in Requests
    BY <1>2, <1>7, MessageSets, EventForms
  <2>2. active # None
    BY <1>2, <2>1, ProtocolAssumption DEF Violates
  <2>3. active' = None
    BY <1>2, <1>7 DEF ApplyToRequest
  <2>4. isReady' = isReady
    BY <1>2, <1>4, <1>5, <2>1, <2>2, Holds DEF ApplyToHealth
  <2> QED
    BY <1>1, <1>2, <1>3, <1>6, <2>1, <2>2, <2>3, <2>4, EndPipe
<1>8. CASE ~EndsRequest(e)
  <2>1. UNCHANGED active
    BY <1>2, <1>8 DEF ApplyToRequest
  <2> QED
    BY <1>1, <1>2, <1>3, <1>5, <1>6, <2>1, HearPipe DEF Special
<1> QED
  BY <1>7, <1>8

\* The request goes to a worker that is clean.
LEMMA StartPipe ==
    ASSUME ControlInv, PipeInv, at = "dispatch", Writable, Send(Message("Generate", cur)), active' = cur,
           UNCHANGED healthVars, at' \notin Special
    PROVE  PipeInv'
<1>1. PICK r, c : r = cur /\ c = Message("Generate", r)
  OBVIOUS
<1>2. UNCHANGED <<proc, events, serving, isReady, status>> /\ commands' = Append(commands, c) /\ proc = "up"
  BY <1>1 DEF Send, Writable, healthVars
<1>3. r \in Requests /\ c \in Commands /\ c \in Generates /\ c.of = r /\ c.type = "Generate" /\ isReady /\ active = None
  BY <1>1, Holds, CommandTypes DEF Message, Generates, ActivePositions
<1>4. Clean /\ Free(events, Idles)
  BY <1>2, <1>3, Holds DEF PipeInv, TrustedIsClean, GreetingIsFirst
<1>5. /\ Says(commands') = Says(commands) \cup {c}
      /\ \A R, S : NoneAfter(commands, R, S) /\ (c \notin S \/ Free(commands, R)) => NoneAfter(commands', R, S)
  BY <1>2, <1>3, Holds, WrittenPipe
<1>6. /\ NoneAfter(commands', Generates, Generates) /\ NoneAfter(commands', Generates, ControlCommands)
      /\ NoneAfter(events, Endings, RequestEvents)
  <2>1. NoneAfter(commands, Generates, Generates) /\ NoneAfter(commands, Generates, ControlCommands)
    BY <1>4 DEF Clean, NoneAfter, Free, Says
  <2>2. NoneAfter(events, Endings, RequestEvents)
    BY <1>4 DEF Clean, NoneAfter, Free, Says
  <2> QED
    BY <1>4, <1>5, <2>1, <2>2 DEF Clean
<1>7. ServesOnly(r)'
  BY <1>2, <1>3, <1>4, <1>5, <1>6, MessageSets DEF ServesOnly, Clean, Free
<1>8. ServedIsTracked'
  BY <1>1, <1>7 DEF ServedIsTracked, ServesOnly, Special
<1>9. TrustedIsClean' /\ HandshakeIsFresh'
  BY <1>1, <1>3, ProtocolAssumption DEF TrustedIsClean, HandshakeIsFresh, Special
<1>10. GreetingIsFirst' /\ ControlsAreFirst'
  BY <1>2, <1>4, <1>6 DEF PipeInv, GreetingIsFirst, ControlsAreFirst, Clean
<1> QED
  BY <1>8, <1>9, <1>10 DEF PipeInv

\* The active request is cancelled: the conversation about it goes on, or the
\* worker is to be replaced.
LEMMA CancelPipe ==
    ASSUME ControlInv, PipeInv, active # None, BeginCancel, UNCHANGED <<proc, serving>>,
           events' = events \/ (events # << >> /\ events' = Tail(events)),
           commands' = IF Writable THEN Append(commands, Message("Cancel", active)) ELSE commands
    PROVE  PipeInv'
<1>1. PICK r, c : r = active /\ c = Message("Cancel", r)
  OBVIOUS
<1>2. /\ cur' = r /\ active' = None /\ UNCHANGED <<isReady, status>>
      /\ at' = IF Writable THEN "cancel" ELSE "replace"
  BY <1>1 DEF BeginCancel, healthVars
<1>3. r \in Requests /\ isReady /\ c \in Commands /\ c \notin Generates /\ c \notin ControlCommands
  BY <1>1, Holds, CommandTypes DEF Message, Generates, ControlCommands
<1>4. /\ Says(events') \subseteq Says(events)
      /\ \A R, S : NoneAfter(events, R, S) => NoneAfter(events', R, S)
  <2>1. CASE events' = events
    BY <2>1
  <2>2. CASE events # << >> /\ events' = Tail(events)
    BY <2>2, Holds, ReadPipe
  <2> QED
    BY <2>1, <2>2
<1>5. /\ Says(commands') \subseteq Says(commands) \cup {c}
      /\ \A R, S : NoneAfter(commands, R, S) /\ c \notin S => NoneAfter(commands', R, S)
  <2>1. CASE Writable
    BY <1>1, <1>3, <2>1, Holds, WrittenPipe
  <2>2. CASE ~Writable
    BY <2>2
  <2> QED
    BY <2>1, <2>2
<1>6. GreetingIsFirst'
  BY <1>2, <1>3, <1>4 DEF PipeInv, GreetingIsFirst, Free
<1>7. proc = "up" => ServesOnly(r)'
  <2> SUFFICES ASSUME ServesOnly(r) PROVE ServesOnly(r)'
    BY <1>1 DEF PipeInv, ServedIsTracked
  <2>1. /\ Free(commands, Generates) => Free(commands', Generates)
        /\ Free(events, Endings) => Free(events', Endings)
        /\ \A x \in Says(commands') : x \in Generates => x \in Says(commands)
    BY <1>3, <1>4, <1>5 DEF Free
  <2> QED
    BY <1>3, <1>4, <1>5, <2>1 DEF ServesOnly
<1>8. ServedIsTracked'
  BY <1>2, <1>7 DEF ServedIsTracked, ServesOnly
<1>9. ControlsAreFirst'
  BY <1>2, <1>3, <1>5 DEF PipeInv, ControlsAreFirst, Free
<1> QED
  BY <1>2, <1>6, <1>8, <1>9 DEF PipeInv, HandshakeIsFresh, TrustedIsClean

\* The cancellation reads an event.
LEMMA CancelledPipe == ASSUME ControlInv, PipeInv, ReadCancelled PROVE PipeInv'
<1>1. PICK e : e = Head(events)
  OBVIOUS
<1>2. /\ at = "cancel" /\ events # << >> /\ Consume /\ e \in Events
      /\ UNCHANGED <<isReady, status, active>> /\ active = None /\ isReady
  BY <1>1, Holds, FirstMessage DEF ReadCancelled, healthVars, activeVars, ActivePositions
<1>3. UNCHANGED <<proc, commands, serving>> /\ events' = Tail(events)
  BY <1>2 DEF Consume
<1>4. Says(events') \subseteq Says(events) /\ NoneAfter(events', Idles, Idles)
  BY <1>2, <1>3, Holds, ReadPipe DEF PipeInv, GreetingIsFirst
<1>5. CASE proc # "up"
  BY <1>3, <1>4, <1>5, Holds, DeadPipe
<1>6. CASE proc = "up"
  <2>1. PICK r : r = cur
    OBVIOUS
  <2>2. ServesOnly(r)
    BY <1>2, <1>6, <2>1 DEF PipeInv, ServedIsTracked
  <2>3. GreetingIsFirst' /\ ControlsAreFirst'
    BY <1>2, <1>3, <1>4, <1>6 DEF PipeInv, GreetingIsFirst, ControlsAreFirst, Free
  <2>4. CASE Acknowledges(e)
    <3>1. e \in Endings
      BY <1>2, <2>4, MessageSets DEF Acknowledges, EndsRequest
    <3>2. Clean'
      BY <1>1, <1>2, <2>2, <3>1, EndOfTalk
    <3>3. at' = "top"
      BY <1>1, <2>4 DEF ReadCancelled, Settle
    <3> QED
      BY <1>2, <2>3, <3>2, <3>3 DEF PipeInv, HandshakeIsFresh, TrustedIsClean, ServedIsTracked
  <2>5. CASE ~Acknowledges(e) /\ Drained(e)
    <3>1. ServesOnly(r)'
      BY <1>2, <2>2, TalkHeard
    <3>2. at' = "cancel" /\ cur' = r
      BY <1>1, <1>2, <2>1, <2>5 DEF ReadCancelled, loopVars
    <3> QED
      BY <1>2, <2>3, <3>1, <3>2 DEF PipeInv, HandshakeIsFresh, TrustedIsClean, ServedIsTracked, ServesOnly
  <2>6. CASE ~Acknowledges(e) /\ ~Drained(e)
    <3>1. ServesOnly(r)'
      BY <1>2, <2>2, TalkHeard
    <3>2. at' = "replace" /\ cur' = r
      BY <1>1, <2>1, <2>6 DEF ReadCancelled, Stay
    <3> QED
      BY <1>2, <2>3, <3>1, <3>2 DEF PipeInv, HandshakeIsFresh, TrustedIsClean, ServedIsTracked, ServesOnly
  <2> QED
    BY <2>4, <2>5, <2>6
<1> QED
  BY <1>5, <1>6

\* The cancellation gets no answer.
LEMMA CancelFailsPipe == ASSUME ControlInv, PipeInv, CancelFails PROVE PipeInv'
<1>1. at = "cancel" /\ at' = "replace" /\ UNCHANGED <<isReady, status, active, cur>> /\ active = None
  BY Holds DEF CancelFails, Stay, healthVars, activeVars, ActivePositions
<1>2. CASE Reap
  BY <1>2, StopPipe
<1>3. CASE UNCHANGED workerVars
  <2>1. UNCHANGED <<proc, commands, events, serving>>
    BY <1>3 DEF workerVars
  <2>2. (Clean' <=> Clean) /\ (ServesOnly(cur)' <=> ServesOnly(cur))
    BY <1>1, <2>1 DEF Clean, ServesOnly
  <2> QED
    BY <1>1, <2>1, <2>2 DEF PipeInv, GreetingIsFirst, HandshakeIsFresh, TrustedIsClean, ServedIsTracked,
       ControlsAreFirst
<1> QED
  BY <1>2, <1>3 DEF CancelFails

\* A new worker says a part of its greeting.
LEMMA AckPipe ==
    ASSUME ControlInv, PipeInv, at \in {"recover", "handshake"}, events # << >>, Consume, UNCHANGED active,
           IF Recovered(staged \cup {Head(events).type})
           THEN at' \in {"top", "reload"}
           ELSE staged' = staged \cup {Head(events).type} /\ UNCHANGED <<at, isReady, status>>
    PROVE  PipeInv'
<1>1. UNCHANGED <<proc, commands, serving>> /\ events' = Tail(events)
  BY DEF Consume
<1>2. commands = << >> /\ serving = None /\ active = None /\ ~isReady
  BY Holds DEF ControlInv, HandshakeIsQuiet, ActivePositions
<1>3. NoneAfter(events', Idles, Idles)
  BY <1>1, Holds, ReadPipe DEF PipeInv, GreetingIsFirst
<1>4. CASE proc # "up"
  BY <1>1, <1>2, <1>3, <1>4, DeadPipe
<1>5. CASE proc = "up" /\ staged = {} /\ events = Greeting
  <2>1. Head(events) = Message("Idle", None) /\ events' = <<Message("Config", None)>>
    BY <1>1, <1>5 DEF Greeting
  <2>2. Head(events).type = "Idle"
    BY <2>1 DEF Message
  <2>3. ~Recovered(staged \cup {Head(events).type})
    BY <1>5, <2>2 DEF Recovered
  <2>4. staged' = {"Idle"} /\ UNCHANGED <<at, isReady, status>>
    BY <1>5, <2>2, <2>3
  <2>5. Free(events', RequestEvents)
    BY <2>1, PlainEvent
  <2>6. Clean'
    BY <1>1, <1>2, <2>5, EmptyPipe DEF Clean
  <2> QED
    BY <1>1, <1>2, <1>3, <2>1, <2>4, <2>6, EmptyPipe DEF PipeInv, GreetingIsFirst, HandshakeIsFresh,
       TrustedIsClean, ServedIsTracked, ControlsAreFirst
<1>6. CASE proc = "up" /\ staged = {"Idle"} /\ events = <<Message("Config", None)>>
  <2>1. Head(events) = Message("Config", None) /\ events' = << >>
    BY <1>1, <1>6
  <2>2. Head(events).type = "Config"
    BY <2>1 DEF Message
  <2>3. Recovered(staged \cup {Head(events).type})
    BY <1>6, <2>2 DEF Recovered
  <2>4. at' \in {"top", "reload"}
    BY <2>3
  <2>5. Clean' /\ Free(events', Idles)
    BY <1>1, <1>2, <2>1, EmptyPipe DEF Clean
  <2> QED
    BY <1>1, <1>2, <1>3, <2>4, <2>5, EmptyPipe DEF PipeInv, GreetingIsFirst, HandshakeIsFresh,
       TrustedIsClean, ServedIsTracked, ControlsAreFirst
<1> QED
  BY <1>4, <1>5, <1>6 DEF PipeInv, HandshakeIsFresh

\* The candidate takes the place of the trusted worker.
LEMMA CommitPipe == ASSUME ControlInv, PipeInv, CommitCandidate PROVE PipeInv'
<1>1. /\ commands' = << >> /\ events' = << >> /\ serving' = None /\ at' = "top" /\ active' = None
  BY Holds DEF CommitCandidate, Settle, activeVars, ActivePositions
<1>2. Clean'
  BY <1>1, EmptyPipe DEF Clean
<1> QED
  BY <1>1, <1>2, EmptyPipe DEF PipeInv, GreetingIsFirst, HandshakeIsFresh, TrustedIsClean, ServedIsTracked,
     ControlsAreFirst

\* A worker is relaunched, or stays down.
LEMMA RelaunchPipe ==
    ASSUME PipeInv, Relaunch, isReady' = FALSE, active' = None
    PROVE  PipeInv'
<1>1. CASE Launch /\ at' = "recover" /\ staged' = {}
  BY <1>1, FreshPipe
<1>2. CASE Reap
  BY <1>2, StopPipe
<1> QED
  BY <1>1, <1>2 DEF Relaunch
\* The control commands are among the commands.
LEMMA PlainControls == {Message("UpdateLimit", None), Message("ClearCache", None)} \subseteq ControlCommands
BY CommandTypes DEF ControlCommands, Message

\* So is a swap.
LEMMA SwapControls == ASSUME NEW m \in Models PROVE Message("SwapModel", m) \in ControlCommands
BY CommandTypes DEF ControlCommands, Message

\* An error in any other wait contains the worker.
LEMMA TroubleIsContained ==
    ASSUME ControlInv, Trouble, ~Uncontained
    PROVE  \E p \in {"top", "tidy", "observe"} : \E A, B : Contain(p, A, B)
BY Holds DEF Trouble

\* The pipe invariant holds at the start.
LEMMA PipeInit == Init => PipeInv
<1> SUFFICES ASSUME Init PROVE PipeInv
    OBVIOUS
<1>1. commands = << >> /\ events = Greeting /\ serving = None /\ ~isReady /\ active = None /\ at = "top"
  BY DEF Init
<1>2. Len(Greeting) = 2 /\ Greeting[1] = Message("Idle", None) /\ Greeting[2] = Message("Config", None)
  BY DEF Greeting
<1>3. Message("Config", None) \notin Idles \cup RequestEvents /\ Message("Idle", None) \notin RequestEvents
  BY DEF Message, Idles, RequestEvents
<1>4. NoneAfter(Greeting, Idles, Idles)
  BY <1>2, <1>3 DEF NoneAfter
<1>5. Free(Greeting, RequestEvents)
  BY <1>3, GreetingSays DEF Free
<1>6. Clean
  BY <1>1, <1>5, EmptyPipe DEF Clean
<1> QED
  BY <1>1, <1>4, <1>6, EmptyPipe DEF PipeInv, GreetingIsFirst, HandshakeIsFresh, TrustedIsClean,
     ServedIsTracked, ControlsAreFirst

\* And every step keeps it.
LEMMA PipeNext == ControlInv /\ PipeInv /\ [Next]_vars => PipeInv'
<1> SUFFICES ASSUME ControlInv, PipeInv, [Next]_vars PROVE PipeInv'
    OBVIOUS
<1> USE Holds
<1>1. CASE WorkerAnswers
  BY <1>1, AnswersPipe
<1>2. CASE WorkerAdvances
  BY <1>2, AdvancesPipe
<1>3. CASE WorkerCrashes
  BY <1>3, CrashPipe
<1>4. CASE DrainLimit
  <2>1. CASE UNCHANGED workerVars /\ UNCHANGED <<healthVars, activeVars>> /\ at' \in {"top", "tidy", "observe"}
    BY <1>4, <2>1, QuietPipe DEF DrainLimit, healthVars, activeVars, Special
  <2>2. ASSUME NEW p \in {"top", "tidy", "observe"}, Contain(p, {}, {}) PROVE PipeInv'
    BY <2>2, ContainPipe
  <2>3. CASE active = None /\ Writable /\ Send(Message("UpdateLimit", None)) /\ UNCHANGED <<healthVars, activeVars>> /\ at' = "limit"
    <3>1. PICK c : c = Message("UpdateLimit", None)
      OBVIOUS
    <3>2. c \in ControlCommands
      BY <3>1, PlainControls
    <3> QED
      BY <1>4, <2>3, <3>1, <3>2, TellPipe DEF DrainLimit, healthVars, activeVars, Special
  <2> QED
    BY <1>4, <2>1, <2>2, <2>3 DEF DrainLimit, AwaitReply, Stay, Settle, ControlIsIdle
<1>5. CASE DrainClear
  <2>1. CASE UNCHANGED workerVars /\ UNCHANGED <<healthVars, activeVars>> /\ at' \in {"top", "tidy", "observe"}
    BY <1>5, <2>1, QuietPipe DEF DrainClear, healthVars, activeVars, Special
  <2>2. ASSUME NEW p \in {"top", "tidy", "observe"}, Contain(p, {}, {}) PROVE PipeInv'
    BY <2>2, ContainPipe
  <2>3. CASE active = None /\ Writable /\ Send(Message("ClearCache", None)) /\ UNCHANGED <<healthVars, activeVars>> /\ at' = "clear"
    <3>1. PICK c : c = Message("ClearCache", None)
      OBVIOUS
    <3>2. c \in ControlCommands
      BY <3>1, PlainControls
    <3> QED
      BY <1>5, <2>3, <3>1, <3>2, TellPipe DEF DrainClear, healthVars, activeVars, Special
  <2> QED
    BY <1>5, <2>1, <2>2, <2>3 DEF DrainClear, AwaitReply, Stay, Settle, ControlIsIdle
<1>6. CASE Observe
  BY <1>6, QuietPipe DEF Observe, Stay, healthVars, activeVars, Special
<1>7. CASE ReadEvent
  BY <1>7, EventPipe
<1>8. CASE ReadViolation
  <2>1. CASE Uncontained
    <3>1. Consume /\ events # << >> /\ UNCHANGED <<isReady, status, active>> /\ at' = "top"
      BY <1>8, <2>1 DEF ReadViolation, Trouble, Uncontained, Settle, healthVars, activeVars
    <3> QED
      BY <1>8, <2>1, <3>1, HearPipe DEF Uncontained, Special
  <2>2. CASE ~Uncontained
    BY <1>8, <2>2, TroubleIsContained, ContainPipe DEF ReadViolation
  <2> QED
    BY <2>1, <2>2
<1>9. CASE ReadEnd
  BY <1>9, StopPipe DEF ReadEnd
<1>10. CASE WaitTimesOut
  <2>1. CASE at = "restore"
    <3>1. UNCHANGED <<workerVars, isReady, status, active>> /\ at' = "top"
      BY <1>10, <2>1 DEF WaitTimesOut, Settle, activeVars
    <3> QED
      BY <2>1, <3>1, QuietPipe DEF Special
  <2>2. ASSUME NEW p \in {"top", "tidy", "observe"}, NEW A, NEW B, Contain(p, A, B) PROVE PipeInv'
    BY <2>2, ContainPipe
  <2> QED
    BY <1>10, <2>1, <2>2 DEF WaitTimesOut
<1>11. CASE ReadCleared
  BY <1>11, HearPipe DEF ReadCleared, Settle, healthVars, activeVars, Special
<1>12. CASE StartupDone
  BY <1>12, QuietPipe DEF StartupDone, Stay, healthVars, activeVars, Special
<1>13. CASE ChooseModel
  <2>1. CASE UNCHANGED <<workerVars, healthVars, activeVars>> /\ at' \in {"dispatch", "top"}
    BY <1>13, <2>1, QuietPipe DEF ChooseModel, healthVars, activeVars, Special
  <2>2. CASE Writable /\ AskForModel
    <3>1. PICK c : c = Message("SwapModel", Wants[cur])
      OBVIOUS
    <3>2. c \in ControlCommands
      BY <1>13, <3>1, SwapControls, LoopAssumption DEF ChooseModel, ControlInv, Posture, PositionIsSound, Starting
    <3> QED
      BY <1>13, <2>2, <3>1, <3>2, TellPipe DEF ChooseModel, AskForModel, healthVars, activeVars, Special, ActivePositions
  <2>3. CASE Contain("top", {cur}, {})
    BY <2>3, ContainPipe
  <2> QED
    BY <1>13, <2>1, <2>2, <2>3 DEF ChooseModel, Refuse, Stay, Settle
<1>14. CASE ReadSwapReply
  <2>1. isReady /\ status = "Ready"
    BY <1>14 DEF ReadSwapReply, Swapping, ControlInv, Posture, PositionIsSound, ReadyIsPublished, Starting
  <2>2. events # << >> /\ Consume /\ UNCHANGED <<active, isReady>> /\ at \notin Special /\ at' \notin Special
    BY <1>14 DEF ReadSwapReply, Swapping, Settle, healthVars, activeVars, Special
  <2> QED
    BY <2>1, <2>2, HearPipe DEF Special
<1>15. CASE ReadSwapFailure
  <2>1. isReady /\ status = "Ready"
    BY <1>15 DEF ReadSwapFailure, Swapping, ControlInv, Posture, PositionIsSound, ReadyIsPublished, Starting
  <2>2. events # << >> /\ Consume /\ UNCHANGED <<active, isReady>> /\ at \notin Special /\ at' \notin Special
    BY <1>15 DEF ReadSwapFailure, Swapping, Settle, Refuse, healthVars, activeVars, Special
  <2> QED
    BY <2>1, <2>2, HearPipe DEF Special
<1>16. CASE Dispatch
  <2>1. CASE DropDisconnected \/ RejectStart
    BY <1>16, <2>1, QuietPipe DEF Dispatch, DropDisconnected, RejectStart, Refuse, Settle, healthVars, activeVars, Special
  <2>2. CASE StartRequest
    BY <1>16, <2>2, StartPipe DEF Dispatch, StartRequest, Settle, Stay, Special
  <2>3. CASE FailStart
    BY <2>3, ContainPipe DEF FailStart
  <2> QED
    BY <1>16, <2>1, <2>2, <2>3 DEF Dispatch
<1>17. CASE ReadCancelled
  BY <1>17, CancelledPipe
<1>18. CASE CancelFails
  BY <1>18, CancelFailsPipe
<1>19. CASE ReplaceUncancelled
  <2>1. isReady' = FALSE /\ active' = None
    BY <1>19 DEF ReplaceUncancelled, activeVars, ActivePositions
  <2> QED
    BY <1>19, <2>1, RelaunchPipe, StayDownPipe DEF ReplaceUncancelled
<1>20. CASE ReadRecovery
  BY <1>20, AckPipe DEF ReadRecovery, Settle, activeVars, healthVars
<1>21. CASE RecoveryFails
  <2>1. isReady' = FALSE /\ active' = None
    BY <1>21 DEF RecoveryFails, activeVars, ActivePositions
  <2> QED
    BY <1>21, <2>1, StayDownPipe DEF RecoveryFails, ForceTerminate
<1>22. CASE CandidateAcknowledged
  BY <1>22, QuietPipe DEF CandidateAcknowledged, Stay, healthVars, activeVars, Special
<1>23. CASE CandidateRejected
  BY <1>23, QuietPipe DEF CandidateRejected, Settle, healthVars, activeVars, Special
<1>24. CASE CommitCandidate
  BY <1>24, CommitPipe
<1>25. CASE StopTrusted
  BY <1>25, StopPipe DEF StopTrusted
<1>26. CASE CloseTrustedFails
  <2>1. active' = None /\ isReady' = FALSE /\ status' = "Unavailable" /\ at' = "top"
    BY <1>26 DEF CloseTrustedFails, activeVars, ActivePositions, PublishUnavailable, Settle
  <2> QED
    BY <1>26, <2>1, StopPipe, DownPipe DEF CloseTrustedFails, Special
<1>27. CASE LaunchDemoted
  <2>1. active' = None /\ ~isReady' /\ staged = {}
    BY <1>27 DEF LaunchDemoted, activeVars, ActivePositions
  <2>2. CASE Launch /\ Stay("handshake")
    BY <1>27, <2>1, <2>2, FreshPipe DEF Stay
  <2>3. CASE UNCHANGED workerVars /\ PublishUnavailable("Unavailable") /\ Settle("top")
    BY <1>27, <2>1, <2>3, DownPipe DEF PublishUnavailable, Settle, Special
  <2> QED
    BY <1>27, <2>2, <2>3 DEF LaunchDemoted
<1>28. CASE ReadHandshake
  BY <1>28, AckPipe DEF ReadHandshake, activeVars, healthVars
<1>29. CASE HandshakeFails
  BY <1>29, StopPipe DEF HandshakeFails
<1>30. CASE ReloadModel
  <2>1. active = None
    BY <1>30 DEF ReloadModel, ActivePositions
  <2>2. CASE UNCHANGED workerVars /\ at' = "top"
    BY <1>30, <2>2, QuietPipe DEF ReloadModel, healthVars, activeVars, Special
  <2>3. CASE cur # None /\ Writable /\ Send(Message("SwapModel", cur)) /\ at' = "restore"
    <3>1. PICK c : c = Message("SwapModel", cur)
      OBVIOUS
    <3>2. cur \in Models
      BY <1>30, <2>3, TypeParts DEF ReloadModel, ControlInv, Posture, PositionIsSound, NameTypes
    <3>3. c \in ControlCommands
      BY <3>1, <3>2, SwapControls
    <3> QED
      BY <1>30, <2>1, <2>3, <3>1, <3>3, TellPipe DEF ReloadModel, healthVars, activeVars, Special
  <2> QED
    BY <1>30, <2>2, <2>3 DEF ReloadModel, Settle
<1>31. CASE CancelAbandoned
  <2>1. active # None
    BY <1>31, TypeParts, ProtocolAssumption DEF CancelAbandoned, ControlInv, ClientTypes
  <2> QED
    BY <1>31, <2>1, CancelPipe DEF CancelAbandoned, SendCancel, Send, workerVars
<1>32. CASE CancelBackpressured
  BY <1>32, CancelPipe DEF CancelBackpressured
<1>33. CASE CancelOverdue
  BY <1>33, CancelPipe DEF CancelOverdue, SendCancel, Send, workerVars
<1>34. CASE RelaunchContained
  <2>1. isReady' = FALSE /\ active' = None
    BY <1>34 DEF RelaunchContained, activeVars, ControlInv, RelaunchIsOwed
  <2> QED
    BY <1>34, <2>1, RelaunchPipe DEF RelaunchContained
<1>35. CASE LoadDeadlinePasses
  BY <1>35, ContainPipe DEF LoadDeadlinePasses
<1>36. CASE IdleTick
  BY <1>36, QuietPipe DEF IdleTick, Settle, healthVars, activeVars, Special
<1>37. CASE UpdateLimit
  <2>1. CASE UNCHANGED workerVars /\ UNCHANGED <<healthVars, activeVars>> /\ at' \in {"top", "tidy", "observe"}
    BY <1>37, <2>1, QuietPipe DEF UpdateLimit, healthVars, activeVars, Special
  <2>2. ASSUME NEW p \in {"top", "tidy", "observe"}, Contain(p, {}, {}) PROVE PipeInv'
    BY <2>2, ContainPipe
  <2>3. CASE active = None /\ Writable /\ Send(Message("UpdateLimit", None)) /\ UNCHANGED <<healthVars, activeVars>> /\ at' = "limit"
    <3>1. PICK c : c = Message("UpdateLimit", None)
      OBVIOUS
    <3>2. c \in ControlCommands
      BY <3>1, PlainControls
    <3> QED
      BY <1>37, <2>3, <3>1, <3>2, TellPipe DEF UpdateLimit, healthVars, activeVars, Special
  <2> QED
    BY <1>37, <2>1, <2>2, <2>3 DEF UpdateLimit, AwaitReply, Stay, Settle, ControlIsIdle
<1>38. CASE ClearPromptCache
  <2>1. CASE UNCHANGED workerVars /\ UNCHANGED <<healthVars, activeVars>> /\ at' \in {"top", "tidy", "observe"}
    BY <1>38, <2>1, QuietPipe DEF ClearPromptCache, healthVars, activeVars, Special
  <2>2. ASSUME NEW p \in {"top", "tidy", "observe"}, Contain(p, {}, {}) PROVE PipeInv'
    BY <2>2, ContainPipe
  <2>3. CASE active = None /\ Writable /\ Send(Message("ClearCache", None)) /\ UNCHANGED <<healthVars, activeVars>> /\ at' = "clear"
    <3>1. PICK c : c = Message("ClearCache", None)
      OBVIOUS
    <3>2. c \in ControlCommands
      BY <3>1, PlainControls
    <3> QED
      BY <1>38, <2>3, <3>1, <3>2, TellPipe DEF ClearPromptCache, healthVars, activeVars, Special
  <2> QED
    BY <1>38, <2>1, <2>2, <2>3 DEF ClearPromptCache, AwaitReply, Stay, Settle, ControlIsIdle
<1>39. CASE RestartWorker
  BY <1>39, QuietPipe DEF RestartWorker, Stay, Settle, healthVars, activeVars, Special
<1>40. CASE DemoteWorker
  <2>1. UNCHANGED <<workerVars, active>> /\ at \notin Special /\ at' \notin Special
    BY <1>40 DEF DemoteWorker, Settle, activeVars, Special
  <2>2. (isReady' => isReady) /\ (status' # "Unavailable" => status # "Unavailable")
    BY <1>40 DEF DemoteWorker, PublishUnavailable, ReplacementAllowed, healthVars, ControlInv, Posture, ReadyIsPublished
  <2> QED
    BY <2>1, <2>2, QuietPipe DEF Special
<1>41. CASE Shutdown
  <2>1. status' = "Unavailable" /\ isReady' = isReady /\ active' = None /\ at' = "exited"
    BY <1>41 DEF Shutdown, PublishUnavailable, Settle
  <2> QED
    BY <1>41, <2>1, StopPipe, DownPipe DEF Shutdown, ForceTerminate, Special
<1>42. ASSUME NEW r \in Requests, Submit(r) PROVE PipeInv'
  BY <1>42, StillPipe DEF Submit
<1>43. ASSUME NEW r \in Requests, SendRequest(r) PROVE PipeInv'
  BY <1>43, StillPipe DEF SendRequest
<1>44. ASSUME NEW r \in Requests, HangUp(r) PROVE PipeInv'
  BY <1>44, StillPipe DEF HangUp
<1>45. ASSUME NEW r \in Requests, TakeRequest(r) PROVE PipeInv'
  BY <1>45, QuietPipe DEF TakeRequest, Settle, healthVars, activeVars, Special
<1>46. CASE UNCHANGED vars
  BY <1>46, StillPipe DEF vars
<1> QED
  BY <1>1, <1>2, <1>3, <1>4, <1>5, <1>6, <1>7, <1>8, <1>9, <1>10, <1>11, <1>12, <1>13, <1>14,
      <1>15, <1>16, <1>17, <1>18, <1>19, <1>20, <1>21, <1>22, <1>23, <1>24, <1>25, <1>26,
      <1>27, <1>28, <1>29, <1>30, <1>31, <1>32, <1>33, <1>34, <1>35, <1>36, <1>37, <1>38,
      <1>39, <1>40, <1>41, <1>42, <1>43, <1>44, <1>45, <1>46
      DEF Next, Worker, Steps, Arms, Client

-----------------------------------------------------------------------------
(***************************************************************************)
(* The theorems                                                            *)
(***************************************************************************)

\* The two invariants hold throughout: by induction over the steps of the worker,
\* the clients and the loop.
THEOREM LoopInductive == Spec => [](ControlInv /\ PipeInv)
<1>1. Init => ControlInv /\ PipeInv
  BY ControlInit, PipeInit
<1>2. ControlInv /\ PipeInv /\ [Next]_vars => (ControlInv /\ PipeInv)'
  BY ControlNext, PipeNext
<1> QED
  BY <1>1, <1>2, PTL DEF Spec

(***************************************************************************)
(* Every variable of the loop, its worker and its clients keeps its type,  *)
(* for every number of requests and models, every pipe bound, every fault  *)
(* and every control command.                                              *)
(***************************************************************************)
THEOREM LoopTypeCorrect == Spec => []TypeOK
<1>1. ControlInv /\ PipeInv => TypeOK
  BY DEF ControlInv
<1> QED
  BY <1>1, LoopInductive, PTL

(***************************************************************************)
(* A client hears at most one refusal or outcome, whichever of the         *)
(* request's own event, a containment, a deadline, a cancellation and a    *)
(* shutdown comes first, and whichever comes after.                        *)
(***************************************************************************)
THEOREM OneAnswer == Spec => []AtMostOneAnswer
<1>1. ControlInv /\ PipeInv => AtMostOneAnswer
  <2> SUFFICES ASSUME ControlInv, NEW r \in Requests PROVE answers[r] <= 1
    BY DEF AtMostOneAnswer
  <2>1. answers[r] \in {0, 1}
    BY DEF ControlInv, Ledger, AnswersAreCounted
  <2> QED
    BY <2>1
<1> QED
  BY <1>1, LoopInductive, PTL

(***************************************************************************)
(* A ready worker without an active request has nothing of an earlier one  *)
(* left: not in hand, not in its commands, not in its events.              *)
(***************************************************************************)
THEOREM NoWorkIsOrphaned == Spec => []NoOrphanWork
<1>1. ControlInv /\ PipeInv => NoOrphanWork
  <2> SUFFICES ASSUME ControlInv, PipeInv, Normal, isReady, active = None, proc = "up"
               PROVE  /\ serving = None /\ ~InPipe(events, RequestEvents)
                      /\ \A i \in DOMAIN commands : commands[i].type # "Generate"
    BY DEF NoOrphanWork
  <2>1. Clean
    BY DEF PipeInv, TrustedIsClean, ControlInv, Posture, ReadyIsPublished, Normal
  <2>2. /\ events \in Seq(Events) /\ commands \in Seq(Commands)
        /\ DOMAIN events = 1..Len(events) /\ DOMAIN commands = 1..Len(commands)
    BY Holds
  <2>3. ~InPipe(events, RequestEvents)
    BY <2>1, <2>2 DEF InPipe, Clean, Free, Says
  <2>4. ASSUME NEW i \in DOMAIN commands PROVE commands[i].type # "Generate"
    <3>1. commands[i] \in Commands /\ commands[i] \in Says(commands)
      BY <2>2 DEF Says
    <3> QED
      BY <2>1, <3>1, MessageSets DEF Clean, Free
  <2> QED
    BY <2>1, <2>3, <2>4 DEF Clean
<1> QED
  BY <1>1, LoopInductive, PTL

(***************************************************************************)
(* A model swap, a ceiling update and a cache clear only ever wait for a   *)
(* worker that serves no request and has none before them in its pipe.     *)
(***************************************************************************)
THEOREM ControlIsHeard == Spec => []ControlReachesIdleWorker
<1>1. ControlInv /\ PipeInv => ControlReachesIdleWorker
  <2> SUFFICES ASSUME ControlInv, PipeInv, status # "Unavailable", NEW i \in DOMAIN commands,
                      commands[i].type \in {"SwapModel", "UpdateLimit", "ClearCache"}
               PROVE  serving = None /\ \A j \in 1..i : commands[j].type # "Generate"
    BY DEF ControlReachesIdleWorker
  <2>1. commands \in Seq(Commands) /\ i \in 1..Len(commands) /\ Len(commands) \in Nat
    BY Holds
  <2>2. commands[i] \in ControlCommands /\ commands[i] \in Says(commands)
    BY <2>1 DEF ControlCommands, Says
  <2>3. serving = None /\ NoneAfter(commands, Generates, ControlCommands)
    BY <2>2 DEF PipeInv, ControlsAreFirst, Free
  <2>4. ASSUME NEW j \in 1..i PROVE commands[j].type # "Generate"
    <3>1. CASE j = i
      BY <3>1
    <3>2. CASE j # i
      <4>1. j \in 1..Len(commands) /\ j < i /\ commands[j] \in Commands
        BY <2>1, <3>2
      <4>2. commands[j] \notin Generates
        BY <2>1, <2>2, <2>3, <4>1 DEF NoneAfter
      <4> QED
        BY <4>1, <4>2, MessageSets
    <3> QED
      BY <3>1, <3>2
  <2> QED
    BY <2>3, <2>4
<1> QED
  BY <1>1, LoopInductive, PTL
=============================================================================
