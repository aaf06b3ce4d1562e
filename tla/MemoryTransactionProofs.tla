---------------------- MODULE MemoryTransactionProofs ----------------------
(***************************************************************************)
(* For any settings, policies, listeners and numbers of edits, calls,      *)
(* requests and failures, with clients that go away and with workers that  *)
(* refuse a ceiling: memory transactions do not overlap, a setting that    *)
(* was reported applied is the one the next worker is launched with, and a *)
(* running worker is what a relaunch would start.  Without those two       *)
(* faults every pending generation has an owner, and with them one that a  *)
(* client was told is applied or queued.                                   *)
(*                                                                         *)
(* The argument follows one transaction through its hands: the handler,    *)
(* the loop's queue, the reconciler.  Each part of the invariant says what *)
(* the one who holds it may rely on.                                       *)
(***************************************************************************)
EXTENDS MemoryTransaction, SequenceTheorems, TLAPS

-----------------------------------------------------------------------------
(* The inductive invariant *)

\* The setting a generation stands for: that of the last memory-only
\* transition, or of the document.
MemOf(g) == IF Len(g) = 1 THEN g[1].mem ELSE g[Len(g)].only

Consistent(c) == c \in Configuration /\ c.mem = MemOf(c.gen)

\* A candidate is read from a document.
FromDocument(c) == Consistent(c) /\ Len(c.gen) = 1 /\ c.gen[1] \in Document

\* Whatever names a setting names that of its generation.
NamesItsSetting ==
    /\ Consistent(live)
    /\ StartCeiling(launch.mem) = StartCeiling(MemOf(launch.gen))
    /\ queued # None =>
          MemOf(queued.gen) \in Settings /\ queued.ceiling = CeilingOf(MemOf(queued.gen))

\* What the handler carries from one await to the next.
CallIsSound ==
    call.at # "idle" =>
        /\ call.kind = IF call.at \in {"compare", "write"} THEN "update"
                       ELSE IF call.at \in {"replace", "replaced", "respond"} THEN "reload"
                       ELSE call.kind
        /\ call.kind # "none"
        /\ FromDocument(call.cand)
        /\ Consistent(call.prior)
        /\ call.gen \in Generation
        /\ call.at \in {"compare", "write"} => CeilingOf(call.cand.mem) <= Machine
        /\ CallOwns \/ call.at = "respond" =>
              /\ CeilingOf(call.cand.mem) <= Machine
              /\ MemOf(call.gen) = call.cand.mem
              /\ \/ call.kind = "reload" /\ Compare(call.prior, call.cand) = "RestApiRestartRequired"
                 \/ call.gen = call.cand.gen

\* What the reconciler carries; it works beside the handler that spawned it
\* at most.
TaskIsSound ==
    TaskOwns =>
        /\ task.kind # "none"
        /\ Consistent(task.prior)
        /\ task.gen \in Generation
        /\ task.kind = "update" \/ task.at \in {"demote", "restart", "settle"} => Consistent(task.cand)
        /\ task.kind = "update" => live = task.cand /\ task.gen = task.cand.gen
        /\ call.at = "idle" \/ (call.at = "respond" /\ task.kind = "reload" /\ answer = "queued")

\* A pending generation that nobody will clear: no transaction starts any more.
PendingIsLost == pending # None /\ ~CallOwns /\ ~TaskOwns

\* A command that a dropped handler left in the channel.
CommandIsSound(c) ==
    /\ c.at \in {"sent", "restart", "replace"}
    /\ FromDocument(c.cand)
    /\ c.at = "sent" =>
          c.gen \in Generation /\ MemOf(c.gen) = c.cand.mem /\ CeilingOf(c.cand.mem) <= Machine

SoundCommands == {c \in Calls : CommandIsSound(c)}

UpdateAbandoned == \E i \in 1..Len(abandoned) : abandoned[i].at = "sent"

\* While such a command waits no transaction is in the loop's hands, and an
\* update among them has left its generation behind.
AbandonedIsKept ==
    /\ abandoned \in Seq(SoundCommands)
    /\ abandoned # <<>> =>
          /\ answer = "dropped" /\ ~TaskOwns
          /\ call.at \in {"idle", "compare", "write", "sent", "replace"}
    /\ UpdateAbandoned => PendingIsLost

\* Only a refused reload and a dropped handler lose a pending generation.
LossNeedsFault ==
    Faults = {} =>
        /\ abandoned = <<>> /\ ~PendingIsLost
        /\ ~(call.at = "answered" /\ call.outcome = "Rejected" /\ call.kind = "reload")

\* A handler that has not staged its generation yet finds none staged.
TransactionIsAlone ==
    /\ OneTransactionAtATime
    /\ PendingIsLost => call.at = "idle" /\ answer \in {"failed", "dropped"}
    /\ call.at \in {"compare", "write", "replace", "replaced"} => pending = None
    /\ AbandonedIsKept
    /\ LossNeedsFault

\* A worker that serves or loads is up, and a demotion finds it idle.
RequestsAreKept ==
    /\ active => worker.up
    /\ swap # None => worker.up /\ ~active
    /\ call.at = "restart" \/ task.at = "restart" => GenerationIsIdle

\* A queued update is that of the transaction in progress, whose owner sees
\* that it is still pending, or that of a dropped handler.
QueueHasAnOwner ==
    queued # None =>
        /\ health.pendingCeiling /\ worker.up /\ swap = None
        /\ \/ call.at = "answered" /\ call.outcome = "Queued" /\ queued.gen = call.gen
           \/ task.at \in {"poll", "demote", "restart"} /\ queued.gen = task.gen
           \/ PendingIsLost

\* The reconciler does not mistake an older acknowledgement for its own.
LandingIsReal ==
    /\ /\ queued = None /\ ~health.limitError
       /\ \/ call.at = "answered" /\ call.outcome = "Queued" /\ health.gen = call.gen
          \/ task.at = "poll" /\ health.gen = task.gen
       => launch.gen = health.gen
    /\ task.at = "finalize" /\ task.landed => launch.gen = task.gen
    /\ task.at = "settle" /\ task.landed => launch = [mem |-> task.cand.mem, gen |-> task.cand.gen]

\* From the worker's answer to the client's, nobody launches anything else.
OutcomeIsLaunched ==
    /\ call.at = "answered" /\ call.outcome = "Applied" =>
          launch = [mem |-> CeilingOf(call.cand.mem), gen |-> call.gen]
    /\ call.at \in {"restarted", "replaced"} /\ call.outcome = "Applied" =>
          launch = [mem |-> call.cand.mem, gen |-> call.cand.gen]
    /\ call.at = "respond" /\ answer \in {"applied", "restarted"} =>
          /\ StartCeiling(call.cand.mem) = StartCeiling(launch.mem)
          /\ answer = "applied" => launch.gen = call.gen
    /\ call.at \in {"idle", "compare"} /\ task.at = "none" =>
          /\ answer \in {"applied", "restarted"} => StartCeiling(live.mem) = StartCeiling(launch.mem)
          /\ answer = "applied" => live.gen = launch.gen

IInv ==
    /\ TypeOK /\ NamesItsSetting /\ CallIsSound /\ TaskIsSound /\ TransactionIsAlone
    /\ RequestsAreKept /\ QueueHasAnOwner /\ RelaunchRemembers /\ LandingIsReal
    /\ OutcomeIsLaunched

-----------------------------------------------------------------------------
(* Ceilings, documents and generations *)

\* A setting asks for a positive ceiling, and a starting worker keeps it within
\* the machine.
LEMMA Ceilings ==
    ASSUME NEW m \in Settings \cup {Machine}
    PROVE  /\ CeilingOf(m) \in Nat \ {0}
           /\ StartCeiling(m) \in 1..Machine
           /\ StartCeiling(CeilingOf(m)) = StartCeiling(m)
           /\ CeilingOf(m) <= Machine => CeilingOf(m) \in 1..Machine /\ StartCeiling(m) = CeilingOf(m)
           /\ CeilingOf(m) \in Settings \cup {Machine}
<1>1. CeilingOf(m) \in Nat \ {0} /\ Machine \in Nat \ {0}
  BY SettingsAssumption DEF CeilingOf
<1>2. CeilingOf(CeilingOf(m)) = CeilingOf(m)
  BY DEF CeilingOf
<1>3. CeilingOf(m) \in Settings \cup {Machine}
  BY DEF CeilingOf
<1>4. QED
  BY <1>1, <1>2, <1>3 DEF StartCeiling

\* What is read from a document is a configuration of its setting.
LEMMA ResolvedIsSound ==
    ASSUME NEW d \in Document
    PROVE  /\ FromDocument(Resolved(d))
           /\ Resolved(d).mem = d.mem /\ Resolved(d).gen = <<d>>
           /\ <<d>> \in Generation /\ MemOf(<<d>>) = d.mem
<1>1. <<d>> \in Generation
  BY DEF Generation
<1>2. MemOf(<<d>>) = d.mem
  BY DEF MemOf
<1>3. QED
  BY <1>1, <1>2 DEF Resolved, FromDocument, Consistent, Configuration, Document

\* A memory-only transition names its own setting.
LEMMA AppendedSetting ==
    ASSUME NEW g \in Generation, NEW m \in Settings
    PROVE  /\ Append(g, [only |-> m]) \in Generation
           /\ MemOf(Append(g, [only |-> m])) = m
<1>1. Len(g) > 0 /\ g \in Seq(Document \cup [only : Settings])
  BY DEF Generation
<1>2. [only |-> m] \in Document \cup [only : Settings]
  OBVIOUS
<1>3. QED
  BY <1>1, <1>2 DEF Generation, MemOf

\* memory_effective_generation_for_reload names the candidate's setting.
LEMMA EffectiveIsSound ==
    ASSUME NEW c, NEW d, Consistent(c), FromDocument(d), c.mem # d.mem
    PROVE  /\ EffectiveGeneration(c, d) \in Generation
           /\ MemOf(EffectiveGeneration(c, d)) = d.mem
           /\ Compare(c, d) # "RestApiRestartRequired" => EffectiveGeneration(c, d) = d.gen
<1>1. c.gen \in Generation /\ d.mem \in Settings /\ d.gen \in Generation /\ d.mem = MemOf(d.gen)
  BY DEF Consistent, FromDocument, Configuration
<1>2. QED
  BY <1>1, AppendedSetting DEF EffectiveGeneration

-----------------------------------------------------------------------------
(* Health, workers and what the loop does to them *)

\* What a worker and its health are after a launch and after a containment.
LEMMA FreshWorkers ==
    ASSUME NEW s \in Snapshots, NEW b \in BOOLEAN, NEW g \in OptionalGeneration
    PROVE  /\ Started(s, b) \in Workers /\ Started(s, b).up
           /\ Started(s, b).gen = s.gen /\ Started(s, b).ceiling = StartCeiling(s.mem)
           /\ Ready(g) \in Healths /\ Unavailable \in Healths /\ Ready(g).gen = g
           /\ Down \in Workers /\ ~Down.up /\ Unavailable.gen = None
<1>1. s.mem \in Settings \cup {Machine} /\ s.gen \in Generation /\ Machine \in Nat
  BY SettingsAssumption DEF Snapshots
<1>2. StartCeiling(s.mem) \in 1..Machine
  BY <1>1, Ceilings
<1>3. /\ Started(s, b) \in Workers /\ Started(s, b).up
      /\ Started(s, b).gen = s.gen /\ Started(s, b).ceiling = StartCeiling(s.mem)
  BY <1>1, <1>2 DEF Started, Workers, OptionalGeneration
<1>4. /\ Ready(g) \in Healths /\ Unavailable \in Healths /\ Ready(g).gen = g
      /\ Unavailable.gen = None
  BY DEF Ready, Unavailable, Healths, OptionalGeneration
<1>5. Down \in Workers /\ ~Down.up
  BY <1>1 DEF Down, Workers, OptionalGeneration
<1> QED
  BY <1>3, <1>4, <1>5

\* contain_worker_failure leaves a health without a generation.
LEMMA Containment ==
    ASSUME Contain
    PROVE  /\ health' \in Healths /\ worker' \in Workers /\ launch' = launch
           /\ health'.gen = None /\ ~worker'.up
<1>1. PICK s \in Snapshots : TRUE
  <2>1. [mem |-> Machine, gen |-> <<[only |-> NoLimit]>>] \in Snapshots
    BY SettingsAssumption DEF Snapshots, Generation
  <2> QED
    BY <2>1
<1>2. None \in OptionalGeneration
  BY DEF OptionalGeneration
<1> QED
  BY <1>1, <1>2, FreshWorkers DEF Contain

\* An update that is applied is what the next worker is launched with; one that
\* is not leaves the snapshot alone, and health says so.
LEMMA LimitOutcome ==
    ASSUME TypeOK, NamesItsSetting, RelaunchRemembers,
           NEW update \in Update, NEW outcome, ApplyLimit(update, outcome),
           MemOf(update.gen) \in Settings, update.ceiling = CeilingOf(MemOf(update.gen))
    PROVE  /\ health' \in Healths /\ worker' \in Workers /\ launch' \in Snapshots
           /\ used' \in [{"edits", "calls", "requests", "failures"} -> Nat]
           /\ StartCeiling(launch'.mem) = StartCeiling(MemOf(launch'.gen))
           /\ worker'.up => worker'.gen = launch'.gen /\ worker'.ceiling = StartCeiling(launch'.mem)
           /\ outcome = "Applied" => launch' = [mem |-> update.ceiling, gen |-> update.gen]
           /\ outcome # "Applied" => launch' = launch
           /\ outcome # "Applied" /\ worker.up => health'.limitError \/ health'.gen = None
<1> USE DEF workerVars
<1>1. /\ health \in Healths /\ worker \in Workers /\ launch \in Snapshots
      /\ used \in [{"edits", "calls", "requests", "failures"} -> Nat]
      /\ StartCeiling(launch.mem) = StartCeiling(MemOf(launch.gen))
      /\ worker.up => worker.gen = launch.gen /\ worker.ceiling = StartCeiling(launch.mem)
  BY DEF TypeOK, NamesItsSetting, RelaunchRemembers
<1>2. /\ update.gen \in Generation /\ update.ceiling \in 1..Machine
      /\ update.ceiling \in Settings \cup {Machine}
      /\ StartCeiling(update.ceiling) = StartCeiling(MemOf(update.gen))
      /\ StartCeiling(update.ceiling) = update.ceiling
  <2>1. update.gen \in Generation /\ update.ceiling \in 1..Machine /\ Machine \in Nat
    BY SettingsAssumption DEF Update
  <2> QED
    BY <2>1, Ceilings
<1>3. CASE outcome = "Applied"
  <2>1. Adopt(update) /\ UNCHANGED used /\ worker.up
    BY <1>3 DEF ApplyLimit
  <2>2. health' \in Healths
    BY <2>1, <1>1 DEF Adopt, Healths, OptionalGeneration
  <2>a. update.ceiling \in 0..Machine /\ update.gen \in OptionalGeneration
    BY <1>2, SettingsAssumption DEF OptionalGeneration
  <2>3. worker' \in Workers /\ worker'.gen = update.gen /\ worker'.ceiling = update.ceiling
    BY <2>1, <2>a, <1>1 DEF Adopt, Workers
  <2>4. launch' \in Snapshots /\ launch' = [mem |-> update.ceiling, gen |-> update.gen]
    BY <2>1, <1>2 DEF Adopt, Snapshots
  <2> QED
    BY <1>1, <1>2, <1>3, <2>1, <2>2, <2>3, <2>4
<1>4. CASE outcome = "RestartRequired" /\ worker.up
  <2>1. AskForRestart /\ UNCHANGED used
    BY <1>4 DEF ApplyLimit
  <2>2. health' \in Healths /\ health'.limitError
    BY <2>1, <1>1 DEF AskForRestart, Healths
  <2> QED
    BY <1>1, <1>4, <2>1, <2>2 DEF AskForRestart
<1>5. CASE outcome = "Rejected" /\ worker.up
  <2>1. Refuse /\ UNCHANGED used
    BY <1>5 DEF ApplyLimit
  <2>2. health' \in Healths /\ health'.limitError
    BY <2>1, <1>1 DEF Refuse, Healths, OptionalGeneration
  <2> QED
    BY <1>1, <1>5, <2>1, <2>2 DEF Refuse
<1>6. CASE outcome = "Failed" /\ worker.up
  <2>1. Contain /\ Spend("failures")
    BY <1>6 DEF ApplyLimit
  <2>2. used' \in [{"edits", "calls", "requests", "failures"} -> Nat]
    BY <2>1, <1>1 DEF Spend
  <2> QED
    BY <1>1, <1>6, <2>1, <2>2, Containment
<1>7. CASE outcome = "Failed" /\ ~worker.up
  BY <1>1, <1>7 DEF ApplyLimit
<1> QED
  BY <1>3, <1>4, <1>5, <1>6, <1>7 DEF ApplyLimit

\* A demotion that is applied launches its candidate.
LEMMA DemotionOutcome ==
    ASSUME TypeOK, NamesItsSetting, RelaunchRemembers,
           NEW candidate, Consistent(candidate), NEW outcome, Demote(candidate, outcome)
    PROVE  /\ health' \in Healths /\ worker' \in Workers /\ launch' \in Snapshots
           /\ used' \in [{"edits", "calls", "requests", "failures"} -> Nat]
           /\ StartCeiling(launch'.mem) = StartCeiling(MemOf(launch'.gen))
           /\ worker'.up => worker'.gen = launch'.gen /\ worker'.ceiling = StartCeiling(launch'.mem)
           /\ outcome = "Applied" => launch' = [mem |-> candidate.mem, gen |-> candidate.gen]
<1> DEFINE snapshot == [mem |-> candidate.mem, gen |-> candidate.gen]
<1> USE DEF workerVars
<1>1. /\ health \in Healths /\ worker \in Workers /\ launch \in Snapshots
      /\ used \in [{"edits", "calls", "requests", "failures"} -> Nat]
      /\ StartCeiling(launch.mem) = StartCeiling(MemOf(launch.gen))
      /\ worker.up => worker.gen = launch.gen /\ worker.ceiling = StartCeiling(launch.mem)
      /\ worker.model \in BOOLEAN
  BY DEF TypeOK, NamesItsSetting, RelaunchRemembers, Workers
<1>2. /\ snapshot \in Snapshots /\ candidate.gen \in OptionalGeneration
      /\ StartCeiling(snapshot.mem) = StartCeiling(MemOf(snapshot.gen))
  BY DEF Consistent, Configuration, Snapshots, OptionalGeneration
<1>3. Spend("failures") => used' \in [{"edits", "calls", "requests", "failures"} -> Nat]
  BY <1>1 DEF Spend
<1>4. CASE outcome = "Applied"
  <2>1. launch' = snapshot /\ worker' = Started(snapshot, worker.model)
        /\ health' = Ready(candidate.gen) /\ UNCHANGED used
    BY <1>4 DEF Demote
  <2> QED
    BY <1>1, <1>2, <1>4, <2>1, FreshWorkers
<1>5. CASE Contain /\ Spend("failures") /\ outcome = "Failed"
  BY <1>1, <1>3, <1>5, Containment
<1>6. CASE /\ launch' = snapshot /\ worker' = Started(snapshot, FALSE)
           /\ health' = Ready(candidate.gen) /\ Spend("failures") /\ outcome = "Failed"
  BY <1>1, <1>2, <1>3, <1>6, FreshWorkers
<1>7. CASE UNCHANGED <<workerVars, used>> /\ outcome = "Failed"
  BY <1>1, <1>7
<1> QED
  BY <1>4, <1>5, <1>6, <1>7 DEF Demote

\* An update that the loop takes is queued behind a generation, and applied or
\* not without one.
LEMMA UpdateOutcome ==
    ASSUME TypeOK, NamesItsSetting, RelaunchRemembers,
           NEW c, NEW outcome, QueueOrApply(c, outcome),
           c.cand.mem \in Settings, c.gen \in Generation, MemOf(c.gen) = c.cand.mem,
           CeilingOf(c.cand.mem) <= Machine
    PROVE  /\ health' \in Healths /\ worker' \in Workers /\ launch' \in Snapshots
           /\ used' \in [{"edits", "calls", "requests", "failures"} -> Nat]
           /\ StartCeiling(launch'.mem) = StartCeiling(MemOf(launch'.gen))
           /\ worker'.up => worker'.gen = launch'.gen /\ worker'.ceiling = StartCeiling(launch'.mem)
           /\ outcome = "Applied" => launch' = [mem |-> CeilingOf(c.cand.mem), gen |-> c.gen]
           /\ active => /\ outcome = "Queued" /\ UNCHANGED <<worker, launch>>
                        /\ queued' = [ceiling |-> CeilingOf(c.cand.mem), gen |-> c.gen]
                        /\ queued' \in Update /\ health'.pendingCeiling
                        /\ health' = [health EXCEPT !.pendingCeiling = TRUE]
           /\ ~active => outcome # "Queued" /\ queued' = queued
<1> DEFINE update == [ceiling |-> CeilingOf(c.cand.mem), gen |-> c.gen]
<1>1. /\ update \in Update /\ update.gen = c.gen /\ update.ceiling = CeilingOf(c.cand.mem)
      /\ MemOf(update.gen) \in Settings /\ update.ceiling = CeilingOf(MemOf(update.gen))
  BY Ceilings DEF Update
<1>2. /\ health \in Healths /\ worker \in Workers /\ launch \in Snapshots
      /\ used \in [{"edits", "calls", "requests", "failures"} -> Nat]
      /\ StartCeiling(launch.mem) = StartCeiling(MemOf(launch.gen))
      /\ worker.up => worker.gen = launch.gen /\ worker.ceiling = StartCeiling(launch.mem)
  BY DEF TypeOK, NamesItsSetting, RelaunchRemembers
<1>3. ApplyLimit(update, outcome) => outcome # "Queued"
  BY DEF ApplyLimit
<1>4. Spend("failures") => used' \in [{"edits", "calls", "requests", "failures"} -> Nat]
  BY <1>2 DEF Spend
<1>5. \/ /\ active /\ outcome = "Queued"
         /\ queued' = update
         /\ health' = [health EXCEPT !.pendingCeiling = TRUE]
         /\ UNCHANGED <<worker, launch, used>>
      \/ ~active /\ ApplyLimit(update, outcome) /\ UNCHANGED queued
      \/ /\ ~active /\ worker.up /\ outcome = "Failed" /\ Spend("failures")
         /\ UNCHANGED <<health, worker, launch, queued>>
  BY DEF QueueOrApply, workerVars
<1>6. CASE active
  <2>1. health' \in Healths /\ health'.pendingCeiling
    BY <1>2, <1>5, <1>6 DEF Healths
  <2> HIDE DEF update
  <2>2. /\ outcome = "Queued" /\ queued' = update /\ UNCHANGED <<worker, launch, used>>
        /\ health' = [health EXCEPT !.pendingCeiling = TRUE]
    BY <1>5, <1>6
  <2> QED
    BY <1>1, <1>2, <1>6, <2>1, <2>2 DEF update
<1>7. CASE ~active /\ ApplyLimit(update, outcome) /\ UNCHANGED queued
  <2> HIDE DEF update
  <2>1. /\ health' \in Healths /\ worker' \in Workers /\ launch' \in Snapshots
        /\ used' \in [{"edits", "calls", "requests", "failures"} -> Nat]
        /\ StartCeiling(launch'.mem) = StartCeiling(MemOf(launch'.gen))
        /\ worker'.up => worker'.gen = launch'.gen /\ worker'.ceiling = StartCeiling(launch'.mem)
        /\ outcome = "Applied" => launch' = [mem |-> update.ceiling, gen |-> update.gen]
    BY <1>1, <1>7, LimitOutcome
  <2> QED
    BY <1>1, <1>3, <1>7, <2>1
<1>8. CASE /\ ~active /\ worker.up /\ outcome = "Failed" /\ Spend("failures")
           /\ UNCHANGED <<health, worker, launch, queued>>
  BY <1>2, <1>4, <1>8
<1> QED
  BY <1>5, <1>6, <1>7, <1>8

\* A replacement launches its candidate, or keeps or loses the trusted worker.
LEMMA ReplacementOutcome ==
    ASSUME TypeOK, NamesItsSetting, RelaunchRemembers,
           NEW candidate, Consistent(candidate), NEW outcome, Replace(candidate, outcome)
    PROVE  /\ health' \in Healths /\ worker' \in Workers /\ launch' \in Snapshots
           /\ used' \in [{"edits", "calls", "requests", "failures"} -> Nat]
           /\ StartCeiling(launch'.mem) = StartCeiling(MemOf(launch'.gen))
           /\ worker'.up => worker'.gen = launch'.gen /\ worker'.ceiling = StartCeiling(launch'.mem)
           /\ outcome = "Applied" => launch' = [mem |-> candidate.mem, gen |-> candidate.gen]
           /\ active => UNCHANGED <<health, worker, launch>>
<1> DEFINE snapshot == [mem |-> candidate.mem, gen |-> candidate.gen]
<1> USE DEF workerVars
<1>1. /\ health \in Healths /\ worker \in Workers /\ launch \in Snapshots
      /\ used \in [{"edits", "calls", "requests", "failures"} -> Nat]
      /\ StartCeiling(launch.mem) = StartCeiling(MemOf(launch.gen))
      /\ worker.up => worker.gen = launch.gen /\ worker.ceiling = StartCeiling(launch.mem)
  BY DEF TypeOK, NamesItsSetting, RelaunchRemembers
<1>2. /\ snapshot \in Snapshots /\ candidate.gen \in OptionalGeneration
      /\ StartCeiling(snapshot.mem) = StartCeiling(MemOf(snapshot.gen))
  BY DEF Consistent, Configuration, Snapshots, OptionalGeneration
<1>3. Spend("failures") => used' \in [{"edits", "calls", "requests", "failures"} -> Nat]
  BY <1>1 DEF Spend
<1>4. CASE outcome = "Applied"
  <2>1. launch' = snapshot /\ worker' = Started(snapshot, FALSE)
        /\ health' = Ready(candidate.gen) /\ ~active /\ UNCHANGED used
    BY <1>4 DEF Replace
  <2> QED
    BY <1>1, <1>2, <1>4, <2>1, FreshWorkers
<1>5. CASE ~active /\ Contain /\ Spend("failures") /\ outcome = "Failed"
  BY <1>1, <1>3, <1>5, Containment
<1>6. CASE UNCHANGED workerVars /\ (Spend("failures") \/ UNCHANGED used) /\ outcome = "Failed"
  BY <1>1, <1>3, <1>6
<1> QED
  BY <1>4, <1>5, <1>6 DEF Replace

-----------------------------------------------------------------------------
(* Every action keeps the invariant *)

\* An edit of the file touches nothing that a transaction relies on.
LEMMA EditFileKeeps ==
    ASSUME NEW d \in Document, IInv, EditFile(d)
    PROVE  IInv'
<1> USE NoneAssumption DEF IInv, configVars, workerVars, requestVars, EditFile, Spend
<1>1. /\ NamesItsSetting'
      /\ CallIsSound'
      /\ TaskIsSound'
      /\ TransactionIsAlone'
      /\ RequestsAreKept'
      /\ QueueHasAnOwner'
      /\ RelaunchRemembers'
      /\ LandingIsReal'
      /\ OutcomeIsLaunched'
  BY DEF NamesItsSetting, Consistent, CallIsSound, CallOwns, TaskIsSound, TaskOwns,
         TransactionIsAlone, OneTransactionAtATime, PendingIsLost, AbandonedIsKept,
         LossNeedsFault, UpdateAbandoned, RequestsAreKept, GenerationIsIdle, QueueHasAnOwner,
         RelaunchRemembers, LandingIsReal, OutcomeIsLaunched
<1>2. TypeOK'
  BY DEF TypeOK
<1> QED
  BY <1>1, <1>2 DEF IInv

\* The candidate is read from the file, and no transaction is pending.
LEMMA PrepareUpdateKeeps ==
    ASSUME NEW m \in Settings, IInv, PrepareUpdate(m)
    PROVE  IInv'
<1> USE NoneAssumption DEF IInv, configVars, workerVars, requestVars, PrepareUpdate, Spend,
        NoCall
<1>1. /\ NamesItsSetting'
      /\ TransactionIsAlone'
      /\ RequestsAreKept'
      /\ QueueHasAnOwner'
      /\ RelaunchRemembers'
      /\ LandingIsReal'
      /\ OutcomeIsLaunched'
  BY DEF NamesItsSetting, Consistent, TransactionIsAlone, OneTransactionAtATime,
         PendingIsLost, AbandonedIsKept, LossNeedsFault, UpdateAbandoned, CallOwns, TaskOwns,
         RequestsAreKept, GenerationIsIdle, QueueHasAnOwner, RelaunchRemembers, LandingIsReal,
         OutcomeIsLaunched
<1>2. [file EXCEPT !.mem = m] \in Document /\ file \in Document
  BY DEF TypeOK, Document
<1>3. LET candidate == Resolved([file EXCEPT !.mem = m])
      IN  FromDocument(candidate) /\ candidate.mem = m /\ <<file>> \in Generation
  BY <1>2, ResolvedIsSound DEF Document
<1>4. CallIsSound'
  BY <1>2, <1>3 DEF CallIsSound, CallOwns, NamesItsSetting, Consistent
<1>5. TaskIsSound'
  BY DEF TaskIsSound, TaskOwns, TransactionIsAlone, OneTransactionAtATime, PendingIsLost,
         AbandonedIsKept, LossNeedsFault, UpdateAbandoned, CallOwns
<1>6. TypeOK'
  <2>1. call' \in Calls
    BY <1>2, <1>3 DEF TypeOK, Calls, FromDocument, Consistent, OptionalGeneration,
       OptionalConfiguration, Outcomes
  <2>2. used' \in [{"edits", "calls", "requests", "failures"} -> Nat]
    BY DEF TypeOK
  <2> QED
    BY <2>1, <2>2 DEF TypeOK
<1> QED
  BY <1>1, <1>4, <1>5, <1>6 DEF IInv

\* The call goes on or ends with nothing done.
LEMMA CompareFileKeeps ==
    ASSUME IInv, CompareFile
    PROVE  IInv'
<1> USE NoneAssumption DEF IInv, configVars, workerVars, requestVars, CompareFile, NoCall
<1>1. /\ NamesItsSetting'
      /\ CallIsSound'
      /\ TaskIsSound'
      /\ TransactionIsAlone'
      /\ RequestsAreKept'
      /\ QueueHasAnOwner'
      /\ RelaunchRemembers'
      /\ LandingIsReal'
      /\ OutcomeIsLaunched'
  BY DEF NamesItsSetting, Consistent, CallIsSound, CallOwns, TaskIsSound, TaskOwns,
         TransactionIsAlone, OneTransactionAtATime, PendingIsLost, AbandonedIsKept,
         LossNeedsFault, UpdateAbandoned, RequestsAreKept, GenerationIsIdle, QueueHasAnOwner,
         RelaunchRemembers, LandingIsReal, OutcomeIsLaunched
<1>2. TypeOK'
  <2>1. call' \in Calls
    BY DEF TypeOK, Calls, OptionalGeneration, OptionalConfiguration, Outcomes
  <2> QED
    BY <2>1 DEF TypeOK
<1> QED
  BY <1>1, <1>2 DEF IInv

\* The file is written and the generation is staged; nobody else has one staged.
LEMMA WriteFileKeeps ==
    ASSUME IInv, WriteFile
    PROVE  IInv'
<1> USE NoneAssumption DEF IInv, configVars, workerVars, requestVars, WriteFile
<1>1. /\ NamesItsSetting'
      /\ TaskIsSound'
      /\ RequestsAreKept'
      /\ QueueHasAnOwner'
      /\ RelaunchRemembers'
      /\ LandingIsReal'
      /\ OutcomeIsLaunched'
  BY DEF NamesItsSetting, Consistent, TaskIsSound, TaskOwns, RequestsAreKept, GenerationIsIdle,
         QueueHasAnOwner, TransactionIsAlone, PendingIsLost, RelaunchRemembers, LandingIsReal,
         OutcomeIsLaunched
<1>2. /\ call.cand.gen \in Generation /\ call.cand.gen[1] \in Document
      /\ MemOf(call.cand.gen) = call.cand.mem
  BY DEF CallIsSound, FromDocument, Consistent, Configuration
<1>3. CallIsSound'
  BY <1>2 DEF CallIsSound, CallOwns
<1>4. TransactionIsAlone'
  BY <1>2 DEF TransactionIsAlone, OneTransactionAtATime, PendingIsLost, AbandonedIsKept,
         LossNeedsFault, UpdateAbandoned, CallOwns, TaskOwns, TaskIsSound
<1>5. TypeOK'
  <2>1. call' \in Calls
    BY <1>2 DEF TypeOK, Calls, OptionalGeneration
  <2>2. health' \in Healths
    BY <1>2 DEF TypeOK, Healths, OptionalGeneration
  <2>3. file' \in Document /\ pending' \in OptionalGeneration
    BY <1>2 DEF OptionalGeneration
  <2> QED
    BY <2>1, <2>2, <2>3 DEF TypeOK
<1> QED
  BY <1>1, <1>3, <1>4, <1>5 DEF IInv

\* The candidate is the document itself, and no transaction is pending.
LEMMA ReloadByReplacementKeeps ==
    ASSUME IInv, ReloadByReplacement
    PROVE  IInv'
<1> USE NoneAssumption DEF IInv, configVars, workerVars, requestVars, ReloadByReplacement,
        ReloadAllowed, Spend, NoCall
<1>1. /\ NamesItsSetting'
      /\ TransactionIsAlone'
      /\ RequestsAreKept'
      /\ QueueHasAnOwner'
      /\ RelaunchRemembers'
      /\ LandingIsReal'
      /\ OutcomeIsLaunched'
  BY DEF NamesItsSetting, Consistent, TransactionIsAlone, OneTransactionAtATime,
         PendingIsLost, AbandonedIsKept, LossNeedsFault, UpdateAbandoned, CallOwns, TaskOwns,
         RequestsAreKept, GenerationIsIdle, QueueHasAnOwner, RelaunchRemembers, LandingIsReal,
         OutcomeIsLaunched
<1>2. FromDocument(Resolved(file)) /\ Resolved(file).gen \in Generation
  BY ResolvedIsSound DEF TypeOK
<1>3. CallIsSound'
  BY <1>2 DEF CallIsSound, CallOwns, NamesItsSetting, Consistent
<1>4. TaskIsSound'
  BY DEF TaskIsSound, TaskOwns, TransactionIsAlone, OneTransactionAtATime, PendingIsLost,
         AbandonedIsKept, LossNeedsFault, UpdateAbandoned, CallOwns
<1>5. TypeOK'
  <2>1. call' \in Calls
    BY <1>2 DEF TypeOK, Calls, FromDocument, Consistent, OptionalGeneration,
       OptionalConfiguration, Outcomes
  <2>2. used' \in [{"edits", "calls", "requests", "failures"} -> Nat]
    BY DEF TypeOK
  <2> QED
    BY <2>1, <2>2 DEF TypeOK
<1> QED
  BY <1>1, <1>3, <1>4, <1>5 DEF IInv

\* The staged generation names the candidate's setting.
LEMMA ReloadMemoryKeeps ==
    ASSUME IInv, ReloadMemory
    PROVE  IInv'
<1> USE NoneAssumption DEF IInv, configVars, workerVars, requestVars, ReloadMemory,
        ReloadAllowed, Spend, NoCall
<1>1. /\ NamesItsSetting'
      /\ RequestsAreKept'
      /\ QueueHasAnOwner'
      /\ RelaunchRemembers'
      /\ LandingIsReal'
      /\ OutcomeIsLaunched'
  BY DEF NamesItsSetting, Consistent, RequestsAreKept, GenerationIsIdle, QueueHasAnOwner,
         PendingIsLost, RelaunchRemembers, LandingIsReal, OutcomeIsLaunched
<1> DEFINE candidate == Resolved(file)
           generation == EffectiveGeneration(live, candidate)
<1>2. FromDocument(candidate) /\ Consistent(live) /\ live.mem # candidate.mem
  BY ResolvedIsSound DEF TypeOK, NamesItsSetting
<1>3. /\ generation \in Generation /\ MemOf(generation) = candidate.mem
      /\ Compare(live, candidate) # "RestApiRestartRequired" => generation = candidate.gen
  BY <1>2, EffectiveIsSound
<1>4. /\ call' = [NoCall EXCEPT !.at = "sent", !.kind = "reload", !.cand = candidate,
                              !.prior = live, !.gen = generation]
      /\ pending' = generation /\ health' = [health EXCEPT !.pendingGen = generation]
      /\ CeilingOf(candidate.mem) <= Machine
  OBVIOUS
<1> HIDE DEF candidate, generation
<1>5. CallIsSound'
  BY <1>2, <1>3, <1>4, ZenonT(40) DEF CallIsSound, CallOwns
<1>6. TaskIsSound'
  BY DEF TaskIsSound, TaskOwns, TransactionIsAlone, OneTransactionAtATime, PendingIsLost,
         AbandonedIsKept, LossNeedsFault, UpdateAbandoned, CallOwns
<1>7. TransactionIsAlone'
  BY <1>3, <1>4 DEF TransactionIsAlone, OneTransactionAtATime, PendingIsLost, AbandonedIsKept,
         LossNeedsFault, UpdateAbandoned, CallOwns, TaskOwns, TaskIsSound
<1>8. TypeOK'
  <2>1. call' \in Calls
    <3>1. candidate \in Configuration /\ live \in Configuration /\ generation \in Generation
      BY <1>2, <1>3 DEF FromDocument, Consistent
    <3>2. call' = [at |-> "sent", kind |-> "reload", cand |-> candidate, prior |-> live,
                   gen |-> generation, outcome |-> "none"]
      BY <1>4
    <3> HIDE DEF IInv, ReloadMemory
    <3> QED
      BY <3>1, <3>2 DEF Calls, OptionalGeneration, OptionalConfiguration
  <2>2. health' \in Healths /\ pending' \in OptionalGeneration
    BY <1>3, <1>4 DEF TypeOK, Healths, OptionalGeneration
  <2>3. used' \in [{"edits", "calls", "requests", "failures"} -> Nat]
    BY DEF TypeOK
  <2> QED
    BY <2>1, <2>2, <2>3 DEF TypeOK
<1> QED
  BY <1>1, <1>5, <1>6, <1>7, <1>8 DEF IInv

\* What goes live has the setting of the generation that was applied.
LEMMA RespondKeeps ==
    ASSUME IInv, Respond
    PROVE  IInv'
<1> USE NoneAssumption DEF IInv, configVars, workerVars, requestVars, Respond, NoCall
<1>1. /\ CallIsSound'
      /\ TaskIsSound'
      /\ TransactionIsAlone'
      /\ RequestsAreKept'
      /\ QueueHasAnOwner'
      /\ RelaunchRemembers'
      /\ LandingIsReal'
  BY DEF CallIsSound, CallOwns, TaskIsSound, TaskOwns, TransactionIsAlone,
         OneTransactionAtATime, PendingIsLost, AbandonedIsKept, LossNeedsFault, UpdateAbandoned,
         RequestsAreKept, GenerationIsIdle, QueueHasAnOwner, RelaunchRemembers, LandingIsReal
<1>2. /\ FromDocument(call.cand) /\ call.gen \in Generation
      /\ MemOf(call.gen) = call.cand.mem
      /\ \/ Compare(call.prior, call.cand) = "RestApiRestartRequired"
         \/ call.gen = call.cand.gen
  BY DEF CallIsSound, CallOwns
<1>3. Consistent(live') /\ live'.gen = call.gen /\ live'.mem = call.cand.mem
  <2>1. CASE Compare(call.prior, call.cand) = "RestApiRestartRequired"
    <3>1. live' = [live EXCEPT !.mem = call.cand.mem, !.gen = call.gen]
      BY <2>1
    <3>2. live \in Configuration /\ call.cand.mem \in Settings
      BY <1>2 DEF NamesItsSetting, FromDocument, Consistent, Configuration
    <3> QED
      BY <1>2, <3>1, <3>2 DEF Consistent, Configuration
  <2>2. CASE Compare(call.prior, call.cand) # "RestApiRestartRequired"
    BY <1>2, <2>2 DEF FromDocument
  <2> QED
    BY <2>1, <2>2
<1>4. NamesItsSetting'
  BY <1>3 DEF NamesItsSetting, Consistent
<1>5. OutcomeIsLaunched'
  BY <1>3 DEF OutcomeIsLaunched
<1>6. TypeOK'
  <2>1. live' \in Configuration
    BY <1>3 DEF Consistent
  <2>2. call' \in Calls
    BY DEF Calls, OptionalGeneration, OptionalConfiguration, Outcomes
  <2> QED
    BY <2>1, <2>2 DEF TypeOK
<1> QED
  BY <1>1, <1>4, <1>5, <1>6 DEF IInv

\* A request is admitted beside a reconciler, not beside a demotion.
LEMMA AdmitRequestKeeps ==
    ASSUME IInv, AdmitRequest
    PROVE  IInv'
<1> USE NoneAssumption DEF IInv, configVars, workerVars, requestVars, AdmitRequest, Spend
<1>1. /\ NamesItsSetting'
      /\ CallIsSound'
      /\ TaskIsSound'
      /\ TransactionIsAlone'
      /\ RequestsAreKept'
      /\ QueueHasAnOwner'
      /\ RelaunchRemembers'
      /\ LandingIsReal'
      /\ OutcomeIsLaunched'
  BY DEF NamesItsSetting, Consistent, CallIsSound, CallOwns, TaskIsSound, TaskOwns,
         TransactionIsAlone, OneTransactionAtATime, PendingIsLost, AbandonedIsKept,
         LossNeedsFault, UpdateAbandoned, RequestsAreKept, GenerationIsIdle, QueueHasAnOwner,
         RelaunchRemembers, LandingIsReal, OutcomeIsLaunched
<1>2. TypeOK'
  BY DEF TypeOK
<1> QED
  BY <1>1, <1>2 DEF IInv

\* The end of a generation frees the worker.
LEMMA GenerationEndsKeeps ==
    ASSUME IInv, GenerationEnds
    PROVE  IInv'
<1> USE NoneAssumption DEF IInv, configVars, workerVars, requestVars, GenerationEnds
<1>1. /\ NamesItsSetting'
      /\ CallIsSound'
      /\ TaskIsSound'
      /\ TransactionIsAlone'
      /\ RequestsAreKept'
      /\ QueueHasAnOwner'
      /\ RelaunchRemembers'
      /\ LandingIsReal'
      /\ OutcomeIsLaunched'
  BY DEF NamesItsSetting, Consistent, CallIsSound, CallOwns, TaskIsSound, TaskOwns,
         TransactionIsAlone, OneTransactionAtATime, PendingIsLost, AbandonedIsKept,
         LossNeedsFault, UpdateAbandoned, RequestsAreKept, GenerationIsIdle, QueueHasAnOwner,
         RelaunchRemembers, LandingIsReal, OutcomeIsLaunched
<1>2. TypeOK'
  BY DEF TypeOK
<1> QED
  BY <1>1, <1>2 DEF IInv

\* The permits are taken at an idle instant.
LEMMA TaskReservesKeeps ==
    ASSUME IInv, TaskReserves
    PROVE  IInv'
<1> USE NoneAssumption DEF IInv, configVars, workerVars, requestVars, TaskReserves
<1>1. /\ NamesItsSetting'
      /\ CallIsSound'
      /\ TaskIsSound'
      /\ TransactionIsAlone'
      /\ RequestsAreKept'
      /\ QueueHasAnOwner'
      /\ RelaunchRemembers'
      /\ LandingIsReal'
      /\ OutcomeIsLaunched'
  BY DEF NamesItsSetting, Consistent, CallIsSound, CallOwns, TaskIsSound, TaskOwns,
         TransactionIsAlone, OneTransactionAtATime, PendingIsLost, AbandonedIsKept,
         LossNeedsFault, UpdateAbandoned, RequestsAreKept, GenerationIsIdle, QueueHasAnOwner,
         RelaunchRemembers, LandingIsReal, OutcomeIsLaunched
<1>2. TypeOK'
  <2>1. task' \in Tasks
    BY DEF TypeOK, Tasks
  <2> QED
    BY <2>1 DEF TypeOK
<1> QED
  BY <1>1, <1>2 DEF IInv

\* The handler takes the permits at an idle instant.
LEMMA CallDemotesKeeps ==
    ASSUME IInv, CallDemotes
    PROVE  IInv'
<1> USE NoneAssumption DEF IInv, configVars, workerVars, requestVars, CallDemotes
<1>1. /\ NamesItsSetting'
      /\ CallIsSound'
      /\ TaskIsSound'
      /\ TransactionIsAlone'
      /\ RequestsAreKept'
      /\ QueueHasAnOwner'
      /\ RelaunchRemembers'
      /\ LandingIsReal'
      /\ OutcomeIsLaunched'
  BY DEF NamesItsSetting, Consistent, CallIsSound, CallOwns, TaskIsSound, TaskOwns,
         TransactionIsAlone, OneTransactionAtATime, PendingIsLost, AbandonedIsKept,
         LossNeedsFault, UpdateAbandoned, RequestsAreKept, GenerationIsIdle, QueueHasAnOwner,
         RelaunchRemembers, LandingIsReal, OutcomeIsLaunched
<1>2. TypeOK'
  <2>1. call' \in Calls
    BY DEF TypeOK, Calls
  <2> QED
    BY <2>1 DEF TypeOK
<1> QED
  BY <1>1, <1>2 DEF IInv

\* A contained worker takes the queued update with it.
LEMMA WorkerCrashesKeeps ==
    ASSUME IInv, WorkerCrashes
    PROVE  IInv'
<1> USE NoneAssumption DEF IInv, configVars, workerVars, requestVars, WorkerCrashes, Contain,
        Spend, Down, Unavailable
<1>1. /\ NamesItsSetting'
      /\ CallIsSound'
      /\ TaskIsSound'
      /\ TransactionIsAlone'
      /\ RequestsAreKept'
      /\ QueueHasAnOwner'
      /\ RelaunchRemembers'
      /\ OutcomeIsLaunched'
  BY DEF NamesItsSetting, Consistent, CallIsSound, CallOwns, TaskIsSound, TaskOwns,
         TransactionIsAlone, OneTransactionAtATime, PendingIsLost, AbandonedIsKept,
         LossNeedsFault, UpdateAbandoned, RequestsAreKept, GenerationIsIdle, QueueHasAnOwner,
         RelaunchRemembers, OutcomeIsLaunched
<1>2. health' \in Healths /\ worker' \in Workers /\ launch' = launch /\ health'.gen = None
  BY Containment
<1>3. LandingIsReal'
  BY <1>2 DEF LandingIsReal, CallIsSound, CallOwns, TaskIsSound, TaskOwns
<1>4. TypeOK'
  <2>1. used' \in [{"edits", "calls", "requests", "failures"} -> Nat]
    BY DEF TypeOK, OptionalGeneration
  <2> QED
    BY <2>1, <1>2 DEF TypeOK, OptionalGeneration
<1> QED
  BY <1>1, <1>3, <1>4 DEF IInv

\* A relaunch starts what the snapshot says, and health says what was started.
LEMMA RelaunchKeeps ==
    ASSUME IInv, Relaunch
    PROVE  IInv'
<1> USE NoneAssumption DEF IInv, configVars, workerVars, requestVars, Relaunch, Started, Ready,
        Unavailable
<1>1. /\ NamesItsSetting'
      /\ CallIsSound'
      /\ TaskIsSound'
      /\ TransactionIsAlone'
      /\ RequestsAreKept'
      /\ QueueHasAnOwner'
      /\ RelaunchRemembers'
      /\ LandingIsReal'
      /\ OutcomeIsLaunched'
  BY DEF NamesItsSetting, Consistent, CallIsSound, CallOwns, TaskIsSound, TaskOwns,
         TransactionIsAlone, OneTransactionAtATime, PendingIsLost, AbandonedIsKept,
         LossNeedsFault, UpdateAbandoned, RequestsAreKept, GenerationIsIdle, QueueHasAnOwner,
         RelaunchRemembers, LandingIsReal, OutcomeIsLaunched
<1>2. health' \in Healths /\ worker' \in Workers
  BY FreshWorkers DEF TypeOK, Snapshots, OptionalGeneration
<1>3. TypeOK'
  <2> QED
    BY <1>2 DEF TypeOK
<1> QED
  BY <1>1, <1>3 DEF IInv

\* A request is started by a running worker only.
LEMMA TakeRequestKeeps ==
    ASSUME IInv, TakeRequest
    PROVE  IInv'
<1> USE NoneAssumption DEF IInv, configVars, workerVars, requestVars, TakeRequest, LoopIsFree
<1>1. /\ NamesItsSetting'
      /\ CallIsSound'
      /\ TaskIsSound'
      /\ TransactionIsAlone'
      /\ QueueHasAnOwner'
      /\ RelaunchRemembers'
      /\ LandingIsReal'
      /\ OutcomeIsLaunched'
  BY DEF NamesItsSetting, Consistent, CallIsSound, CallOwns, TaskIsSound, TaskOwns,
         TransactionIsAlone, OneTransactionAtATime, PendingIsLost, AbandonedIsKept,
         LossNeedsFault, UpdateAbandoned, QueueHasAnOwner, RelaunchRemembers, LandingIsReal,
         OutcomeIsLaunched
<1>2. RequestsAreKept'
  <2>1. call.at # "restart" /\ task.at # "restart"
    BY DEF RequestsAreKept, GenerationIsIdle
  <2>2. active' => worker.up
    BY DEF RequestsAreKept
  <2>3. swap' # None => worker.up /\ ~active'
    BY DEF RequestsAreKept
  <2> QED
    BY <2>1, <2>2, <2>3 DEF RequestsAreKept
<1>3. TypeOK'
  <2>1. swap' \in OptionalGeneration
    BY DEF TypeOK, Healths
  <2> QED
    BY <2>1 DEF TypeOK
<1> QED
  BY <1>1, <1>2, <1>3 DEF IInv

\* A swap publishes the generation that the worker runs.
LEMMA SwapEndsKeeps ==
    ASSUME IInv, SwapEnds
    PROVE  IInv'
<1> USE NoneAssumption DEF IInv, configVars, workerVars, requestVars, SwapEnds, Contain, Down,
        Unavailable, Ready
<1>1. /\ NamesItsSetting'
      /\ CallIsSound'
      /\ TaskIsSound'
      /\ TransactionIsAlone'
      /\ QueueHasAnOwner'
      /\ OutcomeIsLaunched'
  BY DEF NamesItsSetting, Consistent, CallIsSound, CallOwns, TaskIsSound, TaskOwns,
         TransactionIsAlone, OneTransactionAtATime, PendingIsLost, AbandonedIsKept,
         LossNeedsFault, UpdateAbandoned, QueueHasAnOwner, OutcomeIsLaunched
<1>2. worker.up /\ worker.gen = launch.gen /\ ~active /\ worker.gen \in OptionalGeneration
  BY DEF TypeOK, Workers, RequestsAreKept, RelaunchRemembers
<1>3. ASSUME worker.gen = swap
      PROVE  TypeOK' /\ RequestsAreKept' /\ RelaunchRemembers' /\ LandingIsReal'
  <2>1. /\ worker' = [worker EXCEPT !.model = TRUE] /\ launch' = launch /\ active' = TRUE
        /\ health' = [Ready(worker.gen) EXCEPT !.restartRequired = health.restartRequired]
    BY <1>3 DEF SwapEnds
  <2>2. /\ worker' \in Workers /\ worker'.gen = worker.gen /\ worker'.up
        /\ worker'.ceiling = worker.ceiling
    BY <1>2, <2>1 DEF TypeOK, Workers
  <2>3. health' \in Healths /\ health'.gen = launch.gen
    BY <1>2, <2>1 DEF TypeOK, Healths, Ready, Unavailable, OptionalGeneration
  <2>4. TypeOK'
    BY <2>1, <2>2, <2>3 DEF TypeOK, OptionalGeneration
  <2>5. RequestsAreKept' /\ RelaunchRemembers'
    BY <1>2, <2>1, <2>2 DEF RequestsAreKept, RelaunchRemembers, GenerationIsIdle
  <2>6. LandingIsReal'
    BY <2>1, <2>3 DEF LandingIsReal
  <2> QED
    BY <2>4, <2>5, <2>6
<1>4. ASSUME worker.gen # swap
      PROVE  TypeOK' /\ RequestsAreKept' /\ RelaunchRemembers' /\ LandingIsReal'
  <2>1. /\ health' \in Healths /\ worker' \in Workers /\ launch' = launch
        /\ health'.gen = None /\ ~worker'.up /\ active' = active
    BY <1>4, Containment DEF SwapEnds
  <2>2. TypeOK'
    BY <2>1 DEF TypeOK, OptionalGeneration
  <2>3. RequestsAreKept' /\ RelaunchRemembers'
    BY <1>2, <2>1 DEF RequestsAreKept, RelaunchRemembers, GenerationIsIdle
  <2>4. LandingIsReal'
    BY <2>1 DEF LandingIsReal, CallIsSound, TaskIsSound, TaskOwns
  <2> QED
    BY <2>2, <2>3, <2>4
<1>5. TypeOK' /\ RequestsAreKept' /\ RelaunchRemembers' /\ LandingIsReal'
  BY <1>3, <1>4
<1> QED
  BY <1>1, <1>5 DEF IInv

\* A failed call gives its generation up.
LEMMA CallFailsKeeps ==
    ASSUME IInv, CallFails
    PROVE  IInv'
<1> USE NoneAssumption DEF IInv, configVars, workerVars, requestVars, CallFails, CallFailed,
        CallEnds, NoCall, Recorded
<1>1. /\ NamesItsSetting'
      /\ CallIsSound'
      /\ TaskIsSound'
      /\ TransactionIsAlone'
      /\ RequestsAreKept'
      /\ RelaunchRemembers'
      /\ OutcomeIsLaunched'
  BY DEF NamesItsSetting, Consistent, CallIsSound, CallOwns, TaskIsSound, TaskOwns,
         TransactionIsAlone, OneTransactionAtATime, PendingIsLost, AbandonedIsKept,
         LossNeedsFault, UpdateAbandoned, RequestsAreKept, GenerationIsIdle, RelaunchRemembers,
         OutcomeIsLaunched
<1>2. health' \in Healths /\ health'.pendingCeiling = health.pendingCeiling
  BY DEF TypeOK, Healths, OptionalGeneration
<1>3. QueueHasAnOwner'
  BY <1>2 DEF QueueHasAnOwner, TransactionIsAlone, OneTransactionAtATime, PendingIsLost,
         AbandonedIsKept, LossNeedsFault, UpdateAbandoned, CallOwns, TaskOwns
<1>4. LandingIsReal'
  BY DEF LandingIsReal, TransactionIsAlone, OneTransactionAtATime, PendingIsLost, AbandonedIsKept,
         LossNeedsFault, UpdateAbandoned, CallOwns, TaskOwns
<1>5. TypeOK'
  <2>1. call' \in Calls
    BY DEF Calls, OptionalGeneration, OptionalConfiguration, Outcomes
  <2> QED
    BY <2>1, <1>2 DEF TypeOK, OptionalGeneration
<1> QED
  BY <1>1, <1>3, <1>4, <1>5 DEF IInv

\* The generation of a rejected reload stays, without an owner.
LEMMA ReloadIsRejectedKeeps ==
    ASSUME IInv, ReloadIsRejected
    PROVE  IInv'
<1> USE NoneAssumption DEF IInv, configVars, workerVars, requestVars, ReloadIsRejected,
        CallEnds, NoCall
<1>1. /\ NamesItsSetting'
      /\ CallIsSound'
      /\ TaskIsSound'
      /\ TransactionIsAlone'
      /\ RequestsAreKept'
      /\ QueueHasAnOwner'
      /\ RelaunchRemembers'
      /\ LandingIsReal'
      /\ OutcomeIsLaunched'
  BY DEF NamesItsSetting, Consistent, CallIsSound, CallOwns, TaskIsSound, TaskOwns,
         TransactionIsAlone, OneTransactionAtATime, PendingIsLost, AbandonedIsKept,
         LossNeedsFault, UpdateAbandoned, RequestsAreKept, GenerationIsIdle, QueueHasAnOwner,
         RelaunchRemembers, LandingIsReal, OutcomeIsLaunched
<1>2. TypeOK'
  <2>1. call' \in Calls
    BY DEF Calls, OptionalGeneration, OptionalConfiguration, Outcomes
  <2> QED
    BY <2>1 DEF TypeOK
<1> QED
  BY <1>1, <1>2 DEF IInv

\* The candidate that goes live is the one that was launched.
LEMMA UpdateAppliedKeeps ==
    ASSUME IInv, UpdateApplied
    PROVE  IInv'
<1> USE NoneAssumption DEF IInv, configVars, workerVars, requestVars, UpdateApplied, CallEnds,
        NoCall, Recorded
<1>1. /\ CallIsSound'
      /\ TaskIsSound'
      /\ TransactionIsAlone'
      /\ RequestsAreKept'
      /\ RelaunchRemembers'
  BY DEF CallIsSound, CallOwns, TaskIsSound, TaskOwns, TransactionIsAlone,
         OneTransactionAtATime, PendingIsLost, AbandonedIsKept, LossNeedsFault, UpdateAbandoned,
         RequestsAreKept, GenerationIsIdle, RelaunchRemembers
<1>2. /\ Consistent(call.cand) /\ call.gen = call.cand.gen /\ CallOwns
      /\ call.cand.mem \in Settings \cup {Machine}
  BY DEF CallIsSound, CallOwns, FromDocument, Consistent, Configuration
<1>3. health' \in Healths /\ health'.pendingCeiling = health.pendingCeiling
  BY <1>2 DEF TypeOK, Healths, OptionalGeneration, Consistent, Configuration
<1>4. NamesItsSetting'
  BY <1>2 DEF NamesItsSetting, Consistent
<1>5. QueueHasAnOwner'
  BY <1>3 DEF QueueHasAnOwner, TransactionIsAlone, OneTransactionAtATime, PendingIsLost,
         AbandonedIsKept, LossNeedsFault, UpdateAbandoned, CallOwns, TaskOwns
<1>6. LandingIsReal'
  BY DEF LandingIsReal, TransactionIsAlone, OneTransactionAtATime, PendingIsLost, AbandonedIsKept,
         LossNeedsFault, UpdateAbandoned, CallOwns, TaskOwns
<1>7. OutcomeIsLaunched'
  <2>1. launch.gen = call.cand.gen /\ StartCeiling(launch.mem) = StartCeiling(call.cand.mem)
    BY <1>2, Ceilings DEF OutcomeIsLaunched
  <2> QED
    BY <2>1 DEF OutcomeIsLaunched
<1>8. TypeOK'
  <2>1. call' \in Calls
    BY DEF Calls, OptionalGeneration, OptionalConfiguration, Outcomes
  <2> QED
    BY <2>1, <1>2, <1>3 DEF TypeOK, Consistent, OptionalGeneration
<1> QED
  BY <1>1, <1>4, <1>5, <1>6, <1>7, <1>8 DEF IInv

\* The reconciler takes over what the handler knew.
LEMMA UpdateQueuedKeeps ==
    ASSUME IInv, UpdateQueued
    PROVE  IInv'
<1> USE NoneAssumption DEF IInv, configVars, workerVars, requestVars, UpdateQueued, CallEnds,
        NoCall, NoTask
<1>1. /\ CallIsSound'
      /\ TransactionIsAlone'
      /\ RequestsAreKept'
      /\ RelaunchRemembers'
      /\ LandingIsReal'
      /\ OutcomeIsLaunched'
  BY DEF CallIsSound, CallOwns, TransactionIsAlone, OneTransactionAtATime, PendingIsLost,
         AbandonedIsKept, LossNeedsFault, UpdateAbandoned, TaskOwns, RequestsAreKept,
         GenerationIsIdle, RelaunchRemembers, LandingIsReal, OutcomeIsLaunched
<1>2. /\ Consistent(call.cand) /\ Consistent(call.prior) /\ call.gen = call.cand.gen
      /\ call.gen \in Generation /\ CallOwns
  BY DEF CallIsSound, CallOwns, FromDocument
<1>3. NamesItsSetting'
  BY <1>2 DEF NamesItsSetting, Consistent
<1>4. TaskIsSound'
  BY <1>2 DEF TaskIsSound, TaskOwns
<1>5. QueueHasAnOwner'
  BY <1>2 DEF QueueHasAnOwner, TransactionIsAlone, OneTransactionAtATime, PendingIsLost,
         AbandonedIsKept, LossNeedsFault, UpdateAbandoned, CallOwns, TaskOwns
<1>6. TypeOK'
  <2>1. call' \in Calls
    BY DEF Calls, OptionalGeneration, OptionalConfiguration, Outcomes
  <2>2. task' \in Tasks
    BY <1>2 DEF Tasks, Consistent, OptionalGeneration, OptionalConfiguration
  <2> QED
    BY <2>1, <2>2, <1>2 DEF TypeOK, Consistent
<1> QED
  BY <1>1, <1>3, <1>4, <1>5, <1>6 DEF IInv

\* The reload answers for what was launched, and goes on to its response.
LEMMA ReloadAppliedKeeps ==
    ASSUME IInv, ReloadApplied
    PROVE  IInv'
<1> USE NoneAssumption DEF IInv, configVars, workerVars, requestVars, ReloadApplied, Recorded
<1>1. /\ NamesItsSetting'
      /\ CallIsSound'
      /\ TaskIsSound'
      /\ TransactionIsAlone'
      /\ RequestsAreKept'
      /\ RelaunchRemembers'
  BY DEF NamesItsSetting, Consistent, CallIsSound, CallOwns, TaskIsSound, TaskOwns,
         TransactionIsAlone, OneTransactionAtATime, PendingIsLost, AbandonedIsKept,
         LossNeedsFault, UpdateAbandoned, RequestsAreKept, GenerationIsIdle, RelaunchRemembers
<1>2. CallOwns /\ call.gen \in Generation /\ call.cand.mem \in Settings \cup {Machine}
  BY DEF CallIsSound, CallOwns, FromDocument, Consistent, Configuration
<1>3. health' \in Healths /\ health'.pendingCeiling = health.pendingCeiling
  BY <1>2 DEF TypeOK, Healths, OptionalGeneration
<1>4. QueueHasAnOwner'
  BY <1>3 DEF QueueHasAnOwner, TransactionIsAlone, OneTransactionAtATime, PendingIsLost,
         AbandonedIsKept, LossNeedsFault, UpdateAbandoned, CallOwns, TaskOwns
<1>5. LandingIsReal'
  BY DEF LandingIsReal, TransactionIsAlone, OneTransactionAtATime, PendingIsLost, AbandonedIsKept,
         LossNeedsFault, UpdateAbandoned, CallOwns, TaskOwns
<1>6. OutcomeIsLaunched'
  <2>1. /\ StartCeiling(launch.mem) = StartCeiling(call.cand.mem)
        /\ call.at = "answered" => launch.gen = call.gen
    BY <1>2, Ceilings DEF OutcomeIsLaunched
  <2> QED
    BY <2>1 DEF OutcomeIsLaunched
<1>7. TypeOK'
  <2>1. call' \in Calls
    BY DEF TypeOK, Calls
  <2> QED
    BY <2>1, <1>3 DEF TypeOK, OptionalGeneration
<1> QED
  BY <1>1, <1>4, <1>5, <1>6, <1>7 DEF IInv

\* The reconciler is spawned before the response.
LEMMA ReloadQueuedKeeps ==
    ASSUME IInv, ReloadQueued
    PROVE  IInv'
<1> USE NoneAssumption DEF IInv, configVars, workerVars, requestVars, ReloadQueued, NoTask
<1>1. /\ NamesItsSetting'
      /\ CallIsSound'
      /\ TransactionIsAlone'
      /\ RequestsAreKept'
      /\ RelaunchRemembers'
      /\ LandingIsReal'
      /\ OutcomeIsLaunched'
  BY DEF NamesItsSetting, Consistent, CallIsSound, CallOwns, TransactionIsAlone,
         OneTransactionAtATime, PendingIsLost, AbandonedIsKept, LossNeedsFault, UpdateAbandoned,
         TaskOwns, RequestsAreKept, GenerationIsIdle, RelaunchRemembers, LandingIsReal,
         OutcomeIsLaunched
<1>2. Consistent(call.prior) /\ call.gen \in Generation /\ CallOwns
  BY DEF CallIsSound, CallOwns
<1>3. TaskIsSound'
  BY <1>2 DEF TaskIsSound, TaskOwns
<1>4. QueueHasAnOwner'
  BY <1>2 DEF QueueHasAnOwner, TransactionIsAlone, OneTransactionAtATime, PendingIsLost,
         AbandonedIsKept, LossNeedsFault, UpdateAbandoned, CallOwns, TaskOwns
<1>5. TypeOK'
  <2>1. call' \in Calls
    BY DEF TypeOK, Calls
  <2>2. task' \in Tasks
    BY <1>2 DEF Tasks, Consistent, OptionalGeneration, OptionalConfiguration
  <2> QED
    BY <2>1, <2>2 DEF TypeOK
<1> QED
  BY <1>1, <1>3, <1>4, <1>5 DEF IInv

\* The candidate that goes live is the one that was launched.
LEMMA ReplacementAnsweredKeeps ==
    ASSUME IInv, ReplacementAnswered
    PROVE  IInv'
<1> USE NoneAssumption DEF IInv, configVars, workerVars, requestVars, ReplacementAnswered,
        CallEnds, NoCall
<1>1. /\ CallIsSound'
      /\ TaskIsSound'
      /\ TransactionIsAlone'
      /\ RequestsAreKept'
      /\ QueueHasAnOwner'
      /\ RelaunchRemembers'
      /\ LandingIsReal'
      /\ OutcomeIsLaunched'
  BY DEF CallIsSound, CallOwns, TaskIsSound, TaskOwns, TransactionIsAlone,
         OneTransactionAtATime, PendingIsLost, AbandonedIsKept, LossNeedsFault, UpdateAbandoned,
         RequestsAreKept, GenerationIsIdle, QueueHasAnOwner, RelaunchRemembers, LandingIsReal,
         OutcomeIsLaunched
<1>2. Consistent(call.cand)
  BY DEF CallIsSound, FromDocument
<1>3. NamesItsSetting'
  BY <1>2 DEF NamesItsSetting, Consistent
<1>4. TypeOK'
  <2>1. call' \in Calls
    BY DEF Calls, OptionalGeneration, OptionalConfiguration, Outcomes
  <2> QED
    BY <2>1, <1>2 DEF TypeOK, Consistent
<1> QED
  BY <1>1, <1>3, <1>4 DEF IInv

\* The reconciler is about to demote to its candidate, or to what is live.
LEMMA PollRestartKeeps ==
    ASSUME IInv, PollRestart
    PROVE  IInv'
<1> USE NoneAssumption DEF IInv, configVars, workerVars, requestVars, PollRestart
<1>1. /\ NamesItsSetting'
      /\ CallIsSound'
      /\ TransactionIsAlone'
      /\ RequestsAreKept'
      /\ QueueHasAnOwner'
      /\ RelaunchRemembers'
      /\ LandingIsReal'
      /\ OutcomeIsLaunched'
  BY DEF NamesItsSetting, Consistent, CallIsSound, CallOwns, TransactionIsAlone,
         OneTransactionAtATime, PendingIsLost, AbandonedIsKept, LossNeedsFault, UpdateAbandoned,
         TaskOwns, RequestsAreKept, GenerationIsIdle, QueueHasAnOwner, RelaunchRemembers,
         LandingIsReal, OutcomeIsLaunched
<1>2. /\ Consistent(task'.cand) /\ task'.kind = task.kind /\ task'.prior = task.prior
      /\ task'.gen = task.gen /\ task.kind = "update" => task'.cand = task.cand
  BY DEF TypeOK, Tasks, TaskIsSound, TaskOwns, NamesItsSetting
<1>3. TaskIsSound'
  BY <1>2 DEF TaskIsSound, TaskOwns
<1>4. TypeOK'
  <2>1. task' \in Tasks
    BY DEF TypeOK, Tasks, OptionalConfiguration
  <2> QED
    BY <2>1 DEF TypeOK
<1> QED
  BY <1>1, <1>3, <1>4 DEF IInv

\* A generation that landed is the one that is launched from now on.
LEMMA PollDecidedKeeps ==
    ASSUME IInv, PollDecided
    PROVE  IInv'
<1> USE NoneAssumption DEF IInv, configVars, workerVars, requestVars, PollDecided
<1>1. /\ NamesItsSetting'
      /\ CallIsSound'
      /\ TaskIsSound'
      /\ TransactionIsAlone'
      /\ RequestsAreKept'
      /\ QueueHasAnOwner'
      /\ RelaunchRemembers'
      /\ OutcomeIsLaunched'
  BY DEF NamesItsSetting, Consistent, CallIsSound, CallOwns, TaskIsSound, TaskOwns,
         TransactionIsAlone, OneTransactionAtATime, PendingIsLost, AbandonedIsKept,
         LossNeedsFault, UpdateAbandoned, RequestsAreKept, GenerationIsIdle, QueueHasAnOwner,
         RelaunchRemembers, OutcomeIsLaunched
<1>2. queued = None /\ task \in Tasks
  BY DEF QueueHasAnOwner, TypeOK
<1>3. /\ task'.at = "finalize" /\ task'.gen = task.gen
      /\ task'.landed => launch.gen = task.gen
  BY <1>2 DEF Tasks, LandingIsReal
<1>4. LandingIsReal'
  BY <1>3 DEF LandingIsReal
<1>5. TypeOK'
  <2>1. task' \in Tasks
    BY DEF TypeOK, Tasks, Healths
  <2> QED
    BY <2>1 DEF TypeOK
<1> QED
  BY <1>1, <1>4, <1>5 DEF IInv

\* The reconciler makes its outcome final.
LEMMA FinalizeKeeps ==
    ASSUME IInv, Finalize
    PROVE  IInv'
<1> USE NoneAssumption DEF IInv, configVars, workerVars, requestVars, Finalize, TaskEnds, NoTask
<1>1. /\ CallIsSound'
      /\ TaskIsSound'
      /\ TransactionIsAlone'
      /\ RequestsAreKept'
      /\ QueueHasAnOwner'
      /\ RelaunchRemembers'
      /\ LandingIsReal'
  BY DEF CallIsSound, CallOwns, TaskIsSound, TaskOwns, TransactionIsAlone,
         OneTransactionAtATime, PendingIsLost, AbandonedIsKept, LossNeedsFault, UpdateAbandoned,
         RequestsAreKept, GenerationIsIdle, QueueHasAnOwner, RelaunchRemembers, LandingIsReal
<1>2. pending = task.gen /\ Consistent(task.prior)
  BY DEF TransactionIsAlone, OneTransactionAtATime, TaskIsSound, TaskOwns
<1>3. NamesItsSetting'
  BY <1>2 DEF NamesItsSetting, Consistent
<1>4. OutcomeIsLaunched'
  <2>1. task.landed /\ task.kind = "update" =>
          launch.gen = live.gen /\ StartCeiling(launch.mem) = StartCeiling(live.mem)
    BY DEF LandingIsReal, TaskIsSound, TaskOwns, NamesItsSetting, Consistent
  <2> QED
    BY <1>2, <2>1 DEF OutcomeIsLaunched
<1>5. TypeOK'
  <2>1. task' = NoTask
    BY <1>2
  <2>2. NoTask \in Tasks
    BY DEF Tasks, OptionalGeneration, OptionalConfiguration
  <2> QED
    BY <2>1, <2>2, <1>2 DEF TypeOK, Consistent, OptionalGeneration
<1> QED
  BY <1>1, <1>3, <1>4, <1>5 DEF IInv

\* What a demotion launched goes live.
LEMMA SettleKeeps ==
    ASSUME IInv, Settle
    PROVE  IInv'
<1> USE NoneAssumption DEF IInv, configVars, workerVars, requestVars, Settle, TaskEnds, NoTask
<1>1. /\ CallIsSound'
      /\ TaskIsSound'
      /\ TransactionIsAlone'
      /\ RequestsAreKept'
      /\ QueueHasAnOwner'
      /\ RelaunchRemembers'
      /\ LandingIsReal'
  BY DEF CallIsSound, CallOwns, TaskIsSound, TaskOwns, TransactionIsAlone,
         OneTransactionAtATime, PendingIsLost, AbandonedIsKept, LossNeedsFault, UpdateAbandoned,
         RequestsAreKept, GenerationIsIdle, QueueHasAnOwner, RelaunchRemembers, LandingIsReal
<1>2. Consistent(task.cand) /\ Consistent(task.prior)
  BY DEF TaskIsSound, TaskOwns
<1>3. NamesItsSetting'
  BY <1>2 DEF NamesItsSetting, Consistent
<1>4. OutcomeIsLaunched'
  BY DEF OutcomeIsLaunched, LandingIsReal
<1>5. TypeOK'
  <2>1. task' \in Tasks
    BY DEF Tasks, OptionalGeneration, OptionalConfiguration
  <2> QED
    BY <2>1, <1>2 DEF TypeOK, Consistent, OptionalGeneration
<1> QED
  BY <1>1, <1>3, <1>4, <1>5 DEF IInv

\* The loop queues the update behind a generation, or applies it.
LEMMA TakeUpdateKeeps ==
    ASSUME IInv, TakeUpdate
    PROVE  IInv'
<1> USE NoneAssumption DEF IInv, configVars, requestVars
<1>1. PICK outcome \in Outcomes \cup {"Queued"} :
        /\ outcome = "Rejected" /\ call.kind = "reload" => "refusal" \in Faults
        /\ QueueOrApply(call, outcome)
        /\ call' = [call EXCEPT !.at = "answered", !.outcome = outcome]
  BY DEF TakeUpdate
<1>2. /\ UNCHANGED <<file, live, pending, swap, waiting, active, task, answer, abandoned>>
      /\ call.at = "sent" /\ swap = None /\ (queued = None \/ active) /\ abandoned = <<>>
  BY DEF TakeUpdate, LoopIsNext, LoopIsFree
<1>3. /\ call.cand.mem \in Settings /\ MemOf(call.gen) = call.cand.mem
      /\ call.gen \in Generation /\ CeilingOf(call.cand.mem) <= Machine
  BY <1>2 DEF CallIsSound, CallOwns, FromDocument, Consistent, Configuration
<1>4. call \in Calls /\ ~TaskOwns /\ pending = call.gen /\ task.at = "none"
  BY <1>2 DEF TypeOK, TransactionIsAlone, OneTransactionAtATime, CallOwns, TaskOwns
<1>5. /\ health' \in Healths /\ worker' \in Workers /\ launch' \in Snapshots
      /\ used' \in [{"edits", "calls", "requests", "failures"} -> Nat]
      /\ StartCeiling(launch'.mem) = StartCeiling(MemOf(launch'.gen))
      /\ worker'.up => worker'.gen = launch'.gen /\ worker'.ceiling = StartCeiling(launch'.mem)
      /\ outcome = "Applied" => launch' = [mem |-> CeilingOf(call.cand.mem), gen |-> call.gen]
      /\ active => /\ outcome = "Queued" /\ UNCHANGED <<worker, launch>>
                   /\ queued' = [ceiling |-> CeilingOf(call.cand.mem), gen |-> call.gen]
                   /\ queued' \in Update /\ health'.pendingCeiling
      /\ ~active => outcome # "Queued" /\ queued' = queued
  <2>1. TypeOK /\ NamesItsSetting /\ RelaunchRemembers
    OBVIOUS
  <2> HIDE DEF IInv
  <2> QED
    BY <1>1, <1>3, <2>1, UpdateOutcome
<1>6. /\ call' \in Calls /\ call'.at = "answered" /\ call'.outcome = outcome
      /\ call'.cand = call.cand /\ call'.gen = call.gen /\ call'.prior = call.prior
      /\ call'.kind = call.kind
  BY <1>1, <1>4 DEF Calls, Outcomes
<1>7. TypeOK'
  BY <1>2, <1>5, <1>6 DEF TypeOK
<1>8. NamesItsSetting'
  <2>1. queued' # None => /\ active /\ queued'.gen = call.gen
                         /\ queued'.ceiling = CeilingOf(call.cand.mem)
    BY <1>2, <1>5
  <2> QED
    BY <1>2, <1>3, <1>5, <2>1 DEF NamesItsSetting
<1>9. CallIsSound'
  BY <1>2, <1>6 DEF CallIsSound, CallOwns
<1>10. TaskIsSound'
  BY <1>2, <1>4 DEF TaskIsSound, TaskOwns
<1>11. TransactionIsAlone'
  BY <1>1, <1>2, <1>4, <1>6 DEF TransactionIsAlone, OneTransactionAtATime, PendingIsLost,
        AbandonedIsKept, LossNeedsFault, UpdateAbandoned, TaskOwns, CallOwns
<1>12. RequestsAreKept' /\ RelaunchRemembers'
  BY <1>2, <1>4, <1>5, <1>6 DEF RequestsAreKept, RelaunchRemembers, GenerationIsIdle
<1>13. QueueHasAnOwner'
  <2>1. queued' # None => active /\ worker'.up /\ queued'.gen = call.gen /\ outcome = "Queued"
    BY <1>2, <1>5 DEF RequestsAreKept
  <2> QED
    BY <1>2, <1>5, <1>6, <2>1 DEF QueueHasAnOwner
<1>14. LandingIsReal'
  <2>1. outcome = "Queued" => active /\ queued' # None
    BY <1>5, <1>3 DEF Update
  <2> QED
    BY <1>2, <1>4, <1>6, <2>1 DEF LandingIsReal
<1>15. OutcomeIsLaunched'
  BY <1>2, <1>5, <1>6 DEF OutcomeIsLaunched
<1> QED
  BY <1>7, <1>8, <1>9, <1>10, <1>11, <1>12, <1>13, <1>14, <1>15

\* A queued update that is applied is that of the transaction in progress.
LEMMA DrainUpdateKeeps ==
    ASSUME IInv, DrainUpdate
    PROVE  IInv'
<1> USE NoneAssumption DEF IInv, configVars, workerVars, requestVars, DrainUpdate
<1>1. PICK outcome \in Outcomes : ApplyLimit(queued, outcome)
  OBVIOUS
<1>2. /\ queued \in Update /\ worker.up
      /\ MemOf(queued.gen) \in Settings /\ queued.ceiling = CeilingOf(MemOf(queued.gen))
      /\ \/ call.at = "answered" /\ call.outcome = "Queued" /\ queued.gen = call.gen
         \/ task.at \in {"poll", "demote", "restart"} /\ queued.gen = task.gen
         \/ PendingIsLost
  BY DEF TypeOK, NamesItsSetting, QueueHasAnOwner
<1>3. /\ health' \in Healths /\ worker' \in Workers /\ launch' \in Snapshots
      /\ used' \in [{"edits", "calls", "requests", "failures"} -> Nat]
      /\ StartCeiling(launch'.mem) = StartCeiling(MemOf(launch'.gen))
      /\ worker'.up => worker'.gen = launch'.gen /\ worker'.ceiling = StartCeiling(launch'.mem)
      /\ outcome = "Applied" => launch' = [mem |-> queued.ceiling, gen |-> queued.gen]
      /\ outcome # "Applied" => launch' = launch
      /\ outcome # "Applied" => health'.limitError \/ health'.gen = None
  BY <1>1, <1>2, LimitOutcome
<1>4. /\ queued' = None /\ ~active /\ swap = None
      /\ UNCHANGED <<file, live, pending, swap, waiting, active, call, task, answer, abandoned>>
  OBVIOUS
<1> HIDE DEF DrainUpdate
<1>5. /\ call.at = "idle" \/ call.at = "respond" \/ (call.at = "answered" /\ call.outcome = "Queued")
      /\ call.at \in {"answered"} => task.at = "none"
      /\ task.at = "none" => call.at = "answered" \/ PendingIsLost
      /\ PendingIsLost => call.at = "idle" /\ task.at = "none" /\ answer \in {"failed", "dropped"}
      /\ call.at = "respond" => task.kind = "reload"
      /\ call.at = "answered" => call.gen \in Generation
      /\ task.at # "none" => task.gen \in Generation
  BY <1>2 DEF CallIsSound, TaskIsSound, TransactionIsAlone, OneTransactionAtATime, PendingIsLost,
        TaskOwns, CallOwns
<1>6. TypeOK'
  BY <1>3, <1>4 DEF TypeOK
<1>7. NamesItsSetting' /\ RelaunchRemembers' /\ RequestsAreKept' /\ QueueHasAnOwner'
  BY <1>3, <1>4 DEF NamesItsSetting, RelaunchRemembers, RequestsAreKept, QueueHasAnOwner,
        GenerationIsIdle
<1>8. CallIsSound' /\ TaskIsSound' /\ TransactionIsAlone'
  BY <1>4 DEF CallIsSound, TaskIsSound, TransactionIsAlone, OneTransactionAtATime,
        PendingIsLost, AbandonedIsKept, LossNeedsFault, UpdateAbandoned, TaskOwns, CallOwns
<1>9. LandingIsReal'
  <2>1. task.at \notin {"finalize", "settle"}
    BY <1>2, <1>5
  <2>2. CASE outcome = "Applied"
    BY <1>2, <1>3, <1>4, <1>5, <2>1, <2>2 DEF LandingIsReal
  <2>3. CASE outcome # "Applied"
    BY <1>3, <1>4, <1>5, <2>1, <2>3 DEF LandingIsReal
  <2> QED
    BY <2>2, <2>3
<1>10. OutcomeIsLaunched'
  <2>1. call.at = "respond" => answer = "queued"
    BY <1>5 DEF TaskIsSound, TaskOwns
  <2> QED
    BY <1>4, <1>5, <2>1 DEF OutcomeIsLaunched
<1> QED
  BY <1>6, <1>7, <1>8, <1>9, <1>10 DEF IInv

\* The handler's demotion launches its candidate or leaves a failure.
LEMMA TakeCallDemotionKeeps ==
    ASSUME IInv, TakeCallDemotion
    PROVE  IInv'
<1> USE NoneAssumption DEF IInv, configVars, workerVars, requestVars, TakeCallDemotion,
        LoopIsNext, LoopIsFree
<1>1. PICK outcome \in {"Applied", "Failed"} :
        /\ Demote(call.cand, outcome)
        /\ call' = [call EXCEPT !.at = "restarted", !.outcome = outcome]
  OBVIOUS
<1>2. /\ Consistent(call.cand) /\ ~active /\ swap = None /\ queued = None
      /\ call.at = "restart" /\ ~TaskOwns /\ pending = call.gen
  BY DEF RequestsAreKept, GenerationIsIdle, CallIsSound, FromDocument, CallOwns, TransactionIsAlone,
        OneTransactionAtATime
<1>3. /\ health' \in Healths /\ worker' \in Workers /\ launch' \in Snapshots
      /\ used' \in [{"edits", "calls", "requests", "failures"} -> Nat]
      /\ StartCeiling(launch'.mem) = StartCeiling(MemOf(launch'.gen))
      /\ worker'.up => worker'.gen = launch'.gen /\ worker'.ceiling = StartCeiling(launch'.mem)
      /\ outcome = "Applied" => launch' = [mem |-> call.cand.mem, gen |-> call.cand.gen]
  BY <1>1, <1>2, DemotionOutcome
<1>4. UNCHANGED <<file, live, pending, queued, swap, waiting, active, task, answer, abandoned>>
  OBVIOUS
<1>5. /\ call' \in Calls /\ call'.at = "restarted" /\ call'.outcome = outcome
      /\ call'.cand = call.cand /\ call'.gen = call.gen /\ call'.prior = call.prior
      /\ call'.kind = call.kind
  BY <1>1 DEF TypeOK, Calls, Outcomes
<1> HIDE DEF TakeCallDemotion
<1>6. TypeOK'
  BY <1>2, <1>3, <1>4, <1>5 DEF TypeOK
<1>7. NamesItsSetting' /\ RelaunchRemembers' /\ QueueHasAnOwner'
  BY <1>2, <1>3, <1>4 DEF NamesItsSetting, RelaunchRemembers, QueueHasAnOwner
<1>8. RequestsAreKept'
  BY <1>2, <1>4, <1>5 DEF RequestsAreKept, GenerationIsIdle, TaskOwns
<1>9. CallIsSound' /\ TaskIsSound'
  BY <1>2, <1>4, <1>5 DEF CallIsSound, TaskIsSound, TaskOwns, CallOwns
<1>10. TransactionIsAlone'
  BY <1>2, <1>4, <1>5 DEF TransactionIsAlone, OneTransactionAtATime, PendingIsLost,
         AbandonedIsKept, LossNeedsFault, UpdateAbandoned, TaskOwns, CallOwns
<1>11. LandingIsReal'
  BY <1>2, <1>3, <1>4, <1>5 DEF LandingIsReal, TaskOwns, CallOwns
<1>12. OutcomeIsLaunched'
  BY <1>2, <1>3, <1>4, <1>5 DEF OutcomeIsLaunched, TaskIsSound, TaskOwns
<1> QED
  BY <1>6, <1>7, <1>8, <1>9, <1>10, <1>11, <1>12 DEF IInv

\* The reconciler's demotion launches its candidate or leaves a failure.
LEMMA TakeTaskDemotionKeeps ==
    ASSUME IInv, TakeTaskDemotion
    PROVE  IInv'
<1> USE NoneAssumption DEF IInv, configVars, workerVars, requestVars, TakeTaskDemotion,
        LoopIsNext, LoopIsFree
<1>1. PICK outcome \in {"Applied", "Failed"} :
        /\ Demote(task.cand, outcome)
        /\ task' = [task EXCEPT !.at = "settle", !.landed = (outcome = "Applied")]
  OBVIOUS
<1>2. /\ Consistent(task.cand) /\ ~active /\ swap = None /\ queued = None
      /\ task.at = "restart" /\ ~CallOwns /\ pending = task.gen
  BY DEF RequestsAreKept, GenerationIsIdle, TaskIsSound, TaskOwns, TransactionIsAlone,
        OneTransactionAtATime
<1>3. /\ health' \in Healths /\ worker' \in Workers /\ launch' \in Snapshots
      /\ used' \in [{"edits", "calls", "requests", "failures"} -> Nat]
      /\ StartCeiling(launch'.mem) = StartCeiling(MemOf(launch'.gen))
      /\ worker'.up => worker'.gen = launch'.gen /\ worker'.ceiling = StartCeiling(launch'.mem)
      /\ outcome = "Applied" => launch' = [mem |-> task.cand.mem, gen |-> task.cand.gen]
  BY <1>1, <1>2, DemotionOutcome
<1>4. UNCHANGED <<file, live, pending, queued, swap, waiting, active, call, answer, abandoned>>
  OBVIOUS
<1>5. /\ task' \in Tasks /\ task'.at = "settle" /\ (task'.landed => outcome = "Applied")
      /\ task'.cand = task.cand /\ task'.gen = task.gen /\ task'.prior = task.prior
      /\ task'.kind = task.kind
  BY <1>1 DEF TypeOK, Tasks
<1> HIDE DEF TakeTaskDemotion
<1>6. TypeOK'
  BY <1>2, <1>3, <1>4, <1>5 DEF TypeOK
<1>7. NamesItsSetting' /\ RelaunchRemembers' /\ QueueHasAnOwner'
  BY <1>2, <1>3, <1>4 DEF NamesItsSetting, RelaunchRemembers, QueueHasAnOwner
<1>8. RequestsAreKept'
  BY <1>2, <1>4, <1>5 DEF RequestsAreKept, GenerationIsIdle, TaskOwns
<1>9. CallIsSound' /\ TaskIsSound'
  BY <1>2, <1>4, <1>5 DEF CallIsSound, TaskIsSound, TaskOwns, CallOwns
<1>10. TransactionIsAlone'
  BY <1>2, <1>4, <1>5 DEF TransactionIsAlone, OneTransactionAtATime, PendingIsLost,
         AbandonedIsKept, LossNeedsFault, UpdateAbandoned, TaskOwns, CallOwns
<1>11. LandingIsReal'
  BY <1>2, <1>3, <1>4, <1>5 DEF LandingIsReal, TaskOwns, CallOwns
<1>12. OutcomeIsLaunched'
  BY <1>2, <1>3, <1>4, <1>5 DEF OutcomeIsLaunched, TaskIsSound, TaskOwns
<1> QED
  BY <1>6, <1>7, <1>8, <1>9, <1>10, <1>11, <1>12 DEF IInv

\* A replacement finds no transaction, and its answer is what was launched.
LEMMA TakeReplacementKeeps ==
    ASSUME IInv, TakeReplacement
    PROVE  IInv'
<1> USE NoneAssumption DEF IInv, configVars, requestVars
<1>1. PICK outcome \in {"Applied", "Failed"} :
        /\ Replace(call.cand, outcome)
        /\ call' = [call EXCEPT !.at = "replaced", !.outcome = outcome]
  BY DEF TakeReplacement
<1>2. /\ UNCHANGED <<file, live, pending, queued, swap, waiting, active, task, answer, abandoned>>
      /\ call.at = "replace" /\ swap = None /\ (queued = None \/ active) /\ abandoned = <<>>
  BY DEF TakeReplacement, LoopIsNext, LoopIsFree
<1>3. Consistent(call.cand) /\ pending = None /\ ~TaskOwns /\ task.at = "none"
  BY <1>2 DEF CallIsSound, FromDocument, TransactionIsAlone, TaskOwns, TaskIsSound
<1>4. /\ health' \in Healths /\ worker' \in Workers /\ launch' \in Snapshots
      /\ used' \in [{"edits", "calls", "requests", "failures"} -> Nat]
      /\ StartCeiling(launch'.mem) = StartCeiling(MemOf(launch'.gen))
      /\ worker'.up => worker'.gen = launch'.gen /\ worker'.ceiling = StartCeiling(launch'.mem)
      /\ outcome = "Applied" => launch' = [mem |-> call.cand.mem, gen |-> call.cand.gen]
      /\ active => UNCHANGED <<health, worker, launch>>
  <2>1. TypeOK /\ NamesItsSetting /\ RelaunchRemembers
    OBVIOUS
  <2> HIDE DEF IInv
  <2> QED
    BY <1>1, <1>3, <2>1, ReplacementOutcome
<1>5. /\ call' \in Calls /\ call'.at = "replaced" /\ call'.outcome = outcome
      /\ call'.cand = call.cand /\ call'.gen = call.gen /\ call'.prior = call.prior
      /\ call'.kind = call.kind
  BY <1>1 DEF TypeOK, Calls, Outcomes
<1>6. TypeOK'
  BY <1>2, <1>4, <1>5 DEF TypeOK
<1>7. NamesItsSetting' /\ RelaunchRemembers'
  BY <1>2, <1>4 DEF NamesItsSetting, RelaunchRemembers
<1>8. RequestsAreKept'
  BY <1>2, <1>3, <1>4, <1>5 DEF RequestsAreKept, GenerationIsIdle
<1>9. queued = None
  BY <1>2, <1>3 DEF QueueHasAnOwner, PendingIsLost
<1>10. CallIsSound' /\ TaskIsSound'
  BY <1>2, <1>3, <1>5 DEF CallIsSound, TaskIsSound, TaskOwns, CallOwns
<1>11. TransactionIsAlone'
  BY <1>2, <1>3, <1>5 DEF TransactionIsAlone, OneTransactionAtATime, PendingIsLost,
        AbandonedIsKept, LossNeedsFault, UpdateAbandoned, TaskOwns, CallOwns
<1>12. QueueHasAnOwner'
  BY <1>2, <1>9 DEF QueueHasAnOwner
<1>13. LandingIsReal' /\ OutcomeIsLaunched'
  BY <1>2, <1>3, <1>4, <1>5 DEF LandingIsReal, OutcomeIsLaunched
<1> QED
  BY <1>6, <1>7, <1>8, <1>10, <1>11, <1>12, <1>13

\* A command in the channel is sound, and so are those behind it.
LEMMA AbandonedCommands ==
    ASSUME AbandonedIsKept, abandoned # <<>>
    PROVE  /\ Head(abandoned) \in Calls /\ CommandIsSound(Head(abandoned))
           /\ Tail(abandoned) \in Seq(SoundCommands)
           /\ Head(abandoned).at = "sent" => UpdateAbandoned
           /\ (\E i \in 1..Len(Tail(abandoned)) : Tail(abandoned)[i].at = "sent") => UpdateAbandoned
<1>1. abandoned \in Seq(SoundCommands)
  BY DEF AbandonedIsKept
<1>2. Head(abandoned) \in SoundCommands /\ Tail(abandoned) \in Seq(SoundCommands)
  BY <1>1, HeadTailProperties
<1>3. /\ Len(abandoned) \in Nat \ {0} /\ Head(abandoned) = abandoned[1]
      /\ Len(Tail(abandoned)) = Len(abandoned) - 1
      /\ \A i \in 1..Len(Tail(abandoned)) : Tail(abandoned)[i] = abandoned[i + 1]
  BY <1>1, HeadTailProperties
<1>4. Head(abandoned).at = "sent" => UpdateAbandoned
  BY <1>3 DEF UpdateAbandoned
<1>5. (\E i \in 1..Len(Tail(abandoned)) : Tail(abandoned)[i].at = "sent") => UpdateAbandoned
  <2> SUFFICES ASSUME NEW i \in 1..Len(Tail(abandoned)), Tail(abandoned)[i].at = "sent"
               PROVE  UpdateAbandoned
    OBVIOUS
  <2>1. i + 1 \in 1..Len(abandoned) /\ abandoned[i + 1].at = "sent"
    BY <1>3
  <2> QED
    BY <2>1 DEF UpdateAbandoned
<1> QED
  BY <1>2, <1>4, <1>5 DEF SoundCommands

\* What the loop does with such a command leaves a worker that a relaunch would
\* start, and does not touch one that serves.
LEMMA ExecuteOutcome ==
    ASSUME TypeOK, NamesItsSetting, RelaunchRemembers,
           NEW c, CommandIsSound(c), Execute(c)
    PROVE  /\ health' \in Healths /\ worker' \in Workers /\ launch' \in Snapshots
           /\ used' \in [{"edits", "calls", "requests", "failures"} -> Nat]
           /\ StartCeiling(launch'.mem) = StartCeiling(MemOf(launch'.gen))
           /\ worker'.up => worker'.gen = launch'.gen /\ worker'.ceiling = StartCeiling(launch'.mem)
           /\ active => UNCHANGED <<worker, launch>>
           /\ \/ queued' = queued /\ (active => health' = health)
              \/ /\ c.at = "sent" /\ active /\ health'.pendingCeiling
                 /\ queued' \in Update /\ MemOf(queued'.gen) \in Settings
                 /\ queued'.ceiling = CeilingOf(MemOf(queued'.gen))
<1>1. /\ health \in Healths /\ worker \in Workers /\ launch \in Snapshots
      /\ used \in [{"edits", "calls", "requests", "failures"} -> Nat]
      /\ StartCeiling(launch.mem) = StartCeiling(MemOf(launch.gen))
      /\ worker.up => worker.gen = launch.gen /\ worker.ceiling = StartCeiling(launch.mem)
  BY DEF TypeOK, NamesItsSetting, RelaunchRemembers
<1>2. Consistent(c.cand) /\ c.cand.mem \in Settings
  BY DEF CommandIsSound, FromDocument, Consistent, Configuration
<1>3. CASE c.at = "sent"
  <2>1. /\ c.gen \in Generation /\ MemOf(c.gen) = c.cand.mem
        /\ CeilingOf(c.cand.mem) <= Machine
    BY <1>3 DEF CommandIsSound
  <2>2. PICK outcome \in Outcomes \cup {"Queued"} : QueueOrApply(c, outcome)
    BY <1>3 DEF Execute
  <2>3. /\ health' \in Healths /\ worker' \in Workers /\ launch' \in Snapshots
        /\ used' \in [{"edits", "calls", "requests", "failures"} -> Nat]
        /\ StartCeiling(launch'.mem) = StartCeiling(MemOf(launch'.gen))
        /\ worker'.up => worker'.gen = launch'.gen /\ worker'.ceiling = StartCeiling(launch'.mem)
        /\ active => /\ UNCHANGED <<worker, launch>>
                     /\ queued' = [ceiling |-> CeilingOf(c.cand.mem), gen |-> c.gen]
                     /\ queued' \in Update /\ health'.pendingCeiling
        /\ ~active => queued' = queued
    BY <1>2, <2>1, <2>2, UpdateOutcome
  <2> QED
    BY <1>2, <1>3, <2>1, <2>3
<1>4. CASE c.at = "restart" /\ ~active
  <2>1. PICK outcome \in {"Applied", "Failed"} : Demote(c.cand, outcome) /\ UNCHANGED queued
    BY <1>4 DEF Execute
  <2> QED
    BY <1>2, <1>4, <2>1, DemotionOutcome
<1>5. CASE c.at = "restart" /\ active
  BY <1>1, <1>5 DEF Execute, workerVars
<1>6. CASE c.at = "replace"
  <2>1. PICK outcome \in {"Applied", "Failed"} : Replace(c.cand, outcome) /\ UNCHANGED queued
    BY <1>6 DEF Execute
  <2> QED
    BY <1>2, <1>6, <2>1, ReplacementOutcome
<1> QED
  BY <1>3, <1>4, <1>5, <1>6 DEF CommandIsSound

\* What a dropped handler asked for is done while no transaction is in the
\* loop's hands, and nobody was told that anything is applied.
LEMMA TakeAbandonedKeeps ==
    ASSUME IInv, TakeAbandoned
    PROVE  IInv'
<1> USE NoneAssumption DEF IInv, configVars, requestVars
<1> DEFINE c == Head(abandoned)
<1>1. /\ UNCHANGED <<file, live, pending, swap, waiting, active, call, task, answer>>
      /\ abandoned # <<>> /\ abandoned' = Tail(abandoned)
      /\ swap = None /\ (queued = None \/ active) /\ Execute(c)
  BY DEF TakeAbandoned, LoopIsFree
<1>2. /\ answer = "dropped" /\ ~TaskOwns /\ task.at = "none"
      /\ call.at \in {"idle", "compare", "write", "sent", "replace"}
  BY <1>1 DEF TransactionIsAlone, AbandonedIsKept, TaskOwns
<1>3. /\ CommandIsSound(c) /\ Tail(abandoned) \in Seq(SoundCommands)
      /\ Tail(abandoned) \in Seq(Calls)
      /\ c.at = "sent" => PendingIsLost
      /\ (\E i \in 1..Len(Tail(abandoned)) : Tail(abandoned)[i].at = "sent") => PendingIsLost
  <2>1. AbandonedIsKept /\ (UpdateAbandoned => PendingIsLost) /\ abandoned \in Seq(Calls)
    BY DEF TransactionIsAlone, AbandonedIsKept, TypeOK
  <2> HIDE DEF IInv
  <2>2. Tail(abandoned) \in Seq(Calls)
    BY <1>1, <2>1, HeadTailProperties
  <2> QED
    BY <1>1, <2>1, <2>2, AbandonedCommands
<1>4. /\ health' \in Healths /\ worker' \in Workers /\ launch' \in Snapshots
      /\ used' \in [{"edits", "calls", "requests", "failures"} -> Nat]
      /\ StartCeiling(launch'.mem) = StartCeiling(MemOf(launch'.gen))
      /\ worker'.up => worker'.gen = launch'.gen /\ worker'.ceiling = StartCeiling(launch'.mem)
      /\ active => UNCHANGED <<worker, launch>>
      /\ \/ queued' = queued /\ (active => health' = health)
         \/ /\ PendingIsLost /\ active /\ health'.pendingCeiling
            /\ queued' \in Update /\ MemOf(queued'.gen) \in Settings
            /\ queued'.ceiling = CeilingOf(MemOf(queued'.gen))
  <2>1. TypeOK /\ NamesItsSetting /\ RelaunchRemembers
    OBVIOUS
  <2> HIDE DEF IInv, c
  <2> QED
    BY <1>1, <1>3, <2>1, ExecuteOutcome
<1> HIDE DEF c
<1>5. TypeOK'
  BY <1>1, <1>3, <1>4 DEF TypeOK
<1>6. NamesItsSetting' /\ RelaunchRemembers'
  BY <1>1, <1>4 DEF NamesItsSetting, RelaunchRemembers
<1>7. CallIsSound' /\ TaskIsSound'
  BY <1>1, <1>2 DEF CallIsSound, TaskIsSound, TaskOwns, CallOwns
<1>8. TransactionIsAlone'
  <2>1. PendingIsLost' <=> PendingIsLost
    BY <1>1 DEF PendingIsLost, CallOwns, TaskOwns
  <2>2. AbandonedIsKept'
    BY <1>1, <1>2, <1>3, <2>1 DEF AbandonedIsKept, UpdateAbandoned, TaskOwns
  <2>3. LossNeedsFault'
    BY <1>1, <2>1 DEF LossNeedsFault, TransactionIsAlone
  <2>4. OneTransactionAtATime'
    BY <1>1 DEF OneTransactionAtATime, TransactionIsAlone, CallOwns, TaskOwns
  <2> QED
    BY <1>1, <2>1, <2>2, <2>3, <2>4 DEF TransactionIsAlone
<1>9. RequestsAreKept'
  BY <1>1, <1>2, <1>4 DEF RequestsAreKept, GenerationIsIdle
<1>10. QueueHasAnOwner'
  <2>1. PendingIsLost' <=> PendingIsLost
    BY <1>1 DEF PendingIsLost, CallOwns, TaskOwns
  <2>2. queued' # None => active /\ worker'.up /\ health'.pendingCeiling /\ PendingIsLost
    BY <1>1, <1>2, <1>4 DEF QueueHasAnOwner, RequestsAreKept
  <2> QED
    BY <1>1, <2>1, <2>2 DEF QueueHasAnOwner
<1>11. LandingIsReal' /\ OutcomeIsLaunched'
  BY <1>1, <1>2 DEF LandingIsReal, OutcomeIsLaunched
<1> QED
  BY <1>5, <1>6, <1>7, <1>8, <1>9, <1>10, <1>11

\* A handler that is dropped leaves its generation, and perhaps its command.
LEMMA HandlerDroppedKeeps ==
    ASSUME IInv, HandlerDropped
    PROVE  IInv'
<1> USE NoneAssumption DEF IInv, configVars, workerVars, requestVars
<1>1. /\ UNCHANGED <<file, live, pending, health, worker, launch, queued, swap, waiting, active,
                     task, used>>
      /\ call' = NoCall /\ answer' = "dropped" /\ Faults # {}
      /\ call.at \in {"sent", "answered", "restart", "restarted", "replace", "replaced"}
      /\ \/ UNCHANGED abandoned
         \/ call.at \in {"sent", "restart", "replace"} /\ abandoned' = Append(abandoned, call)
  BY DEF HandlerDropped, CallEnds
<1>2. ~TaskOwns /\ task.at = "none" /\ call \in Calls
  BY <1>1 DEF TransactionIsAlone, OneTransactionAtATime, TaskIsSound, CallOwns, TaskOwns, TypeOK
<1>3. call.at \in {"sent", "restart", "replace"} => CommandIsSound(call)
  BY <1>1 DEF CallIsSound, CallOwns, CommandIsSound
<1>4. call'.at = "idle" /\ call' \in Calls
  BY <1>1 DEF NoCall, Calls, OptionalGeneration, OptionalConfiguration, Outcomes
<1>5. /\ abandoned' \in Seq(SoundCommands) /\ abandoned' \in Seq(Calls)
      /\ UpdateAbandoned' => UpdateAbandoned \/ call.at = "sent"
  <2>1. abandoned \in Seq(SoundCommands) /\ abandoned \in Seq(Calls)
    BY DEF TransactionIsAlone, AbandonedIsKept, TypeOK
  <2> HIDE DEF IInv
  <2>2. CASE UNCHANGED abandoned
    BY <2>1, <2>2 DEF UpdateAbandoned
  <2>3. CASE call.at \in {"sent", "restart", "replace"} /\ abandoned' = Append(abandoned, call)
    <3>1. call \in SoundCommands
      BY <1>2, <1>3, <2>3 DEF SoundCommands
    <3>2. abandoned' \in Seq(SoundCommands) /\ abandoned' \in Seq(Calls)
      BY <1>2, <2>1, <2>3, <3>1, AppendProperties
    <3>3. /\ Len(abandoned') = Len(abandoned) + 1 /\ Len(abandoned) \in Nat
          /\ abandoned'[Len(abandoned) + 1] = call
          /\ \A i \in 1..Len(abandoned) : abandoned'[i] = abandoned[i]
      BY <1>2, <2>1, <2>3, AppendProperties
    <3>4. UpdateAbandoned' => UpdateAbandoned \/ call.at = "sent"
      <4> SUFFICES ASSUME NEW i \in 1..Len(abandoned'), abandoned'[i].at = "sent"
                   PROVE  UpdateAbandoned \/ call.at = "sent"
        BY DEF UpdateAbandoned
      <4>1. i \in 1..Len(abandoned) \/ i = Len(abandoned) + 1
        BY <3>3
      <4> QED
        BY <3>3, <4>1 DEF UpdateAbandoned
    <3> QED
      BY <3>2, <3>4
  <2> QED
    BY <1>1, <2>2, <2>3
<1>6. CallOwns => pending # None
  BY DEF TransactionIsAlone, OneTransactionAtATime, CallIsSound, CallOwns
<1>7. CallOwns => PendingIsLost'
  BY <1>1, <1>2, <1>4, <1>6 DEF PendingIsLost, CallOwns, TaskOwns
<1>8. UpdateAbandoned => PendingIsLost'
  BY <1>1, <1>2, <1>4 DEF TransactionIsAlone, AbandonedIsKept, PendingIsLost, CallOwns, TaskOwns
<1>9. TypeOK'
  BY <1>1, <1>4, <1>5 DEF TypeOK
<1>10. NamesItsSetting' /\ RelaunchRemembers' /\ RequestsAreKept'
  BY <1>1, <1>2, <1>4 DEF NamesItsSetting, RelaunchRemembers, RequestsAreKept, GenerationIsIdle
<1>11. CallIsSound' /\ TaskIsSound'
  BY <1>1, <1>2, <1>4 DEF CallIsSound, TaskIsSound, CallOwns, TaskOwns
<1>12. TransactionIsAlone'
  <2>1. UpdateAbandoned' => PendingIsLost'
    BY <1>5, <1>7, <1>8 DEF CallOwns
  <2>2. AbandonedIsKept'
    BY <1>1, <1>2, <1>4, <1>5, <2>1 DEF AbandonedIsKept, TaskOwns
  <2>3. OneTransactionAtATime' /\ LossNeedsFault'
    BY <1>1, <1>2, <1>4 DEF OneTransactionAtATime, LossNeedsFault, CallOwns, TaskOwns
  <2> QED
    BY <1>1, <1>4, <2>2, <2>3 DEF TransactionIsAlone
<1>13. QueueHasAnOwner'
  <2>1. queued # None => CallOwns \/ PendingIsLost
    BY <1>1, <1>2 DEF QueueHasAnOwner, CallOwns
  <2>2. PendingIsLost => CallOwns \/ PendingIsLost'
    BY <1>1, <1>2, <1>4 DEF PendingIsLost, CallOwns, TaskOwns
  <2> QED
    BY <1>1, <1>7, <2>1, <2>2 DEF QueueHasAnOwner
<1>14. LandingIsReal' /\ OutcomeIsLaunched'
  BY <1>1, <1>2, <1>4 DEF LandingIsReal, OutcomeIsLaunched
<1> QED
  BY <1>9, <1>10, <1>11, <1>12, <1>13, <1>14

-----------------------------------------------------------------------------
(* The theorems *)

\* The invariant holds at the start ...
LEMMA InitIInv == Init => IInv
<1> SUFFICES ASSUME Init PROVE IInv
  OBVIOUS
<1>1. /\ file \in Document /\ FromDocument(live) /\ launch.mem = file.mem
      /\ launch \in Snapshots /\ MemOf(launch.gen) = launch.mem
  <2>1. FromDocument(Resolved(file)) /\ <<file>> \in Generation /\ MemOf(<<file>>) = file.mem
    BY ResolvedIsSound DEF Init
  <2> QED
    BY <2>1 DEF Init, Snapshots, Document
<1>2. /\ worker \in Workers /\ worker.up /\ worker.gen = launch.gen
      /\ worker.ceiling = StartCeiling(launch.mem) /\ health \in Healths
  <2>1. launch.gen \in OptionalGeneration
    BY <1>1 DEF Snapshots, OptionalGeneration
  <2> QED
    BY <1>1, <2>1, FreshWorkers DEF Init
<1>3. TypeOK
  <2>1. call \in Calls /\ task \in Tasks
    BY DEF Init, Calls, Tasks, NoCall, NoTask, OptionalGeneration, OptionalConfiguration
  <2>2. used \in [{"edits", "calls", "requests", "failures"} -> Nat]
    BY DEF Init
  <2>3. abandoned = <<>> /\ abandoned \in Seq(Calls)
    BY EmptySeq DEF Init
  <2> QED
    BY <1>1, <1>2, <2>1, <2>2, <2>3 DEF Init, TypeOK, FromDocument, Consistent, OptionalGeneration
<1>4. TransactionIsAlone
  <2>1. abandoned = <<>> /\ abandoned \in Seq(SoundCommands) /\ Len(abandoned) = 0
    BY EmptySeq DEF Init
  <2>2. ~UpdateAbandoned
    BY <2>1 DEF UpdateAbandoned
  <2> QED
    BY <2>1, <2>2 DEF Init, NoCall, NoTask, TransactionIsAlone, OneTransactionAtATime,
       PendingIsLost, AbandonedIsKept, LossNeedsFault, CallOwns, TaskOwns
<1>5. /\ NamesItsSetting /\ CallIsSound /\ TaskIsSound
      /\ RequestsAreKept /\ QueueHasAnOwner /\ RelaunchRemembers /\ LandingIsReal
      /\ OutcomeIsLaunched
  BY <1>1, <1>2 DEF Init, NoCall, NoTask, NamesItsSetting, CallIsSound, TaskIsSound,
     RequestsAreKept, QueueHasAnOwner, RelaunchRemembers, LandingIsReal, OutcomeIsLaunched,
     FromDocument, CallOwns, TaskOwns
<1> QED
  BY <1>3, <1>4, <1>5 DEF IInv

\* ... and when nothing happens ...
LEMMA StutterIInv == IInv /\ UNCHANGED vars => IInv'
BY DEF IInv, vars, configVars, workerVars, requestVars, TypeOK, NamesItsSetting, CallIsSound,
       TaskIsSound, TransactionIsAlone, OneTransactionAtATime, PendingIsLost, AbandonedIsKept,
       LossNeedsFault, UpdateAbandoned, RequestsAreKept, QueueHasAnOwner, RelaunchRemembers,
       LandingIsReal, OutcomeIsLaunched, CallOwns, TaskOwns, GenerationIsIdle

\* ... and every action of the controller, the worker and the callers keeps it.
LEMMA NextIInv == IInv /\ [Next]_vars => IInv'
<1> SUFFICES ASSUME IInv, [Next]_vars PROVE IInv'
  OBVIOUS
<1>1. CASE LoopNext
  BY <1>1, TakeUpdateKeeps, DrainUpdateKeeps, TakeCallDemotionKeeps, TakeTaskDemotionKeeps,
     TakeReplacementKeeps, TakeAbandonedKeeps, TakeRequestKeeps, SwapEndsKeeps,
     GenerationEndsKeeps DEF LoopNext
<1>2. CASE CallNext
  BY <1>2, CompareFileKeeps, WriteFileKeeps, RespondKeeps, CallFailsKeeps,
     ReloadIsRejectedKeeps, CallDemotesKeeps, UpdateAppliedKeeps, UpdateQueuedKeeps,
     ReloadAppliedKeeps, ReloadQueuedKeeps, ReplacementAnsweredKeeps DEF CallNext
<1>3. CASE TaskNext
  BY <1>3, PollRestartKeeps, PollDecidedKeeps, TaskReservesKeeps, FinalizeKeeps, SettleKeeps
     DEF TaskNext
<1>4. CASE EnvNext
  BY <1>4, EditFileKeeps, PrepareUpdateKeeps, ReloadByReplacementKeeps, ReloadMemoryKeeps,
     AdmitRequestKeeps, HandlerDroppedKeeps, WorkerCrashesKeeps, RelaunchKeeps DEF EnvNext
<1>5. CASE UNCHANGED vars
  BY <1>5, StutterIInv
<1> QED
  BY <1>1, <1>2, <1>3, <1>4, <1>5 DEF Next

\* It holds of every behaviour, whatever the settings, the calls and the faults.
THEOREM Inductive == Spec => []IInv
BY InitIInv, NextIInv, PTL DEF Spec

\* Every variable keeps its type: in particular a ceiling never exceeds the
\* machine, and a queued one is positive.
THEOREM TypeCorrect == Spec => []TypeOK
<1>1. IInv => TypeOK
  BY DEF IInv
<1> QED
  BY <1>1, Inductive, PTL

\* No two memory transactions overlap, in the handlers or in the reconcilers
\* they leave behind.
THEOREM TransactionsAreSerial == Spec => []OneTransactionAtATime
<1>1. IInv => OneTransactionAtATime
  BY DEF IInv, TransactionIsAlone
<1> QED
  BY <1>1, Inductive, PTL

\* What was reported as applied or queued is in someone's hands for as long as its
\* generation is pending, whichever handlers are dropped and settings refused.
THEOREM ReportedIsOwned == Spec => []ReportedHasAnOwner
<1>1. IInv => ReportedHasAnOwner
  BY DEF IInv, TransactionIsAlone, PendingIsLost, ReportedHasAnOwner
<1> QED
  BY <1>1, Inductive, PTL

\* Without a refused reload and without a dropped handler, whatever else fails, a
\* generation that is pending has a handler or a reconciler that will settle it,
\* or the loop has still to decide it.
THEOREM PendingIsOwned == Faults = {} => (Spec => []PendingHasAnOwner)
<1> SUFFICES ASSUME Faults = {} PROVE Spec => []PendingHasAnOwner
  OBVIOUS
<1>1. IInv => PendingHasAnOwner
  BY DEF IInv, TransactionIsAlone, LossNeedsFault, PendingIsLost, PendingHasAnOwner
<1> QED
  BY <1>1, Inductive, PTL

\* What a client was told is applied is live, and is what the next worker is
\* launched with.
THEOREM AppliedStaysLive == Spec => []AppliedIsLive
<1>1. IInv => AppliedIsLive
  BY DEF IInv, OutcomeIsLaunched, AppliedIsLive
<1> QED
  BY <1>1, Inductive, PTL

\* A running worker is what the next relaunch would start.
THEOREM RelaunchIsFaithful == Spec => []RelaunchRemembers
<1>1. IInv => RelaunchRemembers
  BY DEF IInv
<1> QED
  BY <1>1, Inductive, PTL

=============================================================================
