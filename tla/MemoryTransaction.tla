------------------------- MODULE MemoryTransaction -------------------------
(***************************************************************************)
(* The memory-ceiling transaction: POST of a new maximum_mlx_memory_gb     *)
(* (rest/maximum_mlx_memory.rs), POST /v1/config/reload                    *)
(* (rest/config_reload.rs, config_reload_memory.rs), the tasks that        *)
(* reconcile an update queued behind a generation                          *)
(* (config/maximum_mlx_memory_transaction.rs, queued_memory_reload.rs,     *)
(* queued_memory_demotion.rs), and the part of the worker loop that        *)
(* applies, queues, demotes and relaunches.                                *)
(*                                                                         *)
(* One value is kept in five places that the transaction must bring        *)
(* together: config.json, the live configuration, the health snapshot,     *)
(* the worker process and the snapshot the next worker is launched from.   *)
(* A configuration is named by its generation, a digest of the document:   *)
(* here the document itself, followed by the settings of the memory-only   *)
(* transitions made on top of it.                                          *)
(***************************************************************************)
EXTENDS Integers, Sequences

CONSTANTS
    Settings,   \* values of maximum_mlx_memory_gb, NoLimit when it is absent
    NoLimit,
    Machine,    \* machine_mlx_memory_ceiling_bytes of a running worker
    Policies,   \* values of the fields only a new worker can pick up
    Listeners,  \* values of the fields only a new daemon can pick up
    MaxEdits,   \* edits of config.json by others
    MaxCalls,   \* POSTs of a setting and reloads
    MaxRequests,\* generation requests
    MaxFailures,\* crashes, timeouts and failed replacements of the worker
    Faults,     \* "refusal": the worker refuses the ceiling of a reload;
                \* "drop": a client goes away before its answer
    None

\* maximum_mlx_memory_gb_to_bytes refuses a setting of zero.
ASSUME SettingsAssumption ==
    /\ Settings \ {NoLimit} \subseteq Nat \ {0}
    /\ NoLimit \in Settings
    /\ Machine \in Nat \ {0}

VARIABLES
    file,     \* the document in config.json
    live,     \* reloadable_config
    pending,  \* pending_memory_config_generation
    health,   \* WorkerHealthSnapshot
    worker,   \* the worker process
    launch,   \* the startup configuration of the next relaunch
    queued,   \* the loop's pending_mlx_memory_limit_update
    swap,     \* the generation a model swap in progress must acknowledge
    waiting,  \* a request is admitted and its command is on its way
    active,   \* a generation runs
    call,     \* the handler that holds configuration_transition_lock
    task,     \* the spawned reconciler
    answer,   \* how the last transaction ended
    abandoned,\* commands of dropped handlers that the loop has not taken, oldest first
    used      \* what is used up of the bounds

configVars == <<file, live, pending>>
workerVars == <<health, worker, launch>>
requestVars == <<swap, waiting, active>>
vars == <<configVars, workerVars, queued, requestVars, call, task, answer, abandoned, used>>

Spend(what) ==
    /\ used[what] < CASE what = "edits" -> MaxEdits
                      [] what = "calls" -> MaxCalls
                      [] what = "requests" -> MaxRequests
                      [] what = "failures" -> MaxFailures
    /\ used' = [used EXCEPT ![what] = @ + 1]

-----------------------------------------------------------------------------
(* Documents, resolved configurations and generations *)

Document == [mem : Settings, policy : Policies, rest : Listeners]

Generation == Seq(Document \cup [only : Settings]) \ {<<>>}

Configuration == [mem : Settings, policy : Policies, rest : Listeners, gen : Generation]

Update == [ceiling : 1..Machine, gen : Generation]

OptionalGeneration == Generation \cup {None}

OptionalConfiguration == Configuration \cup {None}

ASSUME NoneAssumption == None \notin Generation \cup Configuration \cup Update

Resolved(d) == [mem |-> d.mem, policy |-> d.policy, rest |-> d.rest, gen |-> <<d>>]

\* Mutant: an absent setting is passed on as zero bytes.
CeilingAsWritten(m) == IF m = NoLimit THEN 0 ELSE m

\* The setting that is absent asks for all the machine has.
CeilingOf(m) == IF m = NoLimit THEN Machine ELSE m

\* A starting worker clamps the configured bound to the machine.
StartCeiling(m) == IF CeilingOf(m) > Machine THEN Machine ELSE CeilingOf(m)

\* ConfigReloadDiff::compare
Compare(current, candidate) ==
    IF current.rest # candidate.rest THEN "RestApiRestartRequired"
    ELSE IF \/ current.policy # candidate.policy
            \/ current.gen # candidate.gen /\ current.mem = candidate.mem
         THEN "RestartWorker"
    ELSE "NoWorkerRestart"

\* memory_effective_generation_for_reload
EffectiveGeneration(current, candidate) ==
    IF current.mem # candidate.mem /\ Compare(current, candidate) = "RestApiRestartRequired"
    THEN Append(current.gen, [only |-> candidate.mem])
    ELSE candidate.gen

-----------------------------------------------------------------------------
(* Health and worker *)

Unavailable == [ready |-> FALSE, gen |-> None, pendingCeiling |-> FALSE, pendingGen |-> None,
                restartRequired |-> FALSE, limitError |-> FALSE]

\* A new worker reports readiness and acknowledges its generation.
Ready(g) == [Unavailable EXCEPT !.ready = TRUE, !.gen = g]

Down == [up |-> FALSE, model |-> FALSE, gen |-> None, ceiling |-> 0]

Started(snapshot, hasModel) ==
    [up |-> TRUE, model |-> hasModel, gen |-> snapshot.gen, ceiling |-> StartCeiling(snapshot.mem)]

\* record_memory_configuration_generation
Recorded(h, g, outcome) ==
    CASE outcome = "Applied" ->
           [h EXCEPT !.gen = IF @ = None THEN None ELSE g, !.pendingGen = None]
      [] outcome = "Rejected" -> [h EXCEPT !.pendingGen = None]
      [] OTHER -> h

\* contain_worker_failure
Contain ==
    /\ worker' = Down
    /\ health' = Unavailable
    /\ UNCHANGED launch

\* is_generation_idle_for_control_action
GenerationIsIdle == ~waiting /\ ~active /\ swap = None

\* The loop takes a command: it is in no wait of its own, and it has drained
\* an update that was queued behind the last generation.
LoopIsFree == swap = None /\ (queued = None \/ active)

\* The command channel keeps the order: what a dropped handler sent is taken
\* before a later handler's command.
LoopIsNext == LoopIsFree /\ abandoned = <<>>

NoCall == [at |-> "idle", kind |-> "none", cand |-> None, prior |-> None, gen |-> None, outcome |-> "none"]

NoTask == [at |-> "none", kind |-> "none", cand |-> None, prior |-> None, gen |-> None, landed |-> FALSE]

-----------------------------------------------------------------------------
Init ==
    /\ file \in Document /\ CeilingOf(file.mem) <= Machine
    /\ live = Resolved(file)
    /\ pending = None
    /\ launch = [mem |-> file.mem, gen |-> <<file>>]
    /\ worker = Started(launch, FALSE)
    /\ health = Ready(launch.gen)
    /\ queued = None
    /\ swap = None /\ waiting = FALSE /\ active = FALSE
    /\ call = NoCall /\ task = NoTask
    /\ answer = "none" /\ abandoned = <<>>
    /\ used = [edits |-> 0, calls |-> 0, requests |-> 0, failures |-> 0]

\* Someone edits config.json, or saves it through the settings document.
EditFile(d) ==
    /\ Spend("edits")
    /\ d # file /\ file' = d
    /\ UNCHANGED <<live, pending, workerVars, queued, requestVars, call, task, answer, abandoned>>

-----------------------------------------------------------------------------
(* The memory endpoint *)

\* update_maximum_mlx_memory up to the prepared candidate.  The early returns
\* (a transaction is pending, the setting is out of bounds, the file holds
\* other changes) change nothing.
PrepareUpdate(m) ==
    /\ call.at = "idle" /\ pending = None
    /\ health.ready /\ CeilingOf(m) <= Machine
    /\ LET candidate == Resolved([file EXCEPT !.mem = m])
       IN  /\ Compare(live, candidate) = "NoWorkerRestart"
           /\ call' = [NoCall EXCEPT !.at = "compare", !.kind = "update", !.cand = candidate,
                                     !.prior = live, !.gen = <<file>>]
    /\ Spend("calls")
    /\ UNCHANGED <<configVars, workerVars, queued, requestVars, task, answer, abandoned>>

\* commit_maximum_mlx_memory_gb_update: the file must still be the one the
\* candidate was prepared from; then it is replaced.
CompareFile ==
    /\ call.at = "compare"
    /\ call' = IF <<file>> = call.gen THEN [call EXCEPT !.at = "write"] ELSE NoCall
    /\ UNCHANGED <<configVars, workerVars, queued, requestVars, task, answer, abandoned, used>>

\* The file is replaced, the generation is staged and the loop is asked.
WriteFile ==
    /\ call.at = "write"
    /\ file' = call.cand.gen[1]
    /\ pending' = call.cand.gen
    /\ health' = [health EXCEPT !.pendingGen = call.cand.gen]
    /\ call' = [call EXCEPT !.at = "sent", !.gen = call.cand.gen]
    /\ UNCHANGED <<live, worker, launch, queued, requestVars, task, answer, abandoned, used>>

-----------------------------------------------------------------------------
(* The reload endpoint *)

\* Mutant: a reload does not look for a transaction in progress.
ReloadAnyway == TRUE

\* reload_in_progress_response
ReloadAllowed == pending = None

\* The whole candidate takes effect through a new worker.
ReloadByReplacement ==
    /\ call.at = "idle" /\ ReloadAllowed
    /\ LET candidate == Resolved(file)
       IN  /\ Compare(live, candidate) = "RestartWorker"
           /\ GenerationIsIdle
           /\ call' = [NoCall EXCEPT !.at = "replace", !.kind = "reload", !.cand = candidate,
                                     !.prior = live, !.gen = candidate.gen]
    /\ Spend("calls")
    /\ UNCHANGED <<configVars, workerVars, queued, requestVars, task, answer, abandoned>>

\* Otherwise a changed ceiling is applied to the running worker:
\* stage_and_apply_memory_limit.
ReloadMemory ==
    /\ call.at = "idle" /\ ReloadAllowed
    /\ LET candidate == Resolved(file)
           generation == EffectiveGeneration(live, candidate)
       IN  /\ Compare(live, candidate) # "RestartWorker"
           /\ live.mem # candidate.mem
           /\ health.ready /\ CeilingOf(candidate.mem) <= Machine
           /\ pending' = generation
           /\ health' = [health EXCEPT !.pendingGen = generation]
           /\ call' = [NoCall EXCEPT !.at = "sent", !.kind = "reload", !.cand = candidate,
                                     !.prior = live, !.gen = generation]
    /\ Spend("calls")
    /\ UNCHANGED <<file, live, worker, launch, queued, requestVars, task, answer, abandoned>>

\* respond_to_reload_decision and apply_in_place_reload_fields
Respond ==
    /\ call.at = "respond"
    /\ live' = IF Compare(call.prior, call.cand) = "RestApiRestartRequired"
               THEN [live EXCEPT !.mem = call.cand.mem, !.gen = call.gen]
               ELSE call.cand
    /\ call' = NoCall
    /\ UNCHANGED <<file, pending, workerVars, queued, requestVars, task, answer, abandoned, used>>

-----------------------------------------------------------------------------
(* The worker loop *)

\* Mutant: the relaunch snapshot keeps the ceiling the worker was started with.
AdoptForNow(update) ==
    /\ worker' = [worker EXCEPT !.gen = update.gen, !.ceiling = update.ceiling]
    /\ UNCHANGED launch
    /\ health' = [health EXCEPT !.gen = IF health.pendingGen = None THEN @ ELSE health.pendingGen,
                                !.pendingGen = None, !.pendingCeiling = FALSE,
                                !.limitError = FALSE, !.restartRequired = FALSE]

\* apply_mlx_memory_limit: the worker adopts the ceiling and its generation,
\* asks for a restart, which only a loaded engine does, or refuses.  The
\* relaunch snapshot follows an adopted ceiling only.
Adopt(update) ==
    /\ worker' = [worker EXCEPT !.gen = update.gen, !.ceiling = update.ceiling]
    /\ launch' = [mem |-> update.ceiling, gen |-> update.gen]
    /\ health' = [health EXCEPT !.gen = IF health.pendingGen = None THEN @ ELSE health.pendingGen,
                                !.pendingGen = None, !.pendingCeiling = FALSE,
                                !.limitError = FALSE, !.restartRequired = FALSE]

\* Mutant: the marker that tells the reconciler to demote is not published.
AskForRestartUnmarked ==
    /\ worker.model
    /\ health' = [health EXCEPT !.limitError = TRUE]
    /\ UNCHANGED <<worker, launch>>

\* publish_mlx_memory_limit_restart_required
AskForRestart ==
    /\ worker.model
    /\ health' = [health EXCEPT !.limitError = TRUE, !.restartRequired = TRUE]
    /\ UNCHANGED <<worker, launch>>

Refuse ==
    /\ health' = [health EXCEPT !.pendingGen = None, !.pendingCeiling = FALSE,
                                !.limitError = TRUE, !.restartRequired = FALSE]
    /\ UNCHANGED <<worker, launch>>

ApplyLimit(update, outcome) ==
    \/ worker.up /\ outcome = "Applied" /\ Adopt(update) /\ UNCHANGED used
    \/ worker.up /\ outcome = "RestartRequired" /\ AskForRestart /\ UNCHANGED used
    \/ worker.up /\ outcome = "Rejected" /\ Refuse /\ UNCHANGED used
    \/ worker.up /\ outcome = "Failed" /\ Contain /\ Spend("failures")
    \/ ~worker.up /\ outcome = "Failed" /\ UNCHANGED <<workerVars, used>>

Outcomes == {"Applied", "RestartRequired", "Rejected", "Failed"}

\* queue_or_apply_mlx_memory_limit_update: behind a generation the update is
\* queued.  Else it is applied; of a failure only the timeout contains the
\* worker, and a worker that ended is noticed when its events are read again.
QueueOrApply(c, outcome) ==
    LET update == [ceiling |-> CeilingOf(c.cand.mem), gen |-> c.gen]
    IN  \/ /\ active /\ outcome = "Queued"
           /\ queued' = update
           /\ health' = [health EXCEPT !.pendingCeiling = TRUE]
           /\ UNCHANGED <<worker, launch, used>>
        \/ ~active /\ ApplyLimit(update, outcome) /\ UNCHANGED queued
        \/ /\ ~active /\ worker.up /\ outcome = "Failed" /\ Spend("failures")
           /\ UNCHANGED <<workerVars, queued>>

TakeUpdate ==
    /\ call.at = "sent" /\ LoopIsNext
    /\ \E outcome \in Outcomes \cup {"Queued"} :
          /\ outcome = "Rejected" /\ call.kind = "reload" => "refusal" \in Faults
          /\ QueueOrApply(call, outcome)
          /\ call' = [call EXCEPT !.at = "answered", !.outcome = outcome]
    /\ UNCHANGED <<configVars, requestVars, task, answer, abandoned>>

\* drain_pending_idle_work: an update that fails contains the worker.
DrainUpdate ==
    /\ queued # None /\ ~active /\ swap = None
    /\ queued' = None
    /\ \E outcome \in Outcomes : ApplyLimit(queued, outcome)
    /\ UNCHANGED <<configVars, requestVars, call, task, answer, abandoned>>

\* MemoryDemotionRestart: the worker is stopped, a new one is launched from the
\* candidate, and the model that was loaded is loaded again.  A failure before
\* the new worker is committed leaves none; a model that does not come back
\* leaves the new worker without it.
Demote(candidate, outcome) ==
    LET snapshot == [mem |-> candidate.mem, gen |-> candidate.gen]
    IN  \/ /\ health.ready /\ outcome = "Applied"
           /\ launch' = snapshot /\ worker' = Started(snapshot, worker.model)
           /\ health' = Ready(candidate.gen)
           /\ UNCHANGED used
        \/ /\ health.ready /\ outcome = "Failed"
           /\ Spend("failures")
           /\ \/ Contain
              \/ /\ worker.model
                 /\ launch' = snapshot /\ worker' = Started(snapshot, FALSE)
                 /\ health' = Ready(candidate.gen)
        \/ /\ ~health.ready /\ outcome = "Failed"
           /\ UNCHANGED <<workerVars, used>>

TakeCallDemotion ==
    /\ call.at = "restart" /\ LoopIsNext
    /\ \E outcome \in {"Applied", "Failed"} :
          /\ Demote(call.cand, outcome)
          /\ call' = [call EXCEPT !.at = "restarted", !.outcome = outcome]
    /\ UNCHANGED <<configVars, queued, requestVars, task, answer, abandoned>>

\* The reconciler records the outcome before it waits for the lock.
TakeTaskDemotion ==
    /\ task.at = "restart" /\ LoopIsNext
    /\ \E outcome \in {"Applied", "Failed"} :
          /\ Demote(task.cand, outcome)
          /\ task' = [task EXCEPT !.at = "settle", !.landed = (outcome = "Applied")]
    /\ UNCHANGED <<configVars, queued, requestVars, call, answer, abandoned>>

\* WorkerReplacement: the candidate is started first, and the trusted worker
\* is kept when the candidate fails.
Replace(candidate, outcome) ==
    LET snapshot == [mem |-> candidate.mem, gen |-> candidate.gen]
    IN  \/ /\ health.ready /\ ~active /\ outcome = "Applied"
           /\ launch' = snapshot /\ worker' = Started(snapshot, FALSE)
           /\ health' = Ready(candidate.gen)
           /\ UNCHANGED used
        \/ /\ health.ready /\ ~active /\ outcome = "Failed" /\ Spend("failures")
           /\ Contain \/ UNCHANGED workerVars
        \/ /\ active \/ ~health.ready
           /\ outcome = "Failed"
           /\ UNCHANGED <<workerVars, used>>

TakeReplacement ==
    /\ call.at = "replace" /\ LoopIsNext
    /\ \E outcome \in {"Applied", "Failed"} :
          /\ Replace(call.cand, outcome)
          /\ call' = [call EXCEPT !.at = "replaced", !.outcome = outcome]
    /\ UNCHANGED <<configVars, queued, requestVars, task, answer, abandoned>>

\* The loop takes a command whose handler was dropped: it does what it would
\* have done, and its answer goes nowhere.  The demotion's permits went with
\* the handler, so that it may find a generation.
Execute(c) ==
    \/ c.at = "sent" /\ \E outcome \in Outcomes \cup {"Queued"} : QueueOrApply(c, outcome)
    \/ /\ c.at = "restart" /\ ~active /\ UNCHANGED queued
       /\ \E outcome \in {"Applied", "Failed"} : Demote(c.cand, outcome)
    \/ c.at = "restart" /\ active /\ UNCHANGED <<workerVars, queued, used>>
    \/ /\ c.at = "replace" /\ UNCHANGED queued
       /\ \E outcome \in {"Applied", "Failed"} : Replace(c.cand, outcome)

TakeAbandoned ==
    /\ abandoned # <<>> /\ LoopIsFree
    /\ Execute(Head(abandoned))
    /\ abandoned' = Tail(abandoned)
    /\ UNCHANGED <<configVars, requestVars, call, task, answer>>

\* The worker ends.  The loop contains it, and an update queued behind the
\* generation is lost to the dead process at the start of the next iteration.
WorkerCrashes ==
    /\ worker.up /\ Spend("failures")
    /\ Contain
    /\ queued' = None
    /\ swap' = None /\ active' = FALSE
    /\ UNCHANGED <<configVars, waiting, call, task, answer, abandoned>>

Relaunch ==
    /\ ~worker.up
    /\ worker' = Started(launch, FALSE)
    /\ health' = Ready(launch.gen)
    /\ UNCHANGED <<configVars, launch, queued, requestVars, call, task, answer, abandoned, used>>

-----------------------------------------------------------------------------
(* Generation requests *)

\* A request is admitted under the transition lock, and not at all while a
\* demotion holds the permits.
AdmitRequest ==
    /\ call.at = "idle" /\ task.at # "restart"
    /\ ~waiting /\ waiting' = TRUE
    /\ Spend("requests")
    /\ UNCHANGED <<configVars, workerVars, queued, swap, active, call, task, answer, abandoned>>

TakeRequest ==
    /\ waiting /\ ~active /\ LoopIsFree
    /\ \/ ~worker.up /\ waiting' = FALSE /\ UNCHANGED <<swap, active>>
       \/ worker.up /\ worker.model /\ waiting' = FALSE /\ active' = TRUE /\ UNCHANGED swap
       \/ worker.up /\ swap' = health.gen /\ UNCHANGED <<waiting, active>>
    /\ UNCHANGED <<configVars, workerVars, queued, call, task, answer, abandoned, used>>

\* The swap is acknowledged with the generation the worker runs.  One that is
\* not the generation health had is a protocol violation; else the model is
\* published by ready_with_replacement_model, which keeps the marker and the
\* generation and nothing else of the memory state.
SwapEnds ==
    /\ swap # None
    /\ waiting' = FALSE /\ swap' = None
    /\ IF worker.gen = swap
       THEN /\ worker' = [worker EXCEPT !.model = TRUE]
            /\ health' = [Ready(worker.gen) EXCEPT !.restartRequired = health.restartRequired]
            /\ active' = TRUE
            /\ UNCHANGED launch
       ELSE Contain /\ UNCHANGED active
    /\ UNCHANGED <<configVars, queued, call, task, answer, abandoned, used>>

GenerationEnds ==
    /\ active /\ active' = FALSE
    /\ UNCHANGED <<configVars, workerVars, queued, swap, waiting, call, task, answer, abandoned, used>>

-----------------------------------------------------------------------------
(* How a call ends *)

CallEnds(how) == call' = NoCall /\ answer' = how

CallFailed ==
    \/ call.at = "answered" /\ call.outcome = "Failed"
    \/ call.at = "answered" /\ call.outcome = "Rejected" /\ call.kind = "update"
    \/ call.at = "answered" /\ call.outcome = "RestartRequired" /\ ~GenerationIsIdle
    \/ call.at = "restarted" /\ call.outcome = "Failed"

\* A call whose update or restart did not succeed: the setting stays in the
\* file, and the live configuration is not touched.
CallFails ==
    /\ CallFailed
    /\ pending' = None
    /\ health' = Recorded(health, call.gen, "Rejected")
    /\ CallEnds("failed")
    /\ UNCHANGED <<file, live, worker, launch, queued, requestVars, task, abandoned, used>>

\* The Rejected arm of a reload answers and leaves the generation pending.
ReloadIsRejected ==
    /\ call.at = "answered" /\ call.outcome = "Rejected" /\ call.kind = "reload"
    /\ CallEnds("failed")
    /\ UNCHANGED <<configVars, workerVars, queued, requestVars, task, abandoned, used>>

\* The daemon takes every permit before it stops the worker.
CallDemotes ==
    /\ call.at = "answered" /\ call.outcome = "RestartRequired" /\ GenerationIsIdle
    /\ call' = [call EXCEPT !.at = "restart"]
    /\ UNCHANGED <<configVars, workerVars, queued, requestVars, task, answer, abandoned, used>>

\* applied_memory_update_response and restart_required_memory_update_response:
\* commit_applied_config_snapshots makes the candidate live.
UpdateApplied ==
    /\ call.kind = "update" /\ call.at \in {"answered", "restarted"} /\ call.outcome = "Applied"
    /\ health' = Recorded(health, call.gen, "Applied")
    /\ live' = call.cand
    /\ pending' = None
    /\ CallEnds("applied")
    /\ UNCHANGED <<file, worker, launch, queued, requestVars, task, abandoned, used>>

\* Mutant: nobody waits for the queued update.
UpdateQueuedUnwatched ==
    /\ call.kind = "update" /\ call.at = "answered" /\ call.outcome = "Queued"
    /\ live' = call.cand
    /\ CallEnds("queued")
    /\ UNCHANGED <<file, pending, workerVars, queued, requestVars, task, abandoned, used>>

UpdateQueued ==
    /\ call.kind = "update" /\ call.at = "answered" /\ call.outcome = "Queued"
    /\ live' = call.cand
    /\ task' = [NoTask EXCEPT !.at = "poll", !.kind = "update", !.cand = call.cand,
                              !.prior = call.prior, !.gen = call.gen]
    /\ CallEnds("queued")
    /\ UNCHANGED <<file, pending, workerVars, queued, requestVars, abandoned, used>>

\* The reload goes on to its response, under the same lock.
ReloadApplied ==
    /\ call.kind = "reload" /\ call.at \in {"answered", "restarted"} /\ call.outcome = "Applied"
    /\ health' = Recorded(health, call.gen, "Applied")
    /\ pending' = None
    /\ call' = [call EXCEPT !.at = "respond"]
    /\ answer' = IF call.at = "answered" THEN "applied" ELSE "restarted"
    /\ UNCHANGED <<file, live, worker, launch, queued, requestVars, task, abandoned, used>>

\* The reconciler is spawned before the candidate is live.
ReloadQueued ==
    /\ call.kind = "reload" /\ call.at = "answered" /\ call.outcome = "Queued"
    /\ task' = [NoTask EXCEPT !.at = "poll", !.kind = "reload", !.prior = call.prior, !.gen = call.gen]
    /\ call' = [call EXCEPT !.at = "respond"]
    /\ answer' = "queued"
    /\ UNCHANGED <<configVars, workerVars, queued, requestVars, abandoned, used>>

\* restart_worker
ReplacementAnswered ==
    /\ call.at = "replaced"
    /\ live' = IF call.outcome = "Applied" THEN call.cand ELSE live
    /\ CallEnds(IF call.outcome = "Applied" THEN "applied" ELSE "failed")
    /\ UNCHANGED <<file, pending, workerVars, queued, requestVars, task, abandoned, used>>

\* The client of a handler goes away while the handler awaits the loop's
\* answer: the locks are released, the pending generation stays, and a command
\* that got into the channel will be taken.  An answer that has come is lost.
HandlerDropped ==
    /\ "drop" \in Faults
    /\ call.at \in {"sent", "answered", "restart", "restarted", "replace", "replaced"}
    /\ \/ UNCHANGED abandoned
       \/ call.at \in {"sent", "restart", "replace"} /\ abandoned' = Append(abandoned, call)
    /\ CallEnds("dropped")
    /\ UNCHANGED <<configVars, workerVars, queued, requestVars, task, used>>

-----------------------------------------------------------------------------
(* The reconciler of a queued update.  It polls health without the lock.  *)

\* The reload's reconciler demotes to what is live at this moment.
PollRestart ==
    /\ task.at = "poll" /\ health.restartRequired
    /\ task' = [task EXCEPT !.at = "demote",
                            !.cand = IF task.kind = "reload" THEN live ELSE @]
    /\ UNCHANGED <<configVars, workerVars, queued, requestVars, call, answer, abandoned, used>>

\* Mutant: an update that is no longer pending counts as applied.
PollDone ==
    /\ task.at = "poll" /\ ~health.restartRequired /\ ~health.pendingCeiling
    /\ task' = [task EXCEPT !.at = "finalize", !.landed = TRUE]
    /\ UNCHANGED <<configVars, workerVars, queued, requestVars, call, answer, abandoned, used>>

\* candidate_generation_was_applied
PollDecided ==
    /\ task.at = "poll" /\ ~health.restartRequired /\ ~health.pendingCeiling
    /\ task' = [task EXCEPT !.at = "finalize",
                            !.landed = (health.gen = task.gen /\ ~health.limitError)]
    /\ UNCHANGED <<configVars, workerVars, queued, requestVars, call, answer, abandoned, used>>

\* demote_queued_restart_required_ceiling: an idle instant is waited for.
TaskReserves ==
    /\ task.at = "demote" /\ GenerationIsIdle
    /\ task' = [task EXCEPT !.at = "restart"]
    /\ UNCHANGED <<configVars, workerVars, queued, requestVars, call, answer, abandoned, used>>

TaskEnds(how) == task' = NoTask /\ answer' = how

\* finalize_queued_memory_config_outcome, and the end of
\* reconcile_reloaded_memory_config
Finalize ==
    /\ task.at = "finalize" /\ call.at = "idle"
    /\ IF pending = task.gen
       THEN /\ pending' = None
            /\ live' = IF task.landed THEN live ELSE task.prior
            /\ TaskEnds(IF ~task.landed THEN "failed"
                        ELSE IF task.kind = "update" THEN "applied" ELSE "reconciled")
       ELSE task' = NoTask /\ UNCHANGED <<live, pending, answer>>
    /\ UNCHANGED <<file, workerVars, queued, requestVars, call, abandoned, used>>

\* The end of a demotion.  Only the reload rolls the live configuration back.
Settle ==
    /\ task.at = "settle" /\ call.at = "idle"
    /\ pending' = None
    /\ live' = CASE task.landed /\ task.kind = "update" -> task.cand
                 [] ~task.landed /\ task.kind = "reload" -> task.prior
                 [] OTHER -> live
    /\ TaskEnds(IF ~task.landed THEN "failed"
                ELSE IF task.kind = "update" THEN "applied" ELSE "reconciled")
    /\ UNCHANGED <<file, workerVars, queued, requestVars, call, abandoned, used>>

-----------------------------------------------------------------------------
LoopNext ==
    \/ TakeUpdate \/ DrainUpdate \/ TakeCallDemotion \/ TakeTaskDemotion
    \/ TakeReplacement \/ TakeAbandoned \/ TakeRequest \/ SwapEnds \/ GenerationEnds

CallNext ==
    \/ CompareFile \/ WriteFile \/ Respond
    \/ CallFails \/ ReloadIsRejected \/ CallDemotes
    \/ UpdateApplied \/ UpdateQueued \/ ReloadApplied \/ ReloadQueued
    \/ ReplacementAnswered

TaskNext == PollRestart \/ PollDecided \/ TaskReserves \/ Finalize \/ Settle

EnvNext ==
    \/ \E d \in Document : EditFile(d)
    \/ \E m \in Settings : PrepareUpdate(m)
    \/ ReloadByReplacement \/ ReloadMemory
    \/ AdmitRequest
    \/ HandlerDropped
    \/ WorkerCrashes \/ Relaunch

Next == LoopNext \/ CallNext \/ TaskNext \/ EnvNext

\* The loop and the daemon's tasks run on, and a generation ends.  Nothing is
\* assumed of clients, of editors, or of a worker that stopped coming back.
Fairness == WF_vars(LoopNext) /\ WF_vars(CallNext) /\ WF_vars(TaskNext)

Spec == Init /\ [][Next]_vars /\ Fairness

-----------------------------------------------------------------------------
(* Properties *)

Healths ==
    [ready : BOOLEAN, gen : OptionalGeneration, pendingCeiling : BOOLEAN,
     pendingGen : OptionalGeneration, restartRequired : BOOLEAN, limitError : BOOLEAN]

Workers == [up : BOOLEAN, model : BOOLEAN, gen : OptionalGeneration, ceiling : 0..Machine]

Snapshots == [mem : Settings \cup {Machine}, gen : Generation]

Calls ==
    [at : {"idle", "compare", "write", "sent", "answered", "restart", "restarted",
           "replace", "replaced", "respond"},
     kind : {"none", "update", "reload"}, cand : OptionalConfiguration,
     prior : OptionalConfiguration, gen : OptionalGeneration,
     outcome : Outcomes \cup {"none", "Queued"}]

Tasks ==
    [at : {"none", "poll", "finalize", "demote", "restart", "settle"},
     kind : {"none", "update", "reload"}, cand : OptionalConfiguration,
     prior : OptionalConfiguration, gen : OptionalGeneration, landed : BOOLEAN]

\* The type of every variable; the bounds are kept.
TypeOK ==
    /\ file \in Document
    /\ live \in Configuration
    /\ pending \in OptionalGeneration
    /\ health \in Healths
    /\ worker \in Workers
    /\ launch \in Snapshots
    /\ queued \in Update \cup {None}
    /\ swap \in OptionalGeneration
    /\ waiting \in BOOLEAN /\ active \in BOOLEAN
    /\ call \in Calls
    /\ task \in Tasks
    /\ answer \in {"none", "applied", "restarted", "reconciled", "queued", "failed", "dropped"}
    /\ abandoned \in Seq(Calls)
    /\ used \in [{"edits", "calls", "requests", "failures"} -> Nat]

CallOwns == call.at \in {"sent", "answered", "restart", "restarted"}

TaskOwns == task.at # "none"

\* No two memory transactions overlap: whoever works on an update, a handler
\* or the reconciler it left behind, is alone with it and finds its own
\* generation pending (pending_memory_config_generation is tested by both
\* endpoints before they start).  A second update between the two would be
\* applied to the worker and rolled back in the live configuration.
OneTransactionAtATime ==
    /\ CallOwns => pending = call.gen /\ ~TaskOwns
    /\ TaskOwns => pending = task.gen

\* A client that heard that its setting is applied or queued left it in good
\* hands: a generation that is still pending after such an answer has a handler
\* or a reconciler that will clear it (reconcile_queued_memory_config and
\* reconcile_reloaded_memory_config), whatever handler is dropped, setting
\* refused or worker lost before or after.
ReportedHasAnOwner ==
    answer \in {"queued", "applied", "restarted"} /\ pending # None => CallOwns \/ TaskOwns

\* pending_memory_config_generation "keeps a persisted live-memory update
\* transactional until the worker either applies or rejects" it
\* (application.rs:68): a pending generation has a handler or a reconciler that
\* will clear it, or is still to be decided by the loop.  One that nobody works
\* on makes every later reload and every later update answer 409.  It holds
\* over every failure of the worker, every edit of the file and every order of
\* queue, demotion and rollback when Faults is empty.  It does not hold of a
\* reload whose ceiling the worker refuses at once ("refusal"), nor when a
\* handler is dropped while it awaits the loop ("drop").
PendingHasAnOwner == pending # None => CallOwns \/ TaskOwns \/ queued # None \/ abandoned # <<>>

\* A client that is told its setting is applied, at once, after a restart or
\* after the queued update was reconciled, can rely on it: the configuration
\* that is live has the ceiling and the generation that a worker is launched
\* with from now on, so that a crash does not undo it.  (A reload that needs a
\* restart answers for the ceiling only, the answer is not the last word while
\* a call or a reconciler is at work, and a dropped handler has told nobody.)
AppliedIsLive ==
    call.at = "idle" /\ task.at = "none" =>
        /\ answer \in {"applied", "restarted"} => StartCeiling(live.mem) = StartCeiling(launch.mem)
        /\ answer = "applied" => live.gen = launch.gen

\* A running worker is what the next relaunch would start, and no more and no
\* less than it was last told (adopt_applied_ceiling_into_relaunch_snapshot).
RelaunchRemembers == worker.up => worker.gen = launch.gen /\ worker.ceiling = StartCeiling(launch.mem)

\* The reconciler of a queued update comes to an end once requests stop
\* arriving: the update is applied, rejected, demoted to or lost with its
\* worker, and in every case health says so.
ReconcilerFinishes == TaskOwns ~> ~TaskOwns

\* finalize_queued_memory_config_outcome: "either the candidate's generation is
\* the one the worker now runs ... or it never landed (rejected -- roll the
\* reloadable snapshot back to the prior configuration)".
RollbackMeansNeverLanded ==
    task.at = "finalize" /\ ~task.landed => ~(worker.up /\ worker.gen = task.gen /\ task.gen # task.prior.gen)

=============================================================================
