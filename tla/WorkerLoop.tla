----------------------------- MODULE WorkerLoop -----------------------------
(***************************************************************************)
(* The daemon's worker loop (apps/daemon/src/worker): one task that owns   *)
(* the worker process, its two pipes and the published health, takes the   *)
(* requests and control commands of the REST side, and supervises the      *)
(* worker through model swaps, cancellations, memory-ceiling updates,      *)
(* prompt-cache clears, replacements, failures and relaunches.             *)
(*                                                                         *)
(* The loop is sequential.  While it waits for a reply it reads only the   *)
(* worker's events, so each wait is a position of its own here, and the    *)
(* worker, the clients and the deadlines step in between.                  *)
(***************************************************************************)
EXTENDS WorkerProtocol, FiniteSets

CONSTANTS
    Wants,      \* the model each request names
    Catalog,    \* the keys of model_policy_catalog
    Controls,   \* the control commands this instance sends
    PipeBound,  \* messages a pipe holds before its writer blocks
    NoConfig    \* no acknowledged runtime configuration

AllControls == {"limit", "clear", "restart", "demote", "shutdown"}

ASSUME LoopAssumption ==
    /\ Wants \in [Requests -> Models]
    /\ Catalog \subseteq Models
    /\ Controls \subseteq AllControls
    /\ PipeBound \in Nat \ {0}
    /\ NoConfig \notin Models \cup {None}

VARIABLES
    \* the worker process and its pipes
    proc,       \* "up", "exited" and not yet reaped, or "reaped"
    commands, events,
    serving,    \* the request it serves
    model,      \* the model it holds
    \* the loop
    at,         \* what the loop is doing
    back,       \* where a limit or clear wait returns to
    cur,        \* the request being started, cancelled or recovered from, or
                \* the model a demotion is to restore
    expects,    \* a swap waits for a configuration too
    staged,     \* acknowledgements staged by a swap or a recovery
    \* its runtime and the health it publishes
    isReady, loadDeadline, startupApplied, relaunch,
    status, readyModel, config,
    active,     \* active_generation
    ended,      \* its staged terminal outcome
    pendingLimit, pendingClear,
    \* the clients
    rq,         \* progress of each request
    gone,       \* clients that hung up
    answers     \* refusals and outcomes sent to each client

workerVars == <<proc, commands, events, serving, model>>
loopVars == <<at, back, cur, expects, staged>>
healthVars == <<isReady, loadDeadline, status, readyModel, config>>
activeVars == <<active, ended>>
pendingVars == <<pendingLimit, pendingClear>>
clientVars == <<rq, gone, answers>>
vars == <<workerVars, loopVars, healthVars, startupApplied, relaunch,
          activeVars, pendingVars, clientVars>>

Positions ==
    {"top", "tidy", "observe", "select", "limit", "clear", "startup", "choose",
     "swap", "dispatch", "abandon", "cancel", "replace", "recover",
     "candidate", "commit", "stop", "launch", "handshake", "reload", "restore",
     "exited"}

\* A request waits for the active permit while "queued" and holds it from
\* "sent" to "done".
RequestStates == {"new", "queued", "sent", "starting", "active", "cancelling", "done"}

(***************************************************************************)
(* The type of every variable.                                             *)
(***************************************************************************)
TypeOK ==
    /\ proc \in {"up", "exited", "reaped"}
    /\ commands \in Seq(Commands)
    /\ events \in Seq(Events)
    /\ serving \in Requests \cup {None}
    /\ model \in Models \cup {None}
    /\ at \in Positions
    /\ back \in {"top", "tidy", "observe"}
    /\ cur \in Requests \cup Models \cup {None}
    /\ expects \in BOOLEAN
    /\ staged \in SUBSET {"Swapped", "Config", "Idle"}
    /\ isReady \in BOOLEAN
    /\ loadDeadline \in BOOLEAN
    /\ startupApplied \in BOOLEAN
    /\ relaunch \in {"none", "due", "spent"}
    /\ status \in {"Loading", "Ready", "Unavailable"}
    /\ readyModel \in Models \cup {None}
    /\ config \in Models \cup {None, NoConfig}
    /\ active \in Requests \cup {None}
    /\ ended \in BOOLEAN
    /\ pendingLimit \in BOOLEAN
    /\ pendingClear \in BOOLEAN
    /\ rq \in [Requests -> RequestStates]
    /\ gone \in SUBSET Requests
    /\ answers \in [Requests -> Nat]

Init ==
    /\ proc = "up" /\ commands = <<>> /\ events = Greeting
    /\ serving = None /\ model = None
    /\ at = "top" /\ back = "top" /\ cur = None /\ expects = FALSE /\ staged = {}
    /\ isReady = FALSE /\ loadDeadline = TRUE
    /\ startupApplied = FALSE /\ relaunch = "none"
    /\ status = "Loading" /\ readyModel = None /\ config = NoConfig
    /\ active = None /\ ended = FALSE
    /\ pendingLimit = FALSE /\ pendingClear = FALSE
    /\ rq = [r \in Requests |-> "new"]
    /\ gone = {}
    /\ answers = [r \in Requests |-> 0]

-----------------------------------------------------------------------------
(* The worker *)

Becomes(x) ==
    /\ events' = events \o x.emit
    /\ serving' = x.serves
    /\ model' = x.holds
    /\ proc' = IF x.lives THEN "up" ELSE "exited"

WorkerAnswers ==
    /\ proc = "up" /\ commands # <<>>
    /\ Len(events) < PipeBound
    /\ \E x \in Answers(Head(commands), serving, model) :
         /\ Becomes(x)
         /\ commands' = IF x.lives THEN Tail(commands) ELSE <<>>
    /\ UNCHANGED <<loopVars, healthVars, startupApplied, relaunch, activeVars, pendingVars, clientVars>>

WorkerAdvances ==
    /\ proc = "up" /\ serving # None /\ commands = <<>>
    /\ Len(events) < PipeBound
    /\ \E x \in Advances(serving, model) : Becomes(x)
    /\ UNCHANGED commands
    /\ UNCHANGED <<loopVars, healthVars, startupApplied, relaunch, activeVars, pendingVars, clientVars>>

\* The worker dies with only some of its events written.
WorkerCrashes ==
    /\ "crash" \in Faults
    /\ proc = "up"
    /\ proc' = "exited"
    /\ \E k \in 0..Len(events) : events' = SubSeq(events, 1, k)
    /\ commands' = <<>> /\ serving' = None /\ model' = None
    /\ UNCHANGED <<loopVars, healthVars, startupApplied, relaunch, activeVars, pendingVars, clientVars>>

-----------------------------------------------------------------------------
(* The clients.  GenerationAdmission has the permits in detail: here one    *)
(* request at a time holds the active permit, and it is then in the inbox.  *)

Holding(r) == rq[r] \in {"sent", "starting", "active", "cancelling"}

Submit(r) ==
    /\ rq[r] = "new"
    /\ rq' = [rq EXCEPT ![r] = "queued"]
    /\ UNCHANGED <<workerVars, loopVars, healthVars, startupApplied, relaunch, activeVars, pendingVars, gone, answers>>

\* A loop that has exited has closed its inbox.
SendRequest(r) ==
    /\ rq[r] = "queued"
    /\ \A q \in Requests : ~Holding(q)
    /\ rq' = [rq EXCEPT ![r] = IF at = "exited" THEN "done" ELSE "sent"]
    /\ UNCHANGED <<workerVars, loopVars, healthVars, startupApplied, relaunch, activeVars, pendingVars, gone, answers>>

HangUp(r) ==
    /\ r \notin gone
    /\ rq[r] \in {"queued", "sent", "starting", "active"}
    /\ gone' = gone \cup {r}
    /\ rq' = [rq EXCEPT ![r] = IF @ = "queued" THEN "done" ELSE @]
    /\ UNCHANGED <<workerVars, loopVars, healthVars, startupApplied, relaunch, activeVars, pendingVars, answers>>

-----------------------------------------------------------------------------
(* Steps that several of the loop's actions share *)

Running == proc # "reaped"

\* A command is written, unless the worker is gone or does not read: then the
\* write fails or times out.
Writable == proc = "up" /\ Len(commands) < PipeBound

Send(c) ==
    /\ commands' = Append(commands, c)
    /\ UNCHANGED <<proc, events, serving, model>>

Consume ==
    /\ events' = Tail(events)
    /\ UNCHANGED <<proc, commands, serving, model>>

Reap ==
    /\ proc' = "reaped" /\ commands' = <<>> /\ events' = <<>>
    /\ serving' = None /\ model' = None

ForceTerminate ==
    \/ Reap
    \/ "killFails" \in Faults /\ proc = "up" /\ UNCHANGED workerVars

Launch ==
    /\ proc' = "up" /\ commands' = <<>> /\ events' = Greeting
    /\ serving' = None /\ model' = None

\* WorkerHealthSnapshot::unavailable carries no model and no configuration.
PublishUnavailable(s) == status' = s /\ readyModel' = None /\ config' = NoConfig

\* Leave whatever wait the loop was in.
Settle(p) == at' = p /\ back' = "top" /\ cur' = None /\ expects' = FALSE /\ staged' = {}

Stay(p) == at' = p /\ UNCHANGED <<back, cur, expects, staged>>

\* The requests in release give their permit back; those in told are told.
Release(release, told) ==
    /\ rq' = [r \in Requests |-> IF r \in release THEN "done" ELSE rq[r]]
    /\ answers' = [r \in Requests |-> IF r \in told THEN answers[r] + 1 ELSE answers[r]]
    /\ UNCHANGED gone

\* contain_worker_failure, and is_ready set to false by every caller: the active
\* request fails, and so does refused; dropped ends without a word.
Contain(p, refused, dropped) ==
    /\ LET failed == refused \cup ({active} \ {None})
       IN  Release(failed \cup dropped, failed)
    /\ active' = None /\ ended' = FALSE
    /\ ForceTerminate
    /\ isReady' = FALSE
    /\ PublishUnavailable("Unavailable")
    /\ Settle(p)
    /\ UNCHANGED <<startupApplied, relaunch>>

-----------------------------------------------------------------------------
(* handle_worker_event *)

LimitReplies == {"LimitChanged", "LimitRejected", "RestartRequired"}

\* The event that is an error for handle_worker_event.
Violates(e) ==
    \/ e.type = "Idle" /\ (isReady \/ active # None)
    \/ e.type = "Config" /\ (e.of # readyModel \/ config \notin {NoConfig, e.of})
    \/ e.type \in {"Swapped", "SwapFailed", "ModelLost", "Cleared"}
    \/ e \in RequestEvents /\ e.of # active
    \/ e.type \in {"Progress", "Ended"} /\ ended
    \/ e.type = "Released" /\ ~ended

EndsRequest(e) == e.type \in {"Completed", "Failed", "Released"}

\* Mutant: an idle worker is published with the model of the last configuration.
ApplyToHealthFromConfig(e) ==
    /\ isReady' = (isReady \/ e.type = "Idle")
    /\ loadDeadline' = (loadDeadline /\ e.type # "Idle")
    /\ status' = IF e.type = "Idle" THEN "Ready" ELSE status
    /\ readyModel' = IF e.type = "Idle" THEN config ELSE readyModel
    /\ config' = CASE e.type = "Idle" -> NoConfig
                   [] e.type = "Config" -> e.of
                   [] OTHER -> config

ApplyToHealth(e) ==
    /\ isReady' = (isReady \/ e.type = "Idle")
    /\ loadDeadline' = (loadDeadline /\ e.type # "Idle")
    /\ status' = IF e.type = "Idle" THEN "Ready" ELSE status
    /\ readyModel' = IF e.type = "Idle" THEN None ELSE readyModel
    /\ config' = CASE e.type = "Idle" -> NoConfig
                   [] e.type = "Config" -> e.of
                   [] OTHER -> config

\* Completed, Failed and the finalization of an image or embeddings request
\* take the active request, answer it and drop its permit.
ApplyToRequest(e) ==
    LET over == IF EndsRequest(e) THEN {active} ELSE {}
    IN  /\ Release(over, over)
        /\ active' = IF EndsRequest(e) THEN None ELSE active
        /\ ended' = IF EndsRequest(e) THEN FALSE ELSE ended \/ e.type = "Ended"

-----------------------------------------------------------------------------
(* The start of an iteration: drain_pending_idle_work, then the observation  *)
(* that schedules a relaunch.                                                *)

\* An update or a clear is sent, and the loop waits for its reply.
AwaitReply(type, p, after) ==
    /\ Send(Message(type, None))
    /\ at' = p /\ back' = after /\ UNCHANGED <<cur, expects, staged>>
    /\ UNCHANGED <<healthVars, startupApplied, relaunch, activeVars, clientVars>>

\* Mutant: the pending update is applied under the active request too.
DrainLimitAnytime ==
    /\ at = "top"
    /\ IF pendingLimit
       THEN /\ pendingLimit' = FALSE
            /\ IF Writable THEN AwaitReply("UpdateLimit", "limit", "tidy")
               ELSE Contain("tidy", {}, {}) /\ UNCHANGED loadDeadline
       ELSE /\ Stay("tidy")
            /\ UNCHANGED <<workerVars, healthVars, startupApplied, relaunch, activeVars, pendingLimit, clientVars>>
    /\ UNCHANGED pendingClear

DrainLimit ==
    /\ at = "top"
    /\ IF active = None /\ pendingLimit
       THEN /\ pendingLimit' = FALSE
            /\ IF Writable THEN AwaitReply("UpdateLimit", "limit", "tidy")
               ELSE Contain("tidy", {}, {}) /\ UNCHANGED loadDeadline
       ELSE /\ Stay("tidy")
            /\ UNCHANGED <<workerVars, healthVars, startupApplied, relaunch, activeVars, pendingLimit, clientVars>>
    /\ UNCHANGED pendingClear

\* generation_control_is_idle: no active request, and every permit available.
ControlIsIdle ==
    /\ active = None
    /\ \A r \in Requests : rq[r] # "queued" /\ ~Holding(r)

DrainClear ==
    /\ at = "tidy"
    /\ IF ControlIsIdle /\ pendingClear
       THEN /\ pendingClear' = FALSE
            /\ IF Writable THEN AwaitReply("ClearCache", "clear", "observe")
               ELSE Contain("observe", {}, {}) /\ UNCHANGED loadDeadline
       ELSE /\ Stay("observe")
            /\ UNCHANGED <<workerVars, healthVars, startupApplied, relaunch, activeVars, pendingClear, clientVars>>
    /\ UNCHANGED pendingLimit

\* RelaunchBudget has the delays and the guard: here a stopped, unavailable
\* worker is either given a deadline or left stopped for good.
Observe ==
    /\ at = "observe"
    /\ relaunch' \in
         IF Running THEN {"none"}
         ELSE IF status = "Unavailable" /\ relaunch = "none" THEN {"due", "spent"}
         ELSE {relaunch}
    /\ Stay("select")
    /\ UNCHANGED <<workerVars, healthVars, startupApplied, activeVars, pendingVars, clientVars>>

-----------------------------------------------------------------------------
(* Reading the worker's events, in the select and in the waits that hand    *)
(* every other event to handle_worker_event                                 *)

\* The waits that read events to an end of their own; a startup wait ends
\* as soon as a configuration is published.
Pumping ==
    \/ at \in {"select", "limit", "clear", "swap", "restore"}
    \/ at = "startup" /\ ~startupApplied /\ config = NoConfig

\* wait_for_model_swap, for a request or for a demotion.
Swapping == at \in {"swap", "restore"}

\* The model that is asked for.
Target == IF at = "restore" THEN cur ELSE Wants[cur]

\* The reply a wait takes for itself.
Claimed(e) ==
    \/ at = "clear" /\ e.type = "Cleared"
    \/ Swapping /\ e.type \in {"Swapped", "SwapFailed", "ModelLost"}
    \/ Swapping /\ e.type = "Config" /\ expects

\* The reply that does not acknowledge the swap that was asked for.  The
\* generation of the configuration, which the code compares too, only changes
\* with the ceiling updates of MemoryTransaction, whose SwapEnds compares it.
Mismatched(e) ==
    /\ e.type \in {"Swapped", "Config"}
    /\ e.of # Target \/ e.type \in staged

Continue(e) ==
    CASE at = "select" -> Settle("top")
      [] at = "limit" /\ e.type \in LimitReplies -> Settle(back)
      [] OTHER -> Stay(at)

ReadEvent ==
    /\ Pumping /\ events # <<>>
    /\ LET e == Head(events)
       IN  /\ ~Claimed(e) /\ ~Violates(e)
           /\ ApplyToHealth(e)
           /\ ApplyToRequest(e)
           /\ Continue(e)
    /\ Consume
    /\ UNCHANGED <<startupApplied, relaunch, pendingVars>>

\* The waits whose errors do not contain the worker, only their caller hears
\* of them: an update sent from the command queue, and the restoration of the
\* model after a demotion.
Uncontained == at = "restore" \/ (at = "limit" /\ back = "top")

\* What an error does to the wait it happens in.
Trouble ==
    CASE Uncontained ->
           /\ Settle("top")
           /\ UNCHANGED <<healthVars, startupApplied, relaunch, activeVars, clientVars>>
      [] at = "startup" -> Contain("top", {}, {cur}) /\ UNCHANGED loadDeadline
      [] at = "swap" -> Contain("top", {cur}, {}) /\ UNCHANGED loadDeadline
      [] at = "limit" /\ back = "tidy" -> Contain("tidy", {}, {}) /\ UNCHANGED loadDeadline
      [] at = "clear" -> Contain(back, {}, {}) /\ UNCHANGED loadDeadline
      [] OTHER -> Contain("top", {}, {}) /\ UNCHANGED loadDeadline

\* An event the loop takes for a violation of the protocol.
ReadViolation ==
    /\ Pumping /\ events # <<>>
    /\ LET e == Head(events)
       IN  IF Claimed(e) THEN Mismatched(e) ELSE Violates(e)
    /\ Trouble
    /\ IF Uncontained THEN Consume ELSE TRUE
    /\ UNCHANGED pendingVars

\* The end of the worker's stdout: next_event waits for the process.
ReadEnd ==
    /\ Pumping /\ events = <<>> /\ proc = "exited"
    /\ Trouble
    /\ Reap
    /\ UNCHANGED pendingVars

\* The reply does not come in time.  A swap that a restoration gives up is
\* still in the pipe.
WaitTimesOut ==
    /\ at \in {"startup", "limit", "clear", "swap", "restore"} /\ Pumping
    /\ at = "restore" => "slowLoad" \in Faults
    /\ CASE at = "startup" -> Contain("top", {}, {cur})
         [] at = "swap" -> Contain("top", {cur}, {})
         [] at = "restore" ->
              /\ Settle("top")
              /\ UNCHANGED <<workerVars, isReady, status, readyModel, config>>
              /\ UNCHANGED <<startupApplied, relaunch, activeVars, clientVars>>
         [] OTHER -> Contain(back, {}, {})
    /\ UNCHANGED <<loadDeadline, pendingVars>>

ReadCleared ==
    /\ at = "clear" /\ events # <<>> /\ Head(events).type = "Cleared"
    /\ Consume
    /\ Settle(back)
    /\ UNCHANGED <<healthVars, startupApplied, relaunch, activeVars, pendingVars, clientVars>>

-----------------------------------------------------------------------------
(* Starting a request *)

\* A request is refused at once unless the worker runs, is ready and free.
TakeRequest(r) ==
    /\ at = "select" /\ rq[r] = "sent"
    /\ IF isReady /\ Running /\ active = None
       THEN /\ rq' = [rq EXCEPT ![r] = "starting"]
            /\ at' = "startup" /\ cur' = r /\ UNCHANGED <<back, expects, staged>>
            /\ UNCHANGED <<gone, answers>>
       ELSE Release({r}, {r}) /\ Settle("top")
    /\ UNCHANGED <<workerVars, healthVars, startupApplied, relaunch, activeVars, pendingVars>>

StartupDone ==
    /\ at = "startup" /\ ~Pumping
    /\ startupApplied' = TRUE
    /\ Stay("choose")
    /\ UNCHANGED <<workerVars, healthVars, relaunch, activeVars, pendingVars, clientVars>>

\* Mutant: a request for a mapped model is served by whatever is loaded.
NeedsNoSwapIfLoaded == readyModel # None

\* A chat for a model the catalog does not have is served by the model that is
\* loaded, whatever it is.
NeedsNoSwap ==
    \/ Wants[cur] = readyModel
    \/ Wants[cur] \notin Catalog /\ Kind[cur] = "chat" /\ readyModel # None

\* Mutant: the refused request keeps its permit.
RefuseKeepingPermit ==
    /\ Release({}, {cur})
    /\ Settle("top")
    /\ UNCHANGED <<startupApplied, relaunch, activeVars>>

Refuse ==
    /\ Release({cur}, {cur})
    /\ Settle("top")
    /\ UNCHANGED <<startupApplied, relaunch, activeVars>>

AskForModel ==
    /\ Send(Message("SwapModel", Wants[cur]))
    /\ at' = "swap" /\ expects' = (config # NoConfig) /\ staged' = {}
    /\ UNCHANGED <<back, cur>>
    /\ UNCHANGED <<healthVars, startupApplied, relaunch, activeVars, clientVars>>

ChooseModel ==
    /\ at = "choose"
    /\ CASE NeedsNoSwap ->
              /\ Stay("dispatch")
              /\ UNCHANGED <<workerVars, healthVars, startupApplied, relaunch, activeVars, clientVars>>
         [] ~NeedsNoSwap /\ Wants[cur] \notin Catalog ->
              Refuse /\ UNCHANGED <<workerVars, healthVars>>
         [] ~NeedsNoSwap /\ Wants[cur] \in Catalog /\ Writable -> AskForModel
         [] OTHER -> Contain("top", {cur}, {}) /\ UNCHANGED loadDeadline
    /\ UNCHANGED pendingVars

\* The model and its configuration are published together, once both
\* acknowledgements are in; without an expected configuration the old one is
\* kept.
ReadSwapReply ==
    /\ Swapping /\ events # <<>>
    /\ LET e == Head(events)
           now == staged \cup {e.type}
       IN  /\ e.type \in {"Swapped", "Config"} /\ Claimed(e) /\ ~Mismatched(e)
           /\ IF "Swapped" \in now /\ (expects => "Config" \in now)
              THEN /\ IF at = "restore" THEN Settle("top")
                      ELSE /\ at' = "dispatch" /\ expects' = FALSE /\ staged' = {}
                           /\ UNCHANGED <<back, cur>>
                   /\ status' = "Ready" /\ readyModel' = Target
                   /\ config' = IF "Config" \in now THEN Target ELSE config
                   /\ UNCHANGED <<isReady, loadDeadline>>
              ELSE /\ staged' = now /\ UNCHANGED <<at, back, cur, expects, healthVars>>
    /\ Consume
    /\ UNCHANGED <<startupApplied, relaunch, activeVars, pendingVars, clientVars>>

\* Mutant: every failed load leaves the health snapshot as it is.
ReadSwapFailureKeepingModel ==
    /\ at = "swap" /\ events # <<>>
    /\ Head(events).type \in {"SwapFailed", "ModelLost"}
    /\ Consume
    /\ Refuse
    /\ UNCHANGED <<healthVars, pendingVars>>

\* reject_model_swap: a worker left without a model is published as ready
\* without one, and without a configuration.
ReadSwapFailure ==
    /\ Swapping /\ events # <<>>
    /\ Head(events).type \in {"SwapFailed", "ModelLost"}
    /\ IF Head(events).type = "ModelLost"
       THEN PublishUnavailable("Ready") /\ UNCHANGED <<isReady, loadDeadline>>
       ELSE UNCHANGED healthVars
    /\ Consume
    /\ IF at = "restore"
       THEN Settle("top") /\ UNCHANGED <<startupApplied, relaunch, activeVars, clientVars>>
       ELSE Refuse
    /\ UNCHANGED pendingVars

\* The client of an image or embeddings request hung up meanwhile.
DropDisconnected ==
    /\ Kind[cur] # "chat" /\ cur \in gone
    /\ Release({cur}, {}) /\ Settle("top")
    /\ UNCHANGED <<workerVars, healthVars, startupApplied, relaunch, activeVars>>

\* The command is too large, or asks for what the model does not offer.
RejectStart ==
    /\ Refuse
    /\ UNCHANGED <<workerVars, healthVars>>

\* The request goes to the worker; a client gone before it hears of the start
\* is cancelled.
StartRequest ==
    /\ Writable
    /\ Send(Message("Generate", cur))
    /\ active' = cur /\ ended' = FALSE
    /\ rq' = [rq EXCEPT ![cur] = "active"]
    /\ IF cur \in gone THEN Stay("abandon") ELSE Settle("top")
    /\ UNCHANGED <<healthVars, startupApplied, relaunch, gone, answers>>

FailStart ==
    /\ ~Writable
    /\ Contain("top", {cur}, {}) /\ UNCHANGED loadDeadline

Dispatch ==
    /\ at = "dispatch"
    /\ \/ DropDisconnected
       \/ /\ Kind[cur] = "chat" \/ cur \notin gone
          /\ RejectStart \/ StartRequest \/ FailStart
    /\ UNCHANGED pendingVars

-----------------------------------------------------------------------------
(* Cancelling the active request: cancel_active_generation *)

BeginCancel ==
    /\ cur' = active /\ active' = None /\ ended' = FALSE
    /\ rq' = [rq EXCEPT ![active] = "cancelling"]
    /\ at' = IF Writable THEN "cancel" ELSE "replace"
    /\ UNCHANGED <<back, expects, staged, healthVars, startupApplied, relaunch, gone>>

SendCancel == IF Writable THEN Send(Message("Cancel", active)) ELSE UNCHANGED workerVars

\* The client hung up, before or after it heard of the start.
CancelAbandoned ==
    /\ at \in {"select", "abandon"} /\ active \in gone
    /\ BeginCancel /\ SendCancel
    /\ UNCHANGED <<answers, pendingVars>>

\* The client does not read its stream: the output is dropped with the request.
CancelBackpressured ==
    /\ at = "select" /\ events # <<>> /\ active # None
    /\ Head(events) = Message("Output", active)
    /\ BeginCancel
    /\ events' = Tail(events)
    /\ commands' = IF Writable THEN Append(commands, Message("Cancel", active)) ELSE commands
    /\ UNCHANGED <<proc, serving, model, answers, pendingVars>>

\* Mutant: an overdue image is told, and waited for.
CancelOverdueByTelling ==
    /\ at = "select" /\ active # None /\ Kind[active] # "chat"
    /\ answers' = [answers EXCEPT ![active] = IF Kind[active] = "image" THEN @ + 1 ELSE @]
    /\ Settle("top")
    /\ UNCHANGED <<workerVars, healthVars, startupApplied, relaunch, activeVars, pendingVars, rq, gone>>

\* An image or embeddings request exceeds its deadline; only the image client
\* is told.  A chat has no deadline.
CancelOverdue ==
    /\ at = "select" /\ active # None /\ Kind[active] # "chat"
    /\ BeginCancel /\ SendCancel
    /\ answers' = [answers EXCEPT ![active] = IF Kind[active] = "image" THEN @ + 1 ELSE @]
    /\ UNCHANGED pendingVars

\* Mutant: the first event of the cancelled request ends the wait.
AcknowledgesEarly(e) == e.of = cur

\* react_to_cancellation_event.
Acknowledges(e) ==
    /\ e.of = cur
    /\ \/ e.type \in {"Completed", "Failed"}
       \/ e.type = "Released" /\ Kind[cur] = "image"

\* Mutant: the finalization of a chat is not expected.
DrainedOfRequest(e) ==
    \/ e.of = cur /\ e.type = "Output"
    \/ e.of = cur /\ e.type \in {"Progress", "Ended"} /\ Kind[cur] = "image"

Drained(e) ==
    \/ e.type = "Finalized"
    \/ e.of = cur /\ e.type = "Output"
    \/ e.of = cur /\ e.type \in {"Progress", "Ended"} /\ Kind[cur] = "image"

ReadCancelled ==
    /\ at = "cancel" /\ events # <<>>
    /\ Consume
    /\ CASE Acknowledges(Head(events)) -> Release({cur}, {}) /\ Settle("top")
         [] ~Acknowledges(Head(events)) /\ Drained(Head(events)) -> UNCHANGED <<clientVars, loopVars>>
         [] OTHER -> UNCHANGED clientVars /\ Stay("replace")
    /\ UNCHANGED <<healthVars, startupApplied, relaunch, activeVars, pendingVars>>

CancelFails ==
    /\ at = "cancel"
    /\ \/ UNCHANGED workerVars
       \/ events = <<>> /\ proc = "exited" /\ Reap
    /\ Stay("replace")
    /\ UNCHANGED <<healthVars, startupApplied, relaunch, activeVars, pendingVars, clientVars>>

-----------------------------------------------------------------------------
(* Replacing a worker that could not be cancelled, and relaunching one that  *)
(* was contained: replace_terminated_worker                                  *)

\* Mutant: a worker that stays down is still published as loading.
StayDownLoading ==
    /\ PublishUnavailable("Loading")
    /\ Release({cur} \ {None}, {})
    /\ Settle("top")

\* The worker stays down; the request it was to cancel is over.
StayDown ==
    /\ PublishUnavailable("Unavailable")
    /\ Release({cur} \ {None}, {})
    /\ Settle("top")

Relaunch ==
    \/ /\ Launch
       /\ startupApplied' = FALSE
       /\ PublishUnavailable("Loading")
       /\ at' = "recover" /\ staged' = {} /\ UNCHANGED <<back, cur, expects, clientVars>>
    \/ /\ "launchFails" \in Faults
       /\ Reap
       /\ StayDown
       /\ UNCHANGED startupApplied

ReplaceUncancelled ==
    /\ at = "replace"
    /\ isReady' = FALSE
    /\ \/ Relaunch
       \/ /\ "killFails" \in Faults /\ proc = "up"
          /\ StayDown
          /\ UNCHANGED <<workerVars, startupApplied>>
    /\ UNCHANGED <<loadDeadline, relaunch, activeVars, pendingVars>>

RelaunchContained ==
    /\ at = "select" /\ ~Running /\ relaunch = "due"
    /\ relaunch' = "none"
    /\ isReady' = FALSE
    /\ Relaunch
    /\ UNCHANGED <<loadDeadline, activeVars, pendingVars>>

Recovered(acks) == {"Idle", "Config"} \subseteq acks

\* The new worker is trusted once it has said that it is idle and which
\* configuration it has.  A contained worker that is back (cur = None) also
\* drops the load deadline.
ReadRecovery ==
    /\ at = "recover" /\ events # <<>>
    /\ LET e == Head(events)
       IN  /\ e.type \in {"Idle", "Config"} /\ e.type \notin staged /\ e.of = None
           /\ IF Recovered(staged \cup {e.type})
              THEN /\ isReady' = TRUE /\ status' = "Ready" /\ readyModel' = None /\ config' = None
                   /\ loadDeadline' = (loadDeadline /\ cur # None)
                   /\ Release({cur} \ {None}, {})
                   /\ Settle("top")
              ELSE /\ staged' = staged \cup {e.type}
                   /\ UNCHANGED <<at, back, cur, expects, healthVars, clientVars>>
    /\ Consume
    /\ UNCHANGED <<startupApplied, relaunch, activeVars, pendingVars>>

\* The new worker ends, stays silent, or says something else.
RecoveryFails ==
    /\ at = "recover"
    /\ ForceTerminate
    /\ isReady' = FALSE
    /\ StayDown
    /\ UNCHANGED <<loadDeadline, startupApplied, relaunch, activeVars, pendingVars>>

-----------------------------------------------------------------------------
(* The restart: the candidate is launched and acknowledges beside the        *)
(* trusted worker, which is closed before the candidate takes its place      *)
(* (WorkerReplacement::execute).                                             *)

\* reject_worker_replacement_request
ReplacementAllowed == active = None /\ isReady

RestartWorker ==
    /\ "restart" \in Controls
    /\ at = "select"
    /\ \/ ReplacementAllowed /\ Stay("candidate")
       \/ ~ReplacementAllowed /\ Settle("top")
       \/ "launchFails" \in Faults /\ Settle("top")
    /\ UNCHANGED <<workerVars, healthVars, startupApplied, relaunch, activeVars, pendingVars, clientVars>>

CandidateAcknowledged ==
    /\ at = "candidate"
    /\ Stay("commit")
    /\ UNCHANGED <<workerVars, healthVars, startupApplied, relaunch, activeVars, pendingVars, clientVars>>

\* The candidate ends, stays silent, or says something else: it is closed, and
\* the trusted worker goes on.
CandidateRejected ==
    /\ at = "candidate"
    /\ Settle("top")
    /\ UNCHANGED <<workerVars, healthVars, startupApplied, relaunch, activeVars, pendingVars, clientVars>>

CommitCandidate ==
    /\ at = "commit"
    /\ proc' = "up" /\ commands' = <<>> /\ events' = <<>> /\ serving' = None /\ model' = None
    /\ startupApplied' = FALSE
    /\ isReady' = TRUE /\ loadDeadline' = FALSE
    /\ status' = "Ready" /\ readyModel' = None /\ config' = None
    /\ Settle("top")
    /\ UNCHANGED <<relaunch, activeVars, pendingVars, clientVars>>

-----------------------------------------------------------------------------
(* The memory demotion: the trusted worker is stopped before its candidate   *)
(* is launched, which then loads the model again                             *)
(* (MemoryDemotionRestart::execute).                                         *)

DemoteWorker ==
    /\ "demote" \in Controls
    /\ at = "select"
    /\ IF ReplacementAllowed
       THEN /\ PublishUnavailable("Loading")
            /\ isReady' = FALSE /\ loadDeadline' = FALSE
            /\ at' = "stop" /\ cur' = readyModel /\ UNCHANGED <<back, expects, staged>>
       ELSE UNCHANGED healthVars /\ Settle("top")
    /\ UNCHANGED <<workerVars, startupApplied, relaunch, activeVars, pendingVars, clientVars>>

StopTrusted ==
    /\ at = "stop"
    /\ Reap
    /\ Stay("launch")
    /\ UNCHANGED <<healthVars, startupApplied, relaunch, activeVars, pendingVars, clientVars>>

\* close fails and force_terminate is tried once more.  Only a restart keeps a
\* deadline for a worker that survives it.
CloseTrustedFails ==
    /\ at \in {"commit", "stop"}
    /\ "killFails" \in Faults /\ proc = "up"
    /\ Reap \/ UNCHANGED workerVars
    /\ isReady' = FALSE
    /\ loadDeadline' = (at = "commit" /\ proc' # "reaped")
    /\ PublishUnavailable("Unavailable")
    /\ Settle("top")
    /\ UNCHANGED <<startupApplied, relaunch, activeVars, pendingVars, clientVars>>

LaunchDemoted ==
    /\ at = "launch"
    /\ \/ /\ Launch /\ startupApplied' = FALSE
          /\ Stay("handshake")
          /\ UNCHANGED <<status, readyModel, config>>
       \/ /\ "launchFails" \in Faults
          /\ PublishUnavailable("Unavailable")
          /\ Settle("top")
          /\ UNCHANGED <<workerVars, startupApplied>>
    /\ UNCHANGED <<isReady, loadDeadline, relaunch, activeVars, pendingVars, clientVars>>

\* The candidate is committed once it has acknowledged.
ReadHandshake ==
    /\ at = "handshake" /\ events # <<>>
    /\ LET now == staged \cup {Head(events).type}
       IN  IF Recovered(now)
           THEN /\ isReady' = TRUE /\ status' = "Ready" /\ readyModel' = None /\ config' = None
                /\ at' = "reload" /\ staged' = {}
                /\ UNCHANGED <<back, cur, expects, loadDeadline>>
           ELSE staged' = now /\ UNCHANGED <<at, back, cur, expects, healthVars>>
    /\ Consume
    /\ UNCHANGED <<startupApplied, relaunch, activeVars, pendingVars, clientVars>>

HandshakeFails ==
    /\ at = "handshake"
    /\ Reap
    /\ PublishUnavailable("Unavailable")
    /\ Settle("top")
    /\ UNCHANGED <<isReady, loadDeadline, startupApplied, relaunch, activeVars, pendingVars, clientVars>>

\* restore_selected_model: a command that cannot be written contains nothing.
ReloadModel ==
    /\ at = "reload"
    /\ IF cur # None /\ Writable
       THEN /\ Send(Message("SwapModel", cur))
            /\ at' = "restore" /\ expects' = TRUE /\ UNCHANGED <<back, cur, staged>>
       ELSE UNCHANGED workerVars /\ Settle("top")
    /\ UNCHANGED <<healthVars, startupApplied, relaunch, activeVars, pendingVars, clientVars>>

-----------------------------------------------------------------------------
(* The other arms of the select *)

\* The greeting of the first worker does not come in time.
LoadDeadlinePasses ==
    /\ at = "select" /\ Running /\ ~isReady /\ loadDeadline
    /\ Contain("top", {}, {})
    /\ loadDeadline' = (proc' # "reaped")
    /\ UNCHANGED pendingVars

\* Mutant: a worker without a model does not tick.
IdleTickWithModel ==
    /\ at = "select" /\ Running /\ isReady /\ active = None
    /\ readyModel # None
    /\ Settle("top")
    /\ UNCHANGED <<workerVars, healthVars, startupApplied, relaunch, activeVars, pendingVars, clientVars>>

\* sample_idle_mlx_memory_telemetry: its one effect here is a new iteration.
IdleTick ==
    /\ at = "select" /\ Running /\ isReady /\ active = None
    /\ readyModel # None \/ pendingClear
    /\ Settle("top")
    /\ UNCHANGED <<workerVars, healthVars, startupApplied, relaunch, activeVars, pendingVars, clientVars>>

UpdateLimit ==
    /\ "limit" \in Controls
    /\ at = "select"
    /\ IF active # None
       THEN /\ pendingLimit' = TRUE /\ Settle("top")
            /\ UNCHANGED <<workerVars, healthVars, startupApplied, relaunch, activeVars, clientVars>>
       ELSE /\ UNCHANGED pendingLimit
            /\ IF Writable THEN AwaitReply("UpdateLimit", "limit", "top")
               ELSE /\ Settle("top")
                    /\ UNCHANGED <<workerVars, healthVars, startupApplied, relaunch, activeVars, clientVars>>
    /\ UNCHANGED pendingClear

ClearPromptCache ==
    /\ "clear" \in Controls
    /\ at = "select"
    /\ IF ~ControlIsIdle
       THEN /\ pendingClear' = TRUE /\ Settle("top")
            /\ UNCHANGED <<workerVars, healthVars, startupApplied, relaunch, activeVars, clientVars>>
       ELSE /\ UNCHANGED pendingClear
            /\ IF Writable THEN AwaitReply("ClearCache", "clear", "top")
               ELSE Contain("top", {}, {}) /\ UNCHANGED loadDeadline
    /\ UNCHANGED pendingLimit

\* The loop exits: its worker is closed, its inbox is dropped.
Shutdown ==
    /\ "shutdown" \in Controls
    /\ at = "select"
    /\ PublishUnavailable("Unavailable")
    /\ Release({r \in Requests : rq[r] = "sent"} \cup ({active} \ {None}), {active} \ {None})
    /\ active' = None /\ ended' = FALSE
    /\ ForceTerminate
    /\ Settle("exited")
    /\ UNCHANGED <<isReady, loadDeadline, startupApplied, relaunch, pendingVars>>

-----------------------------------------------------------------------------

Worker == WorkerAnswers \/ WorkerAdvances \/ WorkerCrashes

Client(r) == Submit(r) \/ SendRequest(r) \/ HangUp(r)

Arms ==
    \/ CancelAbandoned \/ CancelBackpressured \/ CancelOverdue
    \/ RelaunchContained \/ LoadDeadlinePasses \/ IdleTick
    \/ UpdateLimit \/ ClearPromptCache \/ RestartWorker \/ DemoteWorker \/ Shutdown

Steps ==
    \/ DrainLimit \/ DrainClear \/ Observe
    \/ ReadEvent \/ ReadViolation \/ ReadEnd \/ WaitTimesOut \/ ReadCleared
    \/ StartupDone \/ ChooseModel \/ ReadSwapReply \/ ReadSwapFailure \/ Dispatch
    \/ ReadCancelled \/ CancelFails \/ ReplaceUncancelled \/ ReadRecovery \/ RecoveryFails
    \/ CandidateAcknowledged \/ CandidateRejected \/ CommitCandidate
    \/ StopTrusted \/ CloseTrustedFails \/ LaunchDemoted
    \/ ReadHandshake \/ HandshakeFails \/ ReloadModel

Next ==
    \/ Worker \/ Steps \/ Arms
    \/ \E r \in Requests : Client(r) \/ TakeRequest(r)

\* The worker reads its commands, and a generation does not go on forever: its
\* output is bounded by max_output_tokens.
WorkerEnds == WorkerAdvances /\ serving' = None

\* A queued request is sent once the permit is free (GenerationAdmission).
\* The loop never rests between two selects, its deadlines are timers that
\* fire, and the select polls its ready arms in random order, so that an arm
\* that is ready over and over is taken.
Fairness ==
    /\ WF_vars(WorkerAnswers) /\ SF_vars(WorkerEnds)
    /\ WF_vars(Steps) /\ SF_vars(ReadEvent \/ ReadViolation \/ ReadEnd)
    /\ WF_vars(WaitTimesOut) /\ WF_vars(CancelFails) /\ WF_vars(RecoveryFails)
    /\ SF_vars(CancelAbandoned) /\ SF_vars(CancelOverdue) /\ SF_vars(IdleTick)
    /\ \A r \in Requests : WF_vars(SendRequest(r)) /\ SF_vars(TakeRequest(r))

Spec == Init /\ [][Next]_vars /\ Fairness

-----------------------------------------------------------------------------
(* Properties *)

\* The positions in which no cancellation or recovery is under way.
Normal == at \notin {"abandon", "cancel", "replace", "recover", "exited"}

InPipe(s, S) == \E i \in DOMAIN s : s[i] \in S

(***************************************************************************)
(* A ready worker without an active request has nothing left to do for an  *)
(* earlier one: it serves no request, and neither pipe holds a word of     *)
(* one.  Otherwise the next request would read the last one's events       *)
(* (handle_worker_event) or be refused by a busy worker.                   *)
(***************************************************************************)
NoOrphanWork ==
    Normal /\ isReady /\ active = None /\ proc = "up" =>
        /\ serving = None
        /\ ~InPipe(events, RequestEvents)
        /\ \A i \in DOMAIN commands : commands[i].type # "Generate"

(***************************************************************************)
(* A request that names a model of the catalog is only ever served by that *)
(* model, whatever swaps, failed loads and replacements came before        *)
(* (ensure_requested_model_loaded trusts the published model).             *)
(***************************************************************************)
ServedByItsModel ==
    serving # None /\ Wants[serving] \in Catalog => model = Wants[serving]

(***************************************************************************)
(* The model the health snapshot publishes is the model the worker holds,  *)
(* except while a swap is under way: through failed loads, replacements    *)
(* and demotions with their restoration (publish_staged_model_swap).       *)
(***************************************************************************)
PublishedModelIsLoaded ==
    Normal /\ isReady /\ proc = "up" /\ ~Swapping => readyModel = model

(***************************************************************************)
(* A client hears at most one refusal or outcome, though a request can be  *)
(* ended by its event, a containment, a deadline or a shutdown.            *)
(***************************************************************************)
AtMostOneAnswer == \A r \in Requests : answers[r] <= 1

(***************************************************************************)
(* A model swap, a ceiling update and a cache clear only ever wait for an  *)
(* idle worker: a busy one rejects the update and ignores the other two,   *)
(* and the loop would then wait until it kills the worker.  A worker that  *)
(* could not be killed is left aside.                                      *)
(***************************************************************************)
ControlReachesIdleWorker ==
    status # "Unavailable" =>
        \A i \in DOMAIN commands :
            commands[i].type \in {"SwapModel", "UpdateLimit", "ClearCache"} =>
                /\ serving = None
                /\ \A j \in 1..i : commands[j].type # "Generate"

(***************************************************************************)
(* Whenever the loop rests in its select, the worker runs and is ready or  *)
(* has a deadline to become so, or it is stopped and published as          *)
(* unavailable, which is what schedules its relaunch                       *)
(* (ContainedFailureRelaunch::observe_worker).  Where a kill can fail, its *)
(* survivor is published as unavailable too.                               *)
(***************************************************************************)
StoppedIsRecovered ==
    at = "select" =>
        \/ Running /\ (isReady \/ loadDeadline)
        \/ /\ ~isReady /\ status = "Unavailable"
           /\ Running => "killFails" \in Faults

(***************************************************************************)
(* The loop never takes what a well-behaved worker says for a protocol     *)
(* violation, neither in a wait nor while it cancels a request.  The       *)
(* cancellation of an embeddings request always replaces the worker, and a *)
(* worker that could not be killed is not listened to any more.            *)
(***************************************************************************)
WellBehavedWorkerKept ==
    events # <<>> /\ status # "Unavailable" =>
        LET e == Head(events)
        IN  /\ Pumping => IF Claimed(e) THEN ~Mismatched(e) ELSE ~Violates(e)
            /\ at = "cancel" /\ Kind[cur] # "embeddings" => Acknowledges(e) \/ Drained(e)

(***************************************************************************)
(* A ceiling update queued behind a request is sent to the worker, or      *)
(* dropped with it, once the loop is idle; a queued cache clear is too     *)
(* unless the worker fails first.                                          *)
(***************************************************************************)
QueuedControlIsApplied ==
    /\ pendingLimit ~> (~pendingLimit \/ at = "exited")
    /\ pendingClear ~> (~pendingClear \/ at = "exited" \/ ~isReady \/ ~Running)

(***************************************************************************)
(* The loop implements RequestService: whatever the worker does, it only   *)
(* works on the request that holds the permit, a permit comes back when no *)
(* work is left, each client hears at most one outcome, and every permit   *)
(* does come back.  Kills are taken to work.                               *)
(***************************************************************************)
Phase(state) ==
    CASE state = "new" -> "new"
      [] state = "queued" -> "waiting"
      [] state = "done" -> "over"
      [] OTHER -> "held"

Service == INSTANCE RequestService WITH
    phase <- [r \in Requests |-> Phase(rq[r])],
    working <- serving

ServiceIsImplemented == Service!Spec
=============================================================================
