--------------------------- MODULE RelaunchBudget ---------------------------
(***************************************************************************)
(* The relaunch schedule of the daemon's worker loop after a worker        *)
(* failure: the sliding-window budget with its latch                       *)
(* (process/crash_loop_guard.rs), the schedule kept around it              *)
(* (process/failure_relaunch.rs), and, reduced to what they do to the      *)
(* worker's liveness, readiness and published health, the arms of the loop *)
(* that stop or start a worker.                                            *)
(*                                                                         *)
(* The loop alternates between "top", where it observes the worker once,   *)
(* and "select", where it handles one input.  Time passes at any moment.   *)
(***************************************************************************)
EXTENDS Integers, Sequences

CONSTANTS
    MaxRelaunches,  \* maximum_relaunches_per_window
    Window,         \* relaunch_window
    Backoff,        \* relaunch_backoff
    Horizon         \* bound on the clock, lifted while a deadline is ahead

ASSUME BudgetAssumption ==
    /\ MaxRelaunches \in Nat
    /\ Window \in Nat
    /\ Backoff \in Nat
    /\ Horizon \in Nat

VARIABLES
    now,        \* the clock
    phase,      \* where the loop is: "top", "select" or "relaunching"
    running,    \* worker_process.process_id().is_some()
    isReady,    \* runtime.is_ready
    status,     \* health_snapshot.status
    recent,     \* recent_relaunch_instants
    exhausted,  \* is_exhausted
    deadline,   \* relaunch_deadline, NoDeadline for None
    history     \* every instant at which a relaunch was admitted (history variable)

vars == <<now, phase, running, isReady, status, recent, exhausted, deadline, history>>

NoDeadline == -1

Phases == {"top", "select", "relaunching"}
Statuses == {"Loading", "Ready", "Unavailable"}

(***************************************************************************)
(* The type of every variable.                                             *)
(***************************************************************************)
TypeOK ==
    /\ now \in Nat
    /\ phase \in Phases
    /\ running \in BOOLEAN
    /\ isReady \in BOOLEAN
    /\ status \in Statuses
    /\ recent \in Seq(Nat)
    /\ exhausted \in BOOLEAN
    /\ deadline \in Nat \cup {NoDeadline}
    /\ history \in Seq(Nat)

Init ==
    /\ now = 0
    /\ phase = "top"
    /\ running = TRUE
    /\ isReady = FALSE
    /\ status = "Loading"
    /\ recent = <<>>
    /\ exhausted = FALSE
    /\ deadline = NoDeadline
    /\ history = <<>>

Tick ==
    /\ now < Horizon \/ now < deadline
    /\ now' = now + 1
    /\ UNCHANGED <<phase, running, isReady, status, recent, exhausted, deadline, history>>

-----------------------------------------------------------------------------
(* crash_loop_guard.rs *)

Aged(instant) == now - instant >= Window

\* The loop of forget_relaunches_outside_window pops exactly k instants: the
\* first k are outside the window and the next one, if any, is not.
Forgets(k) ==
    /\ \A i \in 1..k : Aged(recent[i])
    /\ k < Len(recent) => ~Aged(recent[k + 1])

Kept(k) == SubSeq(recent, k + 1, Len(recent))

\* Mutant: compares the count it will have, so it admits one relaunch too many.
AdmitOneMore ==
    \E k \in 0..Len(recent) :
        /\ Forgets(k)
        /\ Len(recent) - k <= MaxRelaunches
        /\ recent' = Append(Kept(k), now)
        /\ history' = Append(history, now)
        /\ deadline' = now + Backoff

\* Mutant: remembers where the window of the attempt began.
AdmitRemembersWindowStart ==
    \E k \in 0..Len(recent) :
        /\ Forgets(k)
        /\ Len(recent) - k < MaxRelaunches
        /\ recent' = Append(Kept(k), now - Window)
        /\ history' = Append(history, now)
        /\ deadline' = now + Backoff

\* admit_relaunch answering Admitted, and the deadline observe_worker sets for it.
Admit ==
    \E k \in 0..Len(recent) :
        /\ Forgets(k)
        /\ Len(recent) - k < MaxRelaunches
        /\ recent' = Append(Kept(k), now)
        /\ history' = Append(history, now)
        /\ deadline' = now + Backoff

\* admit_relaunch answering Exhausted for the first time: the latch closes.
Exhaust ==
    \E k \in 0..Len(recent) :
        /\ Forgets(k)
        /\ Len(recent) - k >= MaxRelaunches
        /\ recent' = Kept(k)
        /\ exhausted' = TRUE

-----------------------------------------------------------------------------
(* observe_worker, once per iteration, before the select. *)

ObserveRunning ==
    /\ phase = "top" /\ phase' = "select"
    /\ running
    /\ exhausted' = FALSE
    /\ deadline' = NoDeadline
    /\ UNCHANGED <<now, running, isReady, status, recent, history>>

\* Stopped, but a relaunch is scheduled already or the worker is not
\* published as unavailable.
ObserveSettled ==
    /\ phase = "top" /\ phase' = "select"
    /\ ~running
    /\ deadline # NoDeadline \/ status # "Unavailable"
    /\ UNCHANGED <<now, running, isReady, status, recent, exhausted, deadline, history>>

\* Mutant: decides by the published status alone.
NeedsRelaunchByStatus ==
    /\ phase = "top" /\ phase' = "select"
    /\ deadline = NoDeadline
    /\ status = "Unavailable"

NeedsRelaunch ==
    /\ phase = "top" /\ phase' = "select"
    /\ ~running
    /\ deadline = NoDeadline
    /\ status = "Unavailable"

ObserveAdmitted ==
    /\ NeedsRelaunch
    /\ ~exhausted
    /\ Admit
    /\ UNCHANGED <<now, running, isReady, status, exhausted>>

ObserveSpent ==
    /\ NeedsRelaunch
    /\ ~exhausted
    /\ Exhaust
    /\ UNCHANGED <<now, running, isReady, status, deadline, history>>

ObserveLatched ==
    /\ NeedsRelaunch
    /\ exhausted
    /\ UNCHANGED <<now, running, isReady, status, recent, exhausted, deadline, history>>

-----------------------------------------------------------------------------
(* The select arms, each ending the iteration. *)

EndIteration == phase = "select" /\ phase' = "top"

\* force_terminate, which leaves the process running when the kill itself fails.
Terminated == running' \in {FALSE, running}

\* The worker's first Idle or Ready event, which a worker that survived its
\* containment may send too.
WorkerReady ==
    /\ EndIteration
    /\ running /\ ~isReady
    /\ isReady' = TRUE
    /\ status' = "Ready"
    /\ UNCHANGED <<now, running, recent, exhausted, deadline, history>>

\* contain_worker_failure, from whichever arm met the failure; a prompt-cache
\* clear meets one with a stopped worker too.
ContainFailure ==
    /\ EndIteration
    /\ Terminated
    /\ isReady' = FALSE
    /\ status' = "Unavailable"
    /\ UNCHANGED <<now, recent, exhausted, deadline, history>>

\* An idle memory-ceiling update, or the restoration of the model after a
\* demotion, during which the worker exits: reading its
\* event reaps it, and the error is returned to the caller without containment.
LoseWorkerUncontained ==
    /\ EndIteration
    /\ running
    /\ running' = FALSE
    /\ UNCHANGED <<now, isReady, status, recent, exhausted, deadline, history>>

\* Mutant: a RestartWorker that is not refused.
RestartWorkerUngated ==
    /\ EndIteration
    /\ \/ running' = TRUE /\ isReady' = TRUE /\ status' = "Ready"
       \/ UNCHANGED <<running, isReady, status>>
       \/ Terminated /\ isReady' = FALSE /\ status' = "Unavailable"
    /\ UNCHANGED <<now, recent, exhausted, deadline, history>>

\* RestartWorker: refused unless the loop is ready; then a candidate is
\* launched first, and either replaces the worker, or is rejected, or the old
\* worker cannot be closed and is contained.
RestartWorker ==
    /\ isReady
    /\ EndIteration
    /\ \/ running' = TRUE /\ isReady' = TRUE /\ status' = "Ready"
       \/ UNCHANGED <<running, isReady, status>>
       \/ Terminated /\ isReady' = FALSE /\ status' = "Unavailable"
    /\ UNCHANGED <<now, recent, exhausted, deadline, history>>

\* reject_worker_replacement_request: a loop that is not ready refuses.
RefuseRestart ==
    /\ EndIteration
    /\ ~isReady
    /\ UNCHANGED <<now, running, isReady, status, recent, exhausted, deadline, history>>

\* Any other input that leaves this state alone.
OtherInput ==
    /\ EndIteration
    /\ UNCHANGED <<now, running, isReady, status, recent, exhausted, deadline, history>>

\* Mutant: the timer arm does not wait for its deadline.
RelaunchEarly ==
    /\ phase = "select" /\ phase' = "relaunching"
    /\ ~running
    /\ deadline # NoDeadline
    /\ deadline' = NoDeadline
    /\ status' = "Loading"
    /\ UNCHANGED <<now, running, isReady, recent, exhausted, history>>

\* The timer arm fires: relaunch_contained_worker up to its launch.
Relaunch ==
    /\ phase = "select" /\ phase' = "relaunching"
    /\ ~running
    /\ deadline # NoDeadline /\ now >= deadline
    /\ deadline' = NoDeadline
    /\ status' = "Loading"
    /\ UNCHANGED <<now, running, isReady, recent, exhausted, history>>

RelaunchSucceeds ==
    /\ phase = "relaunching" /\ phase' = "top"
    /\ running' = TRUE
    /\ isReady' = TRUE
    /\ status' = "Ready"
    /\ UNCHANGED <<now, recent, exhausted, deadline, history>>

\* Mutant: leaves the published status alone.
RelaunchFailsAsLoading ==
    /\ phase = "relaunching" /\ phase' = "top"
    /\ running' \in BOOLEAN
    /\ isReady' = FALSE
    /\ UNCHANGED <<now, status, recent, exhausted, deadline, history>>

\* The launch failed, or the launched worker was not acknowledged in time and
\* was terminated, which may fail too.
RelaunchFails ==
    /\ phase = "relaunching" /\ phase' = "top"
    /\ running' \in BOOLEAN
    /\ isReady' = FALSE
    /\ status' = "Unavailable"
    /\ UNCHANGED <<now, recent, exhausted, deadline, history>>

-----------------------------------------------------------------------------

Observe ==
    \/ ObserveRunning \/ ObserveSettled
    \/ ObserveAdmitted \/ ObserveSpent \/ ObserveLatched

RelaunchOutcome == RelaunchSucceeds \/ RelaunchFails

Next ==
    \/ Tick
    \/ Observe
    \/ WorkerReady \/ ContainFailure \/ LoseWorkerUncontained
    \/ RestartWorker \/ RefuseRestart \/ OtherInput
    \/ Relaunch \/ RelaunchOutcome

\* The clock advances, the loop runs its observation, its due timer and the
\* outcome of a launch; requests and worker failures are never owed.
Fairness ==
    /\ WF_vars(Tick)
    /\ WF_vars(Observe)
    /\ WF_vars(RelaunchOutcome)
    /\ SF_vars(Relaunch)

Spec == Init /\ [][Next]_vars /\ Fairness

\* An operator who keeps asking for a restart, whose candidates come up.
PersistentOperator ==
    /\ Spec
    /\ SF_vars(RestartWorker /\ running')
    /\ SF_vars(RefuseRestart)

-----------------------------------------------------------------------------
(* Properties *)

(***************************************************************************)
(* The crash-loop budget: any MaxRelaunches + 1 consecutive admissions     *)
(* span at least one window, although the guard only remembers the         *)
(* attempts it has not forgotten, forgets them lazily, keeps them across a *)
(* successful restart, and closes and reopens its latch in between.        *)
(***************************************************************************)
AdmissionsWithinBudget ==
    \A i, j \in 1..Len(history) :
        j - i >= MaxRelaunches => history[j] - history[i] >= Window

(***************************************************************************)
(* The timer arm of the select is armed only for a stopped worker: a       *)
(* scheduled relaunch never replaces a worker that some other arm started  *)
(* after the schedule was made (observe_worker drops the deadline first).  *)
(***************************************************************************)
NoRelaunchOverRunningWorker ==
    phase = "select" /\ deadline # NoDeadline => ~running

(***************************************************************************)
(* A relaunch starts no earlier than the backoff after the admission that  *)
(* paid for it, and no admission pays for two relaunches: at its start the *)
(* newest admission is the one that set the deadline.                      *)
(***************************************************************************)
BackoffRespected ==
    [][phase # "relaunching" /\ phase' = "relaunching" =>
         /\ Len(history) > 0
         /\ now >= history[Len(history)] + Backoff
         /\ deadline' = NoDeadline]_vars

(***************************************************************************)
(* A spent budget is final.  The latch opens only when a running worker is *)
(* observed, but a latched loop has a stopped worker, no deadline and      *)
(* is_ready = FALSE, and both the restart and the demotion command are     *)
(* refused by a loop that is not ready: nothing in this process can start  *)
(* a worker again.                                                         *)
(***************************************************************************)
ExhaustionIsFinal ==
    [][exhausted => exhausted' /\ ~running' /\ deadline' = NoDeadline]_vars

(***************************************************************************)
(* A worker that was contained comes back or the budget is spent: a        *)
(* stopped worker published as unavailable is eventually running again,    *)
(* or the latch is closed.                                                 *)
(***************************************************************************)
ContainedWorkerRecovers ==
    (~running /\ status = "Unavailable")
        ~> (running \/ exhausted)

(***************************************************************************)
(* What crash_loop_guard.rs says of its latch: "Only a worker that some    *)
(* other path brought back to life (an explicit restart or replacement)    *)
(* clears the latch", so asking for a restart again and again gets out of  *)
(* an exhausted episode.                                                   *)
(***************************************************************************)
RestartClearsLatch == exhausted ~> ~exhausted
=============================================================================
