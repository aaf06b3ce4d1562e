------------------------ MODULE GenerationAdmission ------------------------
(***************************************************************************)
(* The admission of generation requests (worker/generation/admission.rs),  *)
(* the control actions that must not race them (worker/handle.rs) and the  *)
(* inbox of the worker loop that serves both.                              *)
(*                                                                         *)
(* Two semaphores guard the worker: GENERATION_QUEUE_DEPTH queue permits,  *)
(* held while a request waits, and one active permit, which travels inside *)
(* the command to the loop and is dropped with the active request.  Every  *)
(* request and every control action is a future its caller may drop at any *)
(* await.                                                                  *)
(***************************************************************************)
EXTENDS Naturals, Sequences, FiniteSets

CONSTANTS
    Requests,       \* generation requests, chat, image or embeddings
    Demoters,       \* callers of reserve_generation_admission_for_demotion
    Restarters,     \* callers of restart_worker
    QueuePermits,   \* the permits of generation_queue_permits
    InboxCapacity,  \* WORKER_COMMAND_CAPACITY
    None

Controllers == Demoters \cup Restarters

ASSUME AdmissionAssumption ==
    /\ Requests \cap Controllers = {}
    /\ Demoters \cap Restarters = {}
    /\ None \notin Requests \cup Controllers
    /\ InboxCapacity \in Nat \ {0}

VARIABLES
    rq,           \* progress of each request's start future
    ctl,          \* progress of each control action's future
    queueOwner,   \* who holds each queue permit
    activeOwner,  \* who holds the active permit
    waiters,      \* requests waiting for the active permit, first come first
    inbox,        \* the loop's command channel: who sent each command
    serving,      \* active_generation of the loop
    replacing     \* the control action the loop is executing

vars == <<rq, ctl, queueOwner, activeOwner, waiters, inbox, serving, replacing>>

\* "admitted" holds a queue permit, "waiting" is registered for the active
\* permit too, "granted" holds that one only, "sent" is in the inbox and
\* "serving" is the active request; "refused" had no queue permit to take.
RequestStates == {"new", "admitted", "waiting", "granted", "sent", "serving", "refused", "done"}

\* "reading" has seen the active permit free, "reserving" is taking permits,
\* "ready" may send its command, "gone" was dropped by its caller.
ControlStates == {"idle", "reading", "reserving", "ready", "sent", "gone"}

(***************************************************************************)
(* The type of every variable.                                             *)
(***************************************************************************)
TypeOK ==
    /\ rq \in [Requests -> RequestStates]
    /\ ctl \in [Controllers -> ControlStates]
    /\ queueOwner \in [QueuePermits -> Requests \cup Demoters \cup {None}]
    /\ activeOwner \in Requests \cup Demoters \cup {None}
    /\ waiters \in Seq(Requests)
    /\ inbox \in Seq(Requests \cup Controllers)
    /\ serving \in Requests \cup {None}
    /\ replacing \in Controllers \cup {None}

Init ==
    /\ rq = [r \in Requests |-> "new"]
    /\ ctl = [c \in Controllers |-> "idle"]
    /\ queueOwner = [p \in QueuePermits |-> None]
    /\ activeOwner = None
    /\ waiters = <<>>
    /\ inbox = <<>>
    /\ serving = None
    /\ replacing = None

-----------------------------------------------------------------------------
(* The semaphores *)

\* Mutant: the permit goes back to the pool and no waiter is woken.
DropActivePermitToPool == activeOwner' = None /\ UNCHANGED waiters

\* Dropping the active permit hands it to the first waiter, if there is one.
DropActivePermit ==
    IF waiters = <<>>
    THEN activeOwner' = None /\ UNCHANGED waiters
    ELSE activeOwner' = Head(waiters) /\ waiters' = Tail(waiters)

\* Mutant: loses the permits of everyone else.
DropQueuePermitsOnly(x) == [p \in {q \in QueuePermits : queueOwner[q] = x} |-> None]

\* The queue permits once those of x are dropped.
DropQueuePermits(x) ==
    [p \in QueuePermits |-> IF queueOwner[p] = x THEN None ELSE queueOwner[p]]

\* The queue of waiters once r has left its place in it, if it had one.
Leave(r) ==
    IF \A k \in 1..Len(waiters) : waiters[k] # r THEN waiters
    ELSE LET k == CHOOSE k \in 1..Len(waiters) : waiters[k] = r
         IN  [i \in 1..(Len(waiters) - 1) |-> IF i < k THEN waiters[i] ELSE waiters[i + 1]]

-----------------------------------------------------------------------------
(* A request: start_*_generation_with_queue_admission *)

\* try_acquire_owned on the queue permits.
Admit(r) ==
    /\ rq[r] = "new"
    /\ \E p \in QueuePermits :
         /\ queueOwner[p] = None
         /\ queueOwner' = [queueOwner EXCEPT ![p] = r]
    /\ rq' = [rq EXCEPT ![r] = "admitted"]
    /\ UNCHANGED <<ctl, activeOwner, waiters, inbox, serving, replacing>>

\* CapacityUnavailable.
Refuse(r) ==
    /\ rq[r] = "new"
    /\ \A p \in QueuePermits : queueOwner[p] # None
    /\ rq' = [rq EXCEPT ![r] = "refused"]
    /\ UNCHANGED <<ctl, queueOwner, activeOwner, waiters, inbox, serving, replacing>>

\* The first poll of acquire_owned: the free permit, or a place in its queue.
AwaitActivePermit(r) ==
    /\ rq[r] = "admitted"
    /\ rq' = [rq EXCEPT ![r] = "waiting"]
    /\ IF activeOwner = None
       THEN activeOwner' = r /\ UNCHANGED waiters
       ELSE waiters' = Append(waiters, r) /\ UNCHANGED activeOwner
    /\ UNCHANGED <<ctl, queueOwner, inbox, serving, replacing>>

\* Mutant: the queue permit is kept until the request is answered.
ReceiveKeepingQueuePermit(r) ==
    /\ rq[r] = "waiting"
    /\ activeOwner = r
    /\ rq' = [rq EXCEPT ![r] = "granted"]
    /\ UNCHANGED <<ctl, queueOwner, activeOwner, waiters, inbox, serving, replacing>>

\* The active permit is granted, and the queue permit dropped.
ReceiveActivePermit(r) ==
    /\ rq[r] = "waiting"
    /\ activeOwner = r
    /\ rq' = [rq EXCEPT ![r] = "granted"]
    /\ queueOwner' = DropQueuePermits(r)
    /\ UNCHANGED <<ctl, activeOwner, waiters, inbox, serving, replacing>>

\* The command is sent once the channel has room, with the permit in it.
SendGenerate(r) ==
    /\ rq[r] = "granted"
    /\ Len(inbox) < InboxCapacity
    /\ rq' = [rq EXCEPT ![r] = "sent"]
    /\ inbox' = Append(inbox, r)
    /\ UNCHANGED <<ctl, queueOwner, activeOwner, waiters, serving, replacing>>

\* The caller drops the future before its command is sent.  (Once it is sent
\* the permit is the command's: the loop finds the start receiver closed.)
Abandon(r) ==
    /\ rq[r] \in {"admitted", "waiting", "granted"}
    /\ rq' = [rq EXCEPT ![r] = "done"]
    /\ queueOwner' = DropQueuePermits(r)
    /\ IF activeOwner = r
       THEN DropActivePermit
       ELSE waiters' = Leave(r) /\ UNCHANGED activeOwner
    /\ UNCHANGED <<ctl, inbox, serving, replacing>>

-----------------------------------------------------------------------------
(* is_generation_idle_for_control_action and its two users.  The permits   *)
(* are counted one semaphore after the other, with requests in between.    *)

ReadActiveIdle(c) ==
    /\ ctl[c] = "idle"
    /\ activeOwner = None
    /\ ctl' = [ctl EXCEPT ![c] = "reading"]
    /\ UNCHANGED <<rq, queueOwner, activeOwner, waiters, inbox, serving, replacing>>

\* A demotion goes on to reserve the permits, a restart is sent at once.
ReadQueueIdle(c) ==
    /\ ctl[c] = "reading"
    /\ ctl' = [ctl EXCEPT ![c] =
                 CASE \E p \in QueuePermits : queueOwner[p] # None -> "idle"
                   [] c \in Demoters -> "reserving"
                   [] OTHER -> "ready"]
    /\ UNCHANGED <<rq, queueOwner, activeOwner, waiters, inbox, serving, replacing>>

ReserveQueuePermit(c) ==
    /\ ctl[c] = "reserving"
    /\ \E p \in QueuePermits :
         /\ queueOwner[p] = None
         /\ queueOwner' = [queueOwner EXCEPT ![p] = c]
    /\ UNCHANGED <<rq, ctl, activeOwner, waiters, inbox, serving, replacing>>

\* Mutant: trusts the idle check and never takes the active permit.
ReserveActivePermitUnchecked(c) ==
    /\ ctl[c] = "reserving"
    /\ \A p \in QueuePermits : queueOwner[p] = c
    /\ ctl' = [ctl EXCEPT ![c] = "ready"]
    /\ UNCHANGED <<rq, queueOwner, activeOwner, waiters, inbox, serving, replacing>>

ReserveActivePermit(c) ==
    /\ ctl[c] = "reserving"
    /\ \A p \in QueuePermits : queueOwner[p] = c
    /\ activeOwner = None
    /\ activeOwner' = c
    /\ ctl' = [ctl EXCEPT ![c] = "ready"]
    /\ UNCHANGED <<rq, queueOwner, waiters, inbox, serving, replacing>>

\* GenerationBusy: the permits taken so far are dropped.
ReservationFails(c) ==
    /\ ctl[c] = "reserving"
    /\ \A p \in QueuePermits : queueOwner[p] # None
    /\ \/ \E p \in QueuePermits : queueOwner[p] # c
       \/ activeOwner # None
    /\ ctl' = [ctl EXCEPT ![c] = "idle"]
    /\ queueOwner' = DropQueuePermits(c)
    /\ UNCHANGED <<rq, activeOwner, waiters, inbox, serving, replacing>>

SendControl(c) ==
    /\ ctl[c] = "ready"
    /\ Len(inbox) < InboxCapacity
    /\ ctl' = [ctl EXCEPT ![c] = "sent"]
    /\ inbox' = Append(inbox, c)
    /\ UNCHANGED <<rq, queueOwner, activeOwner, waiters, serving, replacing>>

\* What the end of a control action's future drops.
DropReservation(c) ==
    /\ queueOwner' = DropQueuePermits(c)
    /\ IF activeOwner = c
       THEN DropActivePermit
       ELSE UNCHANGED <<activeOwner, waiters>>

\* The caller drops the future; a command already sent stays in the inbox.
ControlDropped(c) ==
    /\ ctl[c] \in {"ready", "sent"}
    /\ ctl' = [ctl EXCEPT ![c] = "gone"]
    /\ DropReservation(c)
    /\ UNCHANGED <<rq, inbox, serving, replacing>>

-----------------------------------------------------------------------------
(* The worker loop, reduced to what it does with the permits. *)

\* Mutant: the permit is dropped when the request has started.
TakeGenerateReleasingEarly(r) ==
    /\ replacing = None
    /\ inbox # <<>> /\ Head(inbox) = r
    /\ inbox' = Tail(inbox)
    /\ serving' = r
    /\ rq' = [rq EXCEPT ![r] = "serving"]
    /\ DropActivePermit
    /\ UNCHANGED <<ctl, queueOwner, replacing>>

\* The command is refused (CapacityUnavailable over an active request, or an
\* unready worker), or its request fails to start, or it is served.
TakeGenerate(r) ==
    /\ replacing = None
    /\ inbox # <<>> /\ Head(inbox) = r
    /\ inbox' = Tail(inbox)
    /\ \/ /\ serving = None
          /\ serving' = r
          /\ rq' = [rq EXCEPT ![r] = "serving"]
          /\ UNCHANGED <<activeOwner, waiters>>
       \/ /\ rq' = [rq EXCEPT ![r] = "done"]
          /\ DropActivePermit
          /\ UNCHANGED serving
    /\ UNCHANGED <<ctl, queueOwner, replacing>>

\* Completion, failure, cancellation or containment of the active request.
FinishGeneration(r) ==
    /\ replacing = None
    /\ serving = r
    /\ serving' = None
    /\ rq' = [rq EXCEPT ![r] = "done"]
    /\ DropActivePermit
    /\ UNCHANGED <<ctl, queueOwner, inbox, replacing>>

\* The answer to a control action, to which a dropped caller is deaf.
Answer(c) ==
    IF ctl[c] = "sent"
    THEN ctl' = [ctl EXCEPT ![c] = "idle"] /\ DropReservation(c)
    ELSE UNCHANGED <<ctl, queueOwner, activeOwner, waiters>>

\* reject_worker_replacement_request, for a busy or an unready loop.
RefuseControl(c) ==
    /\ replacing = None
    /\ inbox # <<>> /\ Head(inbox) = c
    /\ inbox' = Tail(inbox)
    /\ Answer(c)
    /\ UNCHANGED <<rq, serving, replacing>>

\* Mutant: the guard forgets the active request.
StartReplacementOverWork(c) ==
    /\ replacing = None
    /\ inbox # <<>> /\ Head(inbox) = c
    /\ inbox' = Tail(inbox)
    /\ replacing' = c
    /\ UNCHANGED <<rq, ctl, queueOwner, activeOwner, waiters, serving>>

StartReplacement(c) ==
    /\ replacing = None
    /\ serving = None
    /\ inbox # <<>> /\ Head(inbox) = c
    /\ inbox' = Tail(inbox)
    /\ replacing' = c
    /\ UNCHANGED <<rq, ctl, queueOwner, activeOwner, waiters, serving>>

FinishReplacement(c) ==
    /\ replacing = c
    /\ replacing' = None
    /\ Answer(c)
    /\ UNCHANGED <<rq, inbox, serving>>

-----------------------------------------------------------------------------

RequestStep(r) ==
    \/ Admit(r) \/ Refuse(r) \/ AwaitActivePermit(r) \/ ReceiveActivePermit(r)
    \/ SendGenerate(r) \/ Abandon(r)

ControlStep(c) ==
    \/ ReadActiveIdle(c) \/ ReadQueueIdle(c) \/ SendControl(c) \/ ControlDropped(c)
    \/ RefuseControl(c) \/ StartReplacement(c) \/ FinishReplacement(c)

Reservation(c) == ReserveQueuePermit(c) \/ ReserveActivePermit(c) \/ ReservationFails(c)

Next ==
    \/ \E r \in Requests : RequestStep(r) \/ TakeGenerate(r) \/ FinishGeneration(r)
    \/ \E c \in Controllers : ControlStep(c)
    \/ \E c \in Demoters : Reservation(c)

\* The runtime polls every woken future, the loop takes every command and ends
\* what it starts; nobody has to ask, to give up or to hang up.
Fairness ==
    /\ \A r \in Requests :
         /\ WF_vars(AwaitActivePermit(r))
         /\ WF_vars(ReceiveActivePermit(r))
         /\ SF_vars(SendGenerate(r))
         /\ WF_vars(TakeGenerate(r))
         /\ WF_vars(FinishGeneration(r))
    /\ \A c \in Controllers :
         /\ SF_vars(SendControl(c))
         /\ WF_vars(RefuseControl(c) \/ StartReplacement(c))
         /\ WF_vars(FinishReplacement(c))
    /\ \A c \in Demoters : WF_vars(Reservation(c))

Spec == Init /\ [][Next]_vars /\ Fairness

-----------------------------------------------------------------------------
(* Properties *)

InFlight(r) == rq[r] \in {"admitted", "waiting", "granted", "sent", "serving"}

Commanded == {i \in DOMAIN inbox : inbox[i] \in Requests}

(***************************************************************************)
(* A generation command never meets another request: while one is active   *)
(* no generation command is in the inbox, and there is never more than     *)
(* one.  handle_generate_command refuses a command that finds an active    *)
(* request and logs that "this indicates a queue bug": there is none.       *)
(***************************************************************************)
OneGenerationAtATime ==
    /\ serving # None => Commanded = {}
    /\ \A i, j \in Commanded : i = j

(***************************************************************************)
(* Once a demotion has its reservation, and until its caller is answered   *)
(* or gives up, no request is waiting, on its way to the loop or being     *)
(* served, although the idle check it started from reads the two           *)
(* semaphores at different instants and may be wrong about both.           *)
(***************************************************************************)
DemotionExcludesGeneration ==
    \A c \in Demoters :
        ctl[c] \in {"ready", "sent"} => \A r \in Requests : ~InFlight(r)

(***************************************************************************)
(* The worker is replaced only while no request is being served, also when *)
(* a restart was sent on an idle check that a request has overtaken.       *)
(***************************************************************************)
NoReplacementOverWork == replacing # None => serving = None

(***************************************************************************)
(* No permit is lost: each one that is not free belongs to a request or a  *)
(* reservation that is still under way and will drop it, whatever was      *)
(* refused, abandoned or hung up on before.                                *)
(***************************************************************************)
PermitsAreAccountedFor ==
    /\ \A p \in QueuePermits :
         \/ queueOwner[p] = None
         \/ queueOwner[p] \in Requests /\ rq[queueOwner[p]] \in {"admitted", "waiting"}
         \/ /\ queueOwner[p] \in Demoters
            /\ ctl[queueOwner[p]] \in {"reserving", "ready", "sent"}
    /\ \/ activeOwner = None
       \/ activeOwner \in Requests /\ rq[activeOwner] \in {"waiting", "granted", "sent", "serving"}
       \/ activeOwner \in Demoters /\ ctl[activeOwner] \in {"ready", "sent"}

(***************************************************************************)
(* An admitted request is answered: it reaches the loop and its permit     *)
(* comes back, unless its caller gives up first.                           *)
(***************************************************************************)
AdmittedIsAnswered == \A r \in Requests : InFlight(r) ~> rq[r] = "done"
=============================================================================
