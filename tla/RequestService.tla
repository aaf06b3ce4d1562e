--------------------------- MODULE RequestService ---------------------------
(***************************************************************************)
(* What the worker loop promises the requests of its clients, without the  *)
(* worker process, its pipes or the loop: the abstract specification that  *)
(* WorkerLoop implements.                                                  *)
(*                                                                         *)
(* One request at a time holds the active permit.  Work on a request       *)
(* starts and ends while it holds the permit, its client hears at most one *)
(* refusal or outcome, and the permit comes back with no work left over.   *)
(***************************************************************************)
EXTENDS Naturals

CONSTANTS Requests, None

VARIABLES
    phase,    \* of each request: "new", "waiting", "held" or "over"
    answers,  \* refusals and outcomes its client has heard
    working   \* the request being worked on, or None

vars == <<phase, answers, working>>

Init ==
    /\ phase = [r \in Requests |-> "new"]
    /\ answers = [r \in Requests |-> 0]
    /\ working = None

Submit(r) ==
    /\ phase[r] = "new"
    /\ phase' = [phase EXCEPT ![r] = "waiting"]
    /\ UNCHANGED <<answers, working>>

\* The client hangs up, or the service is closed.
Leave(r) ==
    /\ phase[r] = "waiting"
    /\ phase' = [phase EXCEPT ![r] = "over"]
    /\ UNCHANGED <<answers, working>>

Grant(r) ==
    /\ phase[r] = "waiting"
    /\ \A q \in Requests : phase[q] # "held"
    /\ phase' = [phase EXCEPT ![r] = "held"]
    /\ UNCHANGED <<answers, working>>

Start(r) ==
    /\ phase[r] = "held" /\ working = None
    /\ working' = r
    /\ UNCHANGED <<phase, answers>>

Stop ==
    /\ working' = None
    /\ UNCHANGED <<phase, answers>>

Hears(r) ==
    /\ answers[r] = 0
    /\ answers' = [answers EXCEPT ![r] = 1]

Tell(r) ==
    /\ phase[r] = "held"
    /\ Hears(r)
    /\ UNCHANGED <<phase, working>>

\* The permit comes back; whatever still worked on the request is stopped.
Conclude(r) ==
    /\ phase[r] = "held"
    /\ phase' = [phase EXCEPT ![r] = "over"]
    /\ Hears(r) \/ UNCHANGED answers
    /\ working' = None

Next ==
    \/ Stop
    \/ \E r \in Requests :
         Submit(r) \/ Leave(r) \/ Grant(r) \/ Start(r) \/ Tell(r) \/ Conclude(r)

\* A held permit comes back, and a free one is handed on.
Fairness ==
    \A r \in Requests : WF_vars(Conclude(r)) /\ WF_vars(Grant(r) \/ Leave(r))

Spec == Init /\ [][Next]_vars /\ Fairness

-----------------------------------------------------------------------------
(* Properties *)

(***************************************************************************)
(* At most one request holds the permit, work is only done for the request *)
(* that holds it, and no client hears two outcomes.                        *)
(***************************************************************************)
OneAtATime ==
    /\ \A q, r \in Requests : phase[q] = "held" /\ phase[r] = "held" => q = r
    /\ working # None => working \in Requests /\ phase[working] = "held"
    /\ \A r \in Requests : answers[r] \in {0, 1}
=============================================================================
