------------------------ MODULE RelaunchBudgetProofs ------------------------
(***************************************************************************)
(* Proofs about RelaunchBudget, for every budget, window, backoff and      *)
(* horizon.                                                                *)
(***************************************************************************)
EXTENDS RelaunchBudget, TLAPS

\* The admissions the guard has forgotten: a prefix of the history.
Forgotten == Len(history) - Len(recent)

\* What the guard remembers is the end of the history.
RecentIsSuffix ==
    /\ Len(recent) <= Len(history)
    /\ \A i \in 1..Len(recent) : recent[i] = history[Forgotten + i]

\* What the guard has forgotten had left the window.
ForgottenIsAged == \A i \in 1..Forgotten : now - history[i] >= Window

\* Every admission is in the past.
HistoryIsPast == \A i \in 1..Len(history) : history[i] <= now

BudgetInv ==
    /\ TypeOK
    /\ RecentIsSuffix
    /\ ForgottenIsAged
    /\ HistoryIsPast
    /\ AdmissionsWithinBudget

(***************************************************************************)
(* Every variable keeps its type.                                          *)
(***************************************************************************)
THEOREM TypeCorrect == Spec => []TypeOK
<1> USE BudgetAssumption DEF TypeOK, NoDeadline, Phases, Statuses
<1>1. Init => TypeOK
  <2>1. Init => recent \in Seq(Nat) /\ history \in Seq(Nat)
    BY DEF Init
  <2>2. Init => deadline \in Nat \cup {NoDeadline}
    BY DEF Init
  <2>3. Init => now \in Nat /\ phase \in Phases /\ status \in Statuses
    BY DEF Init
  <2>4. Init => running \in BOOLEAN /\ isReady \in BOOLEAN /\ exhausted \in BOOLEAN
    BY DEF Init
  <2> QED BY <2>1, <2>2, <2>3, <2>4
<1>2. TypeOK /\ [Next]_vars => TypeOK'
  <2> SUFFICES ASSUME TypeOK, [Next]_vars PROVE TypeOK'
    OBVIOUS
  <2>1. CASE Tick BY <2>1 DEF Tick
  <2>2. CASE ObserveRunning BY <2>2 DEF ObserveRunning
  <2>3. CASE ObserveSettled BY <2>3 DEF ObserveSettled
  <2>4. CASE ObserveAdmitted
    <3> USE <2>4 DEF ObserveAdmitted, NeedsRelaunch
    <3>1. PICK k \in 0..Len(recent) :
            /\ recent' = Append(Kept(k), now)
            /\ history' = Append(history, now)
            /\ deadline' = now + Backoff
      BY DEF Admit
    <3>2. Kept(k) \in Seq(Nat)
      BY DEF Kept
    <3> QED BY <3>1, <3>2
  <2>5. CASE ObserveSpent
    <3> USE <2>5 DEF ObserveSpent, NeedsRelaunch
    <3>1. PICK k \in 0..Len(recent) : recent' = Kept(k) /\ exhausted' = TRUE
      BY DEF Exhaust
    <3>2. Kept(k) \in Seq(Nat)
      BY DEF Kept
    <3> QED BY <3>1, <3>2
  <2>6. CASE ObserveLatched BY <2>6 DEF ObserveLatched, NeedsRelaunch
  <2>7. CASE WorkerReady BY <2>7 DEF WorkerReady, EndIteration
  <2>8. CASE ContainFailure BY <2>8 DEF ContainFailure, EndIteration, Terminated
  <2>9. CASE LoseWorkerUncontained BY <2>9 DEF LoseWorkerUncontained, EndIteration
  <2>10. CASE RestartWorker BY <2>10 DEF RestartWorker, EndIteration, Terminated
  <2>11. CASE RefuseRestart \/ OtherInput
    BY <2>11 DEF RefuseRestart, OtherInput, EndIteration
  <2>12. CASE Relaunch BY <2>12 DEF Relaunch
  <2>13. CASE RelaunchSucceeds BY <2>13 DEF RelaunchSucceeds
  <2>14. CASE RelaunchFails BY <2>14 DEF RelaunchFails
  <2>15. CASE UNCHANGED vars BY <2>15 DEF vars
  <2> QED
    BY <2>1, <2>2, <2>3, <2>4, <2>5, <2>6, <2>7, <2>8, <2>9, <2>10, <2>11,
       <2>12, <2>13, <2>14, <2>15
    DEF Next, Observe, RelaunchOutcome
<1> QED BY <1>1, <1>2, PTL DEF Spec

-----------------------------------------------------------------------------

\* The instants the guard keeps after forgetting the first k of them.
LEMMA KeptInstants ==
    ASSUME recent \in Seq(Nat), NEW k \in 0..Len(recent)
    PROVE  /\ Kept(k) \in Seq(Nat)
           /\ Len(Kept(k)) = Len(recent) - k
           /\ \A i \in 1..(Len(recent) - k) : Kept(k)[i] = recent[k + i]
BY DEF Kept

\* The instants of a history are numbers.
LEMMA Instants ==
    ASSUME history \in Seq(Nat)
    PROVE  Len(history) \in Nat /\ \A i \in 1..Len(history) : history[i] \in Nat
OBVIOUS

\* Whatever leaves the guard's two sequences alone, while time only advances,
\* preserves the budget invariant.
LEMMA BudgetInvFrame ==
    ASSUME BudgetInv, TypeOK', UNCHANGED <<recent, history>>, now' >= now
    PROVE  BudgetInv'
<1>1. /\ now \in Nat /\ now' \in Nat /\ Window \in Nat
      /\ recent \in Seq(Nat) /\ history \in Seq(Nat)
  BY BudgetAssumption DEF BudgetInv, TypeOK
<1>2. Len(history) \in Nat /\ \A i \in 1..Len(history) : history[i] \in Nat
  BY <1>1, Instants
<1>3. RecentIsSuffix'
  BY DEF BudgetInv, RecentIsSuffix, Forgotten
<1>4. ForgottenIsAged'
  <2> SUFFICES ASSUME NEW i \in 1..Forgotten PROVE now' - history[i] >= Window
    BY DEF ForgottenIsAged, Forgotten
  <2>1. now - history[i] >= Window
    BY DEF BudgetInv, ForgottenIsAged
  <2>2. i \in 1..Len(history)
    BY <1>1, <1>2 DEF Forgotten, BudgetInv, RecentIsSuffix
  <2> QED BY <1>1, <1>2, <2>1, <2>2
<1>5. HistoryIsPast'
  BY <1>1, <1>2 DEF BudgetInv, HistoryIsPast
<1>6. AdmissionsWithinBudget'
  BY DEF BudgetInv, AdmissionsWithinBudget
<1> QED BY <1>3, <1>4, <1>5, <1>6 DEF BudgetInv

\* An instant that the guard forgets now, or forgot before, has left the window.
LEMMA ForgettingIsSafe ==
    ASSUME BudgetInv, NEW k \in 0..Len(recent), Forgets(k), NEW i \in 1..(Forgotten + k)
    PROVE  i \in 1..Len(history) /\ now - history[i] >= Window
<1>1. /\ Len(recent) \in Nat /\ Len(history) \in Nat
      /\ Len(recent) <= Len(history)
  BY DEF BudgetInv, TypeOK, RecentIsSuffix
<1>2. CASE i \in 1..Forgotten
  BY <1>1, <1>2 DEF BudgetInv, ForgottenIsAged, Forgotten
<1>3. CASE i \notin 1..Forgotten
  <2>1. /\ i - Forgotten \in 1..k
        /\ i - Forgotten \in 1..Len(recent)
        /\ Forgotten + (i - Forgotten) = i
        /\ i \in 1..Len(history)
    BY <1>1, <1>3 DEF Forgotten
  <2>2. Aged(recent[i - Forgotten])
    BY <2>1 DEF Forgets
  <2>3. recent[i - Forgotten] = history[i]
    BY <2>1 DEF BudgetInv, RecentIsSuffix
  <2> QED BY <2>1, <2>2, <2>3 DEF Aged
<1> QED BY <1>2, <1>3

\* An admission preserves it: the attempt that is MaxRelaunches before the new
\* one has been forgotten, hence has left the window.
LEMMA BudgetInvAdmit ==
    ASSUME BudgetInv, TypeOK', Admit, now' = now
    PROVE  BudgetInv'
<1>0. /\ now \in Nat /\ Window \in Nat /\ MaxRelaunches \in Nat
      /\ recent \in Seq(Nat) /\ history \in Seq(Nat)
      /\ Len(recent) \in Nat /\ Len(history) \in Nat
      /\ Len(recent) <= Len(history)
  BY BudgetAssumption DEF BudgetInv, TypeOK, RecentIsSuffix
<1>1. PICK k \in 0..Len(recent) :
        /\ Forgets(k)
        /\ Len(recent) - k < MaxRelaunches
        /\ recent' = Append(Kept(k), now)
        /\ history' = Append(history, now)
  BY DEF Admit
<1>2. /\ Kept(k) \in Seq(Nat)
      /\ Len(Kept(k)) = Len(recent) - k
      /\ \A i \in 1..(Len(recent) - k) : Kept(k)[i] = recent[k + i]
  BY <1>0, KeptInstants
<1>3. /\ Len(recent') = Len(recent) - k + 1
      /\ Len(history') = Len(history) + 1
      /\ \A i \in 1..Len(history) : history'[i] = history[i]
      /\ history'[Len(history) + 1] = now
      /\ \A i \in 1..(Len(recent) - k) : recent'[i] = recent[k + i]
      /\ recent'[Len(recent) - k + 1] = now
  BY <1>0, <1>1, <1>2, SMTT(30)
<1>4. /\ Forgotten' = Forgotten + k
      /\ Forgotten \in Nat
      /\ Forgotten + Len(recent) = Len(history)
  BY <1>0, <1>3 DEF Forgotten
<1>5. RecentIsSuffix'
  <2>1. Len(recent') <= Len(history')
    BY <1>0, <1>3
  <2>2. ASSUME NEW i \in 1..(Len(recent) - k)
        PROVE  recent'[i] = history'[(Forgotten + k) + i]
    <3>1. recent'[i] = recent[k + i] /\ k + i \in 1..Len(recent)
      BY <1>0, <1>3
    <3>2. recent[k + i] = history[Forgotten + (k + i)]
      BY <3>1 DEF BudgetInv, RecentIsSuffix
    <3>3. /\ Forgotten + (k + i) = (Forgotten + k) + i
          /\ (Forgotten + k) + i \in 1..Len(history)
      BY <3>1, <1>0, <1>4
    <3> QED BY <3>1, <3>2, <3>3, <1>3
  <2>3. recent'[Len(recent) - k + 1] = history'[(Forgotten + k) + (Len(recent) - k + 1)]
    <3>1. (Forgotten + k) + (Len(recent) - k + 1) = Len(history) + 1
      <4>1. \A f, r, h \in Nat : f + r = h => (f + k) + (r - k + 1) = h + 1
        OBVIOUS
      <4>2. /\ Forgotten \in Nat /\ Len(recent) \in Nat /\ Len(history) \in Nat
            /\ Forgotten + Len(recent) = Len(history)
        BY <1>0, <1>4
      <4> QED BY <4>1, <4>2, ZenonT(40)
    <3> QED BY <3>1, <1>3
  <2>4. ASSUME NEW i \in 1..Len(recent')
        PROVE  recent'[i] = history'[Forgotten' + i]
    <3>1. i \in 1..(Len(recent) - k) \/ i = Len(recent) - k + 1
      BY <1>0, <1>3
    <3> QED BY <3>1, <2>2, <2>3, <1>4
  <2> QED BY <2>1, <2>4 DEF RecentIsSuffix
<1>6. ForgottenIsAged'
  <2> SUFFICES ASSUME NEW i \in 1..(Forgotten + k) PROVE now - history'[i] >= Window
    BY <1>4 DEF ForgottenIsAged
  <2>1. i \in 1..Len(history) /\ now - history[i] >= Window
    BY <1>1, ForgettingIsSafe
  <2> QED BY <2>1, <1>3
<1>7. HistoryIsPast'
  <2> SUFFICES ASSUME NEW i \in 1..(Len(history) + 1) PROVE history'[i] <= now
    BY <1>3 DEF HistoryIsPast
  <2>1. CASE i \in 1..Len(history)
    BY <2>1, <1>3 DEF BudgetInv, HistoryIsPast
  <2>2. CASE i = Len(history) + 1
    BY <2>2, <1>0, <1>3
  <2> QED BY <2>1, <2>2, <1>0
<1>8. AdmissionsWithinBudget'
  <2> SUFFICES ASSUME NEW i \in 1..(Len(history) + 1), NEW j \in 1..(Len(history) + 1),
                      j - i >= MaxRelaunches
               PROVE  history'[j] - history'[i] >= Window
    BY <1>3 DEF AdmissionsWithinBudget
  <2>1. i \in 1..Len(history)
    BY <1>0, <1>1
  <2>2. CASE j \in 1..Len(history)
    BY <2>1, <2>2, <1>3 DEF BudgetInv, AdmissionsWithinBudget
  <2>3. CASE j = Len(history) + 1
    <3>1. i \in 1..(Forgotten + k)
      BY <2>1, <2>3, <1>0, <1>1 DEF Forgotten
    <3>2. now - history[i] >= Window
      BY <3>1, <1>1, ForgettingIsSafe
    <3> QED BY <3>2, <2>1, <2>3, <1>3
  <2> QED BY <2>2, <2>3, <1>0
<1> QED BY <1>5, <1>6, <1>7, <1>8 DEF BudgetInv

\* Closing the latch preserves it: only instants outside the window are dropped.
LEMMA BudgetInvExhaust ==
    ASSUME BudgetInv, TypeOK', Exhaust, now' = now, history' = history
    PROVE  BudgetInv'
<1>0. /\ recent \in Seq(Nat)
      /\ Len(recent) \in Nat /\ Len(history) \in Nat
      /\ Len(recent) <= Len(history)
  BY DEF BudgetInv, TypeOK, RecentIsSuffix
<1>1. PICK k \in 0..Len(recent) : Forgets(k) /\ recent' = Kept(k)
  BY DEF Exhaust
<1>2. /\ Len(recent') = Len(recent) - k
      /\ \A i \in 1..(Len(recent) - k) : recent'[i] = recent[k + i]
  BY <1>0, <1>1, KeptInstants
<1>3. Forgotten' = Forgotten + k
  BY <1>0, <1>2 DEF Forgotten
<1>4. RecentIsSuffix'
  <2> SUFFICES ASSUME NEW i \in 1..(Len(recent) - k)
               PROVE  recent'[i] = history[Forgotten + k + i]
    BY <1>0, <1>2, <1>3 DEF RecentIsSuffix
  <2>1. recent[k + i] = history[Forgotten + (k + i)]
    BY <1>0 DEF BudgetInv, RecentIsSuffix
  <2> QED BY <2>1, <1>0, <1>2 DEF Forgotten
<1>5. ForgottenIsAged'
  BY <1>1, <1>3, ForgettingIsSafe DEF ForgottenIsAged
<1>6. HistoryIsPast' /\ AdmissionsWithinBudget'
  BY DEF BudgetInv, HistoryIsPast, AdmissionsWithinBudget
<1> QED BY <1>4, <1>5, <1>6 DEF BudgetInv

(***************************************************************************)
(* The crash-loop budget holds in every behaviour: MaxRelaunches + 1       *)
(* admissions of admit_relaunch always span a window.  With MaxRelaunches  *)
(* = 0 it says that nothing is ever admitted twice within a window.        *)
(***************************************************************************)
THEOREM BudgetRespected == Spec => []AdmissionsWithinBudget
<1>1. Init /\ TypeOK => BudgetInv
  BY DEF Init, BudgetInv, RecentIsSuffix, ForgottenIsAged, HistoryIsPast,
         AdmissionsWithinBudget, Forgotten
<1>2. BudgetInv /\ TypeOK' /\ [Next]_vars => BudgetInv'
  <2> SUFFICES ASSUME BudgetInv, TypeOK', [Next]_vars PROVE BudgetInv'
    OBVIOUS
  <2>0. now \in Nat
    BY DEF BudgetInv, TypeOK
  <2>1. CASE Tick BY <2>0, <2>1, BudgetInvFrame DEF Tick
  <2>2. CASE ObserveAdmitted BY <2>2, BudgetInvAdmit DEF ObserveAdmitted
  <2>3. CASE ObserveSpent BY <2>3, BudgetInvExhaust DEF ObserveSpent
  <2>4. CASE ObserveRunning \/ ObserveSettled \/ ObserveLatched
    BY <2>0, <2>4, BudgetInvFrame DEF ObserveRunning, ObserveSettled, ObserveLatched
  <2>5. CASE WorkerReady \/ ContainFailure \/ LoseWorkerUncontained
    BY <2>0, <2>5, BudgetInvFrame DEF WorkerReady, ContainFailure, LoseWorkerUncontained
  <2>6. CASE RestartWorker \/ RefuseRestart \/ OtherInput
    BY <2>0, <2>6, BudgetInvFrame DEF RestartWorker, RefuseRestart, OtherInput
  <2>7. CASE Relaunch \/ RelaunchSucceeds \/ RelaunchFails
    BY <2>0, <2>7, BudgetInvFrame DEF Relaunch, RelaunchSucceeds, RelaunchFails
  <2>8. CASE UNCHANGED vars BY <2>0, <2>8, BudgetInvFrame DEF vars
  <2> QED
    BY <2>1, <2>2, <2>3, <2>4, <2>5, <2>6, <2>7, <2>8
    DEF Next, Observe, RelaunchOutcome
<1>3. BudgetInv => AdmissionsWithinBudget
  BY DEF BudgetInv
<1> QED BY <1>1, <1>2, <1>3, TypeCorrect, PTL DEF Spec

-----------------------------------------------------------------------------

\* A loop that published "Unavailable" is not ready, so it refuses restarts; a
\* latched loop has nothing left that could start a worker.
LatchInv ==
    /\ status = "Unavailable" => ~isReady
    /\ exhausted => /\ ~running
                   /\ ~isReady
                   /\ deadline = NoDeadline
                   /\ phase # "relaunching"
    /\ NoRelaunchOverRunningWorker
    /\ phase = "relaunching" => deadline = NoDeadline

\* The latch invariant is inductive.
LEMMA LatchInvInductive == Spec => []LatchInv
<1> USE DEF LatchInv, NoRelaunchOverRunningWorker, NoDeadline
<1>1. Init => LatchInv
  BY DEF Init
<1>2. TypeOK /\ LatchInv /\ [Next]_vars => LatchInv'
  <2> SUFFICES ASSUME TypeOK, LatchInv, [Next]_vars PROVE LatchInv'
    OBVIOUS
  <2>1. CASE Tick BY <2>1 DEF Tick
  <2>2. CASE ObserveRunning BY <2>2 DEF ObserveRunning
  <2>3. CASE ObserveSettled BY <2>3 DEF ObserveSettled
  <2>4. CASE ObserveAdmitted BY <2>4 DEF ObserveAdmitted, NeedsRelaunch
  <2>5. CASE ObserveSpent BY <2>5 DEF ObserveSpent, NeedsRelaunch
  <2>6. CASE ObserveLatched BY <2>6 DEF ObserveLatched, NeedsRelaunch
  <2>7. CASE WorkerReady BY <2>7 DEF WorkerReady, EndIteration
  <2>8. CASE ContainFailure
    <3>1. running' => running
      BY <2>8 DEF ContainFailure, Terminated, TypeOK
    <3> QED BY <2>8, <3>1 DEF ContainFailure, EndIteration
  <2>9. CASE LoseWorkerUncontained BY <2>9 DEF LoseWorkerUncontained, EndIteration
  <2>10. CASE RestartWorker BY <2>10 DEF RestartWorker, EndIteration, Terminated
  <2>11. CASE RefuseRestart \/ OtherInput
    BY <2>11 DEF RefuseRestart, OtherInput, EndIteration
  <2>12. CASE Relaunch BY <2>12 DEF Relaunch
  <2>13. CASE RelaunchSucceeds BY <2>13 DEF RelaunchSucceeds
  <2>14. CASE RelaunchFails BY <2>14 DEF RelaunchFails
  <2>15. CASE UNCHANGED vars BY <2>15 DEF vars
  <2> QED
    BY <2>1, <2>2, <2>3, <2>4, <2>5, <2>6, <2>7, <2>8, <2>9, <2>10, <2>11,
       <2>12, <2>13, <2>14, <2>15
    DEF Next, Observe, RelaunchOutcome
<1> QED BY <1>1, <1>2, TypeCorrect, PTL DEF Spec

(***************************************************************************)
(* The timer arm never fires over a running worker.                        *)
(***************************************************************************)
THEOREM RelaunchOnlyStopped == Spec => []NoRelaunchOverRunningWorker
<1>1. LatchInv => NoRelaunchOverRunningWorker
  BY DEF LatchInv
<1> QED BY <1>1, LatchInvInductive, PTL

(***************************************************************************)
(* Once the latch of the crash-loop guard closes, the loop never launches  *)
(* or adopts a worker again: neither its own schedule nor a restart        *)
(* command gets past the guards.                                           *)
(***************************************************************************)
THEOREM LatchIsFinal == Spec => ExhaustionIsFinal
<1> DEFINE Final == exhausted => exhausted' /\ ~running' /\ deadline' = NoDeadline
<1>1. TypeOK /\ LatchInv /\ [Next]_vars => [Final]_vars
  <2> SUFFICES ASSUME TypeOK, LatchInv, Next, exhausted
               PROVE  exhausted' /\ ~running' /\ deadline' = NoDeadline
    OBVIOUS
  <2>0. ~running /\ ~isReady /\ deadline = NoDeadline /\ phase # "relaunching"
    BY DEF LatchInv
  <2>9. running = FALSE /\ exhausted = TRUE
    BY <2>0 DEF TypeOK
  <2>1. CASE Tick BY <2>0, <2>1 DEF Tick
  <2>2. CASE Observe
    <3>1. ObserveSettled \/ ObserveLatched
      BY <2>0, <2>2 DEF Observe, ObserveRunning, ObserveAdmitted, ObserveSpent
    <3> QED BY <2>0, <2>9, <3>1 DEF ObserveSettled, ObserveLatched
  <2>3. CASE WorkerReady \/ LoseWorkerUncontained
    BY <2>0, <2>3 DEF WorkerReady, LoseWorkerUncontained
  <2>4. CASE ContainFailure BY <2>0, <2>9, <2>4 DEF ContainFailure, Terminated
  <2>5. CASE RestartWorker BY <2>0, <2>5 DEF RestartWorker
  <2>6. CASE RefuseRestart \/ OtherInput
    BY <2>0, <2>9, <2>6 DEF RefuseRestart, OtherInput
  <2>7. CASE Relaunch BY <2>0, <2>7 DEF Relaunch
  <2>8. CASE RelaunchOutcome
    BY <2>0, <2>8 DEF RelaunchOutcome, RelaunchSucceeds, RelaunchFails
  <2> QED BY <2>1, <2>2, <2>3, <2>4, <2>5, <2>6, <2>7, <2>8 DEF Next
<1> QED BY <1>1, TypeCorrect, LatchInvInductive, PTL DEF Spec, ExhaustionIsFinal

-----------------------------------------------------------------------------

\* A deadline was set by the newest admission, a backoff ahead of it.
DeadlineIsPaid ==
    deadline # NoDeadline =>
        Len(history) > 0 /\ deadline = history[Len(history)] + Backoff

(***************************************************************************)
(* A deadline changes with the history or is dropped: only an admission    *)
(* sets one.                                                               *)
(***************************************************************************)
LEMMA DeadlineIsPaidAlways == Spec => []DeadlineIsPaid
<1> USE DEF DeadlineIsPaid, NoDeadline
<1>1. Init => DeadlineIsPaid
  BY DEF Init
<1>2. TypeOK /\ DeadlineIsPaid /\ [Next]_vars => DeadlineIsPaid'
  <2> SUFFICES ASSUME TypeOK, DeadlineIsPaid, [Next]_vars PROVE DeadlineIsPaid'
    OBVIOUS
  <2>1. CASE ObserveAdmitted
    <3>1. history' = Append(history, now) /\ deadline' = now + Backoff
      BY <2>1 DEF ObserveAdmitted, Admit
    <3>2. Len(history') = Len(history) + 1 /\ history'[Len(history) + 1] = now /\ Len(history) \in Nat
      BY <3>1 DEF TypeOK
    <3> QED BY <3>1, <3>2
  <2>2. CASE ObserveRunning \/ Relaunch
    BY <2>2 DEF ObserveRunning, Relaunch
  <2>3. CASE UNCHANGED <<deadline, history>>
    BY <2>3
  <2> QED
    BY <2>1, <2>2, <2>3
    DEF Next, Observe, RelaunchOutcome, vars, Tick, ObserveSettled, ObserveSpent,
        ObserveLatched, WorkerReady, ContainFailure, LoseWorkerUncontained, RestartWorker,
        RefuseRestart, OtherInput, RelaunchSucceeds, RelaunchFails
<1> QED BY <1>1, <1>2, TypeCorrect, PTL DEF Spec

(***************************************************************************)
(* The timer arm starts a relaunch no earlier than the backoff after the   *)
(* newest admission, and clears the deadline that admission set, so that   *)
(* no admission pays twice.                                                *)
(***************************************************************************)
THEOREM BackoffIsKept == Spec => BackoffRespected
<1> DEFINE Paid == phase # "relaunching" /\ phase' = "relaunching" =>
                      /\ Len(history) > 0
                      /\ now >= history[Len(history)] + Backoff
                      /\ deadline' = NoDeadline
<1>1. TypeOK /\ DeadlineIsPaid /\ [Next]_vars => [Paid]_vars
  <2> SUFFICES ASSUME TypeOK, DeadlineIsPaid, Next, phase # "relaunching", phase' = "relaunching"
               PROVE  Paid
    OBVIOUS
  <2>1. Relaunch
    BY DEF Next, Tick, Observe, ObserveRunning, ObserveSettled, NeedsRelaunch, ObserveAdmitted,
       ObserveSpent, ObserveLatched, WorkerReady, ContainFailure, LoseWorkerUncontained,
       RestartWorker, RefuseRestart, OtherInput, EndIteration, RelaunchOutcome,
       RelaunchSucceeds, RelaunchFails
  <2> QED BY <2>1 DEF Relaunch, DeadlineIsPaid
<1> QED BY <1>1, TypeCorrect, DeadlineIsPaidAlways, PTL DEF Spec, BackoffRespected
=============================================================================
