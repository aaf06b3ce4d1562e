--------------------- MODULE GenerationAdmissionProofs ---------------------
(***************************************************************************)
(* For any number of requests, control actions and permits: the types of   *)
(* GenerationAdmission, one generation at a time, demotions that exclude   *)
(* generations, replacements that never run over one, and permits that are *)
(* all accounted for.                                                      *)
(*                                                                         *)
(* None of them is inductive alone.  What holds them together is the       *)
(* ownership of the permits: a request that is sent or served owns the     *)
(* active permit, one that is admitted or waits owns a queue permit, a     *)
(* reservation owns them all, and only a waiting request is in the queue   *)
(* the active permit is handed along.                                      *)
(***************************************************************************)
EXTENDS GenerationAdmission, TLAPS

\* The queue for the active permit holds waiting requests, each once, and not
\* the owner of the permit.
WaitersWait ==
    /\ \A i \in 1..Len(waiters) : rq[waiters[i]] = "waiting" /\ waiters[i] # activeOwner
    /\ \A i, j \in 1..Len(waiters) : waiters[i] = waiters[j] => i = j

\* A request on its way to the loop, or served by it, owns the active permit.
SentOwnsActive ==
    \A r \in Requests : rq[r] \in {"granted", "sent", "serving"} => activeOwner = r

\* The requests of the inbox are sent, each once, and the loop serves a request
\* that knows it.
InboxIsSent ==
    /\ \A i \in 1..Len(inbox) : inbox[i] \in Requests => rq[inbox[i]] = "sent"
    /\ \A i, j \in 1..Len(inbox) : inbox[i] \in Requests /\ inbox[i] = inbox[j] => i = j
    /\ serving # None => rq[serving] = "serving"

\* A request that waits owns a queue permit.
WaitingOwnsQueue ==
    \A r \in Requests : rq[r] \in {"admitted", "waiting"} => \E p \in QueuePermits : queueOwner[p] = r

\* A complete reservation owns every permit.
ReservationOwnsAll ==
    \A c \in Demoters : ctl[c] \in {"ready", "sent"} =>
        activeOwner = c /\ \A p \in QueuePermits : queueOwner[p] = c

IInv ==
    /\ TypeOK
    /\ WaitersWait
    /\ PermitsAreAccountedFor
    /\ SentOwnsActive
    /\ InboxIsSent
    /\ WaitingOwnsQueue
    /\ ReservationOwnsAll
    /\ NoReplacementOverWork

-----------------------------------------------------------------------------
(* Facts about the two queues *)

(***************************************************************************)
(* A queue that is not empty splits into its head and the rest, which it   *)
(* holds one place further on.                                             *)
(***************************************************************************)
LEMMA TailFacts ==
    ASSUME NEW S, NEW s \in Seq(S), s # <<>>
    PROVE  /\ Len(s) \in Nat /\ 1 \in 1..Len(s)
           /\ Head(s) \in S /\ Head(s) = s[1]
           /\ Tail(s) \in Seq(S)
           /\ Len(Tail(s)) = Len(s) - 1
           /\ \A i \in 1..Len(Tail(s)) : i + 1 \in 1..Len(s) /\ i + 1 # 1 /\ Tail(s)[i] = s[i + 1]
  OBVIOUS

(***************************************************************************)
(* Appending an element leaves the others where they were.                 *)
(***************************************************************************)
LEMMA AppendFacts ==
    ASSUME NEW S, NEW s \in Seq(S), NEW x \in S
    PROVE  /\ Append(s, x) \in Seq(S)
           /\ Len(s) \in Nat
           /\ Len(Append(s, x)) = Len(s) + 1
           /\ Append(s, x)[Len(s) + 1] = x
           /\ \A i \in 1..Len(s) : Append(s, x)[i] = s[i]
           /\ \A i \in 1..Len(Append(s, x)) : i \in 1..Len(s) \/ i = Len(s) + 1
           /\ Len(s) + 1 \notin 1..Len(s)
  OBVIOUS

(***************************************************************************)
(* Dropping the active permit hands it to a request that waits for it, and *)
(* not to the one that drops it; the others keep waiting.                  *)
(***************************************************************************)
LEMMA HandOver ==
    ASSUME TypeOK, WaitersWait, DropActivePermit
    PROVE  /\ waiters' \in Seq(Requests)
           /\ activeOwner' \in Requests \cup {None}
           /\ activeOwner' # None => activeOwner' \in Requests /\ rq[activeOwner'] = "waiting" /\ activeOwner' # activeOwner
           /\ \A i \in 1..Len(waiters') :
                  waiters'[i] \in Requests /\ rq[waiters'[i]] = "waiting" /\ waiters'[i] # activeOwner' /\ waiters'[i] # activeOwner
           /\ \A i, j \in 1..Len(waiters') : waiters'[i] = waiters'[j] => i = j
<1>1. CASE waiters = <<>>
  BY <1>1, AdmissionAssumption DEF TypeOK, WaitersWait, DropActivePermit
<1>2. CASE waiters # <<>>
  <2>1. activeOwner' = Head(waiters) /\ waiters' = Tail(waiters)
    BY <1>2 DEF DropActivePermit
  <2>2. /\ Head(waiters) \in Requests /\ Head(waiters) = waiters[1] /\ 1 \in 1..Len(waiters)
        /\ Tail(waiters) \in Seq(Requests) /\ Len(Tail(waiters)) \in Nat
        /\ \A i \in 1..Len(Tail(waiters)) :
              i + 1 \in 1..Len(waiters) /\ i + 1 # 1 /\ Tail(waiters)[i] = waiters[i + 1]
    BY <1>2, TailFacts DEF TypeOK
  <2>3. \A i \in 1..Len(waiters) : rq[waiters[i]] = "waiting" /\ waiters[i] # activeOwner /\ waiters[i] \in Requests
    BY DEF TypeOK, WaitersWait
  <2>4. \A i, j \in 1..Len(waiters) : waiters[i] = waiters[j] => i = j
    BY DEF WaitersWait
  <2>5. \A i \in 1..Len(Tail(waiters)) : Tail(waiters)[i] # Head(waiters)
    BY <2>2, <2>4
  <2>6. \A i, j \in 1..Len(Tail(waiters)) : Tail(waiters)[i] = Tail(waiters)[j] => i = j
    BY <2>2, <2>4
  <2> QED
    BY <2>1, <2>2, <2>3, <2>5, <2>6, SMTT(30)
<1> QED
  BY <1>1, <1>2

(***************************************************************************)
(* A request that gives up leaves the queue to the others.                 *)
(***************************************************************************)
LEMMA LeaveKeeps ==
    ASSUME TypeOK, WaitersWait, NEW r \in Requests
    PROVE  /\ Leave(r) \in Seq(Requests)
           /\ \A i \in 1..Len(Leave(r)) : 
                  Leave(r)[i] \in Requests /\ rq[Leave(r)[i]] = "waiting" /\ Leave(r)[i] # activeOwner /\ Leave(r)[i] # r
           /\ \A i, j \in 1..Len(Leave(r)) : Leave(r)[i] = Leave(r)[j] => i = j
<1>1. /\ Len(waiters) \in Nat
      /\ \A i \in 1..Len(waiters) : rq[waiters[i]] = "waiting" /\ waiters[i] # activeOwner /\ waiters[i] \in Requests
      /\ \A i, j \in 1..Len(waiters) : waiters[i] = waiters[j] => i = j
  BY DEF TypeOK, WaitersWait
<1>2. CASE \A k \in 1..Len(waiters) : waiters[k] # r
  BY <1>1, <1>2 DEF TypeOK, Leave
<1>3. CASE \E k \in 1..Len(waiters) : waiters[k] = r
  <2> DEFINE k == CHOOSE k \in 1..Len(waiters) : waiters[k] = r
             s == [i \in 1..(Len(waiters) - 1) |-> IF i < k THEN waiters[i] ELSE waiters[i + 1]]
             at(i) == IF i < k THEN i ELSE i + 1
  <2>1. k \in 1..Len(waiters) /\ waiters[k] = r
    BY <1>3
  <2>2. Leave(r) = s
    BY <1>3 DEF Leave
  <2> HIDE DEF k
  <2>3. \A i \in 1..(Len(waiters) - 1) : at(i) \in 1..Len(waiters) /\ at(i) # k /\ s[i] = waiters[at(i)]
    BY <1>1, <2>1
  <2>4. \A i, j \in 1..(Len(waiters) - 1) : at(i) = at(j) => i = j
    BY <1>1, <2>1
  <2> HIDE DEF at
  <2>5. Len(waiters) - 1 \in Nat
    BY <1>1, <2>1
  <2>6. \A i \in 1..(Len(waiters) - 1) : s[i] \in Requests
    BY <1>1, <2>3
  <2>7. s \in Seq(Requests) /\ Len(s) = Len(waiters) - 1
    BY <2>5, <2>6
  <2> HIDE DEF s
  <2>8. \A i \in 1..Len(s) : s[i] \in Requests /\ rq[s[i]] = "waiting" /\ s[i] # activeOwner /\ s[i] # r
    BY <1>1, <2>1, <2>3, <2>7
  <2>9. \A i, j \in 1..Len(s) : s[i] = s[j] => i = j
    BY <1>1, <2>3, <2>4, <2>7
  <2> QED
    BY <2>2, <2>7, <2>8, <2>9
<1> QED
  BY <1>2, <1>3

-----------------------------------------------------------------------------
(* What each action preserves *)

(***************************************************************************)
(* A request takes a queue permit that is free: no reservation has it.     *)
(***************************************************************************)
LEMMA AdmitKeeps ==
    ASSUME IInv, NEW r \in Requests, Admit(r)
    PROVE  IInv'
<1> USE AdmissionAssumption DEF IInv, Controllers
<1>1. TypeOK'
  BY DEF Admit, TypeOK, RequestStates
<1>2. WaitersWait'
  BY DEF Admit, WaitersWait
<1>3. PermitsAreAccountedFor'
  BY DEF Admit, PermitsAreAccountedFor, TypeOK
<1>4. SentOwnsActive'
  BY DEF Admit, SentOwnsActive
<1>5. InboxIsSent'
  BY DEF Admit, InboxIsSent
<1>6. WaitingOwnsQueue'
  BY DEF Admit, WaitingOwnsQueue, TypeOK
<1>7. ReservationOwnsAll'
  BY DEF Admit, ReservationOwnsAll
<1>8. NoReplacementOverWork'
  BY DEF Admit, NoReplacementOverWork
<1> QED
  BY <1>1, <1>2, <1>3, <1>4, <1>5, <1>6, <1>7, <1>8 DEF IInv

(***************************************************************************)
(* A refused request owns nothing.                                         *)
(***************************************************************************)
LEMMA RefuseKeeps ==
    ASSUME IInv, NEW r \in Requests, Refuse(r)
    PROVE  IInv'
<1> USE AdmissionAssumption DEF IInv, Controllers
<1>1. TypeOK'
  BY DEF Refuse, TypeOK, RequestStates
<1>2. WaitersWait'
  BY DEF Refuse, WaitersWait
<1>3. PermitsAreAccountedFor'
  BY DEF Refuse, PermitsAreAccountedFor
<1>4. SentOwnsActive'
  BY DEF Refuse, SentOwnsActive
<1>5. InboxIsSent'
  BY DEF Refuse, InboxIsSent
<1>6. WaitingOwnsQueue'
  BY DEF Refuse, WaitingOwnsQueue
<1>7. ReservationOwnsAll' /\ NoReplacementOverWork'
  BY DEF Refuse, ReservationOwnsAll, NoReplacementOverWork
<1> QED
  BY <1>1, <1>2, <1>3, <1>4, <1>5, <1>6, <1>7 DEF IInv

(***************************************************************************)
(* A request that takes the free active permit, or a place in its queue.   *)
(***************************************************************************)
LEMMA AwaitKeeps ==
    ASSUME IInv, NEW r \in Requests, AwaitActivePermit(r)
    PROVE  IInv'
<1> USE AdmissionAssumption DEF IInv, Controllers
<1>a. /\ Append(waiters, r) \in Seq(Requests)
      /\ Len(waiters) \in Nat
      /\ Append(waiters, r)[Len(waiters) + 1] = r
      /\ \A i \in 1..Len(waiters) : Append(waiters, r)[i] = waiters[i]
      /\ \A i \in 1..Len(Append(waiters, r)) : i \in 1..Len(waiters) \/ i = Len(waiters) + 1
      /\ Len(waiters) + 1 \notin 1..Len(waiters)
  BY AppendFacts DEF TypeOK
<1>1. TypeOK'
  BY <1>a DEF AwaitActivePermit, TypeOK, RequestStates, ControlStates
<1>2. WaitersWait'
  <2>1. CASE activeOwner = None
    BY <2>1 DEF AwaitActivePermit, WaitersWait, TypeOK
  <2>2. CASE activeOwner # None
    <3>1. r # activeOwner /\ \A i \in 1..Len(waiters) : waiters[i] # r
      BY DEF AwaitActivePermit, WaitersWait, PermitsAreAccountedFor, TypeOK
    <3>2. /\ waiters' = Append(waiters, r) /\ activeOwner' = activeOwner
          /\ rq'[r] = "waiting" /\ \A q \in Requests \ {r} : rq'[q] = rq[q]
      BY <2>2 DEF AwaitActivePermit, TypeOK
    <3>3. \A i \in 1..Len(waiters) : waiters[i] \in Requests
      BY DEF TypeOK
    <3>4. ASSUME NEW i \in 1..Len(waiters')
          PROVE  rq'[waiters'[i]] = "waiting" /\ waiters'[i] # activeOwner'
      BY <1>a, <3>1, <3>2, <3>3 DEF WaitersWait
    <3>5. ASSUME NEW i \in 1..Len(waiters'), NEW j \in 1..Len(waiters'), waiters'[i] = waiters'[j]
          PROVE  i = j
      BY <1>a, <3>1, <3>2, <3>5 DEF WaitersWait
    <3> QED
      BY <3>4, <3>5 DEF WaitersWait
  <2> QED
    BY <2>1, <2>2
<1>3. PermitsAreAccountedFor'
  BY DEF AwaitActivePermit, PermitsAreAccountedFor, TypeOK
<1>4. SentOwnsActive'
  BY DEF AwaitActivePermit, SentOwnsActive
<1>5. InboxIsSent'
  BY DEF AwaitActivePermit, InboxIsSent
<1>6. WaitingOwnsQueue'
  BY DEF AwaitActivePermit, WaitingOwnsQueue
<1>7. ReservationOwnsAll'
  BY DEF AwaitActivePermit, ReservationOwnsAll
<1>8. NoReplacementOverWork'
  BY DEF AwaitActivePermit, NoReplacementOverWork
<1> QED
  BY <1>1, <1>2, <1>3, <1>4, <1>5, <1>6, <1>7, <1>8 DEF IInv

(***************************************************************************)
(* A request that receives the active permit drops its queue permit.       *)
(***************************************************************************)
LEMMA ReceiveKeeps ==
    ASSUME IInv, NEW r \in Requests, ReceiveActivePermit(r)
    PROVE  IInv'
<1> USE AdmissionAssumption DEF IInv, Controllers
<1>1. TypeOK'
  BY DEF ReceiveActivePermit, DropQueuePermits, TypeOK, RequestStates
<1>2. WaitersWait'
  BY DEF ReceiveActivePermit, WaitersWait, TypeOK
<1>3. PermitsAreAccountedFor'
  BY DEF ReceiveActivePermit, DropQueuePermits, PermitsAreAccountedFor
<1>4. SentOwnsActive'
  BY DEF ReceiveActivePermit, SentOwnsActive
<1>5. InboxIsSent'
  BY DEF ReceiveActivePermit, InboxIsSent, TypeOK
<1>6. WaitingOwnsQueue'
  BY DEF ReceiveActivePermit, DropQueuePermits, WaitingOwnsQueue, TypeOK
<1>7. ReservationOwnsAll'
  BY DEF ReceiveActivePermit, DropQueuePermits, ReservationOwnsAll
<1>8. NoReplacementOverWork'
  BY DEF ReceiveActivePermit, NoReplacementOverWork
<1> QED
  BY <1>1, <1>2, <1>3, <1>4, <1>5, <1>6, <1>7, <1>8 DEF IInv

(***************************************************************************)
(* A request that sends its command keeps the active permit.               *)
(***************************************************************************)
LEMMA SendGenerateKeeps ==
    ASSUME IInv, NEW r \in Requests, SendGenerate(r)
    PROVE  IInv'
<1> USE AdmissionAssumption DEF IInv, Controllers
<1> inbox \in Seq(Requests \cup Controllers) /\ r \in Requests \cup Controllers
  BY DEF TypeOK
<1> USE AppendFacts
<1>1. TypeOK'
  BY DEF SendGenerate, TypeOK, RequestStates
<1>2. WaitersWait'
  BY DEF SendGenerate, WaitersWait
<1>3. PermitsAreAccountedFor'
  BY DEF SendGenerate, PermitsAreAccountedFor
<1>4. SentOwnsActive'
  BY DEF SendGenerate, SentOwnsActive
<1>5. InboxIsSent'
  BY DEF SendGenerate, InboxIsSent, TypeOK
<1>6. WaitingOwnsQueue'
  BY DEF SendGenerate, WaitingOwnsQueue, TypeOK
<1>7. ReservationOwnsAll'
  BY DEF SendGenerate, ReservationOwnsAll
<1>8. NoReplacementOverWork'
  BY DEF SendGenerate, NoReplacementOverWork
<1> QED
  BY <1>1, <1>2, <1>3, <1>4, <1>5, <1>6, <1>7, <1>8 DEF IInv

(***************************************************************************)
(* A request that gives up owns a permit, so there is no reservation to    *)
(* disturb.                                                                *)
(***************************************************************************)
LEMMA AbandonKeeps ==
    ASSUME IInv, NEW r \in Requests, Abandon(r)
    PROVE  IInv'
<1> USE AdmissionAssumption DEF IInv, Controllers
<1> USE HandOver, LeaveKeeps
<1>1. TypeOK'
  BY DEF Abandon, DropQueuePermits, TypeOK, RequestStates
<1>2. WaitersWait'
  BY SMTT(30) DEF Abandon, WaitersWait
<1>3. PermitsAreAccountedFor'
  BY DEF Abandon, DropQueuePermits, PermitsAreAccountedFor
<1>4. SentOwnsActive'
  <2>1. rq'[r] = "done" /\ \A q \in Requests \ {r} : rq'[q] = rq[q]
    BY DEF Abandon, TypeOK
  <2>2. CASE activeOwner = r
    BY <2>1, <2>2 DEF SentOwnsActive
  <2>3. CASE activeOwner # r
    BY <2>1, <2>3 DEF Abandon, SentOwnsActive
  <2> QED
    BY <2>2, <2>3
<1>5. InboxIsSent'
  BY DEF Abandon, InboxIsSent
<1>6. WaitingOwnsQueue'
  BY DEF Abandon, DropQueuePermits, WaitingOwnsQueue, TypeOK
<1>7. ReservationOwnsAll'
  BY DEF Abandon, DropQueuePermits, ReservationOwnsAll
<1>8. NoReplacementOverWork'
  BY DEF Abandon, NoReplacementOverWork
<1> QED
  BY <1>1, <1>2, <1>3, <1>4, <1>5, <1>6, <1>7, <1>8 DEF IInv

(***************************************************************************)
(* The idle check takes nothing.                                           *)
(***************************************************************************)
LEMMA ReadKeeps ==
    ASSUME IInv, NEW c \in Controllers, ReadActiveIdle(c) \/ ReadQueueIdle(c)
    PROVE  IInv'
<1> USE AdmissionAssumption DEF IInv, Controllers
<1>1. TypeOK'
  BY DEF ReadActiveIdle, ReadQueueIdle, TypeOK, ControlStates
<1>2. PermitsAreAccountedFor'
  BY DEF ReadActiveIdle, ReadQueueIdle, PermitsAreAccountedFor, TypeOK
<1>3. ReservationOwnsAll'
  BY DEF ReadActiveIdle, ReadQueueIdle, ReservationOwnsAll, TypeOK
<1>4. WaitersWait' /\ SentOwnsActive' /\ InboxIsSent' /\ WaitingOwnsQueue' /\ NoReplacementOverWork'
  BY DEF ReadActiveIdle, ReadQueueIdle, WaitersWait, SentOwnsActive, InboxIsSent, WaitingOwnsQueue, NoReplacementOverWork
<1> QED
  BY <1>1, <1>2, <1>3, <1>4 DEF IInv

(***************************************************************************)
(* A permit that a reservation takes was free.                             *)
(***************************************************************************)
LEMMA ReserveQueueKeeps ==
    ASSUME IInv, NEW c \in Demoters, ReserveQueuePermit(c)
    PROVE  IInv'
<1> USE AdmissionAssumption DEF IInv, Controllers
<1>1. TypeOK'
  BY DEF ReserveQueuePermit, TypeOK
<1>2. PermitsAreAccountedFor'
  BY DEF ReserveQueuePermit, PermitsAreAccountedFor
<1>3. WaitingOwnsQueue'
  BY DEF ReserveQueuePermit, WaitingOwnsQueue
<1>4. ReservationOwnsAll'
  BY DEF ReserveQueuePermit, ReservationOwnsAll
<1>5. WaitersWait' /\ SentOwnsActive' /\ InboxIsSent' /\ NoReplacementOverWork'
  BY DEF ReserveQueuePermit, WaitersWait, SentOwnsActive, InboxIsSent, NoReplacementOverWork
<1> QED
  BY <1>1, <1>2, <1>3, <1>4, <1>5 DEF IInv

(***************************************************************************)
(* The last step of a reservation finds every permit its own or free.      *)
(***************************************************************************)
LEMMA ReserveActiveKeeps ==
    ASSUME IInv, NEW c \in Demoters, ReserveActivePermit(c)
    PROVE  IInv'
<1> USE AdmissionAssumption DEF IInv, Controllers
<1>1. TypeOK'
  BY DEF ReserveActivePermit, TypeOK, ControlStates
<1>2. WaitersWait'
  BY DEF ReserveActivePermit, WaitersWait, TypeOK
<1>3. PermitsAreAccountedFor'
  BY DEF ReserveActivePermit, PermitsAreAccountedFor, TypeOK
<1>4. SentOwnsActive'
  BY DEF ReserveActivePermit, SentOwnsActive
<1>5. ReservationOwnsAll'
  BY DEF ReserveActivePermit, ReservationOwnsAll
<1>6. InboxIsSent' /\ WaitingOwnsQueue' /\ NoReplacementOverWork'
  BY DEF ReserveActivePermit, InboxIsSent, WaitingOwnsQueue, NoReplacementOverWork
<1> QED
  BY <1>1, <1>2, <1>3, <1>4, <1>5, <1>6 DEF IInv

(***************************************************************************)
(* A reservation that fails drops queue permits only.                      *)
(***************************************************************************)
LEMMA ReservationFailsKeeps ==
    ASSUME IInv, NEW c \in Demoters, ReservationFails(c)
    PROVE  IInv'
<1> USE AdmissionAssumption DEF IInv, Controllers
<1>1. TypeOK'
  BY DEF ReservationFails, DropQueuePermits, TypeOK, ControlStates
<1>2. PermitsAreAccountedFor'
  BY DEF ReservationFails, DropQueuePermits, PermitsAreAccountedFor
<1>3. WaitingOwnsQueue'
  BY DEF ReservationFails, DropQueuePermits, WaitingOwnsQueue
<1>4. ReservationOwnsAll'
  BY DEF ReservationFails, DropQueuePermits, ReservationOwnsAll
<1>5. WaitersWait' /\ SentOwnsActive' /\ InboxIsSent' /\ NoReplacementOverWork'
  BY DEF ReservationFails, WaitersWait, SentOwnsActive, InboxIsSent, NoReplacementOverWork
<1> QED
  BY <1>1, <1>2, <1>3, <1>4, <1>5 DEF IInv

(***************************************************************************)
(* The command of a control action is not a request.                       *)
(***************************************************************************)
LEMMA SendControlKeeps ==
    ASSUME IInv, NEW c \in Controllers, SendControl(c)
    PROVE  IInv'
<1> USE AdmissionAssumption DEF IInv, Controllers
<1> inbox \in Seq(Requests \cup Controllers) /\ c \in Requests \cup Controllers
  BY DEF TypeOK
<1> USE AppendFacts
<1>1. TypeOK'
  BY DEF SendControl, TypeOK, ControlStates
<1>2. PermitsAreAccountedFor'
  BY DEF SendControl, PermitsAreAccountedFor
<1>3. InboxIsSent'
  BY DEF SendControl, InboxIsSent
<1>4. ReservationOwnsAll'
  BY DEF SendControl, ReservationOwnsAll
<1>5. WaitersWait' /\ SentOwnsActive' /\ WaitingOwnsQueue' /\ NoReplacementOverWork'
  BY DEF SendControl, WaitersWait, SentOwnsActive, WaitingOwnsQueue, NoReplacementOverWork
<1> QED
  BY <1>1, <1>2, <1>3, <1>4, <1>5 DEF IInv

(***************************************************************************)
(* A control action that is dropped releases its own permits only.         *)
(***************************************************************************)
LEMMA ControlDroppedKeeps ==
    ASSUME IInv, NEW c \in Controllers, ControlDropped(c)
    PROVE  IInv'
<1> USE AdmissionAssumption DEF IInv, Controllers
<1> USE HandOver
<1>1. TypeOK'
  BY DEF ControlDropped, DropReservation, DropQueuePermits, TypeOK, ControlStates
<1>2. WaitersWait'
  BY DEF ControlDropped, DropReservation, WaitersWait
<1>3. PermitsAreAccountedFor'
  BY DEF ControlDropped, DropReservation, DropQueuePermits, PermitsAreAccountedFor
<1>4. SentOwnsActive'
  BY DEF ControlDropped, DropReservation, SentOwnsActive
<1>5. WaitingOwnsQueue'
  BY DEF ControlDropped, DropReservation, DropQueuePermits, WaitingOwnsQueue
<1>6. ReservationOwnsAll'
  BY DEF ControlDropped, DropReservation, DropQueuePermits, ReservationOwnsAll, TypeOK
<1>7. InboxIsSent' /\ NoReplacementOverWork'
  BY DEF ControlDropped, DropReservation, InboxIsSent, NoReplacementOverWork
<1> QED
  BY <1>1, <1>2, <1>3, <1>4, <1>5, <1>6, <1>7 DEF IInv

(***************************************************************************)
(* The command at the head of the inbox owns the active permit, which the  *)
(* request keeps while it is served and hands over when it is not.         *)
(***************************************************************************)
LEMMA TakeGenerateKeeps ==
    ASSUME IInv, NEW r \in Requests, TakeGenerate(r)
    PROVE  IInv'
<1> USE AdmissionAssumption DEF IInv, Controllers
<1>1. /\ activeOwner = r /\ rq[r] = "sent"
      /\ \A q \in Requests \ {r} : rq[q] \notin {"granted", "sent", "serving"}
  BY TailFacts DEF TakeGenerate, InboxIsSent, SentOwnsActive, TypeOK
<1>2. /\ Tail(inbox) \in Seq(Requests \cup Controllers)
      /\ inbox[1] = r /\ Len(inbox) \in Nat /\ 1 \in 1..Len(inbox)
      /\ \A i \in 1..Len(Tail(inbox)) :
            i + 1 \in 1..Len(inbox) /\ i + 1 # 1 /\ Tail(inbox)[i] = inbox[i + 1]
  BY TailFacts DEF TakeGenerate, TypeOK
<1>3. /\ inbox' = Tail(inbox) /\ replacing = None
      /\ UNCHANGED <<ctl, queueOwner, replacing>>
      /\ \A i \in 1..Len(inbox') : inbox'[i] # r /\ (inbox'[i] \in Requests => rq[inbox'[i]] = "sent")
      /\ \A i, j \in 1..Len(inbox') : inbox'[i] \in Requests /\ inbox'[i] = inbox'[j] => i = j
  BY <1>2 DEF TakeGenerate, InboxIsSent
<1>4. CASE serving' = r /\ rq' = [rq EXCEPT ![r] = "serving"] /\ UNCHANGED <<activeOwner, waiters>>
  <2>1. TypeOK'
    BY <1>2, <1>3, <1>4 DEF TypeOK, RequestStates
  <2>2. WaitersWait'
    BY <1>1, <1>4 DEF TypeOK, WaitersWait
  <2>3. PermitsAreAccountedFor'
    <3>1. \A p \in QueuePermits : queueOwner[p] # r
      BY <1>1 DEF PermitsAreAccountedFor
    <3> QED
      BY <1>1, <1>3, <1>4, <3>1 DEF TypeOK, PermitsAreAccountedFor
  <2>4. SentOwnsActive' /\ InboxIsSent'
    BY <1>1, <1>3, <1>4 DEF TypeOK, SentOwnsActive, InboxIsSent
  <2>5. WaitingOwnsQueue' /\ ReservationOwnsAll' /\ NoReplacementOverWork'
    BY <1>1, <1>3, <1>4 DEF TypeOK, WaitingOwnsQueue, ReservationOwnsAll, NoReplacementOverWork
  <2> QED
    BY <2>1, <2>2, <2>3, <2>4, <2>5 DEF IInv
<1>5. CASE rq' = [rq EXCEPT ![r] = "done"] /\ DropActivePermit /\ UNCHANGED serving
  <2>1. /\ waiters' \in Seq(Requests) /\ activeOwner' \in Requests \cup {None}
        /\ activeOwner' # None => activeOwner' \in Requests /\ rq[activeOwner'] = "waiting" /\ activeOwner' # r
        /\ \A i \in 1..Len(waiters') :
              waiters'[i] \in Requests /\ rq[waiters'[i]] = "waiting" /\ waiters'[i] # activeOwner' /\ waiters'[i] # r
        /\ \A i, j \in 1..Len(waiters') : waiters'[i] = waiters'[j] => i = j
    BY <1>1, <1>5, HandOver
  <2>2. TypeOK'
    BY <1>2, <1>3, <1>5, <2>1 DEF TypeOK, RequestStates
  <2>3. WaitersWait'
    BY <1>5, <2>1 DEF TypeOK, WaitersWait
  <2>4. PermitsAreAccountedFor'
    <3>1. \A p \in QueuePermits : queueOwner[p] # r
      BY <1>1 DEF PermitsAreAccountedFor
    <3> QED
      BY <1>1, <1>3, <1>5, <2>1, <3>1 DEF TypeOK, PermitsAreAccountedFor
  <2>5. SentOwnsActive'
    BY <1>1, <1>5 DEF TypeOK, SentOwnsActive
  <2>6. InboxIsSent'
    <3>1. serving = None
      BY <1>1 DEF TypeOK, InboxIsSent
    <3> QED
      BY <1>3, <1>5, <3>1 DEF TypeOK, InboxIsSent
  <2>7. WaitingOwnsQueue' /\ ReservationOwnsAll' /\ NoReplacementOverWork'
    BY <1>1, <1>3, <1>5 DEF TypeOK, WaitingOwnsQueue, ReservationOwnsAll, NoReplacementOverWork
  <2> QED
    BY <2>2, <2>3, <2>4, <2>5, <2>6, <2>7 DEF IInv
<1> QED
  BY <1>4, <1>5 DEF TakeGenerate

(***************************************************************************)
(* The request that is served owns the active permit.                      *)
(***************************************************************************)
LEMMA FinishGenerationKeeps ==
    ASSUME IInv, NEW r \in Requests, FinishGeneration(r)
    PROVE  IInv'
<1> USE AdmissionAssumption DEF IInv, Controllers
<1>a. activeOwner = r /\ rq[r] = "serving" /\ \A q \in Requests \ {r} : rq[q] \notin {"granted", "sent", "serving"}
  BY DEF FinishGeneration, InboxIsSent, SentOwnsActive, TypeOK
<1>1. TypeOK'
  BY <1>a, HandOver DEF FinishGeneration, TypeOK, RequestStates
<1>2. WaitersWait'
  BY <1>a, HandOver DEF FinishGeneration, WaitersWait
<1>3. PermitsAreAccountedFor'
  BY <1>a, HandOver DEF FinishGeneration, PermitsAreAccountedFor
<1>4. SentOwnsActive'
  BY <1>a, HandOver DEF FinishGeneration, SentOwnsActive, TypeOK
<1>5. InboxIsSent'
  BY <1>a, HandOver DEF FinishGeneration, InboxIsSent
<1>6. WaitingOwnsQueue'
  BY <1>a, HandOver DEF FinishGeneration, WaitingOwnsQueue
<1>7. ReservationOwnsAll'
  BY <1>a, HandOver DEF FinishGeneration, ReservationOwnsAll
<1>8. NoReplacementOverWork'
  BY <1>a, HandOver DEF FinishGeneration, NoReplacementOverWork
<1> QED
  BY <1>1, <1>2, <1>3, <1>4, <1>5, <1>6, <1>7, <1>8 DEF IInv

(***************************************************************************)
(* The answer to a control action releases its own permits only.           *)
(***************************************************************************)
LEMMA RefuseControlKeeps ==
    ASSUME IInv, NEW c \in Controllers, RefuseControl(c)
    PROVE  IInv'
<1> USE AdmissionAssumption DEF IInv, Controllers
<1>a. /\ Tail(inbox) \in Seq(Requests \cup Controllers)
      /\ \A i \in 1..Len(Tail(inbox)) : i + 1 \in 1..Len(inbox) /\ i + 1 # 1 /\ Tail(inbox)[i] = inbox[i + 1]
  BY TailFacts DEF RefuseControl, TypeOK
<1>1. TypeOK'
  <2>1. waiters' \in Seq(Requests) /\ activeOwner' \in Requests \cup Demoters \cup {None}
    BY HandOver DEF RefuseControl, Answer, DropReservation, TypeOK
  <2>2. queueOwner' \in [QueuePermits -> Requests \cup Demoters \cup {None}]
    BY DEF RefuseControl, Answer, DropReservation, DropQueuePermits, TypeOK
  <2>3. ctl' \in [Controllers -> ControlStates]
    BY DEF RefuseControl, Answer, TypeOK, ControlStates
  <2> QED
    BY <1>a, <2>1, <2>2, <2>3 DEF RefuseControl, TypeOK
<1>2. WaitersWait'
  BY <1>a, HandOver DEF RefuseControl, Answer, DropReservation, WaitersWait
<1>3. PermitsAreAccountedFor'
  BY <1>a, HandOver DEF RefuseControl, Answer, DropReservation, DropQueuePermits, PermitsAreAccountedFor, TypeOK
<1>4. SentOwnsActive'
  BY <1>a, HandOver DEF RefuseControl, Answer, DropReservation, SentOwnsActive
<1>5. InboxIsSent'
  BY <1>a, HandOver DEF RefuseControl, Answer, DropReservation, InboxIsSent
<1>6. WaitingOwnsQueue'
  BY <1>a, HandOver DEF RefuseControl, Answer, DropReservation, DropQueuePermits, WaitingOwnsQueue
<1>7. ReservationOwnsAll'
  BY <1>a, HandOver, SMTT(30) DEF RefuseControl, Answer, DropReservation, DropQueuePermits, ReservationOwnsAll, TypeOK
<1>8. NoReplacementOverWork'
  BY DEF RefuseControl, Answer, DropReservation, NoReplacementOverWork
<1> QED
  BY <1>1, <1>2, <1>3, <1>4, <1>5, <1>6, <1>7, <1>8 DEF IInv

(***************************************************************************)
(* A replacement starts while no request is served.                        *)
(***************************************************************************)
LEMMA StartReplacementKeeps ==
    ASSUME IInv, NEW c \in Controllers, StartReplacement(c)
    PROVE  IInv'
<1> USE AdmissionAssumption DEF IInv, Controllers
<1> inbox \in Seq(Requests \cup Controllers)
  BY DEF TypeOK
<1> USE TailFacts
<1>1. TypeOK'
  BY DEF StartReplacement, TypeOK
<1>2. InboxIsSent'
  BY DEF StartReplacement, InboxIsSent
<1>3. NoReplacementOverWork'
  BY DEF StartReplacement, NoReplacementOverWork
<1>4. WaitersWait' /\ PermitsAreAccountedFor' /\ SentOwnsActive' /\ WaitingOwnsQueue' /\ ReservationOwnsAll'
  BY DEF StartReplacement, WaitersWait, PermitsAreAccountedFor, SentOwnsActive, WaitingOwnsQueue, ReservationOwnsAll
<1> QED
  BY <1>1, <1>2, <1>3, <1>4 DEF IInv

(***************************************************************************)
(* The end of a replacement releases the permits of its caller only.       *)
(***************************************************************************)
LEMMA FinishReplacementKeeps ==
    ASSUME IInv, NEW c \in Controllers, FinishReplacement(c)
    PROVE  IInv'
<1> USE AdmissionAssumption DEF IInv, Controllers
<1> USE HandOver
<1>1. TypeOK'
  BY SMTT(30) DEF FinishReplacement, Answer, DropReservation, DropQueuePermits, TypeOK, ControlStates
<1>2. WaitersWait'
  BY DEF FinishReplacement, Answer, DropReservation, WaitersWait
<1>3. PermitsAreAccountedFor'
  BY DEF FinishReplacement, Answer, DropReservation, DropQueuePermits, PermitsAreAccountedFor, TypeOK
<1>4. SentOwnsActive'
  BY DEF FinishReplacement, Answer, DropReservation, SentOwnsActive
<1>5. WaitingOwnsQueue'
  BY DEF FinishReplacement, Answer, DropReservation, DropQueuePermits, WaitingOwnsQueue
<1>6. ReservationOwnsAll'
  BY DEF FinishReplacement, Answer, DropReservation, DropQueuePermits, ReservationOwnsAll, TypeOK
<1>7. NoReplacementOverWork'
  BY DEF FinishReplacement, Answer, DropReservation, NoReplacementOverWork
<1>8. InboxIsSent'
  BY DEF FinishReplacement, Answer, DropReservation, InboxIsSent
<1> QED
  BY <1>1, <1>2, <1>3, <1>4, <1>5, <1>6, <1>7, <1>8 DEF IInv

-----------------------------------------------------------------------------
(* The theorems *)

(***************************************************************************)
(* The daemon starts with every permit free and nothing under way.         *)
(***************************************************************************)
LEMMA InitEstablishes == Init => IInv
<1> SUFFICES ASSUME Init PROVE IInv
  OBVIOUS
<1> USE AdmissionAssumption DEF Init, Controllers
<1>1. TypeOK
  BY DEF TypeOK, RequestStates, ControlStates
<1>2. WaitersWait /\ InboxIsSent
  BY DEF WaitersWait, InboxIsSent
<1>3. PermitsAreAccountedFor /\ SentOwnsActive /\ WaitingOwnsQueue
  BY DEF PermitsAreAccountedFor, SentOwnsActive, WaitingOwnsQueue
<1>4. ReservationOwnsAll /\ NoReplacementOverWork
  BY DEF ReservationOwnsAll, NoReplacementOverWork
<1> QED
  BY <1>1, <1>2, <1>3, <1>4 DEF IInv

(***************************************************************************)
(* The ownership invariant is inductive.                                   *)
(***************************************************************************)
LEMMA NextPreserves == IInv /\ [Next]_vars => IInv'
<1> SUFFICES ASSUME IInv, [Next]_vars PROVE IInv'
  OBVIOUS
<1>1. ASSUME NEW r \in Requests, RequestStep(r) PROVE IInv'
  BY <1>1, AdmitKeeps, RefuseKeeps, AwaitKeeps, ReceiveKeeps, SendGenerateKeeps, AbandonKeeps
     DEF RequestStep
<1>2. ASSUME NEW r \in Requests, TakeGenerate(r) \/ FinishGeneration(r) PROVE IInv'
  BY <1>2, TakeGenerateKeeps, FinishGenerationKeeps
<1>3. ASSUME NEW c \in Controllers, ControlStep(c) PROVE IInv'
  BY <1>3, ReadKeeps, SendControlKeeps, ControlDroppedKeeps, RefuseControlKeeps,
     StartReplacementKeeps, FinishReplacementKeeps DEF ControlStep
<1>4. ASSUME NEW c \in Demoters, Reservation(c) PROVE IInv'
  BY <1>4, ReserveQueueKeeps, ReserveActiveKeeps, ReservationFailsKeeps DEF Reservation
<1>5. CASE UNCHANGED vars
  BY <1>5 DEF vars, IInv, TypeOK, WaitersWait, PermitsAreAccountedFor, SentOwnsActive,
     InboxIsSent, WaitingOwnsQueue, ReservationOwnsAll, NoReplacementOverWork
<1> QED
  BY <1>1, <1>2, <1>3, <1>4, <1>5 DEF Next

(***************************************************************************)
(* Ownership holds in every reachable state.                               *)
(***************************************************************************)
THEOREM Ownership == Spec => []IInv
  BY InitEstablishes, NextPreserves, PTL DEF Spec

(***************************************************************************)
(* Every variable keeps its type.                                          *)
(***************************************************************************)
THEOREM TypeCorrect == Spec => []TypeOK
<1>1. IInv => TypeOK
  BY DEF IInv
<1> QED
  BY <1>1, Ownership, PTL

(***************************************************************************)
(* However requests are queued, abandoned and refused, and whatever        *)
(* control actions do in between, no generation command ever reaches a     *)
(* loop that has an active request, nor waits in its inbox beside another. *)
(***************************************************************************)
THEOREM GenerationsAreSerial == Spec => []OneGenerationAtATime
<1>1. IInv => OneGenerationAtATime
  <2> SUFFICES ASSUME IInv PROVE OneGenerationAtATime
    OBVIOUS
  <2>1. \A i \in Commanded : i \in 1..Len(inbox) /\ inbox[i] \in Requests /\ activeOwner = inbox[i]
    BY DEF IInv, TypeOK, Commanded, InboxIsSent, SentOwnsActive
  <2>2. serving # None => Commanded = {}
    <3> SUFFICES ASSUME serving # None, NEW i \in Commanded PROVE FALSE
      OBVIOUS
    <3>1. serving \in Requests /\ rq[serving] = "serving" /\ activeOwner = serving
      BY DEF IInv, TypeOK, InboxIsSent, SentOwnsActive
    <3>2. rq[inbox[i]] = "sent" /\ inbox[i] = serving
      BY <2>1, <3>1 DEF IInv, InboxIsSent
    <3> QED
      BY <3>1, <3>2
  <2>3. \A i, j \in Commanded : i = j
    BY <2>1 DEF IInv, InboxIsSent
  <2> QED
    BY <2>2, <2>3 DEF OneGenerationAtATime
<1> QED
  BY <1>1, Ownership, PTL

(***************************************************************************)
(* A reservation that reserve_generation_admission_for_demotion returned   *)
(* excludes every request, for as long as its caller holds it.             *)
(***************************************************************************)
THEOREM DemotionIsExclusive == Spec => []DemotionExcludesGeneration
<1>1. IInv => DemotionExcludesGeneration
  <2> SUFFICES ASSUME IInv, NEW c \in Demoters, ctl[c] \in {"ready", "sent"},
                      NEW r \in Requests, InFlight(r)
               PROVE  FALSE
    BY DEF DemotionExcludesGeneration
  <2>1. activeOwner = c /\ (\A p \in QueuePermits : queueOwner[p] = c) /\ r # c
    BY AdmissionAssumption DEF IInv, ReservationOwnsAll, Controllers
  <2>2. CASE rq[r] \in {"admitted", "waiting"}
    BY <2>1, <2>2 DEF IInv, WaitingOwnsQueue
  <2>3. CASE rq[r] \in {"granted", "sent", "serving"}
    BY <2>1, <2>3 DEF IInv, SentOwnsActive
  <2> QED
    BY <2>2, <2>3 DEF InFlight
<1> QED
  BY <1>1, Ownership, PTL

(***************************************************************************)
(* execute_worker_replacement never runs while a request is active.        *)
(***************************************************************************)
THEOREM ReplacementIsIdle == Spec => []NoReplacementOverWork
<1>1. IInv => NoReplacementOverWork
  BY DEF IInv
<1> QED
  BY <1>1, Ownership, PTL

(***************************************************************************)
(* Every permit that is not free belongs to something that is under way    *)
(* and will drop it.                                                       *)
(***************************************************************************)
THEOREM NoPermitIsLost == Spec => []PermitsAreAccountedFor
<1>1. IInv => PermitsAreAccountedFor
  BY DEF IInv
<1> QED
  BY <1>1, Ownership, PTL
=============================================================================
