------------------------ MODULE RequestServiceProofs ------------------------
(* The invariant of RequestService, for every set of requests. *)
EXTENDS RequestService, TLAPS

PhaseNames == {"new", "waiting", "held", "over"}

\* The invariant with the types it needs to be inductive.
ServiceInv ==
    /\ phase \in [Requests -> PhaseNames]
    /\ answers \in [Requests -> {0, 1}]
    /\ OneAtATime

\* No request holds a permit and no work is done at the start.
LEMMA ServiceInit == Init => ServiceInv
BY DEF Init, ServiceInv, OneAtATime, PhaseNames

\* A permit is granted only when none is held, work starts only for a held one,
\* and a permit takes the work with it when it comes back.
LEMMA ServiceNext == ServiceInv /\ [Next]_vars => ServiceInv'
<1> SUFFICES ASSUME ServiceInv, [Next]_vars PROVE ServiceInv'
    OBVIOUS
<1> USE DEF ServiceInv, OneAtATime, PhaseNames
<1>1. ASSUME NEW r \in Requests, Submit(r) PROVE ServiceInv'
    BY <1>1 DEF Submit
<1>2. ASSUME NEW r \in Requests, Leave(r) PROVE ServiceInv'
    BY <1>2 DEF Leave
<1>3. ASSUME NEW r \in Requests, Grant(r) PROVE ServiceInv'
    BY <1>3 DEF Grant
<1>4. ASSUME NEW r \in Requests, Start(r) PROVE ServiceInv'
    BY <1>4 DEF Start
<1>5. ASSUME NEW r \in Requests, Tell(r) PROVE ServiceInv'
    BY <1>5 DEF Tell, Hears
<1>6. ASSUME NEW r \in Requests, Conclude(r) PROVE ServiceInv'
  <2>1. /\ phase' \in [Requests -> PhaseNames]
        /\ answers' \in [Requests -> {0, 1}]
      BY <1>6 DEF Conclude, Hears
  <2>2. OneAtATime'
      BY <1>6, <2>1 DEF Conclude
  <2> QED BY <2>1, <2>2
<1>7. CASE Stop
    BY <1>7 DEF Stop
<1>8. CASE UNCHANGED vars
    BY <1>8 DEF vars
<1> QED BY <1>1, <1>2, <1>3, <1>4, <1>5, <1>6, <1>7, <1>8 DEF Next

\* Whatever implements RequestService serves one request at a time, works for
\* the holder of the permit only, and answers each client at most once.
THEOREM ServedOneAtATime == Spec => []OneAtATime
<1>1. Spec => []ServiceInv
    BY ServiceInit, ServiceNext, PTL DEF Spec
<1>2. ServiceInv => OneAtATime
    BY DEF ServiceInv
<1> QED BY <1>1, <1>2, PTL

\* A request that is over stays over, and what its client heard stays as it was.
THEOREM OverIsFinal ==
    Spec => [][\A r \in Requests :
                 phase[r] = "over" => phase'[r] = "over" /\ answers'[r] = answers[r]]_vars
<1> DEFINE Final ==
        \A r \in Requests :
            phase[r] = "over" => phase'[r] = "over" /\ answers'[r] = answers[r]
<1>1. Spec => []ServiceInv
    BY ServiceInit, ServiceNext, PTL DEF Spec
<1>2. ServiceInv /\ [Next]_vars => [Final]_vars
  <2> SUFFICES ASSUME ServiceInv, Next PROVE Final
      OBVIOUS
  <2> USE DEF ServiceInv
  <2>1. CASE Stop
      BY <2>1 DEF Stop
  <2>2. ASSUME NEW r \in Requests, Submit(r) \/ Leave(r) \/ Grant(r) \/ Start(r) PROVE Final
      BY <2>2 DEF Submit, Leave, Grant, Start
  <2>3. ASSUME NEW r \in Requests, Tell(r) \/ Conclude(r) PROVE Final
      BY <2>3 DEF Tell, Conclude, Hears
  <2> QED BY <2>1, <2>2, <2>3 DEF Next
<1> QED BY <1>1, <1>2, PTL DEF Spec
=============================================================================
