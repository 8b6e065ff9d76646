----------------------- MODULE CircuitBreaker_proofs -----------------------
(***************************************************************************)
(* What holds of every circuit breaker, for any number of clients and any  *)
(* threshold; and what holds in addition when calls end before             *)
(* reset_timeout.                                                          *)
(***************************************************************************)
EXTENDS CircuitBreaker, TLAPS

(* That the slot is taken only in the half-open state is part of TypeOK: it *)
(* is why any call that ends there, and only there, frees the slot.         *)
Inv == TypeOK /\ StateMatchesCount /\ SlotHasProbe

LEMMA ZeroCounts == 0 \in 0..FailMax /\ 0 < FailMax
  BY BreakerAssumption

LEMMA InvInit == Init => Inv
<1> SUFFICES ASSUME Init PROVE Inv
  OBVIOUS
<1>1. TypeOK
  BY ZeroCounts DEF Init, TypeOK, States
<1>2. StateMatchesCount /\ SlotHasProbe
  BY ZeroCounts DEF Init, StateMatchesCount, SlotHasProbe
<1> QED
  BY <1>1, <1>2 DEF Inv

LEMMA TypeStep == TypeOK /\ [Next]_vars => TypeOK'
<1> SUFFICES ASSUME TypeOK, [Next]_vars PROVE TypeOK'
  OBVIOUS
<1> USE DEF TypeOK, States
<1>1. CASE Look
  BY <1>1 DEF Look
<1>2. CASE Lapse
  BY <1>2 DEF Lapse
<1>3. ASSUME NEW c \in Callers, Enter(c) PROVE TypeOK'
  BY <1>3 DEF Enter, Seen, Due, Clients
<1>4. ASSUME NEW v \in Previewers, Preview(v) PROVE TypeOK'
  BY <1>4 DEF Preview, Seen, Due, Clients
<1>5. ASSUME NEW c \in Clients, Finish(c) PROVE TypeOK'
  <2>1. CASE Succeed(c)
    BY <2>1, ZeroCounts DEF Succeed, Ends
  <2>2. CASE Fail(c)
    <3>1. Counted \in 0..FailMax /\ Opens \in BOOLEAN
      BY BreakerAssumption DEF Counted, Opens
    <3> QED
      BY <2>2, <3>1 DEF Fail, Ends
  <2>3. CASE Bypass(c)
    BY <2>3 DEF Bypass, Ends
  <2> QED
    BY <1>5, <2>1, <2>2, <2>3 DEF Finish
<1>6. CASE UNCHANGED vars
  BY <1>6 DEF vars
<1> QED
  BY <1>1, <1>2, <1>3, <1>4, <1>5, <1>6 DEF Next

LEMMA CountStep ==
    ASSUME TypeOK, StateMatchesCount, [Next]_vars PROVE StateMatchesCount'
<1> USE DEF StateMatchesCount
<1>1. CASE Look
  BY <1>1 DEF Look, Due
<1>2. CASE Lapse
  BY <1>2 DEF Lapse
<1>3. ASSUME NEW c \in Callers, Enter(c) PROVE StateMatchesCount'
  BY <1>3 DEF Enter, Seen, Due
<1>4. ASSUME NEW v \in Previewers, Preview(v) PROVE StateMatchesCount'
  BY <1>4 DEF Preview, Seen, Due
<1>5. ASSUME NEW c \in Clients, Finish(c) PROVE StateMatchesCount'
  <2>1. CASE Succeed(c)
    BY <2>1, BreakerAssumption DEF Succeed
  <2>2. CASE Fail(c)
    BY <2>2, BreakerAssumption DEF Fail, Counted, Opens, TypeOK, States
  <2>3. CASE Bypass(c)
    BY <2>3 DEF Bypass
  <2> QED
    BY <1>5, <2>1, <2>2, <2>3 DEF Finish
<1>6. CASE UNCHANGED vars
  BY <1>6 DEF vars
<1> QED
  BY <1>1, <1>2, <1>3, <1>4, <1>5, <1>6 DEF Next

LEMMA SlotStep ==
    ASSUME TypeOK, StateMatchesCount, SlotHasProbe, [Next]_vars PROVE SlotHasProbe'
<1> USE DEF SlotHasProbe, TypeOK
<1>1. CASE Look
  BY <1>1 DEF Look
<1>2. CASE Lapse
  BY <1>2 DEF Lapse
<1>3. ASSUME NEW c \in Callers, Enter(c) PROVE SlotHasProbe'
  <2>1. CASE Seen = "HALF_OPEN"
    BY <1>3, <2>1 DEF Enter, TypeOK, Clients
  <2>2. CASE Seen # "HALF_OPEN"
    BY <1>3, <2>2 DEF Enter, Seen, Clients
  <2> QED
    BY <2>1, <2>2
<1>4. ASSUME NEW v \in Previewers, Preview(v) PROVE SlotHasProbe'
  BY <1>4, ClientsAssumption DEF Preview, Seen, Due, TypeOK, Clients
<1>5. ASSUME NEW c \in Clients, Finish(c) PROVE SlotHasProbe'
  <2>1. CASE Succeed(c)
    BY <2>1 DEF Succeed
  <2>2. CASE Fail(c)
    BY <2>2 DEF Fail, Opens
  <2>3. CASE Bypass(c)
    BY <2>3 DEF Bypass
  <2> QED
    BY <1>5, <2>1, <2>2, <2>3 DEF Finish
<1>6. CASE UNCHANGED vars
  BY <1>6 DEF vars
<1> QED
  BY <1>1, <1>2, <1>3, <1>4, <1>5, <1>6 DEF Next

LEMMA Invariance == Spec => []Inv
<1>1. Inv /\ [Next]_vars => Inv'
  BY TypeStep, CountStep, SlotStep DEF Inv
<1> QED
  BY InvInit, <1>1, PTL DEF Spec

\* The variables of the breaker keep their types under any use.
THEOREM BreakerTyped == Spec => []TypeOK
  BY Invariance, PTL DEF Inv

\* The count decides the state, whatever order the reports come in
\* (record_success, record_failure).
THEOREM CountDecidesState == Spec => []StateMatchesCount
  BY Invariance, PTL DEF Inv

\* The probe slot is never left taken without a probe that will release it.
THEOREM SlotNeverLeaks == Spec => []SlotHasProbe
  BY Invariance, PTL DEF Inv

-----------------------------------------------------------------------------
(* Without stragglers.  A circuit that may turn half-open has no call in    *)
(* flight; in a half-open one the only caller in flight is the one that     *)
(* owns the slot.  A previewer may decide the circuit while the probe is    *)
(* still out, so a probe can outlive the half-open state, but not meet the  *)
(* next one.                                                                *)
Alone ==
    /\ OneProbe
    /\ ~slow /\ state = "HALF_OPEN" =>
          \A c \in Callers : role[c] # "normal" /\ (role[c] = "probe" => claimed)
    /\ ~slow /\ Due => \A c \in Clients : role[c] = "idle"

LEMMA AloneStep ==
    ASSUME Inv, Alone, [Next]_vars PROVE Alone'
<1> USE DEF Alone, Due, OneProbe
<1>0. TypeOK
  BY DEF Inv
<1>1. CASE Look
  BY <1>1 DEF Look, Clients
<1>2. CASE Lapse
  BY <1>2 DEF Lapse
<1>3. ASSUME NEW c \in Callers, Enter(c) PROVE Alone'
  <2>1. CASE Seen = "HALF_OPEN"
    <3>1. ~slow => \A d \in Callers : role[d] = "idle"
      BY <1>0, <1>3, <2>1 DEF Enter, Seen, TypeOK, Clients
    <3> QED
      BY <1>0, <1>3, <2>1, <3>1 DEF Enter, TypeOK, Clients
  <2>2. CASE Seen # "HALF_OPEN"
    BY <1>0, <1>3, <2>2 DEF Enter, Seen, TypeOK, Clients
  <2> QED
    BY <2>1, <2>2
<1>4. ASSUME NEW v \in Previewers, Preview(v) PROVE Alone'
  <2>1. \A d \in Callers : role'[d] = role[d]
    BY <1>0, <1>4, ClientsAssumption DEF Preview, TypeOK, Clients
  <2> QED
    BY <1>0, <1>4, <2>1 DEF Preview, Seen, TypeOK, Clients
<1>5. ASSUME NEW c \in Clients, Finish(c) PROVE Alone'
  <2>0. \A d \in Clients : role'[d] = IF d = c THEN "idle" ELSE role[d]
    BY <1>0, <1>5 DEF Finish, Succeed, Fail, Bypass, Ends, TypeOK
  <2>1. OneProbe'
    BY <1>5, <2>0 DEF Finish, Succeed, Fail, Bypass, Clients
  <2>2. (~slow /\ Due)' => ~slow /\ Due
    BY <1>5 DEF Finish, Succeed, Fail, Bypass, Opens
  <2>3. CASE slow \/ state' # "HALF_OPEN"
    BY <1>5, <2>0, <2>1, <2>2, <2>3 DEF Finish, Succeed, Fail, Bypass
  <2>4. CASE ~slow /\ state' = "HALF_OPEN"
    <3>1. state = "HALF_OPEN" /\ c \in Callers
      BY <1>5, <2>4, ClientsAssumption DEF Finish, Succeed, Fail, Bypass, Opens
    <3>2. role[c] = "probe"
      BY <1>0, <1>5, <2>4, <3>1
         DEF Finish, Succeed, Fail, Bypass, Ends, TypeOK, Clients
    <3>3. \A d \in Callers : role'[d] = "idle"
      BY <1>0, <2>0, <2>4, <3>1, <3>2 DEF TypeOK, Clients
    <3> QED
      BY <2>1, <2>2, <2>4, <3>1, <3>3
  <2> QED
    BY <2>3, <2>4
<1>6. CASE UNCHANGED vars
  BY <1>6 DEF vars
<1> QED
  BY <1>1, <1>2, <1>3, <1>4, <1>5, <1>6 DEF Next

LEMMA AloneAlways == Spec => []Alone
<1>1. Init => Alone
  BY DEF Init, Alone, Due, OneProbe, Clients
<1>2. Inv /\ Alone /\ [Next]_vars => Alone'
  BY AloneStep
<1> QED
  BY Invariance, <1>1, <1>2, PTL DEF Spec

\* Of concurrent calls one is the probe, when no call of an earlier time is
\* still in flight.
THEOREM ProbesAreAlone == Spec => []OneProbe
<1>1. Alone => OneProbe
  BY DEF Alone
<1> QED
  BY AloneAlways, <1>1, PTL

\* And no answer of a call from before the outage closes or reopens it.
THEOREM TrialDecides == Spec => OnlyTrialDecides
<1> DEFINE Decided ==
      ~slow /\ state = "HALF_OPEN" /\ state' # "HALF_OPEN" =>
        \E c \in Clients :
            /\ role[c] # "idle" /\ role'[c] = "idle"
            /\ c \in Callers => role[c] = "probe"
<1>1. ASSUME Inv, Alone, Next, ~slow, state = "HALF_OPEN", state' # "HALF_OPEN"
      PROVE \E c \in Clients :
              /\ role[c] # "idle" /\ role'[c] = "idle"
              /\ c \in Callers => role[c] = "probe"
  <2>1. \E c \in Clients : Finish(c)
    BY <1>1 DEF Next, Look, Due, Lapse, Enter, Preview, Seen
  <2>2. PICK c \in Clients : Finish(c)
    BY <2>1
  <2>3. role[c] # "idle" /\ role'[c] = "idle"
    BY <1>1, <2>2 DEF Finish, Succeed, Fail, Bypass, Ends, Inv, TypeOK
  <2>4. c \in Callers => role[c] = "probe"
    BY <1>1, <2>3 DEF Alone, Inv, TypeOK, Clients
  <2> QED
    BY <2>3, <2>4
<1>2. Inv /\ Alone /\ [Next]_vars => [Decided]_vars
  BY <1>1 DEF vars
<1> QED
  BY Invariance, AloneAlways, <1>2, PTL DEF Spec, OnlyTrialDecides

\* Where nobody by-passes call(), that leaves the probe alone.
THEOREM ProbeDecides ==
    ASSUME Previewers = {}, Stragglers \subseteq {FALSE}
    PROVE Spec => OnlyProbeDecides
<1>1. TypeOK => ~slow
  BY DEF TypeOK
<1>2. TypeOK /\ [~slow /\ state = "HALF_OPEN" /\ state' # "HALF_OPEN" =>
          \E c \in Clients :
              /\ role[c] # "idle" /\ role'[c] = "idle"
              /\ c \in Callers => role[c] = "probe"]_vars
      => [state = "HALF_OPEN" /\ state' # "HALF_OPEN" =>
          \E c \in Callers : role[c] = "probe" /\ role'[c] = "idle"]_vars
  BY <1>1 DEF vars, Clients
<1> QED
  BY BreakerTyped, TrialDecides, <1>2, PTL DEF OnlyTrialDecides, OnlyProbeDecides
=============================================================================
