--------------------------- MODULE CircuitBreaker ---------------------------
(***************************************************************************)
(* The circuit breaker of utils/circuit_breaker.py and its two kinds of    *)
(* users:                                                                  *)
(*                                                                         *)
(*   Callers     go through call(): broker account syncs, FRED, Naver, FDR *)
(*   Previewers  ask is_available(), then report with record_success and   *)
(*               record_failure themselves: the KIS price fallback, Yahoo  *)
(*                                                                         *)
(* Everything runs on one event loop.  Nothing is awaited between the look *)
(* at the state and the start of the call (the probe lock is never         *)
(* contended), nor between the end of the call and what is recorded, so a  *)
(* call is two steps: it enters and it ends.  A refused call changes       *)
(* nothing but what Look changes.                                          *)
(***************************************************************************)
EXTENDS Naturals

CONSTANTS
    Callers,
    Previewers,
    BadCredentials,   \* callers that may end with an error _is_bypass exempts
    FailMax,          \* fail_max
    Stragglers        \* which circuits there are: may a call outlast reset_timeout?

Clients == Callers \cup Previewers

ASSUME ClientsAssumption ==
    /\ Callers \cap Previewers = {}
    /\ BadCredentials \subseteq Callers
ASSUME BreakerAssumption ==
    /\ FailMax \in Nat \ {0}
    /\ Stragglers \subseteq BOOLEAN

VARIABLES
    state,      \* _state
    failures,   \* _failures, counted up to FailMax: only >= fail_max is asked
    claimed,    \* _half_open_probe_claimed
    lapsed,     \* has reset_timeout passed since _opened_at?
    role,       \* client -> how its call in flight was admitted
    slow        \* the kind of this circuit, one of Stragglers: it never changes

vars == <<state, failures, claimed, lapsed, role, slow>>

States == {"CLOSED", "OPEN", "HALF_OPEN"}

TypeOK ==
    /\ state \in States
    /\ failures \in 0..FailMax
    /\ claimed \in BOOLEAN
    /\ claimed => state = "HALF_OPEN"
    /\ lapsed \in BOOLEAN
    /\ role \in [Clients -> {"idle", "normal", "probe"}]
    /\ slow \in Stragglers

Init ==
    /\ state = "CLOSED"
    /\ failures = 0
    /\ claimed = FALSE
    /\ lapsed = FALSE
    /\ role = [c \in Clients |-> "idle"]
    /\ slow \in Stragglers

-----------------------------------------------------------------------------
\* What a read of the property `state` returns; the read itself stores it.
Due == state = "OPEN" /\ lapsed
Seen == IF Due THEN "HALF_OPEN" ELSE state

\* Mutant: the timer is looked at in every state but CLOSED.
MutantLook ==
    /\ state # "CLOSED" /\ lapsed
    /\ state' = "HALF_OPEN"
    /\ claimed' = FALSE
    /\ UNCHANGED <<failures, lapsed, role, slow>>

\* is_available, or a call that is refused right after.
Look ==
    /\ Due
    /\ state' = "HALF_OPEN"
    /\ claimed' = FALSE
    /\ UNCHANGED <<failures, lapsed, role, slow>>

\* Mutant: a call that finds the probe slot taken goes through all the same.
MutantEnter(c) ==
    /\ role[c] = "idle"
    /\ Seen # "OPEN"
    /\ state' = Seen
    /\ claimed' = (claimed \/ Seen = "HALF_OPEN")
    /\ role' = [role EXCEPT ![c] = IF Seen = "HALF_OPEN" /\ ~claimed THEN "probe" ELSE "normal"]
    /\ UNCHANGED <<failures, lapsed, slow>>

\* call() up to the await of func.  A read that turns OPEN into HALF_OPEN
\* frees the slot that this call then takes.
Enter(c) ==
    /\ role[c] = "idle"
    /\ Seen # "OPEN"
    /\ Seen = "HALF_OPEN" => Due \/ ~claimed
    /\ state' = Seen
    /\ claimed' = (claimed \/ Seen = "HALF_OPEN")
    /\ role' = [role EXCEPT ![c] = IF Seen = "HALF_OPEN" THEN "probe" ELSE "normal"]
    /\ UNCHANGED <<failures, lapsed, slow>>

\* is_available() is asked and nothing is claimed.
Preview(v) ==
    /\ role[v] = "idle"
    /\ Seen # "OPEN"
    /\ state' = Seen
    /\ claimed' = (claimed /\ ~Due)
    /\ role' = [role EXCEPT ![v] = "normal"]
    /\ UNCHANGED <<failures, lapsed, slow>>

-----------------------------------------------------------------------------
Ends(c) == role[c] # "idle" /\ role' = [role EXCEPT ![c] = "idle"]

\* Mutant: the failures of the past still count after a success.
MutantSucceed(c) ==
    /\ Ends(c)
    /\ state' = "CLOSED"
    /\ claimed' = FALSE
    /\ UNCHANGED <<failures, lapsed, slow>>

\* record_success, in whatever state the answer finds the circuit.
Succeed(c) ==
    /\ Ends(c)
    /\ state' = "CLOSED"
    /\ failures' = 0
    /\ claimed' = FALSE
    /\ UNCHANGED <<lapsed, slow>>

\* The count after one more failure.
Counted == IF failures = FailMax THEN FailMax ELSE failures + 1
Opens == Counted = FailMax \/ state = "HALF_OPEN"

\* Mutant: a failed probe keeps its slot.
MutantFail(c) ==
    /\ Ends(c)
    /\ failures' = Counted
    /\ state' = IF Opens THEN "OPEN" ELSE state
    /\ lapsed' = (lapsed /\ ~Opens)
    /\ UNCHANGED <<claimed, slow>>

\* record_failure: also restarts the timer of a circuit that is open.
Fail(c) ==
    /\ Ends(c)
    /\ failures' = Counted
    /\ state' = IF Opens THEN "OPEN" ELSE state
    /\ lapsed' = (lapsed /\ ~Opens)
    /\ claimed' = (claimed /\ ~Opens)
    /\ UNCHANGED slow

\* Mutant: the slot of a probe that ends without a verdict is not released.
MutantBypass(c) ==
    /\ c \in BadCredentials
    /\ Ends(c)
    /\ UNCHANGED <<state, failures, claimed, lapsed, slow>>

\* An error of the credentials says nothing about the service.
Bypass(c) ==
    /\ c \in BadCredentials
    /\ Ends(c)
    /\ claimed' = FALSE
    /\ UNCHANGED <<state, failures, lapsed, slow>>

\* reset_timeout passes since the circuit opened.
Lapse ==
    /\ state = "OPEN"
    /\ ~lapsed
    /\ slow \/ \A c \in Clients : role[c] = "idle"
    /\ lapsed' = TRUE
    /\ UNCHANGED <<state, failures, claimed, role, slow>>

Finish(c) == Succeed(c) \/ Fail(c) \/ Bypass(c)

Next ==
    \/ Look
    \/ Lapse
    \/ \E c \in Callers : Enter(c)
    \/ \E v \in Previewers : Preview(v)
    \/ \E c \in Clients : Finish(c)

Spec == Init /\ [][Next]_vars

\* Time passes, calls end (the HTTP clients have timeouts), and the jobs that
\* use the circuit come back at their intervals: a caller that finds the slot
\* free again and again gets it once.  Previewers owe nothing.
Fairness ==
    /\ WF_vars(Lapse)
    /\ \A c \in Clients : WF_vars(Finish(c))
    /\ \A c \in Callers : SF_vars(Enter(c))

FairSpec == Spec /\ Fairness

-----------------------------------------------------------------------------
\* The count of failures and the state never disagree, whoever reports what
\* and when: no straggler leaves a closed circuit one failure short of a
\* threshold it already passed, or an open one that a failure would not keep
\* open (record_success, record_failure).
StateMatchesCount == state = "CLOSED" <=> failures < FailMax

\* The probe slot is taken only while a probe is in flight, so it cannot stay
\* taken with nobody left to release it (call, its except branch).
SlotHasProbe == claimed => \E c \in Callers : role[c] = "probe"

\* Where calls end within reset_timeout, at most one of them at a time was
\* let through as the probe, whatever the previewers do with the slot (call).
OneProbe ==
    ~slow => \A c, d \in Callers : role[c] = "probe" /\ role[d] = "probe" => c = d

\* There, a half-open circuit is decided by somebody who asked it after it
\* opened, the probe or a previewer: the answer of a call from before the
\* outage comes too early to close it (record_success, record_failure).
OnlyTrialDecides ==
    [][~slow /\ state = "HALF_OPEN" /\ state' # "HALF_OPEN" =>
          \E c \in Clients :
              /\ role[c] # "idle" /\ role'[c] = "idle"
              /\ c \in Callers => role[c] = "probe"]_vars

\* A half-open circuit is decided by the end of its probe and by nothing else
\* (the comment on _half_open_probe_claimed and the tests of the gating).
OnlyProbeDecides ==
    [][state = "HALF_OPEN" /\ state' # "HALF_OPEN" =>
          \E c \in Callers : role[c] = "probe" /\ role'[c] = "idle"]_vars

\* Once the service answers again the circuit closes, whatever stragglers and
\* credential errors come in between (state, call).
Recovers ==
    (<>[][\A c \in Clients : ~Fail(c)]_vars) => []<>(state = "CLOSED")
=============================================================================
