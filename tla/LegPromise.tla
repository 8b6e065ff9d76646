----------------------------- MODULE LegPromise -----------------------------
(***************************************************************************)
(* What the life of a plan's legs promises, without sessions, row locks,   *)
(* jobs or deadlines: a leg is withdrawn before anybody claims it, or it   *)
(* is claimed once; whoever claimed it sends its orders at most once and   *)
(* concludes it with a status that agrees with what was sent; a claim that *)
(* stays without a conclusion is given up as FAILED.                       *)
(***************************************************************************)
EXTENDS Naturals

CONSTANT Legs

VARIABLES
    phase,      \* leg -> where it stands, as every reader of the row sees it
    working,    \* claimed legs somebody is still working on
    sent        \* leg -> how often its orders were sent

vars == <<phase, working, sent>>

Declining == {"CANCELED", "REJECTED", "EXPIRED"}

Init ==
    /\ phase = [l \in Legs |-> "NONE"]
    /\ working = {}
    /\ sent = [l \in Legs |-> 0]

\* A plan commits all its legs together.
Create(S) ==
    /\ \A l \in S : phase[l] = "NONE"
    /\ phase' = [l \in Legs |-> IF l \in S THEN "PENDING" ELSE phase[l]]
    /\ UNCHANGED <<working, sent>>

\* The system declines legs nobody claimed.
Withdraw(S, how) ==
    /\ how \in {"CANCELED", "EXPIRED"}
    /\ \A l \in S : phase[l] = "PENDING"
    /\ phase' = [l \in Legs |-> IF l \in S THEN how ELSE phase[l]]
    /\ UNCHANGED <<working, sent>>

Claim(l) ==
    /\ phase[l] = "PENDING"
    /\ phase' = [phase EXCEPT ![l] = "CLAIMED"]
    /\ working' = working \cup {l}
    /\ UNCHANGED sent

Send(l) ==
    /\ l \in working
    /\ sent[l] = 0
    /\ sent' = [sent EXCEPT ![l] = 1]
    /\ UNCHANGED <<phase, working>>

Conclude(l, result) ==
    /\ l \in working
    /\ phase[l] \in {"CLAIMED", "FAILED"}
    /\ result \in {"EXECUTED", "FAILED"} \cup Declining
    /\ result = "EXECUTED" => sent[l] = 1
    /\ result \in Declining => sent[l] = 0
    /\ phase' = [phase EXCEPT ![l] = result]
    /\ working' = working \ {l}
    /\ UNCHANGED sent

\* The work on a claimed leg stops without a conclusion.
Lose(l) ==
    /\ l \in working
    /\ working' = working \ {l}
    /\ UNCHANGED <<phase, sent>>

GiveUp(l) ==
    /\ phase[l] = "CLAIMED"
    /\ phase' = [phase EXCEPT ![l] = "FAILED"]
    /\ UNCHANGED <<working, sent>>

Next ==
    \/ \E S \in SUBSET Legs : Create(S)
    \/ \E S \in SUBSET Legs : \E how \in {"CANCELED", "EXPIRED"} : Withdraw(S, how)
    \/ \E l \in Legs :
        \/ Claim(l)
        \/ Send(l)
        \/ \E result \in {"EXECUTED", "FAILED"} \cup Declining : Conclude(l, result)
        \/ Lose(l)
        \/ GiveUp(l)

Spec == Init /\ [][Next]_vars
=============================================================================
