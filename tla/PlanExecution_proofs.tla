------------------------ MODULE PlanExecution_proofs ------------------------
(***************************************************************************)
(* Proofs about PlanExecution, for any sets of legs and sessions.          *)
(***************************************************************************)
EXTENDS PlanExecution, TLAPS

\* Every variable keeps its type, and a session that claimed a leg has one.
LEMMA TypeStep == TypeOK /\ [Next]_vars => TypeOK'
  <1> SUFFICES ASSUME TypeOK, [Next]_vars PROVE TypeOK'
    OBVIOUS
  <1> USE BoundsAssumption DEF TypeOK, Goto, Released, AfterLeg, rows, sessions, broker, clock,
          Workers, Legs, Statuses, Terminal, Points, Claiming, Notes
  <1>1. ASSUME NEW p \in Planners, PlanStep(p) PROVE TypeOK'
    <2>1. CASE BeginPlan(p)
      BY <2>1, SMT DEF BeginPlan
    <2>2. ASSUME NEW S \in SUBSET Legs, CommitPlan(p, S) PROVE TypeOK'
      BY <2>2, SMT DEF CommitPlan
    <2>3. CASE AbandonPlan(p)
      BY <2>3, SMT DEF AbandonPlan
    <2> QED BY <1>1, <2>1, <2>2, <2>3 DEF PlanStep
  <1>2. ASSUME NEW u \in Users, Ask(u) PROVE TypeOK'
    <2>1. ASSUME NEW l \in Legs, RequestApproval(u, l) PROVE TypeOK'
      BY <2>1, SMT DEF RequestApproval
    <2>2. ASSUME NEW l \in Legs, RequestDecline(u, l) PROVE TypeOK'
      BY <2>2, SMT DEF RequestDecline
    <2>3. ASSUME NEW new \in {"NOTIFY", "NONE"}, BeginOff(u, new) PROVE TypeOK'
      BY <2>3, SMT DEF BeginOff, WaitingBuys
    <2>4. CASE TurnAutomationOn(u)
      BY <2>4, SMT DEF TurnAutomationOn
    <2> QED BY <1>2, <2>1, <2>2, <2>3, <2>4 DEF Ask
  <1>3. ASSUME NEW w \in Workers, Execute(w) PROVE TypeOK'
    <2>1. CASE RebuildFails(w)
      BY <2>1, SMT DEF RebuildFails
    <2>2. ASSUME NEW fills \in BOOLEAN, NEW saved \in BOOLEAN, SendOrders(w, fills, saved) PROVE TypeOK'
      BY <2>2, SMT DEF SendOrders
    <2>3. CASE RecordExecuted(w)
      BY <2>3, SMT DEF RecordExecuted
    <2>4. CASE RecordNoFill(w)
      BY <2>4, SMT DEF RecordNoFill
    <2>5. CASE RecordFailure(w)
      BY <2>5, SMT DEF RecordFailure
    <2> QED BY <1>3, <2>1, <2>2, <2>3, <2>4, <2>5 DEF Execute
  <1>4. ASSUME NEW u \in Users, Serve(u) PROVE TypeOK'
    <2>1. CASE LockAndClaim(u)
      BY <2>1, SMT DEF LockAndClaim
    <2>2. CASE ClaimConflict(u)
      BY <2>2, SMT DEF ClaimConflict
    <2>3. CASE DeclineLeg(u)
      BY <2>3, SMT DEF DeclineLeg
    <2>4. CASE ApproveTooLate(u)
      BY <2>4, SMT DEF ApproveTooLate
    <2>5. CASE ApproveInTime(u)
      BY <2>5, SMT DEF ApproveInTime
    <2>6. ASSUME NEW l \in BuyLegs, OffLocks(u, l) PROVE TypeOK'
      BY <2>6, SMT DEF OffLocks
    <2>7. CASE CommitOff(u)
      BY <2>7, SMT DEF CommitOff
    <2>8. CASE OffLosesAlert(u)
      BY <2>8, SMT DEF OffLosesAlert
    <2> QED BY <1>4, <1>3, <2>1, <2>2, <2>3, <2>4, <2>5, <2>6, <2>7, <2>8 DEF Serve, Workers
  <1>5. ASSUME NEW t \in Ticks, TickStep(t) PROVE TypeOK'
    <2>1. ASSUME NEW gate \in BOOLEAN, StartTick(t, gate) PROVE TypeOK'
      BY <2>1, SMT DEF StartTick, DueBuys
    <2>2. ASSUME NEW l \in BuyLegs, TickSkipsDecided(t, l) PROVE TypeOK'
      BY <2>2, SMT DEF TickSkipsDecided
    <2>3. ASSUME NEW l \in BuyLegs, TickExpires(t, l) PROVE TypeOK'
      BY <2>3, SMT DEF TickExpires
    <2>4. ASSUME NEW l \in BuyLegs, TickHolds(t, l) PROVE TypeOK'
      BY <2>4, SMT DEF TickHolds
    <2>5. ASSUME NEW l \in BuyLegs, TickClaims(t, l) PROVE TypeOK'
      BY <2>5, SMT DEF TickClaims
    <2>6. CASE EndTick(t)
      BY <2>6, SMT DEF EndTick
    <2> QED BY <1>5, <1>3, <2>1, <2>2, <2>3, <2>4, <2>5, <2>6 DEF TickStep, TickVisits, Workers
  <1>6. ASSUME NEW s \in Sweeps, SweepStep(s) PROVE TypeOK'
    <2>1. CASE StartSweep(s)
      BY <2>1, SMT DEF StartSweep, StuckLegs
    <2>2. ASSUME NEW l \in Legs, SweepStuck(s, l) PROVE TypeOK'
      BY <2>2, SMT DEF SweepStuck
    <2>3. CASE SweepTurnsToSells(s)
      BY <2>3, SMT DEF SweepTurnsToSells, DueSells
    <2>4. ASSUME NEW l \in SellLegs, ExpireSell(s, l) PROVE TypeOK'
      BY <2>4, SMT DEF ExpireSell
    <2>5. CASE EndSweep(s)
      BY <2>5, SMT DEF EndSweep
    <2> QED BY <1>6, <2>1, <2>2, <2>3, <2>4, <2>5 DEF SweepStep
  <1>7. ASSUME NEW w \in Workers, Fault(w) PROVE TypeOK'
    <2>1. CASE Crash(w)
      BY <2>1, SMT DEF Crash
    <2>2. CASE JobLegFails(w)
      BY <2>2, SMT DEF JobLegFails
    <2>3. CASE DeadlockVictim(w)
      <3>1. CASE pc[w] = "off" /\ Goto(w, "idle", NoLeg, {})
        BY <2>3, <3>1, SMT DEF DeadlockVictim
      <3>2. ASSUME NEW l \in todo[w], Goto(w, "tick", NoLeg, todo[w] \ {l}), pc[w] = "tick" PROVE TypeOK'
        BY <2>3, <3>2, SMT DEF DeadlockVictim
      <3> QED BY <2>3, <3>1, <3>2 DEF DeadlockVictim
    <2> QED BY <1>7, <2>1, <2>2, <2>3 DEF Fault
  <1>8. ASSUME Clock PROVE TypeOK'
    <2>1. ASSUME NEW l \in Legs, DeadlinePasses(l) PROVE TypeOK'
      BY <2>1, SMT DEF DeadlinePasses
    <2>2. ASSUME NEW l \in Legs, ClaimAges(l) PROVE TypeOK'
      BY <2>2, SMT DEF ClaimAges
    <2> QED BY <1>8, <2>1, <2>2 DEF Clock
  <1>9. CASE UNCHANGED vars
    BY <1>9, SMT DEF vars
  <1> QED BY <1>1, <1>2, <1>3, <1>4, <1>5, <1>6, <1>7, <1>8, <1>9 DEF Next

THEOREM TypeCorrect == Spec => []TypeOK
  <1>1. Init => TypeOK
    BY BoundsAssumption, SMT DEF Init, TypeOK, Statuses, Points, Claiming, Notes
  <1> QED BY <1>1, TypeStep, PTL DEF Spec

-----------------------------------------------------------------------------
(* The inductive invariant behind the safety properties.  A claim is the only *)
(* protection of an execution, so the invariant says what a claim is worth:  *)
(* its leg is consumed, belongs to one session, and is PENDING or was swept  *)
(* as stuck, and its orders have been sent exactly when the session is about *)
(* to record them.                                                           *)

ClaimSound(w) ==
    pc[w] \in Claiming =>
        /\ cur[w] \in consumed
        /\ \/ status[cur[w]] = "PENDING"
           \/ SlowExecution /\ status[cur[w]] = "FAILED" /\ note[cur[w]] = "STUCK"
        /\ sent[cur[w]] = IF pc[w] = "record" THEN 1 ELSE 0
        /\ cur[w] \in aged => SlowExecution

ClaimsSound == \A w \in Workers : ClaimSound(w)

ClaimsExclusive ==
    \A v, w \in Workers :
        pc[v] \in Claiming /\ pc[w] \in Claiming /\ cur[v] = cur[w] => v = w

LegSound(l) ==
    /\ sent[l] \in {0, 1}
    /\ l \notin consumed => sent[l] = 0 /\ l \notin aged
    /\ status[l] = "NONE" => l \notin consumed
    /\ status[l] \in Declined => sent[l] = 0
    /\ l \in filled =>
         /\ sent[l] = 1
         /\ \/ status[l] = "PENDING" /\ l \in consumed
            \/ status[l] = "EXECUTED" /\ (l \in recorded \/ note[l] = "HISTORY_MISSING")
            \/ status[l] = "FAILED" /\ note[l] = "STUCK"

LegsSound == \A l \in Legs : LegSound(l)

\* What the sweep selected as stuck stays consumed and aged.
SweepsSound == \A w \in Workers : pc[w] = "stuck" => todo[w] \subseteq aged

Inv == ClaimsSound /\ ClaimsExclusive /\ LegsSound /\ SweepsSound

LEMMA InvStep == TypeOK /\ Inv /\ [Next]_vars => Inv'
  <1> SUFFICES ASSUME TypeOK, Inv, [Next]_vars PROVE Inv'
    OBVIOUS
  <1> USE LegsAssumption, WorkersAssumption, BoundsAssumption
      DEF TypeOK, Goto, AfterLeg, rows, sessions, broker, clock, Claiming, Declined, Legs, Workers,
          Inv, ClaimsSound, ClaimSound, ClaimsExclusive, LegsSound, LegSound, SweepsSound
  <1>1. ASSUME NEW p \in Planners, PlanStep(p) PROVE Inv'
    <2>1. CASE BeginPlan(p)
      BY <2>1, SMT DEF BeginPlan
    <2>2. ASSUME NEW S \in SUBSET Legs, CommitPlan(p, S) PROVE Inv'
      BY <2>2, SMT DEF CommitPlan
    <2>3. CASE AbandonPlan(p)
      BY <2>3, SMT DEF AbandonPlan
    <2> QED BY <1>1, <2>1, <2>2, <2>3 DEF PlanStep
  <1>2. ASSUME NEW u \in Users, Ask(u) PROVE Inv'
    <2>1. ASSUME NEW l \in Legs, RequestApproval(u, l) PROVE Inv'
      BY <2>1, SMT DEF RequestApproval
    <2>2. ASSUME NEW l \in Legs, RequestDecline(u, l) PROVE Inv'
      BY <2>2, SMT DEF RequestDecline
    <2>3. ASSUME NEW new \in {"NOTIFY", "NONE"}, BeginOff(u, new) PROVE Inv'
      BY <2>3, SMT DEF BeginOff, WaitingBuys
    <2>4. CASE TurnAutomationOn(u)
      BY <2>4, SMT DEF TurnAutomationOn
    <2> QED BY <1>2, <2>1, <2>2, <2>3, <2>4 DEF Ask
  <1>3. ASSUME NEW w \in Workers, Execute(w) PROVE Inv'
    <2>1. CASE RebuildFails(w)
      BY <2>1, SMT DEF RebuildFails
    <2>2. ASSUME NEW fills \in BOOLEAN, NEW saved \in BOOLEAN, SendOrders(w, fills, saved) PROVE Inv'
      BY <2>2, SMT DEF SendOrders
    <2>3. CASE RecordExecuted(w)
      BY <2>3, SMT DEF RecordExecuted
    <2>4. CASE RecordNoFill(w)
      BY <2>4, SMT DEF RecordNoFill
    <2>5. CASE RecordFailure(w)
      BY <2>5, SMT DEF RecordFailure
    <2> QED BY <1>3, <2>1, <2>2, <2>3, <2>4, <2>5 DEF Execute
  <1>4. ASSUME NEW u \in Users, Serve(u) PROVE Inv'
    <2>1. CASE LockAndClaim(u)
      BY <2>1, SMT DEF LockAndClaim, Claimable
    <2>2. CASE ClaimConflict(u)
      BY <2>2, SMT DEF ClaimConflict
    <2>3. CASE DeclineLeg(u)
      BY <2>3, SMT DEF DeclineLeg
    <2>4. CASE ApproveTooLate(u)
      BY <2>4, SMT DEF ApproveTooLate, PastDeadline
    <2>5. CASE ApproveInTime(u)
      BY <2>5, SMT DEF ApproveInTime
    <2>6. ASSUME NEW l \in BuyLegs, OffLocks(u, l) PROVE Inv'
      BY <2>6, SMT DEF OffLocks
    <2>7. CASE CommitOff(u)
      BY <2>7, SMT DEF CommitOff, OffCancels, Claimable
    <2>8. CASE OffLosesAlert(u)
      BY <2>8, SMT DEF OffLosesAlert
    <2> QED BY <1>4, <1>3, <2>1, <2>2, <2>3, <2>4, <2>5, <2>6, <2>7, <2>8 DEF Serve, Workers
  <1>5. ASSUME NEW t \in Ticks, TickStep(t) PROVE Inv'
    <2>1. ASSUME NEW gate \in BOOLEAN, StartTick(t, gate) PROVE Inv'
      BY <2>1, SMT DEF StartTick, DueBuys
    <2>2. ASSUME NEW l \in BuyLegs, TickSkipsDecided(t, l) PROVE Inv'
      BY <2>2, SMT DEF TickSkipsDecided, Visits
    <2>3. ASSUME NEW l \in BuyLegs, TickExpires(t, l) PROVE Inv'
      BY <2>3, SMT DEF TickExpires, Visits, Claimable
    <2>4. ASSUME NEW l \in BuyLegs, TickHolds(t, l) PROVE Inv'
      BY <2>4, SMT DEF TickHolds, Visits
    <2>5. ASSUME NEW l \in BuyLegs, TickClaims(t, l) PROVE Inv'
      BY <2>5, SMT DEF TickClaims, Visits, Claimable
    <2>6. CASE EndTick(t)
      BY <2>6, SMT DEF EndTick
    <2> QED BY <1>5, <1>3, <2>1, <2>2, <2>3, <2>4, <2>5, <2>6 DEF TickStep, TickVisits, Workers
  <1>6. ASSUME NEW s \in Sweeps, SweepStep(s) PROVE Inv'
    <2>1. CASE StartSweep(s)
      BY <2>1, SMT DEF StartSweep, StuckLegs
    <2>2. ASSUME NEW l \in Legs, SweepStuck(s, l) PROVE Inv'
      BY <2>2, SMT DEF SweepStuck
    <2>3. CASE SweepTurnsToSells(s)
      BY <2>3, SMT DEF SweepTurnsToSells, DueSells
    <2>4. ASSUME NEW l \in SellLegs, ExpireSell(s, l) PROVE Inv'
      BY <2>4, SMT DEF ExpireSell, Claimable
    <2>5. CASE EndSweep(s)
      BY <2>5, SMT DEF EndSweep
    <2> QED BY <1>6, <2>1, <2>2, <2>3, <2>4, <2>5 DEF SweepStep
  <1>7. ASSUME NEW w \in Workers, Fault(w) PROVE Inv'
    <2>1. CASE Crash(w)
      BY <2>1, SMT DEF Crash
    <2>2. CASE JobLegFails(w)
      BY <2>2, SMT DEF JobLegFails
    <2>3. CASE DeadlockVictim(w)
      <3>1. CASE pc[w] = "off" /\ Goto(w, "idle", NoLeg, {})
        BY <2>3, <3>1, SMT DEF DeadlockVictim
      <3>2. ASSUME NEW l \in todo[w], Goto(w, "tick", NoLeg, todo[w] \ {l}), pc[w] = "tick" PROVE Inv'
        BY <2>3, <3>2, SMT DEF DeadlockVictim
      <3> QED BY <2>3, <3>1, <3>2 DEF DeadlockVictim
    <2> QED BY <1>7, <2>1, <2>2, <2>3 DEF Fault
  <1>8. ASSUME Clock PROVE Inv'
    <2>1. ASSUME NEW l \in Legs, DeadlinePasses(l) PROVE Inv'
      BY <2>1, SMT DEF DeadlinePasses
    <2>2. ASSUME NEW l \in Legs, ClaimAges(l) PROVE Inv'
      BY <2>2, SMT DEF ClaimAges, Executing
    <2> QED BY <1>8, <2>1, <2>2 DEF Clock
  <1>9. CASE UNCHANGED vars
    BY <1>9, SMT DEF vars
  <1> QED BY <1>1, <1>2, <1>3, <1>4, <1>5, <1>6, <1>7, <1>8, <1>9 DEF Next

LEMMA Invariance == Spec => [](TypeOK /\ Inv)
  <1>1. Init => TypeOK /\ Inv
    BY BoundsAssumption, SMT
    DEF Init, TypeOK, Statuses, Points, Notes, Inv, ClaimsSound, ClaimSound, ClaimsExclusive,
        LegsSound, LegSound, SweepsSound, Claiming, Declined
  <1> QED BY <1>1, TypeStep, InvStep, PTL DEF Spec

\* The orders of a leg go to the broker at most once, for any number of
\* requests, ticks, sweeps, plans and faults.
THEOREM OrdersOnce == Spec => []OrdersAtMostOnce
  <1>1. Inv => OrdersAtMostOnce
    BY SMT DEF Inv, LegsSound, LegSound, OrdersAtMostOnce
  <1> QED BY <1>1, Invariance, PTL

\* A canceled, rejected or expired leg never had its orders sent and nobody is
\* about to send them.
THEOREM DeclinedStaysUnordered == Spec => []DeclinedNeverOrdered
  <1>1. TypeOK /\ Inv => DeclinedNeverOrdered
    BY SMT DEF TypeOK, Inv, LegsSound, LegSound, ClaimsSound, ClaimSound, DeclinedNeverOrdered,
               Executing, Declined
  <1> QED BY <1>1, Invariance, PTL

\* A leg with an accepted order is open, or leaves a trace its owner can follow.
THEOREM FillsLeaveATrace == Spec => []FillsAreAccounted
  <1>1. TypeOK /\ Inv => FillsAreAccounted
    BY SMT DEF TypeOK, Inv, LegsSound, LegSound, FillsAreAccounted
  <1> QED BY <1>1, Invariance, PTL

\* A final status is final, but for the verdict of the stuck sweep on an
\* execution that outlasted its timeout.
THEOREM FinalityHolds == Spec => TerminalIsFinal
  <1> DEFINE Final(l) == status[l] \in Terminal =>
                 \/ status'[l] = status[l]
                 \/ SlowExecution /\ status[l] = "FAILED" /\ note[l] = "STUCK"
  <1>1. TypeOK /\ Inv /\ [Next]_vars =>
          [\A l \in Legs : status[l] \in Terminal =>
              \/ status'[l] = status[l]
              \/ SlowExecution /\ status[l] = "FAILED" /\ note[l] = "STUCK"]_vars
    <2> SUFFICES ASSUME TypeOK, Inv, [Next]_vars, NEW leg \in Legs PROVE Final(leg)
      OBVIOUS
    <2> USE BoundsAssumption DEF rows, Final, TypeOK, Legs, Workers, Claiming, Terminal, Declined, Inv,
            ClaimsSound, ClaimSound, LegsSound, LegSound, SweepsSound
    <2>1. ASSUME NEW p \in Planners, PlanStep(p) PROVE Final(leg)
      <3>1. CASE BeginPlan(p)
        BY <3>1, SMT DEF BeginPlan
      <3>2. ASSUME NEW S \in SUBSET Legs, CommitPlan(p, S) PROVE Final(leg)
        BY <3>2, SMT DEF CommitPlan
      <3>3. CASE AbandonPlan(p)
        BY <3>3, SMT DEF AbandonPlan
      <3> QED BY <2>1, <3>1, <3>2, <3>3 DEF PlanStep
    <2>2. ASSUME NEW u \in Users, Ask(u) PROVE Final(leg)
      <3>1. ASSUME NEW l \in Legs, RequestApproval(u, l) PROVE Final(leg)
        BY <3>1, SMT DEF RequestApproval
      <3>2. ASSUME NEW l \in Legs, RequestDecline(u, l) PROVE Final(leg)
        BY <3>2, SMT DEF RequestDecline
      <3>3. ASSUME NEW new \in {"NOTIFY", "NONE"}, BeginOff(u, new) PROVE Final(leg)
        BY <3>3, SMT DEF BeginOff, WaitingBuys
      <3>4. CASE TurnAutomationOn(u)
        BY <3>4, SMT DEF TurnAutomationOn
      <3> QED BY <2>2, <3>1, <3>2, <3>3, <3>4 DEF Ask
    <2>3. ASSUME NEW w \in Workers, Execute(w) PROVE Final(leg)
      <3>1. CASE RebuildFails(w)
        BY <3>1, SMT DEF RebuildFails
      <3>2. ASSUME NEW fills \in BOOLEAN, NEW saved \in BOOLEAN, SendOrders(w, fills, saved) PROVE Final(leg)
        BY <3>2, SMT DEF SendOrders
      <3>3. CASE RecordExecuted(w)
        BY <3>3, SMT DEF RecordExecuted
      <3>4. CASE RecordNoFill(w)
        BY <3>4, SMT DEF RecordNoFill
      <3>5. CASE RecordFailure(w)
        BY <3>5, SMT DEF RecordFailure
      <3> QED BY <2>3, <3>1, <3>2, <3>3, <3>4, <3>5 DEF Execute
    <2>4. ASSUME NEW u \in Users, Serve(u) PROVE Final(leg)
      <3>1. CASE LockAndClaim(u)
        BY <3>1, SMT DEF LockAndClaim, Claimable
      <3>2. CASE ClaimConflict(u)
        BY <3>2, SMT DEF ClaimConflict
      <3>3. CASE DeclineLeg(u)
        BY <3>3, SMT DEF DeclineLeg
      <3>4. CASE ApproveTooLate(u)
        BY <3>4, SMT DEF ApproveTooLate, PastDeadline
      <3>5. CASE ApproveInTime(u)
        BY <3>5, SMT DEF ApproveInTime
      <3>6. ASSUME NEW l \in BuyLegs, OffLocks(u, l) PROVE Final(leg)
        BY <3>6, SMT DEF OffLocks
      <3>7. CASE CommitOff(u)
        BY <3>7, SMT DEF CommitOff, OffCancels, Claimable
      <3>8. CASE OffLosesAlert(u)
        BY <3>8, SMT DEF OffLosesAlert
      <3> QED BY <2>4, <2>3, <3>1, <3>2, <3>3, <3>4, <3>5, <3>6, <3>7, <3>8 DEF Serve, Workers
    <2>5. ASSUME NEW t \in Ticks, TickStep(t) PROVE Final(leg)
      <3>1. ASSUME NEW gate \in BOOLEAN, StartTick(t, gate) PROVE Final(leg)
        BY <3>1, SMT DEF StartTick, DueBuys
      <3>2. ASSUME NEW l \in BuyLegs, TickSkipsDecided(t, l) PROVE Final(leg)
        BY <3>2, SMT DEF TickSkipsDecided, Visits
      <3>3. ASSUME NEW l \in BuyLegs, TickExpires(t, l) PROVE Final(leg)
        BY <3>3, SMT DEF TickExpires, Visits, Claimable
      <3>4. ASSUME NEW l \in BuyLegs, TickHolds(t, l) PROVE Final(leg)
        BY <3>4, SMT DEF TickHolds, Visits
      <3>5. ASSUME NEW l \in BuyLegs, TickClaims(t, l) PROVE Final(leg)
        BY <3>5, SMT DEF TickClaims, Visits, Claimable
      <3>6. CASE EndTick(t)
        BY <3>6, SMT DEF EndTick
      <3> QED BY <2>5, <2>3, <3>1, <3>2, <3>3, <3>4, <3>5, <3>6 DEF TickStep, TickVisits, Workers
    <2>6. ASSUME NEW s \in Sweeps, SweepStep(s) PROVE Final(leg)
      <3>1. CASE StartSweep(s)
        BY <3>1, SMT DEF StartSweep, StuckLegs
      <3>2. ASSUME NEW l \in Legs, SweepStuck(s, l) PROVE Final(leg)
        BY <3>2, SMT DEF SweepStuck
      <3>3. CASE SweepTurnsToSells(s)
        BY <3>3, SMT DEF SweepTurnsToSells, DueSells
      <3>4. ASSUME NEW l \in SellLegs, ExpireSell(s, l) PROVE Final(leg)
        BY <3>4, SMT DEF ExpireSell, Claimable
      <3>5. CASE EndSweep(s)
        BY <3>5, SMT DEF EndSweep
      <3> QED BY <2>6, <3>1, <3>2, <3>3, <3>4, <3>5 DEF SweepStep
    <2>7. ASSUME NEW w \in Workers, Fault(w) PROVE Final(leg)
      <3>1. CASE Crash(w)
        BY <3>1, SMT DEF Crash
      <3>2. CASE JobLegFails(w)
        BY <3>2, SMT DEF JobLegFails
      <3>3. CASE DeadlockVictim(w)
        BY <3>3, SMT DEF DeadlockVictim
      <3> QED BY <2>7, <3>1, <3>2, <3>3 DEF Fault
    <2>8. ASSUME Clock PROVE Final(leg)
      <3>1. ASSUME NEW l \in Legs, DeadlinePasses(l) PROVE Final(leg)
        BY <3>1, SMT DEF DeadlinePasses
      <3>2. ASSUME NEW l \in Legs, ClaimAges(l) PROVE Final(leg)
        BY <3>2, SMT DEF ClaimAges, Executing
      <3> QED BY <2>8, <3>1, <3>2 DEF Clock
    <2>9. CASE UNCHANGED vars
      BY <2>9, SMT DEF vars
    <2> QED BY <2>1, <2>2, <2>3, <2>4, <2>5, <2>6, <2>7, <2>8, <2>9 DEF Next
  <1> QED BY <1>1, Invariance, PTL DEF TerminalIsFinal, Spec

-----------------------------------------------------------------------------
(* The switch-off.  While it runs, every waiting BUY leg is still to be      *)
(* locked or is locked by it - provided no plan is built at the same time.   *)

OffAlone == \A u \in Users, p \in Planners : ~(pc[u] = "off" /\ pc[p] = "planning")

OffComplete ==
    \A u \in Users : pc[u] = "off" =>
        \A l \in BuyLegs : Claimable(l) => l \in todo[u] \/ lock[l] = u

OffInv == OffAlone /\ OffComplete /\ OffStopsBuys

LEMMA OffStep == ASSUME ~PlanOverlapsOff PROVE TypeOK /\ OffInv /\ [Next]_vars => OffInv'
  <1> SUFFICES ASSUME TypeOK, OffInv, [Next]_vars PROVE OffInv'
    OBVIOUS
  <1> USE ~PlanOverlapsOff, LegsAssumption, WorkersAssumption
      DEF TypeOK, OffInv, OffAlone, OffComplete, OffStopsBuys, Claimable, Goto, Released,
          AfterLeg, rows, sessions, broker, clock, Claiming, Legs, Workers
  <1>1. ASSUME NEW p \in Planners, PlanStep(p) PROVE OffInv'
    <2>1. CASE BeginPlan(p)
      BY <2>1, SMT DEF BeginPlan
    <2>2. ASSUME NEW S \in SUBSET Legs, CommitPlan(p, S) PROVE OffInv'
      BY <2>2, SMT DEF CommitPlan
    <2>3. CASE AbandonPlan(p)
      BY <2>3, SMT DEF AbandonPlan
    <2> QED BY <1>1, <2>1, <2>2, <2>3 DEF PlanStep
  <1>2. ASSUME NEW u \in Users, Ask(u) PROVE OffInv'
    <2>1. ASSUME NEW l \in Legs, RequestApproval(u, l) PROVE OffInv'
      BY <2>1, SMT DEF RequestApproval
    <2>2. ASSUME NEW l \in Legs, RequestDecline(u, l) PROVE OffInv'
      BY <2>2, SMT DEF RequestDecline
    <2>3. ASSUME NEW new \in {"NOTIFY", "NONE"}, BeginOff(u, new) PROVE OffInv'
      BY <2>3, SMT DEF BeginOff, WaitingBuys
    <2>4. CASE TurnAutomationOn(u)
      BY <2>4, SMT DEF TurnAutomationOn
    <2> QED BY <1>2, <2>1, <2>2, <2>3, <2>4 DEF Ask
  <1>3. ASSUME NEW w \in Workers, Execute(w) PROVE OffInv'
    <2>1. CASE RebuildFails(w)
      BY <2>1, SMT DEF RebuildFails
    <2>2. ASSUME NEW fills \in BOOLEAN, NEW saved \in BOOLEAN, SendOrders(w, fills, saved) PROVE OffInv'
      BY <2>2, SMT DEF SendOrders
    <2>3. CASE RecordExecuted(w)
      BY <2>3, SMT DEF RecordExecuted
    <2>4. CASE RecordNoFill(w)
      BY <2>4, SMT DEF RecordNoFill
    <2>5. CASE RecordFailure(w)
      BY <2>5, SMT DEF RecordFailure
    <2> QED BY <1>3, <2>1, <2>2, <2>3, <2>4, <2>5 DEF Execute
  <1>4. ASSUME NEW u \in Users, Serve(u) PROVE OffInv'
    <2>1. CASE LockAndClaim(u)
      BY <2>1, SMT DEF LockAndClaim
    <2>2. CASE ClaimConflict(u)
      BY <2>2, SMT DEF ClaimConflict
    <2>3. CASE DeclineLeg(u)
      BY <2>3, SMT DEF DeclineLeg
    <2>4. CASE ApproveTooLate(u)
      BY <2>4, SMT DEF ApproveTooLate
    <2>5. CASE ApproveInTime(u)
      BY <2>5, SMT DEF ApproveInTime
    <2>6. ASSUME NEW l \in BuyLegs, OffLocks(u, l) PROVE OffInv'
      BY <2>6, SMT DEF OffLocks
    <2>7. CASE CommitOff(u)
      BY <2>7, SMT DEF CommitOff, OffCancels
    <2>8. CASE OffLosesAlert(u)
      BY <2>8, SMT DEF OffLosesAlert
    <2> QED BY <1>4, <1>3, <2>1, <2>2, <2>3, <2>4, <2>5, <2>6, <2>7, <2>8 DEF Serve, Workers
  <1>5. ASSUME NEW t \in Ticks, TickStep(t) PROVE OffInv'
    <2>1. ASSUME NEW gate \in BOOLEAN, StartTick(t, gate) PROVE OffInv'
      BY <2>1, SMT DEF StartTick
    <2>2. ASSUME NEW l \in BuyLegs, TickSkipsDecided(t, l) PROVE OffInv'
      BY <2>2, SMT DEF TickSkipsDecided, Visits
    <2>3. ASSUME NEW l \in BuyLegs, TickExpires(t, l) PROVE OffInv'
      BY <2>3, SMT DEF TickExpires, Visits
    <2>4. ASSUME NEW l \in BuyLegs, TickHolds(t, l) PROVE OffInv'
      BY <2>4, SMT DEF TickHolds, Visits
    <2>5. ASSUME NEW l \in BuyLegs, TickClaims(t, l) PROVE OffInv'
      BY <2>5, SMT DEF TickClaims, Visits
    <2>6. CASE EndTick(t)
      BY <2>6, SMT DEF EndTick
    <2> QED BY <1>5, <1>3, <2>1, <2>2, <2>3, <2>4, <2>5, <2>6 DEF TickStep, TickVisits, Workers
  <1>6. ASSUME NEW s \in Sweeps, SweepStep(s) PROVE OffInv'
    <2>1. CASE StartSweep(s)
      BY <2>1, SMT DEF StartSweep
    <2>2. ASSUME NEW l \in Legs, SweepStuck(s, l) PROVE OffInv'
      BY <2>2, SMT DEF SweepStuck
    <2>3. CASE SweepTurnsToSells(s)
      BY <2>3, SMT DEF SweepTurnsToSells
    <2>4. ASSUME NEW l \in SellLegs, ExpireSell(s, l) PROVE OffInv'
      BY <2>4, SMT DEF ExpireSell
    <2>5. CASE EndSweep(s)
      BY <2>5, SMT DEF EndSweep
    <2> QED BY <1>6, <2>1, <2>2, <2>3, <2>4, <2>5 DEF SweepStep
  <1>7. ASSUME NEW w \in Workers, Fault(w) PROVE OffInv'
    <2>1. CASE Crash(w)
      BY <2>1, SMT DEF Crash
    <2>2. CASE JobLegFails(w)
      BY <2>2, SMT DEF JobLegFails
    <2>3. CASE DeadlockVictim(w)
      <3>1. CASE pc[w] = "off" /\ Goto(w, "idle", NoLeg, {})
        BY <2>3, <3>1, SMT DEF DeadlockVictim
      <3>2. ASSUME NEW l \in todo[w], Goto(w, "tick", NoLeg, todo[w] \ {l}), pc[w] = "tick" PROVE OffInv'
        BY <2>3, <3>2, SMT DEF DeadlockVictim
      <3> QED BY <2>3, <3>1, <3>2 DEF DeadlockVictim
    <2> QED BY <1>7, <2>1, <2>2, <2>3 DEF Fault
  <1>8. ASSUME Clock PROVE OffInv'
    <2>1. ASSUME NEW l \in Legs, DeadlinePasses(l) PROVE OffInv'
      BY <2>1, SMT DEF DeadlinePasses
    <2>2. ASSUME NEW l \in Legs, ClaimAges(l) PROVE OffInv'
      BY <2>2, SMT DEF ClaimAges
    <2> QED BY <1>8, <2>1, <2>2 DEF Clock
  <1>9. CASE UNCHANGED vars
    BY <1>9, SMT DEF vars
  <1> QED BY <1>1, <1>2, <1>3, <1>4, <1>5, <1>6, <1>7, <1>8, <1>9 DEF Next

\* No waiting BUY leg outlives its alert, if no plan is built during the
\* switch-off.
THEOREM SwitchOffStopsBuys == ASSUME ~PlanOverlapsOff PROVE Spec => []OffStopsBuys
  <1>1. Init => OffInv
    BY SMT DEF Init, OffInv, OffAlone, OffComplete, OffStopsBuys, Claimable, Workers, Legs
  <1>2. TypeOK /\ OffInv /\ [Next]_vars => OffInv'
    BY OffStep
  <1>3. OffInv => OffStopsBuys
    BY DEF OffInv
  <1> QED BY <1>1, <1>2, <1>3, TypeCorrect, PTL DEF Spec

-----------------------------------------------------------------------------
(***************************************************************************)
(* PlanExecution implements LegPromise: every step of a request, a job, a  *)
(* sweep or a fault is one step in the abstract life of the legs, or none. *)
(***************************************************************************)

Phases == [l \in Legs |-> Phase(l)]
Working == {l \in Legs : Executing(l)}

LEMMA InitMaps == Init => Promise!Init
  BY SMT DEF Init, Promise!Init, Phase, Executing, Claiming

\* How an abstract step is recognised from what happened to the mapped variables.
LEMMA ClaimMaps ==
  ASSUME NEW l \in Legs, Phase(l) = "PENDING",
         \A k \in Legs : Phase(k)' = IF k = l THEN "CLAIMED" ELSE Phase(k),
         Working' = Working \cup {l}, sent' = sent
  PROVE  Promise!Next
  <1>1. Phases' = [Phases EXCEPT ![l] = "CLAIMED"]
    BY DEF Phases
  <1>2. Promise!Claim(l)
    BY <1>1 DEF Promise!Claim, Phases, Working
  <1> QED BY <1>2 DEF Promise!Next

LEMMA SendMaps ==
  ASSUME NEW l \in Legs, l \in Working, sent[l] = 0, sent' = [sent EXCEPT ![l] = 1],
         Phases' = Phases, Working' = Working
  PROVE  Promise!Next
  <1>1. Promise!Send(l)
    BY DEF Promise!Send, Phases, Working
  <1> QED BY <1>1 DEF Promise!Next

LEMMA ConcludeMaps ==
  ASSUME NEW l \in Legs, NEW result \in {"EXECUTED", "FAILED"} \cup Declined,
         l \in Working, Phase(l) \in {"CLAIMED", "FAILED"},
         result = "EXECUTED" => sent[l] = 1,
         result \in Declined => sent[l] = 0,
         \A k \in Legs : Phase(k)' = IF k = l THEN result ELSE Phase(k),
         Working' = Working \ {l}, sent' = sent
  PROVE  Promise!Next
  <1>1. Phases' = [Phases EXCEPT ![l] = result]
    BY DEF Phases
  <1>2. Promise!Conclude(l, result)
    BY <1>1, SMT DEF Promise!Conclude, Promise!Declining, Declined, Phases, Working
  <1> QED BY <1>2 DEF Promise!Next, Promise!Declining, Declined

LEMMA LoseMaps ==
  ASSUME NEW l \in Legs, l \in Working, Working' = Working \ {l}, Phases' = Phases, sent' = sent
  PROVE  Promise!Next
  <1>1. Promise!Lose(l)
    BY DEF Promise!Lose, Phases, Working
  <1> QED BY <1>1 DEF Promise!Next

LEMMA GiveUpMaps ==
  ASSUME NEW l \in Legs, Phase(l) = "CLAIMED",
         \A k \in Legs : Phase(k)' = IF k = l THEN "FAILED" ELSE Phase(k),
         Working' = Working, sent' = sent
  PROVE  Promise!Next
  <1>1. Phases' = [Phases EXCEPT ![l] = "FAILED"]
    BY DEF Phases
  <1>2. Promise!GiveUp(l)
    BY <1>1 DEF Promise!GiveUp, Phases, Working
  <1> QED BY <1>2 DEF Promise!Next

LEMMA StepMaps == TypeOK /\ Inv /\ [Next]_vars => [Promise!Next]_(Promise!vars)
  <1> DEFINE Mapped == Promise!Next \/ UNCHANGED Promise!vars
  <1> SUFFICES ASSUME TypeOK, Inv, [Next]_vars PROVE Mapped
    OBVIOUS
  <1> USE LegsAssumption
      DEF TypeOK, Goto, AfterLeg, rows, sessions, broker, clock, Claiming, Declined, Legs, Workers,
          Inv, ClaimsSound, ClaimSound, ClaimsExclusive, LegsSound, LegSound, SweepsSound,
          Executing, Phase, Phases, Working
  <1>1. ASSUME NEW p \in Planners, PlanStep(p) PROVE Mapped
    <2>1. CASE BeginPlan(p)
      <3>1. UNCHANGED <<Working, Phases, sent>>
        BY <2>1, SMT DEF BeginPlan
      <3> QED BY <3>1 DEF Promise!vars, Working, Phases
    <2>2. ASSUME NEW S \in SUBSET Legs, CommitPlan(p, S) PROVE Mapped
      <3>1. Promise!Create(S)
        BY <2>2, SMT DEF CommitPlan, Promise!Create, Working, Phases
      <3> QED BY <3>1 DEF Promise!Next
    <2>3. CASE AbandonPlan(p)
      <3>1. UNCHANGED <<Working, Phases, sent>>
        BY <2>3, SMT DEF AbandonPlan
      <3> QED BY <3>1 DEF Promise!vars, Working, Phases
    <2> QED BY <1>1, <2>1, <2>2, <2>3 DEF PlanStep
  <1>2. ASSUME NEW u \in Users, Ask(u) PROVE Mapped
    <2>1. ASSUME NEW l \in Legs, RequestApproval(u, l) PROVE Mapped
      <3>1. UNCHANGED <<Working, Phases, sent>>
        BY <2>1, SMT DEF RequestApproval
      <3> QED BY <3>1 DEF Promise!vars, Working, Phases
    <2>2. ASSUME NEW l \in Legs, RequestDecline(u, l) PROVE Mapped
      <3>1. UNCHANGED <<Working, Phases, sent>>
        BY <2>2, SMT DEF RequestDecline
      <3> QED BY <3>1 DEF Promise!vars, Working, Phases
    <2>3. ASSUME NEW new \in {"NOTIFY", "NONE"}, BeginOff(u, new) PROVE Mapped
      <3>1. UNCHANGED <<Working, Phases, sent>>
        BY <2>3, SMT DEF BeginOff, WaitingBuys
      <3> QED BY <3>1 DEF Promise!vars, Working, Phases
    <2>4. CASE TurnAutomationOn(u)
      <3>1. UNCHANGED <<Working, Phases, sent>>
        BY <2>4, SMT DEF TurnAutomationOn
      <3> QED BY <3>1 DEF Promise!vars, Working, Phases
    <2> QED BY <1>2, <2>1, <2>2, <2>3, <2>4 DEF Ask
  <1>3. ASSUME NEW w \in Workers, Execute(w) PROVE Mapped
    <2>1. CASE RebuildFails(w)
      <3>1. UNCHANGED <<Working, Phases, sent>>
        BY <2>1, SMT DEF RebuildFails
      <3> QED BY <3>1 DEF Promise!vars, Working, Phases
    <2>2. ASSUME NEW fills \in BOOLEAN, NEW saved \in BOOLEAN, SendOrders(w, fills, saved) PROVE Mapped
      <3>1. cur[w] \in Legs
        BY <2>2, SMT DEF SendOrders
      <3>2. cur[w] \in Working
        BY <2>2, SMT DEF SendOrders
      <3>3. sent[cur[w]] = 0
        BY <2>2, SMT DEF SendOrders
      <3>4. sent' = [sent EXCEPT ![cur[w]] = sent[cur[w]] + 1]
        BY <2>2 DEF SendOrders
      <3>5. sent' = [sent EXCEPT ![cur[w]] = 1]
        BY <3>3, <3>4
      <3>6. Phases' = Phases
        BY <2>2, SMT DEF SendOrders
      <3>7. Working' = Working
        BY <2>2, SMT DEF SendOrders
      <3> HIDE DEF Phases, Working, Phase
      <3> QED BY <3>1, <3>2, <3>3, <3>5, <3>6, <3>7, SendMaps
    <2>3. CASE RecordExecuted(w)
      <3>1. cur[w] \in Legs
        BY <2>3, SMT DEF RecordExecuted
      <3>2. cur[w] \in Working
        BY <2>3, SMT DEF RecordExecuted
      <3>3. Phase(cur[w]) \in {"CLAIMED", "FAILED"}
        BY <2>3, SMT DEF RecordExecuted
      <3>4. sent[cur[w]] = 1
        BY <2>3, SMT DEF RecordExecuted
      <3>5. \A k \in Legs : Phase(k)' = IF k = cur[w] THEN "EXECUTED" ELSE Phase(k)
        BY <2>3, SMT DEF RecordExecuted
      <3>6. Working' = Working \ {cur[w]}
        BY <2>3, SMT DEF RecordExecuted
      <3>7. sent' = sent
        BY <2>3, SMT DEF RecordExecuted
      <3> HIDE DEF Phases, Working, Phase
      <3> QED BY <3>1, <3>2, <3>3, <3>4, <3>5, <3>6, <3>7, ConcludeMaps
    <2>4. CASE RecordNoFill(w)
      <3>1. cur[w] \in Legs
        BY <2>4, SMT DEF RecordNoFill
      <3>2. cur[w] \in Working
        BY <2>4, SMT DEF RecordNoFill
      <3>3. Phase(cur[w]) \in {"CLAIMED", "FAILED"}
        BY <2>4, SMT DEF RecordNoFill
      <3>4. "FAILED" \notin Declined
        BY <2>4, SMT DEF RecordNoFill
      <3>5. \A k \in Legs : Phase(k)' = IF k = cur[w] THEN "FAILED" ELSE Phase(k)
        BY <2>4, SMT DEF RecordNoFill
      <3>6. Working' = Working \ {cur[w]}
        BY <2>4, SMT DEF RecordNoFill
      <3>7. sent' = sent
        BY <2>4, SMT DEF RecordNoFill
      <3> HIDE DEF Phases, Working, Phase
      <3> QED BY <3>1, <3>2, <3>3, <3>4, <3>5, <3>6, <3>7, ConcludeMaps
    <2>5. CASE RecordFailure(w)
      <3>1. cur[w] \in Legs
        BY <2>5, SMT DEF RecordFailure
      <3>2. cur[w] \in Working
        BY <2>5, SMT DEF RecordFailure
      <3>3. Phase(cur[w]) \in {"CLAIMED", "FAILED"}
        BY <2>5, SMT DEF RecordFailure
      <3>4. "FAILED" \notin Declined
        BY <2>5, SMT DEF RecordFailure
      <3>5. \A k \in Legs : Phase(k)' = IF k = cur[w] THEN "FAILED" ELSE Phase(k)
        BY <2>5, SMT DEF RecordFailure
      <3>6. Working' = Working \ {cur[w]}
        BY <2>5, SMT DEF RecordFailure
      <3>7. sent' = sent
        BY <2>5, SMT DEF RecordFailure
      <3> HIDE DEF Phases, Working, Phase
      <3> QED BY <3>1, <3>2, <3>3, <3>4, <3>5, <3>6, <3>7, ConcludeMaps
    <2> QED BY <1>3, <2>1, <2>2, <2>3, <2>4, <2>5 DEF Execute
  <1>4. ASSUME NEW u \in Users, Serve(u) PROVE Mapped
    <2>1. CASE LockAndClaim(u)
      <3>1. cur[u] \in Legs
        BY <2>1, SMT DEF LockAndClaim, Claimable
      <3>2. Phase(cur[u]) = "PENDING"
        BY <2>1, SMT DEF LockAndClaim, Claimable
      <3>3. \A k \in Legs : Phase(k)' = IF k = cur[u] THEN "CLAIMED" ELSE Phase(k)
        BY <2>1, SMT DEF LockAndClaim, Claimable
      <3>4. Working' = Working \cup {cur[u]}
        BY <2>1, SMT DEF LockAndClaim, Claimable
      <3>5. sent' = sent
        BY <2>1, SMT DEF LockAndClaim, Claimable
      <3> HIDE DEF Phases, Working, Phase
      <3> QED BY <3>1, <3>2, <3>3, <3>4, <3>5, ClaimMaps
    <2>2. CASE ClaimConflict(u)
      <3>1. UNCHANGED <<Working, Phases, sent>>
        BY <2>2, SMT DEF ClaimConflict
      <3> QED BY <3>1 DEF Promise!vars, Working, Phases
    <2>3. CASE DeclineLeg(u)
      <3>1. PICK result \in {"CANCELED", "REJECTED"} : status' = [status EXCEPT ![cur[u]] = result]
        BY <2>3 DEF DeclineLeg
      <3>2. cur[u] \in Legs
        BY <2>3, <3>1, SMT DEF DeclineLeg
      <3>3. cur[u] \in Working
        BY <2>3, <3>1, SMT DEF DeclineLeg
      <3>4. Phase(cur[u]) \in {"CLAIMED", "FAILED"}
        BY <2>3, <3>1, SMT DEF DeclineLeg
      <3>5. sent[cur[u]] = 0
        BY <2>3, <3>1, SMT DEF DeclineLeg
      <3>6. \A k \in Legs : Phase(k)' = IF k = cur[u] THEN result ELSE Phase(k)
        BY <2>3, <3>1, SMT DEF DeclineLeg
      <3>7. Working' = Working \ {cur[u]}
        BY <2>3, <3>1, SMT DEF DeclineLeg
      <3>8. sent' = sent
        BY <2>3, <3>1, SMT DEF DeclineLeg
      <3> HIDE DEF Phases, Working, Phase
      <3> QED BY <3>2, <3>3, <3>4, <3>5, <3>6, <3>7, <3>8, ConcludeMaps
    <2>4. CASE ApproveTooLate(u)
      <3>1. cur[u] \in Legs
        BY <2>4, SMT DEF ApproveTooLate, PastDeadline
      <3>2. cur[u] \in Working
        BY <2>4, SMT DEF ApproveTooLate, PastDeadline
      <3>3. Phase(cur[u]) \in {"CLAIMED", "FAILED"}
        BY <2>4, SMT DEF ApproveTooLate, PastDeadline
      <3>4. sent[cur[u]] = 0
        BY <2>4, SMT DEF ApproveTooLate, PastDeadline
      <3>5. \A k \in Legs : Phase(k)' = IF k = cur[u] THEN "EXPIRED" ELSE Phase(k)
        BY <2>4, SMT DEF ApproveTooLate, PastDeadline
      <3>6. Working' = Working \ {cur[u]}
        BY <2>4, SMT DEF ApproveTooLate, PastDeadline
      <3>7. sent' = sent
        BY <2>4, SMT DEF ApproveTooLate, PastDeadline
      <3> HIDE DEF Phases, Working, Phase
      <3> QED BY <3>1, <3>2, <3>3, <3>4, <3>5, <3>6, <3>7, ConcludeMaps
    <2>5. CASE ApproveInTime(u)
      <3>1. UNCHANGED <<Working, Phases, sent>>
        BY <2>5, SMT DEF ApproveInTime
      <3> QED BY <3>1 DEF Promise!vars, Working, Phases
    <2>6. ASSUME NEW l \in BuyLegs, OffLocks(u, l) PROVE Mapped
      <3>1. UNCHANGED <<Working, Phases, sent>>
        BY <2>6, SMT DEF OffLocks
      <3> QED BY <3>1 DEF Promise!vars, Working, Phases
    <2>7. CASE CommitOff(u)
      <3>1. OffCancels(u) \in SUBSET Legs /\ Promise!Withdraw(OffCancels(u), "CANCELED")
        BY <2>7, SMT DEF CommitOff, OffCancels, Claimable, Promise!Withdraw, Working, Phases
      <3> QED BY <3>1 DEF Promise!Next
    <2>8. CASE OffLosesAlert(u)
      <3>1. UNCHANGED <<Working, Phases, sent>>
        BY <2>8, SMT DEF OffLosesAlert
      <3> QED BY <3>1 DEF Promise!vars, Working, Phases
    <2> QED BY <1>4, <1>3, <2>1, <2>2, <2>3, <2>4, <2>5, <2>6, <2>7, <2>8 DEF Serve, Workers
  <1>5. ASSUME NEW t \in Ticks, TickStep(t) PROVE Mapped
    <2>1. ASSUME NEW gate \in BOOLEAN, StartTick(t, gate) PROVE Mapped
      <3>1. UNCHANGED <<Working, Phases, sent>>
        BY <2>1, SMT DEF StartTick, DueBuys
      <3> QED BY <3>1 DEF Promise!vars, Working, Phases
    <2>2. ASSUME NEW l \in BuyLegs, TickSkipsDecided(t, l) PROVE Mapped
      <3>1. UNCHANGED <<Working, Phases, sent>>
        BY <2>2, SMT DEF TickSkipsDecided, Visits
      <3> QED BY <3>1 DEF Promise!vars, Working, Phases
    <2>3. ASSUME NEW l \in BuyLegs, TickExpires(t, l) PROVE Mapped
      <3>1. Promise!Withdraw({l}, "EXPIRED")
        BY <2>3, SMT DEF TickExpires, Visits, Claimable, Promise!Withdraw, Working, Phases
      <3> QED BY <3>1 DEF Promise!Next
    <2>4. ASSUME NEW l \in BuyLegs, TickHolds(t, l) PROVE Mapped
      <3>1. UNCHANGED <<Working, Phases, sent>>
        BY <2>4, SMT DEF TickHolds, Visits
      <3> QED BY <3>1 DEF Promise!vars, Working, Phases
    <2>5. ASSUME NEW l \in BuyLegs, TickClaims(t, l) PROVE Mapped
      <3>1. l \in Legs
        BY <2>5, SMT DEF TickClaims, Visits, Claimable
      <3>2. Phase(l) = "PENDING"
        BY <2>5, SMT DEF TickClaims, Visits, Claimable
      <3>3. \A k \in Legs : Phase(k)' = IF k = l THEN "CLAIMED" ELSE Phase(k)
        BY <2>5, SMT DEF TickClaims, Visits, Claimable
      <3>4. Working' = Working \cup {l}
        BY <2>5, SMT DEF TickClaims, Visits, Claimable
      <3>5. sent' = sent
        BY <2>5, SMT DEF TickClaims, Visits, Claimable
      <3> HIDE DEF Phases, Working, Phase
      <3> QED BY <3>1, <3>2, <3>3, <3>4, <3>5, ClaimMaps
    <2>6. CASE EndTick(t)
      <3>1. UNCHANGED <<Working, Phases, sent>>
        BY <2>6, SMT DEF EndTick
      <3> QED BY <3>1 DEF Promise!vars, Working, Phases
    <2> QED BY <1>5, <1>3, <2>1, <2>2, <2>3, <2>4, <2>5, <2>6 DEF TickStep, TickVisits, Workers
  <1>6. ASSUME NEW s \in Sweeps, SweepStep(s) PROVE Mapped
    <2>1. CASE StartSweep(s)
      <3>1. UNCHANGED <<Working, Phases, sent>>
        BY <2>1, SMT DEF StartSweep, StuckLegs
      <3> QED BY <3>1 DEF Promise!vars, Working, Phases
    <2>2. ASSUME NEW l \in Legs, SweepStuck(s, l) PROVE Mapped
      <3>1. CASE status[l] = "PENDING"
        <4>1. Phase(l) = "CLAIMED"
          BY <2>2, <3>1, SMT DEF SweepStuck
        <4>2. \A k \in Legs : Phase(k)' = IF k = l THEN "FAILED" ELSE Phase(k)
          BY <2>2, <3>1, SMT DEF SweepStuck
        <4>3. Working' = Working /\ sent' = sent
          BY <2>2, SMT DEF SweepStuck
        <4> HIDE DEF Phases, Working, Phase
        <4> QED BY <4>1, <4>2, <4>3, GiveUpMaps
      <3>2. CASE status[l] # "PENDING"
        <4>1. UNCHANGED <<Working, Phases, sent>>
          BY <2>2, <3>2, SMT DEF SweepStuck
        <4> QED BY <4>1 DEF Promise!vars, Working, Phases
      <3> QED BY <3>1, <3>2
    <2>3. CASE SweepTurnsToSells(s)
      <3>1. UNCHANGED <<Working, Phases, sent>>
        BY <2>3, SMT DEF SweepTurnsToSells, DueSells
      <3> QED BY <3>1 DEF Promise!vars, Working, Phases
    <2>4. ASSUME NEW l \in SellLegs, ExpireSell(s, l) PROVE Mapped
      <3>1. CASE Claimable(l)
        <4>1. Promise!Withdraw({l}, "EXPIRED")
          BY <2>4, <3>1, SMT DEF ExpireSell, Claimable, Promise!Withdraw, Working, Phases
        <4> QED BY <4>1 DEF Promise!Next
      <3>2. CASE ~Claimable(l)
        <4>1. UNCHANGED <<Working, Phases, sent>>
          BY <2>4, <3>2, SMT DEF ExpireSell
        <4> QED BY <4>1 DEF Promise!vars, Working, Phases
      <3> QED BY <3>1, <3>2
    <2>5. CASE EndSweep(s)
      <3>1. UNCHANGED <<Working, Phases, sent>>
        BY <2>5, SMT DEF EndSweep
      <3> QED BY <3>1 DEF Promise!vars, Working, Phases
    <2> QED BY <1>6, <2>1, <2>2, <2>3, <2>4, <2>5 DEF SweepStep
  <1>7. ASSUME NEW w \in Workers, Fault(w) PROVE Mapped
    <2>1. CASE Crash(w)
      <3>1. CASE pc[w] \in Claiming
        <4>1. cur[w] \in Legs /\ cur[w] \in Working
          BY <3>1, SMT
        <4>2. Working' = Working \ {cur[w]}
          BY <2>1, <3>1, SMT DEF Crash
        <4>3. Phases' = Phases /\ sent' = sent
          BY <2>1, SMT DEF Crash
        <4> HIDE DEF Phases, Working
        <4> QED BY <4>1, <4>2, <4>3, LoseMaps
      <3>2. CASE pc[w] \notin Claiming
        <4>1. UNCHANGED <<Working, Phases, sent>>
          BY <2>1, <3>2, SMT DEF Crash
        <4> QED BY <4>1 DEF Promise!vars, Working, Phases
      <3> QED BY <3>1, <3>2
    <2>2. CASE JobLegFails(w)
      <3>1. CASE pc[w] \in Claiming
        <4>1. cur[w] \in Legs /\ cur[w] \in Working
          BY <3>1, SMT
        <4>2. Working' = Working \ {cur[w]}
          BY <2>2, <3>1, SMT DEF JobLegFails
        <4>3. Phases' = Phases /\ sent' = sent
          BY <2>2, SMT DEF JobLegFails
        <4> HIDE DEF Phases, Working
        <4> QED BY <4>1, <4>2, <4>3, LoseMaps
      <3>2. CASE pc[w] \notin Claiming
        <4>1. UNCHANGED <<Working, Phases, sent>>
          BY <2>2, <3>2, SMT DEF JobLegFails
        <4> QED BY <4>1 DEF Promise!vars, Working, Phases
      <3> QED BY <3>1, <3>2
    <2>3. CASE DeadlockVictim(w)
      <3>1. CASE pc[w] = "off" /\ Goto(w, "idle", NoLeg, {})
        <4>1. UNCHANGED <<Working, Phases, sent>>
          BY <2>3, <3>1, SMT DEF DeadlockVictim
        <4> QED BY <4>1 DEF Promise!vars, Working, Phases
      <3>2. ASSUME NEW l \in todo[w], pc[w] = "tick", Goto(w, "tick", NoLeg, todo[w] \ {l}) PROVE Mapped
        <4>1. UNCHANGED <<Working, Phases, sent>>
          BY <2>3, <3>2, SMT DEF DeadlockVictim
        <4> QED BY <4>1 DEF Promise!vars, Working, Phases
      <3> QED BY <2>3, <3>1, <3>2 DEF DeadlockVictim
    <2> QED BY <1>7, <2>1, <2>2, <2>3 DEF Fault
  <1>8. ASSUME Clock PROVE Mapped
    <2>1. ASSUME NEW l \in Legs, DeadlinePasses(l) PROVE Mapped
      <3>1. UNCHANGED <<Working, Phases, sent>>
        BY <2>1, SMT DEF DeadlinePasses
      <3> QED BY <3>1 DEF Promise!vars, Working, Phases
    <2>2. ASSUME NEW l \in Legs, ClaimAges(l) PROVE Mapped
      <3>1. UNCHANGED <<Working, Phases, sent>>
        BY <2>2, SMT DEF ClaimAges, Executing
      <3> QED BY <3>1 DEF Promise!vars, Working, Phases
    <2> QED BY <1>8, <2>1, <2>2 DEF Clock
  <1>9. CASE UNCHANGED vars
    BY <1>9 DEF vars, sessions, rows, broker, Promise!vars, Phase, Executing
  <1> QED BY <1>1, <1>2, <1>3, <1>4, <1>5, <1>6, <1>7, <1>8, <1>9 DEF Next

\* The promise about a leg is kept, for any sets of legs and sessions.
THEOREM PromiseIsKept == Spec => ImplementsPromise
  <1> QED BY InitMaps, StepMaps, Invariance, PTL DEF ImplementsPromise, Spec, Promise!Spec
=============================================================================
