----------------------- MODULE PlanGeneration_proofs -----------------------
(***************************************************************************)
(* What holds of plan generation for any number of processes, jobs, clicks, *)
(* alerts, plans and faults.                                                *)
(***************************************************************************)
EXTENDS PlanGeneration, OrderBuilding_proofs

(* A worker that builds has an alert; it has made a plan only at the end.   *)
BuildFits ==
    \A w \in Workers :
        /\ pc[w] \in Building => cur[w] \in Alerts
        /\ made[w] # {} => pc[w] = "made"

Typed == TypeOK /\ BuildFits

LEMMA JobsWork == Jobs \subseteq Workers /\ Clicks \subseteq Workers
  BY DEF Workers

LEMMA TypedInit == Init => Typed
  BY BoundsAssumption DEF Init, Typed, TypeOK, BuildFits, Building

(* Leaving the build keeps everything typed.                                *)
LEMMA LeavesTyped ==
    ASSUME Typed, NEW w \in Workers, Leaves(w)
    PROVE  /\ pc' \in [Workers -> {"idle"} \cup Building]
           /\ cur' \in [Workers -> Alerts \cup {None}]
           /\ amount' \in [Workers -> Nat]
           /\ made' \in [Workers -> SUBSET Plans]
           /\ lock' \in [Processes -> Workers \cup {Free}]
           /\ BuildFits'
  BY DEF Typed, TypeOK, BuildFits, Leaves, Unlocked, Building

LEMMA AnswersTyped ==
    ASSUME Typed, NEW w \in Workers, pc[w] \in Building, NEW reason, Answers(w, reason)
    PROVE  Typed'
<1>1. cur[w] \in Alerts
  BY DEF Typed, BuildFits
<1>2. claims' \subseteq Alerts
  BY <1>1 DEF Answers, Typed, TypeOK
<1>3. judged' \subseteq OncePerDay
  BY <1>1 DEF Answers, Counts, Typed, TypeOK
<1>4. UNCHANGED <<plan, fired, rows, faults, orphaned, unclaimed>> /\ Leaves(w)
  BY DEF Answers
<1> QED
  BY <1>2, <1>3, <1>4, LeavesTyped DEF Typed, TypeOK, rows

LEMMA TypedStep == Typed /\ [Next]_vars => Typed'
<1> SUFFICES ASSUME Typed, [Next]_vars PROVE Typed'
  OBVIOUS
<1>r. TypeOK /\ BuildFits
  BY DEF Typed
<1> USE DEF Building
<1>1. ASSUME NEW w \in Workers, LoadRows(w) PROVE Typed'
  BY <1>1, <1>r DEF LoadRows, Typed, TypeOK, BuildFits, database, locals, history, HasOpen
<1>2. ASSUME NEW w \in Workers, TakeLock(w) PROVE Typed'
  <2>1. CASE \E reason \in Unbuilt : Answers(w, reason)
    BY <1>2, <2>1, AnswersTyped DEF TakeLock
  <2>2. CASE Answers(w, "busy")
    BY <1>2, <2>2, AnswersTyped DEF TakeLock
  <2>3. CASE /\ lock' = [lock EXCEPT ![Home[w]] = w]
             /\ pc' = [pc EXCEPT ![w] = "locked"]
             /\ UNCHANGED <<database, cur, amount, made, rows, history>>
    BY <1>2, <1>r, <2>3 DEF TakeLock, Typed, TypeOK, BuildFits, database, rows, history
  <2> QED
    BY <1>2, <2>1, <2>2, <2>3 DEF TakeLock
<1>3. ASSUME NEW w \in Workers, CheckUnderLock(w) PROVE Typed'
  <2>1. CASE \E reason \in Postponed \cup Judged : Answers(w, reason)
    BY <1>3, <2>1, AnswersTyped DEF CheckUnderLock
  <2>2. ASSUME NEW v \in Values[cur[w]], pc' = [pc EXCEPT ![w] = "checked"],
               amount' = [amount EXCEPT ![w] = v],
               UNCHANGED <<database, lock, cur, made, rows, history>>
        PROVE  Typed'
    <3>1. v \in Nat
      BY <1>3, <1>r, BoundsAssumption DEF CheckUnderLock, BuildFits
    <3> QED
      BY <1>3, <1>r, <2>2, <3>1 DEF CheckUnderLock, Typed, TypeOK, BuildFits, database, rows, history
  <2> QED
    BY <1>3, <2>1, <2>2, Zenon DEF CheckUnderLock, Postponed, Judged
<1>4. ASSUME NEW w \in Workers, NEW i \in Plans, CommitPlan(w, i) PROVE Typed'
  <2>1. [status |-> "open", alert |-> cur[w], by |-> w, value |-> amount[w]] \in PlanRows
    BY <1>4, <1>r DEF CommitPlan, BuildFits, PlanRows, Statuses, TypeOK
  <2> QED
    BY <1>4, <1>r, <2>1 DEF CommitPlan, Typed, TypeOK, BuildFits, rows, history
<1>5. ASSUME NEW w \in Workers, Finish(w) PROVE Typed'
  <2>1. seen' \in [Workers -> SUBSET Alerts]
    BY <1>5, <1>r DEF Finish, Rereads, TypeOK
  <2> QED
    BY <1>5, <1>r, <2>1, LeavesTyped DEF Finish, Typed, TypeOK, database, history
<1>6. ASSUME NEW w \in Workers, Fails(w) PROVE Typed'
  <2>1. seen' \in [Workers -> SUBSET Alerts] /\ claims' \subseteq Alerts /\ faults' \in 0..MaxFaults
          /\ unclaimed' \subseteq Plans
    BY <1>6, <1>r, BoundsAssumption DEF Fails, Rereads, TypeOK
  <2>2. UNCHANGED <<plan, fired, todo, waiting, judged, orphaned>> /\ Leaves(w)
    BY <1>6 DEF Fails
  <2> QED
    BY <1>r, <2>1, <2>2, LeavesTyped DEF Typed, TypeOK
<1>7. ASSUME NEW w \in Workers, NEW a \in Alerts, PassOver(w, a) PROVE Typed'
  BY <1>7, <1>r DEF PassOver, Drops, Typed, TypeOK, BuildFits, database, locals, history
<1>8. ASSUME NEW w \in Workers, NEW a \in Alerts, GateBlocks(w, a) PROVE Typed'
  BY <1>8, <1>r DEF GateBlocks, Drops, Typed, TypeOK, BuildFits, locals
<1>9. ASSUME NEW w \in Workers, NEW a \in Alerts, ClaimAlert(w, a) PROVE Typed'
  BY <1>9, <1>r DEF ClaimAlert, Eligible, Drops, Typed, TypeOK, BuildFits, history
<1>10. ASSUME NEW w \in Workers, NEW a \in Alerts, Ask(w, a) PROVE Typed'
  BY <1>10, <1>r DEF Ask, Typed, TypeOK, BuildFits, database, rows, history
<1>11. ASSUME NEW p \in Processes, ProcessEnds(p) PROVE Typed'
  <2>1. faults' \in 0..MaxFaults
    BY <1>11, <1>r, BoundsAssumption DEF ProcessEnds, TypeOK
  <2>2. \A w \in Jobs : pc[w] \in Building => cur[w] \in Alerts
    BY <1>r, JobsWork DEF BuildFits
  <2>3. orphaned' \subseteq Alerts
    BY <1>11, <1>r, <2>2 DEF ProcessEnds, TypeOK
  <2> QED
    BY <1>11, <1>r, <2>1, <2>3 DEF ProcessEnds, Typed, TypeOK, BuildFits, database
<1>12. ASSUME NEW i \in Plans, ExecutePlan(i) \/ DropPlan(i) PROVE Typed'
  <2>1. plan[i] \in PlanRows
    BY <1>12, <1>r DEF ExecutePlan, DropPlan, TypeOK, NoPlan
  <2>2. plan' \in [Plans -> PlanRows \cup {NoPlan}]
    BY <1>12, <1>r, <2>1 DEF ExecutePlan, DropPlan, TypeOK, PlanRows, Statuses
  <2> QED
    BY <1>12, <1>r, <2>2
    DEF ExecutePlan, DropPlan, Typed, TypeOK, BuildFits, locals, rows, history
<1>13. CASE UNCHANGED vars
  BY <1>13, <1>r DEF vars, database, locals, rows, history, Typed, TypeOK, BuildFits
<1> QED
  BY <1>1, <1>2, <1>3, <1>4, <1>5, <1>6, <1>7, <1>8, <1>9, <1>10, <1>11, <1>12, <1>13
  DEF Next, Build

LEMMA TypedInvariance == Spec => []Typed
  BY TypedInit, TypedStep, PTL DEF Spec

\* Plans, claims, locks and the locals of the workers keep their types.
THEOREM GenerationTyped == Spec => []TypeOK
  BY TypedInvariance, PTL DEF Typed

-----------------------------------------------------------------------------
(* What the lock of a process gives.                                        *)

(* Between the check and the commit a worker has the lock of its process.   *)
LockHeld == \A w \in Workers : pc[w] \in {"locked", "checked", "made"} => lock[Home[w]] = w

(* So nothing it looked for can appear by another worker of its process.    *)
CheckLasts ==
    \A w \in Workers : pc[w] = "checked" =>
        \A i \in Plans : IsOpen(i) /\ plan[i].alert = cur[w] => Home[plan[i].by] # Home[w]

LEMMA AtHome == ASSUME NEW w \in Workers PROVE Home[w] \in Processes
  BY WorkersAssumption

LEMMA LeavesLock ==
    ASSUME Typed, LockHeld, NEW w \in Workers, Leaves(w)
    PROVE  /\ LockHeld'
           /\ \A v \in Workers : pc'[v] = "checked" => pc[v] = "checked" /\ cur'[v] = cur[v]
  BY WorkersAssumption DEF LockHeld, Leaves, Unlocked, Typed, TypeOK

LEMMA LockStep ==
    ASSUME Typed, LockHeld, [Next]_vars PROVE LockHeld'
<1>r. TypeOK
  BY DEF Typed
<1> USE DEF Building
<1>1. ASSUME NEW w \in Workers, LoadRows(w) PROVE LockHeld'
  BY <1>1 DEF LoadRows, LockHeld, locals
<1>2. ASSUME NEW w \in Workers, NEW reason, Answers(w, reason) PROVE LockHeld'
  BY <1>2, LeavesLock DEF Answers
<1>3. ASSUME NEW w \in Workers, TakeLock(w) PROVE LockHeld'
  <2>1. CASE lock[Home[w]] = Free /\ lock' = [lock EXCEPT ![Home[w]] = w]
             /\ pc' = [pc EXCEPT ![w] = "locked"]
    BY <1>3, <1>r, <2>1, WorkersAssumption DEF LockHeld, TypeOK
  <2> QED
    BY <1>3, <1>2, <2>1 DEF TakeLock
<1>4. ASSUME NEW w \in Workers, CheckUnderLock(w) PROVE LockHeld'
  <2>1. CASE pc[w] = "locked" /\ pc' = [pc EXCEPT ![w] = "checked"] /\ lock' = lock
    BY <1>r, <2>1 DEF LockHeld, TypeOK
  <2> QED
    BY <1>4, <1>2, <2>1 DEF CheckUnderLock
<1>5. ASSUME NEW w \in Workers, NEW i \in Plans, CommitPlan(w, i) PROVE LockHeld'
  BY <1>5, <1>r DEF CommitPlan, LockHeld, TypeOK
<1>6. ASSUME NEW w \in Workers, Finish(w) \/ Fails(w) PROVE LockHeld'
  BY <1>6, LeavesLock DEF Finish, Fails
<1>7. ASSUME NEW w \in Workers, NEW a \in Alerts, PassOver(w, a) \/ GateBlocks(w, a)
      PROVE  LockHeld'
  BY <1>7 DEF PassOver, GateBlocks, LockHeld, locals
<1>8. ASSUME NEW w \in Workers, NEW a \in Alerts, ClaimAlert(w, a) \/ Ask(w, a)
      PROVE  LockHeld'
  BY <1>8, <1>r DEF ClaimAlert, Ask, LockHeld, TypeOK
<1>9. ASSUME NEW p \in Processes, ProcessEnds(p) PROVE LockHeld'
  BY <1>9, <1>r, AtHome DEF ProcessEnds, LockHeld, TypeOK
<1>10. ASSUME NEW i \in Plans, ExecutePlan(i) \/ DropPlan(i) PROVE LockHeld'
  BY <1>10 DEF ExecutePlan, DropPlan, LockHeld, locals
<1>11. CASE UNCHANGED vars
  BY <1>11 DEF vars, LockHeld, locals
<1> QED
  BY <1>1, <1>3, <1>4, <1>5, <1>6, <1>7, <1>8, <1>9, <1>10, <1>11 DEF Next, Build

(* Steps that leave the plans alone, and the worker at its check.           *)
LEMMA CheckUntouched ==
    ASSUME CheckLasts, UNCHANGED plan,
           \A v \in Workers : pc'[v] = "checked" => pc[v] = "checked" /\ cur'[v] = cur[v]
    PROVE  CheckLasts'
  BY DEF CheckLasts, IsOpen

LEMMA OpenUntouched ==
    ASSUME OpenPlanPerProcess, UNCHANGED plan PROVE OpenPlanPerProcess'
  BY DEF OpenPlanPerProcess, IsOpen

(* A plan that stops waiting keeps its alert and its maker.                 *)
LEMMA Closing ==
    ASSUME Typed, NEW i \in Plans, ExecutePlan(i) \/ DropPlan(i)
    PROVE  /\ \A j \in Plans : plan'[j].alert = plan[j].alert /\ plan'[j].by = plan[j].by
           /\ \A j \in Plans : plan'[j].status = "open" => plan[j].status = "open"
           /\ \A j \in Plans : plan[j] = NoPlan => plan'[j] = NoPlan
           /\ UNCHANGED <<fired, claims, lock, locals, rows, history>>
<1>1. \E st \in {"executed", "dead"} : plan' = [plan EXCEPT ![i].status = st]
  BY DEF ExecutePlan, DropPlan
<1>2. plan[i] \in PlanRows /\ plan[i] # NoPlan
  BY DEF ExecutePlan, DropPlan, Typed, TypeOK, NoPlan
<1>3. \A j \in Plans : plan[j] \in PlanRows \cup {NoPlan}
  BY DEF Typed, TypeOK
<1> QED
  BY <1>1, <1>2, <1>3 DEF ExecutePlan, DropPlan, Typed, TypeOK, PlanRows

LEMMA OpenStep ==
    ASSUME Typed, LockHeld, CheckLasts, OpenPlanPerProcess, [Next]_vars
    PROVE  CheckLasts' /\ OpenPlanPerProcess'
<1>r. TypeOK
  BY DEF Typed
<1> USE DEF Building
<1> DEFINE Good == CheckLasts' /\ OpenPlanPerProcess'
<1>0. ASSUME UNCHANGED plan,
             \A v \in Workers : pc'[v] = "checked" => pc[v] = "checked" /\ cur'[v] = cur[v]
      PROVE  Good
  BY <1>0, CheckUntouched, OpenUntouched
<1>1. ASSUME NEW w \in Workers, NEW reason, Answers(w, reason) PROVE Good
  BY <1>0, <1>1, LeavesLock DEF Answers
<1>2. ASSUME NEW w \in Workers, TakeLock(w) PROVE Good
  <2>1. CASE pc' = [pc EXCEPT ![w] = "locked"] /\ UNCHANGED <<plan, cur>>
    BY <1>0, <1>r, <2>1 DEF TypeOK
  <2> QED
    BY <1>1, <1>2, <2>1 DEF TakeLock, database
<1>3. ASSUME NEW w \in Workers, CheckUnderLock(w) PROVE Good
  <2>1. CASE ~HasOpen(cur[w]) /\ pc' = [pc EXCEPT ![w] = "checked"] /\ UNCHANGED <<plan, cur>>
    BY <1>r, <2>1, OpenUntouched DEF CheckLasts, TypeOK, HasOpen, IsOpen
  <2> QED
    BY <1>1, <1>3, <2>1 DEF CheckUnderLock, database
<1>4. ASSUME NEW w \in Workers, NEW i \in Plans, CommitPlan(w, i) PROVE Good
  <2>1. plan' = [plan EXCEPT ![i] = [status |-> "open", alert |-> cur[w], by |-> w,
                                     value |-> amount[w]]]
    BY <1>4 DEF CommitPlan
  <2>2. pc' = [pc EXCEPT ![w] = "made"] /\ pc[w] = "checked" /\ cur' = cur
    BY <1>4 DEF CommitPlan
  <2>3. \A v \in Workers : pc'[v] = "checked" => pc[v] = "checked" /\ Home[v] # Home[w]
    BY <1>r, <2>2 DEF LockHeld, TypeOK
  <2>4. CheckLasts'
    BY <1>r, <2>1, <2>2, <2>3 DEF CheckLasts, IsOpen, TypeOK
  <2>5. OpenPlanPerProcess'
    BY <1>r, <2>1, <2>2 DEF OpenPlanPerProcess, CheckLasts, IsOpen, TypeOK
  <2> QED
    BY <2>4, <2>5
<1>5. ASSUME NEW w \in Workers, Finish(w) \/ Fails(w) PROVE Good
  BY <1>0, <1>5, LeavesLock DEF Finish, Fails, database
<1>6. ASSUME NEW w \in Workers, NEW a \in Alerts, PassOver(w, a) \/ GateBlocks(w, a)
      PROVE  Good
  BY <1>0, <1>6 DEF PassOver, GateBlocks, locals, database
<1>7. ASSUME NEW w \in Workers, NEW a \in Alerts, ClaimAlert(w, a) \/ Ask(w, a)
      PROVE  Good
  BY <1>0, <1>7, <1>r DEF ClaimAlert, Eligible, Ask, TypeOK, database
<1>8. ASSUME NEW p \in Processes, ProcessEnds(p) PROVE Good
  BY <1>0, <1>8 DEF ProcessEnds, database
<1>9. ASSUME NEW i \in Plans, ExecutePlan(i) \/ DropPlan(i) PROVE Good
  BY <1>9, Closing DEF locals, CheckLasts, OpenPlanPerProcess, IsOpen
<1>10. CASE UNCHANGED vars
  BY <1>0, <1>10 DEF vars, locals, database
<1>11. ASSUME NEW w \in Workers, LoadRows(w) PROVE Good
  BY <1>0, <1>11 DEF LoadRows, locals, database
<1> QED
  BY <1>2, <1>3, <1>4, <1>5, <1>6, <1>7, <1>8, <1>9, <1>10, <1>11 DEF Next, Build

OpenInv == LockHeld /\ CheckLasts /\ OpenPlanPerProcess

LEMMA OpenInit == Init => OpenInv
  BY DEF Init, OpenInv, LockHeld, CheckLasts, OpenPlanPerProcess, IsOpen, NoPlan

\* Two plans of one alert wait at the same time only if they come from two
\* processes, however many workers a process has.
THEOREM OneOpenPlan == Spec => []OpenPlanPerProcess
<1>1. Typed /\ OpenInv /\ [Next]_vars => OpenInv'
  BY LockStep, OpenStep DEF OpenInv
<1>2. OpenInv => OpenPlanPerProcess
  BY DEF OpenInv
<1> QED
  BY <1>1, <1>2, OpenInit, TypedInvariance, PTL DEF Spec

-----------------------------------------------------------------------------
(* What the claim gives.                                                    *)

Works(w) == w \in Jobs /\ pc[w] \in Building

(* A job works under the claim of its alert, and no other job does.         *)
ClaimHeld ==
    /\ \A w \in Jobs : Works(w) => cur[w] \in claims
    /\ \A v, w \in Jobs : v # w /\ Works(v) /\ Works(w) => cur[v] # cur[w]

(* While a plan of the job keeps its claim, the only job that can work on   *)
(* the alert is the one that has just made the plan.                        *)
PlanKeepsClaim ==
    \A i \in Plans : ByJob(i) /\ i \notin unclaimed =>
        /\ plan[i].alert \in claims
        /\ \A w \in Jobs : Works(w) /\ cur[w] = plan[i].alert => made[w] = {i}

(* A job that has checked will not find another plan of a job waiting.      *)
JobAlone ==
    \A w \in Jobs : pc[w] = "checked" =>
        \A i \in Plans : IsOpen(i) /\ ByJob(i) => plan[i].alert # cur[w]

(* What was made is a plan of this job on this alert.                       *)
MadeIsThere ==
    \A w \in Jobs : pc[w] = "made" =>
        \E i \in made[w] : i \in Plans /\ ByJob(i) /\ plan[i].alert = cur[w]

ClaimInv == ClaimHeld /\ PlanKeepsClaim /\ JobAlone /\ MadeIsThere /\ AutoPlanOncePerDay
            /\ ClaimHasCause

LEMMA ClaimInit == Init => ClaimInv
<1> SUFFICES ASSUME Init PROVE ClaimInv
  OBVIOUS
<1>1. \A i \in Plans : ~ByJob(i)
  BY WorkersAssumption, JobsWork DEF Init, ByJob, NoPlan
<1>2. \A w \in Jobs : ~Works(w) /\ pc[w] = "idle"
  BY JobsWork DEF Init, Works, Building
<1> QED
  BY <1>1, <1>2
  DEF Init, ClaimInv, ClaimHeld, PlanKeepsClaim, JobAlone, MadeIsThere, AutoPlanOncePerDay,
      SameClaim, ClaimHasCause

(* A step after which some job that worked does not, and its claim is gone, *)
(* or stays for a reason that is written down.                              *)
LEMMA StopsWorking ==
    ASSUME Typed, ClaimInv, NEW w \in Workers,
           Leaves(w), UNCHANGED plan, pc[w] \in Building,
           w \in Clicks => UNCHANGED claims,
           claims \ {cur[w]} \subseteq claims', claims' \subseteq claims,
           orphaned' = orphaned, judged \subseteq judged',
           unclaimed' \in {unclaimed, unclaimed \cup made[w]},
           w \in Jobs /\ cur[w] \notin claims' => unclaimed' = unclaimed \cup made[w],
           w \in Jobs /\ cur[w] \in claims' =>
               cur[w] \in judged' \/ \E i \in Plans : ByJob(i) /\ plan[i].alert = cur[w]
    PROVE  ClaimInv'
<1>r. TypeOK /\ BuildFits
  BY DEF Typed
<1>1. /\ pc' = [pc EXCEPT ![w] = "idle"] /\ cur' = [cur EXCEPT ![w] = None]
      /\ made' = [made EXCEPT ![w] = {}]
  BY DEF Leaves
<1>2. \A v \in Jobs : /\ v # w => pc'[v] = pc[v] /\ cur'[v] = cur[v] /\ made'[v] = made[v]
                      /\ v = w => pc'[v] = "idle"
  BY <1>r, <1>1, JobsWork DEF TypeOK
<1>3. \A v \in Jobs : Works(v)' <=> v # w /\ Works(v)
  BY <1>2 DEF Works, Building
<1>4. \A i \in Plans : (ByJob(i)' <=> ByJob(i)) /\ (IsOpen(i)' <=> IsOpen(i))
  BY DEF ByJob, IsOpen
<1>5. w \notin Clicks => w \in Jobs
  BY DEF Workers
<1>c. ClaimHeld /\ PlanKeepsClaim /\ JobAlone /\ MadeIsThere /\ AutoPlanOncePerDay /\ ClaimHasCause
  BY DEF ClaimInv
<1>6. ClaimHeld'
  <2>1. \A v \in Jobs : v # w /\ Works(v) => cur[v] \in claims'
    <3> SUFFICES ASSUME NEW v \in Jobs, v # w, Works(v) PROVE cur[v] \in claims'
      OBVIOUS
    <3>1. cur[v] \in claims
      BY <1>c DEF ClaimHeld
    <3>2. CASE w \in Jobs
      BY <1>c, <3>1, <3>2 DEF ClaimHeld, Works
    <3>3. CASE w \in Clicks
      BY <3>1, <3>3
    <3> QED
      BY <1>5, <3>2, <3>3
  <2> QED
    BY <1>2, <1>3, <1>c, <2>1 DEF ClaimHeld
<1>7. PlanKeepsClaim'
  <2>1. ASSUME NEW i \in Plans, ByJob(i), i \notin unclaimed' PROVE plan[i].alert \in claims'
    <3>1. i \notin unclaimed
      BY <2>1
    <3>2. plan[i].alert \in claims
      BY <1>c, <2>1, <3>1 DEF PlanKeepsClaim
    <3>3. CASE w \in Jobs /\ plan[i].alert = cur[w]
      BY <1>c, <2>1, <3>1, <3>3 DEF PlanKeepsClaim, Works
    <3> QED
      BY <1>5, <3>2, <3>3
  <2>2. ASSUME NEW i \in Plans, ByJob(i), i \notin unclaimed', NEW v \in Jobs, v # w, Works(v),
               cur[v] = plan[i].alert
        PROVE  made[v] = {i}
    BY <1>c, <2>2 DEF PlanKeepsClaim
  <2> QED
    BY <1>2, <1>3, <1>4, <2>1, <2>2 DEF PlanKeepsClaim
<1>8. JobAlone' /\ MadeIsThere'
  BY <1>2, <1>4, <1>c DEF JobAlone, MadeIsThere
<1>9. AutoPlanOncePerDay'
  BY <1>4, <1>c DEF AutoPlanOncePerDay, SameClaim
<1>10. ClaimHasCause'
  <2> SUFFICES ASSUME NEW a \in claims'
               PROVE  \/ \E v \in Jobs : v # w /\ Works(v) /\ cur[v] = a
                      \/ \E i \in Plans : ByJob(i) /\ plan[i].alert = a
                      \/ a \in judged' \cup orphaned'
    BY <1>2, <1>3, <1>4 DEF ClaimHasCause, Works
  <2>1. CASE w \in Jobs /\ cur[w] = a
    BY <2>1
  <2>2. CASE ~(w \in Jobs /\ cur[w] = a)
    BY <1>c, <2>2 DEF ClaimHasCause, Works
  <2> QED
    BY <2>1, <2>2
<1> QED
  BY <1>6, <1>7, <1>8, <1>9, <1>10 DEF ClaimInv

LEMMA AnswersClaim ==
    ASSUME Typed, ClaimInv, NEW w \in Workers, pc[w] \in {"begun", "locked"},
           NEW reason, Answers(w, reason)
    PROVE  ClaimInv'
<1>1. Leaves(w) /\ UNCHANGED <<plan, orphaned, unclaimed>>
  BY DEF Answers
<1>2. claims' = IF w \in Jobs /\ ~Counts(w, reason) THEN claims \ {cur[w]} ELSE claims
  BY DEF Answers
<1>3. judged' = IF Counts(w, reason) THEN judged \cup {cur[w]} ELSE judged
  BY DEF Answers
<1>4. made[w] = {} /\ pc[w] \in Building
  BY DEF Typed, BuildFits, Building
<1>5. w \in Clicks => claims' = claims
  BY <1>2, WorkersAssumption
<1> QED
  BY <1>1, <1>2, <1>3, <1>4, <1>5, StopsWorking

(* Steps of which the claims see nothing: a worker that goes on with its    *)
(* alert, or one that is no job.                                            *)
LEMMA ClaimUntouched ==
    ASSUME ClaimInv, UNCHANGED <<plan, orphaned, unclaimed>>,
           claims \subseteq claims', claims' \subseteq claims \cup judged',
           judged \subseteq judged',
           \A w \in Jobs :
               /\ Works(w)' <=> Works(w)
               /\ Works(w) => cur'[w] = cur[w] /\ made'[w] = made[w]
               /\ pc'[w] = "checked" <=> pc[w] = "checked"
               /\ pc'[w] = "made" <=> pc[w] = "made"
    PROVE  ClaimInv'
<1>1. \A i \in Plans : (ByJob(i)' <=> ByJob(i)) /\ (IsOpen(i)' <=> IsOpen(i))
  BY DEF ByJob, IsOpen
<1>c. ClaimHeld /\ PlanKeepsClaim /\ JobAlone /\ MadeIsThere /\ AutoPlanOncePerDay /\ ClaimHasCause
  BY DEF ClaimInv
<1>2. ClaimHeld' /\ PlanKeepsClaim'
  BY <1>c, <1>1 DEF ClaimHeld, PlanKeepsClaim
<1>3. JobAlone' /\ MadeIsThere'
  BY <1>c, <1>1 DEF JobAlone, MadeIsThere, Works, Building
<1>4. AutoPlanOncePerDay'
  BY <1>c, <1>1 DEF AutoPlanOncePerDay, SameClaim
<1>5. ClaimHasCause'
  BY <1>c, <1>1 DEF ClaimHasCause, Works
<1> QED
  BY <1>2, <1>3, <1>4, <1>5 DEF ClaimInv

LEMMA ClaimAlertClaim ==
    ASSUME Typed, ClaimInv, NEW w \in Workers, NEW a \in Alerts, ClaimAlert(w, a), w \in Jobs
    PROVE  ClaimInv'
<1>r. TypeOK
  BY DEF Typed
<1>1. a \notin claims /\ claims' = claims \cup {a} /\ pc[w] = "idle"
  BY DEF ClaimAlert, Eligible
<1>2. \A v \in Jobs : /\ v # w => pc'[v] = pc[v] /\ cur'[v] = cur[v] /\ made'[v] = made[v]
                      /\ v = w => pc'[v] = "begun" /\ cur'[v] = a
  BY <1>r, JobsWork DEF ClaimAlert, TypeOK
<1>3. \A v \in Jobs : Works(v)' <=> v = w \/ Works(v)
  BY <1>2 DEF Works, Building
<1>4. UNCHANGED <<plan, judged, orphaned, unclaimed>>
  BY DEF ClaimAlert, history
<1>5. \A i \in Plans : (ByJob(i)' <=> ByJob(i)) /\ (IsOpen(i)' <=> IsOpen(i))
  BY <1>4 DEF ByJob, IsOpen
<1>c. ClaimHeld /\ PlanKeepsClaim /\ JobAlone /\ MadeIsThere /\ AutoPlanOncePerDay /\ ClaimHasCause
  BY DEF ClaimInv
<1>6. ~Works(w)
  BY <1>1 DEF Works, Building
<1>7. ClaimHeld'
  BY <1>c, <1>1, <1>2, <1>3 DEF ClaimHeld
<1>8. PlanKeepsClaim'
  BY <1>c, <1>1, <1>2, <1>3, <1>4, <1>5 DEF PlanKeepsClaim
<1>9. JobAlone' /\ MadeIsThere'
  BY <1>c, <1>2, <1>4, <1>5 DEF JobAlone, MadeIsThere
<1>10. AutoPlanOncePerDay'
  BY <1>c, <1>4, <1>5 DEF AutoPlanOncePerDay, SameClaim
<1>11. ClaimHasCause'
  BY <1>c, <1>1, <1>2, <1>3, <1>4, <1>5, <1>6 DEF ClaimHasCause, Works
<1> QED
  BY <1>7, <1>8, <1>9, <1>10, <1>11 DEF ClaimInv

LEMMA CommitClaim ==
    ASSUME Typed, ClaimInv, NEW w \in Workers, NEW i \in Plans, CommitPlan(w, i)
    PROVE  ClaimInv'
<1>r. TypeOK /\ BuildFits
  BY DEF Typed
<1>c. ClaimHeld /\ PlanKeepsClaim /\ JobAlone /\ MadeIsThere /\ AutoPlanOncePerDay /\ ClaimHasCause
  BY DEF ClaimInv
<1>1. \A j \in Plans :
          /\ j = i => plan'[j].status = "open" /\ plan'[j].alert = cur[w] /\ plan'[j].by = w
          /\ j # i => plan'[j] = plan[j]
  BY <1>r DEF CommitPlan, TypeOK
<1>2. \A v \in Jobs : /\ v # w => pc'[v] = pc[v] /\ made'[v] = made[v]
                      /\ v = w => pc'[v] = "made" /\ made'[v] = {i}
  BY <1>r, JobsWork DEF CommitPlan, TypeOK
<1>3. pc[w] = "checked" /\ made[w] = {} /\ ~ByJob(i)
  BY <1>r, JobsWork, WorkersAssumption DEF CommitPlan, BuildFits, ByJob, NoPlan
<1>4. UNCHANGED <<claims, cur, judged, orphaned, unclaimed>>
  BY DEF CommitPlan, history
<1>5. \A v \in Jobs : Works(v)' <=> Works(v)
  BY <1>2, <1>3 DEF Works, Building
<1>6. \A j \in Plans : j # i => (ByJob(j)' <=> ByJob(j)) /\ (IsOpen(j)' <=> IsOpen(j))
  BY <1>1 DEF ByJob, IsOpen
<1>7. (ByJob(i)' <=> w \in Jobs) /\ (w \in Jobs => Works(w))
  BY <1>1, <1>3 DEF ByJob, Works, Building
<1>8. ClaimHeld'
  BY <1>c, <1>4, <1>5 DEF ClaimHeld
<1>9. \A j \in Plans : w \in Jobs /\ j # i /\ ByJob(j) /\ plan[j].alert = cur[w] =>
          j \in unclaimed /\ ~IsOpen(j)
  BY <1>c, <1>3, <1>7 DEF PlanKeepsClaim, JobAlone
<1>10. PlanKeepsClaim'
  <2>1. ASSUME NEW j \in Plans, j # i, ByJob(j), j \notin unclaimed
        PROVE  /\ plan[j].alert \in claims
               /\ \A v \in Jobs : Works(v) /\ cur[v] = plan[j].alert => made'[v] = {j}
    BY <1>c, <1>2, <1>9, <2>1 DEF PlanKeepsClaim
  <2>2. w \in Jobs => cur[w] \in claims /\ \A v \in Jobs : Works(v) /\ cur[v] = cur[w] => v = w
    BY <1>c, <1>7 DEF ClaimHeld
  <2> QED
    BY <1>1, <1>2, <1>4, <1>5, <1>6, <1>7, <2>1, <2>2 DEF PlanKeepsClaim
<1>11. JobAlone'
  <2>1. ASSUME NEW v \in Jobs, v # w, pc[v] = "checked", w \in Jobs PROVE cur[v] # cur[w]
    BY <1>c, <1>7, <2>1 DEF ClaimHeld, Works, Building
  <2> QED
    BY <1>c, <1>1, <1>2, <1>4, <1>6, <1>7, <2>1 DEF JobAlone
<1>12. MadeIsThere'
  BY <1>c, <1>1, <1>2, <1>4, <1>6, <1>7, <1>3 DEF MadeIsThere
<1>13. AutoPlanOncePerDay'
  BY <1>c, <1>1, <1>4, <1>6, <1>7, <1>9 DEF AutoPlanOncePerDay, SameClaim
<1>14. ClaimHasCause'
  BY <1>c, <1>1, <1>3, <1>4, <1>5, <1>6 DEF ClaimHasCause, Works
<1> QED
  BY <1>8, <1>10, <1>11, <1>12, <1>13, <1>14 DEF ClaimInv

(* Only the job has rows to go through.                                     *)
RowsOfJobs == \A w \in Workers : todo[w] # {} => w \in Jobs

LEMMA RowsStep == ASSUME TypeOK, RowsOfJobs, [Next]_vars PROVE RowsOfJobs'
<1> USE DEF RowsOfJobs, TypeOK
<1>1. ASSUME NEW w \in Workers, LoadRows(w) PROVE RowsOfJobs'
  BY <1>1 DEF LoadRows
<1>2. ASSUME NEW w \in Workers, NEW a \in Alerts,
             PassOver(w, a) \/ GateBlocks(w, a) \/ ClaimAlert(w, a) \/ Ask(w, a)
      PROVE  RowsOfJobs'
  BY <1>2 DEF PassOver, GateBlocks, ClaimAlert, Ask, Drops, rows
<1>3. ASSUME NEW w \in Workers, Build(w) \/ Fails(w) PROVE RowsOfJobs'
  BY <1>3 DEF Build, TakeLock, CheckUnderLock, CommitPlan, Finish, Fails, Answers, rows
<1>4. ASSUME NEW p \in Processes, ProcessEnds(p) PROVE RowsOfJobs'
  BY <1>4 DEF ProcessEnds
<1>5. ASSUME NEW i \in Plans, ExecutePlan(i) \/ DropPlan(i) PROVE RowsOfJobs'
  BY <1>5 DEF ExecutePlan, DropPlan, rows
<1>6. CASE UNCHANGED vars
  BY <1>6 DEF vars, rows
<1> QED
  BY <1>1, <1>2, <1>3, <1>4, <1>5, <1>6 DEF Next

LEMMA ProcessEndsClaim ==
    ASSUME Typed, ClaimInv, NEW p \in Processes, ProcessEnds(p) PROVE ClaimInv'
<1>r. TypeOK
  BY DEF Typed
<1>c. ClaimHeld /\ PlanKeepsClaim /\ JobAlone /\ MadeIsThere /\ AutoPlanOncePerDay /\ ClaimHasCause
  BY DEF ClaimInv
<1>1. \A w \in Jobs : /\ Home[w] # p => pc'[w] = pc[w] /\ cur'[w] = cur[w] /\ made'[w] = made[w]
                      /\ Home[w] = p => pc'[w] = "idle"
  BY JobsWork DEF ProcessEnds
<1>2. \A w \in Jobs : Works(w)' <=> Home[w] # p /\ Works(w)
  BY <1>1 DEF Works, Building
<1>3. \A w \in Jobs : Home[w] = p /\ Works(w) => cur[w] \in orphaned'
  BY JobsWork DEF ProcessEnds, Works
<1>4. UNCHANGED <<plan, claims, judged, unclaimed>> /\ orphaned \subseteq orphaned'
  BY DEF ProcessEnds, database
<1>5. \A i \in Plans : (ByJob(i)' <=> ByJob(i)) /\ (IsOpen(i)' <=> IsOpen(i))
  BY <1>4 DEF ByJob, IsOpen
<1>6. ClaimHeld' /\ PlanKeepsClaim'
  BY <1>c, <1>1, <1>2, <1>4, <1>5 DEF ClaimHeld, PlanKeepsClaim
<1>7. JobAlone' /\ MadeIsThere'
  BY <1>c, <1>1, <1>4, <1>5 DEF JobAlone, MadeIsThere
<1>8. AutoPlanOncePerDay'
  BY <1>c, <1>4, <1>5 DEF AutoPlanOncePerDay, SameClaim
<1>9. ClaimHasCause'
  BY <1>c, <1>1, <1>2, <1>3, <1>4, <1>5 DEF ClaimHasCause, Works
<1> QED
  BY <1>6, <1>7, <1>8, <1>9 DEF ClaimInv

LEMMA ClaimStep == ASSUME Typed, RowsOfJobs, ClaimInv, [Next]_vars PROVE ClaimInv'
<1>r. TypeOK /\ BuildFits
  BY DEF Typed
<1>c. ClaimHeld /\ PlanKeepsClaim /\ JobAlone /\ MadeIsThere /\ AutoPlanOncePerDay /\ ClaimHasCause
  BY DEF ClaimInv
<1> USE DEF Building
<1>1. ASSUME NEW w \in Workers, NEW a \in Alerts, PassOver(w, a) PROVE ClaimInv'
  BY <1>1, ClaimUntouched DEF PassOver, database, locals, history, Works
<1>2. ASSUME NEW w \in Workers, NEW a \in Alerts, GateBlocks(w, a) PROVE ClaimInv'
  BY <1>2, ClaimUntouched DEF GateBlocks, locals, Works
<1>3. ASSUME NEW w \in Workers, NEW a \in Alerts, ClaimAlert(w, a) PROVE ClaimInv'
  <2>1. w \in Jobs
    BY <1>3 DEF ClaimAlert, Eligible, RowsOfJobs
  <2> QED
    BY <1>3, <2>1, ClaimAlertClaim
<1>4. ASSUME NEW w \in Workers, NEW a \in Alerts, Ask(w, a) PROVE ClaimInv'
  <2>1. \A v \in Jobs : pc'[v] = pc[v] /\ cur'[v] = cur[v] /\ made'[v] = made[v]
    BY <1>4, <1>r, WorkersAssumption, JobsWork DEF Ask, TypeOK
  <2> QED
    BY <1>4, <2>1, ClaimUntouched DEF Ask, database, history, Works
<1>5. ASSUME NEW w \in Workers, TakeLock(w) PROVE ClaimInv'
  <2>1. CASE /\ pc' = [pc EXCEPT ![w] = "locked"]
             /\ UNCHANGED <<database, cur, amount, made, rows, history>>
    <3>1. \A v \in Jobs : cur'[v] = cur[v] /\ made'[v] = made[v]
                            /\ pc'[v] = IF v = w THEN "locked" ELSE pc[v]
      BY <1>r, <2>1, JobsWork DEF TypeOK
    <3> QED
      BY <1>5, <2>1, <3>1, ClaimUntouched DEF TakeLock, database, history, Works
  <2>2. ASSUME NEW reason, Answers(w, reason) PROVE ClaimInv'
    BY <1>5, <2>2, AnswersClaim DEF TakeLock
  <2> QED
    BY <1>5, <2>1, <2>2 DEF TakeLock
<1>6. ASSUME NEW w \in Workers, CheckUnderLock(w) PROVE ClaimInv'
  <2>1. CASE /\ ~HasOpen(cur[w])
             /\ pc' = [pc EXCEPT ![w] = "checked"]
             /\ UNCHANGED <<database, lock, cur, made, rows, history>>
    <3>1. \A v \in Jobs : cur'[v] = cur[v] /\ made'[v] = made[v]
                            /\ pc'[v] = IF v = w THEN "checked" ELSE pc[v]
      BY <1>r, <2>1, JobsWork DEF TypeOK
    <3>2. \A v \in Jobs : Works(v)' <=> Works(v)
      BY <1>6, <3>1 DEF CheckUnderLock, Works
    <3>3. UNCHANGED <<plan, claims, judged, orphaned, unclaimed>>
      BY <2>1 DEF database, history
    <3>4. \A i \in Plans : (ByJob(i)' <=> ByJob(i)) /\ (IsOpen(i)' <=> IsOpen(i))
      BY <3>3 DEF ByJob, IsOpen
    <3>5. JobAlone'
      BY <1>c, <2>1, <3>1, <3>3, <3>4 DEF JobAlone, HasOpen, IsOpen
    <3>6. ClaimHeld' /\ PlanKeepsClaim' /\ MadeIsThere'
      BY <1>c, <3>1, <3>2, <3>3, <3>4 DEF ClaimHeld, PlanKeepsClaim, MadeIsThere
    <3>7. AutoPlanOncePerDay'
      BY <1>c, <3>3, <3>4 DEF AutoPlanOncePerDay, SameClaim
    <3>8. ClaimHasCause'
      BY <1>c, <3>1, <3>2, <3>3, <3>4 DEF ClaimHasCause, Works
    <3> QED
      BY <3>5, <3>6, <3>7, <3>8 DEF ClaimInv
  <2>2. ASSUME NEW reason, Answers(w, reason) PROVE ClaimInv'
    BY <1>6, <2>2, AnswersClaim DEF CheckUnderLock
  <2> QED
    BY <1>6, <2>1, <2>2 DEF CheckUnderLock
<1>7. ASSUME NEW w \in Workers, NEW i \in Plans, CommitPlan(w, i) PROVE ClaimInv'
  BY <1>7, CommitClaim
<1>8. ASSUME NEW w \in Workers, Finish(w) PROVE ClaimInv'
  <2>1. Leaves(w) /\ UNCHANGED <<plan, claims, judged, orphaned, unclaimed>> /\ pc[w] = "made"
    BY <1>8 DEF Finish, database, history
  <2>2. w \in Jobs => cur[w] \in claims
    BY <1>c, <2>1 DEF ClaimHeld, Works
  <2>3. w \in Jobs => \E i \in Plans : ByJob(i) /\ plan[i].alert = cur[w]
    BY <1>c, <2>1 DEF MadeIsThere
  <2> QED
    BY <2>1, <2>2, <2>3, StopsWorking
<1>9. ASSUME NEW w \in Workers, Fails(w) PROVE ClaimInv'
  <2>1. Leaves(w) /\ UNCHANGED <<plan, judged, orphaned>> /\ pc[w] \in Building
          /\ unclaimed' = unclaimed \cup made[w]
    BY <1>9 DEF Fails
  <2>2. claims' = IF w \in Jobs THEN claims \ {cur[w]} ELSE claims
    BY <1>9 DEF Fails
  <2>3. w \in Clicks => claims' = claims
    BY <2>2, WorkersAssumption
  <2> QED
    BY <2>1, <2>2, <2>3, StopsWorking
<1>10. ASSUME NEW p \in Processes, ProcessEnds(p) PROVE ClaimInv'
  BY <1>10, ProcessEndsClaim
<1>11. ASSUME NEW i \in Plans, ExecutePlan(i) \/ DropPlan(i) PROVE ClaimInv'
  <2>1. \A j \in Plans : (ByJob(j)' <=> ByJob(j)) /\ (IsOpen(j)' => IsOpen(j))
                           /\ plan'[j].alert = plan[j].alert
    BY <1>11, Closing DEF ByJob, IsOpen
  <2>2. UNCHANGED <<claims, pc, cur, made, judged, orphaned, unclaimed>>
    BY <1>11, Closing DEF locals, history
  <2>3. \A v \in Jobs : Works(v)' <=> Works(v)
    BY <2>2 DEF Works
  <2>4. ClaimHeld' /\ PlanKeepsClaim'
    BY <1>c, <2>1, <2>2, <2>3 DEF ClaimHeld, PlanKeepsClaim
  <2>5. JobAlone' /\ MadeIsThere'
    BY <1>c, <2>1, <2>2 DEF JobAlone, MadeIsThere
  <2>6. AutoPlanOncePerDay'
    BY <1>c, <2>1, <2>2 DEF AutoPlanOncePerDay, SameClaim
  <2>7. ClaimHasCause'
    BY <1>c, <2>1, <2>2 DEF ClaimHasCause
  <2> QED
    BY <2>4, <2>5, <2>6, <2>7 DEF ClaimInv
<1>12. CASE UNCHANGED vars
  BY <1>12, ClaimUntouched DEF vars, database, locals, history, Works
<1>13. ASSUME NEW w \in Workers, LoadRows(w) PROVE ClaimInv'
  BY <1>13, ClaimUntouched DEF LoadRows, database, locals, history, Works
<1> QED
  BY <1>1, <1>2, <1>3, <1>4, <1>5, <1>6, <1>7, <1>8, <1>9, <1>10, <1>11, <1>12, <1>13
  DEF Next, Build

LEMMA ClaimInvariance == Spec => [](RowsOfJobs /\ ClaimInv)
<1>1. Init => RowsOfJobs
  BY DEF Init, RowsOfJobs
<1>2. Typed /\ RowsOfJobs /\ ClaimInv /\ [Next]_vars => (RowsOfJobs /\ ClaimInv)'
  BY RowsStep, ClaimStep DEF Typed
<1> QED
  BY <1>1, <1>2, ClaimInit, TypedInvariance, PTL DEF Spec

\* The claim in the database makes the job's plan of an alert the only one of
\* the day, in any number of processes, but for an exception after the commit;
\* and two of them never wait together.
THEOREM OnePlanPerClaim == Spec => []AutoPlanOncePerDay
<1>1. ClaimInv => AutoPlanOncePerDay
  BY DEF ClaimInv
<1> QED
  BY <1>1, ClaimInvariance, PTL

\* An alert is never kept from its evaluation by a claim nobody has a reason to
\* hold.
THEOREM ClaimAccountedFor == Spec => []ClaimHasCause
<1>1. ClaimInv => ClaimHasCause
  BY DEF ClaimInv
<1> QED
  BY <1>1, ClaimInvariance, PTL

-----------------------------------------------------------------------------
(* What the lock and the comparison with the cap give.                      *)

(* The plans of a process that count for the day, and what they are worth.  *)
Counted == {"open", "executed"}
Moved(p) == {i \in Plans : plan[i].status \in Counted /\ Home[plan[i].by] = p}
Worth == [i \in Plans |-> plan[i].value]
Spent(p) == Sum(Worth, Moved(p))

(* Only so many plans have come to be.                                      *)
FewPlans == IsFiniteSet({i \in Plans : plan[i] # NoPlan})

(* No process has spent more than the cap, and a worker that has compared   *)
(* has the room it needs for as long as it holds the lock.                  *)
WithinEach == \A p \in Processes : Spent(p) <= Cap
RoomLeft == \A w \in Workers : pc[w] = "checked" => Spent(Home[w]) + amount[w] <= Cap

CapInv == FewPlans /\ WithinEach /\ RoomLeft

LEMMA SumIsWorth ==
    ASSUME NEW S, S \subseteq Plans
    PROVE  SumToday(S) = Sum(Worth, {i \in S : plan[i].status \in Counted})
<1> DEFINE T == {i \in S : plan[i].status \in Counted}
           G(g) == g = [s \in SUBSET T |-> IF s = {} THEN 0 ELSE plan[One(s)].value + g[s \ {One(s)}]]
<1>1. SumToday(S) = MapThenSumSet(LAMBDA i : plan[i].value, T)
  BY DEF SumToday, Counted
<1>2. MapThenSumSet(LAMBDA i : plan[i].value, T) = (CHOOSE g : G(g))[T]
  BY DEF MapThenSumSet, MapThenFoldSet, One
<1>3. ASSUME NEW s \in SUBSET T, s # {} PROVE Worth[One(s)] = plan[One(s)].value
  BY <1>3, OneIsIn DEF Worth
<1>4. \A g : G(g) <=> Unrolls(Worth, T, g)
  BY <1>3 DEF Unrolls
<1> HIDE DEF G, T
<1>5. (CHOOSE g : G(g)) = (CHOOSE g : Unrolls(Worth, T, g))
  BY <1>4, Zenon
<1> QED
  BY <1>1, <1>2, <1>5, SumUnfolded DEF T

LEMMA CapMeansSpent == WithinEach => CapPerProcess
<1> SUFFICES ASSUME WithinEach, NEW p \in Processes
             PROVE  SumToday({i \in Plans : plan[i] # NoPlan /\ Home[plan[i].by] = p}) <= Cap
  BY DEF CapPerProcess
<1> DEFINE S == {i \in Plans : plan[i] # NoPlan /\ Home[plan[i].by] = p}
<1>1. {i \in S : plan[i].status \in Counted} = Moved(p)
  BY DEF Moved, Counted, NoPlan
<1>2. SumToday(S) = Spent(p)
  BY <1>1, SumIsWorth DEF Spent
<1> QED
  BY <1>2 DEF WithinEach

(* What counts for the day, all of it or that of a process, is a finite sum. *)
LEMMA CountedValued ==
    ASSUME Typed, FewPlans, NEW S, S \subseteq {i \in Plans : plan[i].status \in Counted}
    PROVE  Valued(Worth, S)
<1>1. S \subseteq {i \in Plans : plan[i] # NoPlan}
  BY DEF Counted, NoPlan
<1>2. IsFiniteSet(S)
  BY <1>1, FS_Subset DEF FewPlans
<1>3. \A i \in S : Worth[i] \in Nat
  BY DEF Worth, Typed, TypeOK, PlanRows, NoPlan
<1> QED
  BY <1>2, <1>3 DEF Valued

LEMMA SpentTyped == ASSUME Typed, FewPlans, NEW p PROVE Spent(p) \in Nat
<1>1. Valued(Worth, Moved(p))
  BY CountedValued DEF Moved
<1> QED
  BY <1>1, SumTyped DEF Spent

(* A new amount fits in every process if it fits in the day.                *)
LEMMA RoomForAll ==
    ASSUME Typed, FewPlans, NEW v \in Nat, WithinCap(v), NEW p
    PROVE  Spent(p) + v <= Cap
<1> DEFINE S == {i \in Plans : plan[i].status \in Counted}
<1>1. Valued(Worth, S) /\ Moved(p) \subseteq S
  BY CountedValued DEF Moved
<1>2. Spent(p) <= Sum(Worth, S)
  BY <1>1, SumGrows DEF Spent
<1>3. Sum(Worth, S) + v <= Cap
  BY SumIsWorth DEF WithinCap
<1>4. Spent(p) \in Nat /\ Sum(Worth, S) \in Nat
  BY <1>1, SpentTyped, SumTyped
<1> HIDE DEF S
<1> QED
  BY <1>2, <1>3, <1>4, BoundsAssumption

(* Steps that leave the plans alone.                                        *)
LEMMA CapUntouched ==
    ASSUME CapInv, UNCHANGED plan,
           \A v \in Workers : pc'[v] = "checked" => Spent(Home[v]) + amount'[v] <= Cap
    PROVE  CapInv'
<1>1. FewPlans'
  BY DEF CapInv, FewPlans
<1>2. \A p : Spent(p)' = Spent(p)
  BY DEF Spent, Moved, Worth
<1>3. WithinEach'
  BY <1>2 DEF CapInv, WithinEach
<1>4. RoomLeft'
  BY <1>2 DEF RoomLeft
<1> QED
  BY <1>1, <1>3, <1>4 DEF CapInv

(* Steps after which less of the plans counts.                              *)
LEMMA CapShrinks ==
    ASSUME Typed, CapInv, UNCHANGED <<pc, amount>>,
           \A i \in Plans : /\ plan[i] = NoPlan => plan'[i] = NoPlan
                            /\ plan'[i].value = plan[i].value /\ plan'[i].by = plan[i].by
                            /\ plan'[i].status \in Counted => plan[i].status \in Counted
    PROVE  CapInv'
<1>1. FewPlans'
  <2>1. {i \in Plans : plan'[i] # NoPlan} \subseteq {i \in Plans : plan[i] # NoPlan}
    OBVIOUS
  <2> QED
    BY <2>1, FS_Subset DEF CapInv, FewPlans
<1>2. ASSUME NEW p PROVE Spent(p)' <= Spent(p) /\ Spent(p) \in Nat /\ Spent(p)' \in Nat
  <2> DEFINE S == Moved(p)
             T == Moved(p)'
  <2>1. T \subseteq S
    BY DEF Moved
  <2>2. Valued(Worth, S) /\ Valued(Worth, T)
    BY <2>1, CountedValued DEF Moved, CapInv
  <2>3. Sum(Worth', T) = Sum(Worth, T)
    <3>1. \A i \in T : Worth'[i] = Worth[i]
      BY DEF Moved, Worth
    <3> QED
      BY <2>2, <3>1, SumAgrees DEF Valued
  <2>4. Sum(Worth, T) <= Sum(Worth, S) /\ Sum(Worth, T) \in Nat /\ Sum(Worth, S) \in Nat
    BY <2>1, <2>2, SumGrows, SumTyped
  <2>5. Spent(p)' = Sum(Worth', T) /\ Spent(p) = Sum(Worth, S)
    BY DEF Spent
  <2> QED
    BY <2>3, <2>4, <2>5
<1>3. WithinEach'
  BY <1>2, BoundsAssumption DEF CapInv, WithinEach
<1>4. RoomLeft'
  <2> SUFFICES ASSUME NEW w \in Workers, pc[w] = "checked" PROVE Spent(Home[w])' + amount[w] <= Cap
    BY DEF RoomLeft
  <2>1. Spent(Home[w]) + amount[w] <= Cap /\ amount[w] \in Nat
    BY DEF CapInv, RoomLeft, Typed, TypeOK
  <2>2. Spent(Home[w])' <= Spent(Home[w]) /\ Spent(Home[w]) \in Nat /\ Spent(Home[w])' \in Nat
    BY <1>2
  <2> QED
    BY <2>1, <2>2, BoundsAssumption
<1> QED
  BY <1>1, <1>3, <1>4 DEF CapInv

LEMMA CommitCap ==
    ASSUME Typed, LockHeld, CapInv, NEW w \in Workers, NEW i \in Plans, CommitPlan(w, i)
    PROVE  CapInv'
<1>r. TypeOK
  BY DEF Typed
<1>c. FewPlans /\ WithinEach /\ RoomLeft
  BY DEF CapInv
<1> DEFINE h == Home[w]
<1>1. /\ plan[i] = NoPlan /\ pc[w] = "checked" /\ UNCHANGED amount
      /\ pc' = [pc EXCEPT ![w] = "made"]
  BY DEF CommitPlan
<1>2. /\ plan'[i].status = "open" /\ plan'[i].by = w /\ plan'[i].value = amount[w]
      /\ \A j \in Plans \ {i} : plan'[j] = plan[j]
  BY <1>r DEF CommitPlan, TypeOK
<1>3. FewPlans'
  <2>1. {j \in Plans : plan'[j] # NoPlan} \subseteq {j \in Plans : plan[j] # NoPlan} \cup {i}
    BY <1>2
  <2>2. IsFiniteSet({j \in Plans : plan[j] # NoPlan} \cup {i})
    BY <1>c, FS_AddElement DEF FewPlans
  <2> QED
    BY <2>1, <2>2, FS_Subset DEF FewPlans
<1>4. ASSUME NEW p PROVE i \notin Moved(p) /\ Valued(Worth, Moved(p))
  BY <1>1, <1>c, CountedValued DEF Moved, NoPlan, Counted
<1>5. ASSUME NEW p PROVE Sum(Worth', Moved(p)) = Spent(p)
  <2>1. \A j \in Moved(p) : Worth'[j] = Worth[j]
    BY <1>2, <1>4 DEF Moved, Worth
  <2> QED
    BY <1>4, <2>1, SumAgrees DEF Valued, Spent
<1>6. ASSUME NEW p, p # h PROVE Spent(p)' = Spent(p)
  <2>1. Moved(p)' = Moved(p)
    BY <1>2, <1>4, <1>6 DEF Moved
  <2> QED
    BY <1>5, <2>1 DEF Spent
<1>7. Spent(h)' = amount[w] + Spent(h)
  <2>1. Moved(h)' = Moved(h) \cup {i}
    BY <1>2 DEF Moved, Counted
  <2> DEFINE S == Moved(h) \cup {i}
  <2>2. Valued(Worth', S)
    <3>1. IsFiniteSet(S)
      BY <1>4, FS_AddElement DEF Valued
    <3>2. \A j \in S : Worth'[j] \in Nat
      BY <1>r, <1>2, <1>4 DEF Valued, TypeOK, Moved, Worth
    <3> QED
      BY <3>1, <3>2 DEF Valued
  <2>3. S \ {i} = Moved(h)
    BY <1>4
  <2>4. Sum(Worth', S) = amount[w] + Sum(Worth', S \ {i})
    <3>1. Worth'[i] = amount[w]
      BY <1>2 DEF Worth
    <3> QED
      BY <2>2, <3>1, SumSplits
  <2> HIDE DEF S
  <2>5. Spent(h)' = Sum(Worth', S)
    BY <2>1 DEF Spent, S
  <2> QED
    BY <1>2, <1>5, <2>3, <2>4, <2>5
<1>8. Spent(h) + amount[w] <= Cap /\ Spent(h) \in Nat /\ amount[w] \in Nat
  BY <1>r, <1>c, <1>1, SpentTyped DEF RoomLeft, TypeOK
<1>9. WithinEach'
  <2> SUFFICES ASSUME NEW p \in Processes PROVE Spent(p)' <= Cap
    BY DEF WithinEach
  <2>1. CASE p = h
    BY <2>1, <1>7, <1>8
  <2>2. CASE p # h
    BY <2>2, <1>c, <1>6 DEF WithinEach
  <2> QED
    BY <2>1, <2>2
<1>10. RoomLeft'
  <2> SUFFICES ASSUME NEW v \in Workers, pc'[v] = "checked" PROVE Spent(Home[v])' + amount[v] <= Cap
    BY <1>1 DEF RoomLeft
  <2>1. pc[v] = "checked" /\ Home[v] # h
    BY <1>r, <1>1 DEF LockHeld, TypeOK
  <2> QED
    BY <1>c, <1>6, <2>1 DEF RoomLeft
<1> QED
  BY <1>3, <1>9, <1>10 DEF CapInv

LEMMA CapInit == Init => CapInv
<1> SUFFICES ASSUME Init PROVE CapInv
  OBVIOUS
<1>1. {i \in Plans : plan[i] # NoPlan} = {} /\ \A p : Moved(p) = {}
  BY DEF Init, Moved, NoPlan, Counted
<1>2. FewPlans
  BY <1>1, FS_EmptySet DEF FewPlans
<1>3. \A p : Spent(p) = 0
  BY <1>1, SumUnrolled, FS_EmptySet DEF Spent
<1>4. WithinEach /\ RoomLeft
  BY <1>3, BoundsAssumption DEF WithinEach, RoomLeft, Init
<1> QED
  BY <1>2, <1>4 DEF CapInv

LEMMA CapStep == ASSUME Typed, LockHeld, CapInv, [Next]_vars PROVE CapInv'
<1>r. TypeOK /\ BuildFits
  BY DEF Typed
<1>c. FewPlans /\ WithinEach /\ RoomLeft
  BY DEF CapInv
<1> USE DEF Building
<1>0. ASSUME UNCHANGED plan,
             \A v \in Workers : pc'[v] = "checked" => pc[v] = "checked" /\ amount'[v] = amount[v]
      PROVE  CapInv'
  <2>1. \A v \in Workers : pc'[v] = "checked" => Spent(Home[v]) + amount'[v] <= Cap
    BY <1>c, <1>0 DEF RoomLeft
  <2> QED
    BY <1>0, <2>1, CapUntouched
<1>1. ASSUME NEW w \in Workers, Leaves(w), UNCHANGED plan PROVE CapInv'
  <2>1. \A v \in Workers : pc'[v] = "checked" => pc[v] = "checked" /\ amount'[v] = amount[v]
    BY <1>1, <1>r DEF Leaves, TypeOK
  <2> QED
    BY <1>0, <1>1, <2>1
<1>2. ASSUME NEW w \in Workers, NEW reason, Answers(w, reason) PROVE CapInv'
  BY <1>1, <1>2 DEF Answers
<1>3. ASSUME NEW w \in Workers, TakeLock(w) PROVE CapInv'
  <2>1. CASE pc' = [pc EXCEPT ![w] = "locked"] /\ UNCHANGED <<plan, amount>>
    BY <1>0, <1>r, <2>1 DEF TypeOK
  <2> QED
    BY <1>2, <1>3, <2>1 DEF TakeLock, database
<1>4. ASSUME NEW w \in Workers, CheckUnderLock(w) PROVE CapInv'
  <2>1. ASSUME NEW v \in Values[cur[w]], WithinCap(v), pc' = [pc EXCEPT ![w] = "checked"],
               amount' = [amount EXCEPT ![w] = v], UNCHANGED plan
        PROVE  CapInv'
    <3>1. v \in Nat
      BY <1>4, <1>r, <2>1, BoundsAssumption DEF CheckUnderLock, BuildFits
    <3>2. Spent(Home[w]) + v <= Cap
      BY <1>c, <2>1, <3>1, RoomForAll
    <3>3. \A u \in Workers : pc'[u] = "checked" => Spent(Home[u]) + amount'[u] <= Cap
      BY <1>r, <1>c, <2>1, <3>2 DEF RoomLeft, TypeOK
    <3> QED
      BY <2>1, <3>3, CapUntouched
  <2> QED
    BY <1>2, <1>4, <2>1 DEF CheckUnderLock, database
<1>5. ASSUME NEW w \in Workers, NEW i \in Plans, CommitPlan(w, i) PROVE CapInv'
  BY <1>5, CommitCap
<1>6. ASSUME NEW w \in Workers, Finish(w) \/ Fails(w) PROVE CapInv'
  BY <1>1, <1>6 DEF Finish, Fails, database
<1>7. ASSUME NEW w \in Workers, NEW a \in Alerts, PassOver(w, a) \/ GateBlocks(w, a)
      PROVE  CapInv'
  BY <1>0, <1>7 DEF PassOver, GateBlocks, locals, database
<1>8. ASSUME NEW w \in Workers, NEW a \in Alerts, ClaimAlert(w, a) \/ Ask(w, a)
      PROVE  CapInv'
  BY <1>0, <1>8, <1>r DEF ClaimAlert, Eligible, Ask, TypeOK, database
<1>9. ASSUME NEW p \in Processes, ProcessEnds(p) PROVE CapInv'
  BY <1>0, <1>9 DEF ProcessEnds, database
<1>10. ASSUME NEW i \in Plans, ExecutePlan(i) \/ DropPlan(i) PROVE CapInv'
  <2>1. \A j \in Plans : /\ plan[j] = NoPlan => plan'[j] = NoPlan
                         /\ plan'[j].by = plan[j].by
    BY <1>10, Closing
  <2>2. UNCHANGED <<pc, amount>>
    BY <1>10 DEF ExecutePlan, DropPlan, locals
  <2>3. \A j \in Plans : /\ plan'[j].value = plan[j].value
                         /\ plan'[j].status \in Counted => plan[j].status \in Counted
    <3>1. /\ plan[i].status = "open"
          /\ \E st \in {"executed", "dead"} : plan' = [plan EXCEPT ![i].status = st]
      BY <1>10 DEF ExecutePlan, DropPlan
    <3>2. plan[i] \in PlanRows
      BY <1>r, <3>1 DEF TypeOK, NoPlan
    <3> QED
      BY <1>r, <3>1, <3>2 DEF TypeOK, PlanRows, Counted
  <2> QED
    BY <2>1, <2>2, <2>3, CapShrinks
<1>11. CASE UNCHANGED vars
  BY <1>0, <1>11 DEF vars, locals, database
<1>12. ASSUME NEW w \in Workers, LoadRows(w) PROVE CapInv'
  BY <1>0, <1>12 DEF LoadRows, locals, database
<1> QED
  BY <1>3, <1>4, <1>5, <1>6, <1>7, <1>8, <1>9, <1>10, <1>11, <1>12 DEF Next, Build

LEMMA CapInvariance == Spec => [](Typed /\ CapInv)
<1>1. Typed /\ OpenInv /\ [Next]_vars => OpenInv'
  BY LockStep, OpenStep DEF OpenInv
<1>2. Typed /\ OpenInv /\ CapInv /\ [Next]_vars => CapInv'
  BY CapStep DEF OpenInv
<1> QED
  BY <1>1, <1>2, OpenInit, CapInit, TypedInvariance, PTL DEF Spec

\* What the plans of one process may move in a day stays within the cap, for
\* any number of workers that build at once and plans that come and go.
THEOREM CapKept == Spec => []CapPerProcess
<1>1. CapInv => CapPerProcess
  BY CapMeansSpent DEF CapInv
<1> QED
  BY <1>1, CapInvariance, PTL

\* The overlap of two processes can double the cap of the user and no more
\* (the comment on the lock in build_pending_plan_for_alert).
THEOREM DoubledAtMost ==
    ASSUME NEW p, NEW q, Processes = {p, q} PROVE Spec => [](SumToday(Plans) <= 2 * Cap)
<1>1. ASSUME Typed, CapInv PROVE SumToday(Plans) <= 2 * Cap
  <2> DEFINE S == Moved(p)
             T == Moved(q) \ Moved(p)
  <2>1. {i \in Plans : plan[i].status \in Counted} = S \cup T
    <3>1. ASSUME NEW i \in Plans, plan[i].status \in Counted PROVE Home[plan[i].by] \in Processes
      <4>1. plan[i] \in PlanRows
        BY <1>1, <3>1 DEF Typed, TypeOK, Counted, NoPlan
      <4> QED
        BY <4>1, AtHome DEF PlanRows
    <3> QED
      BY <3>1 DEF Moved
  <2>2. Valued(Worth, S \cup T) /\ Valued(Worth, Moved(q))
    BY <1>1, <2>1, CountedValued DEF CapInv, Moved
  <2>3. SumToday(Plans) = Sum(Worth, S) + Sum(Worth, T)
    BY <2>1, <2>2, SumIsWorth, SumJoins
  <2>4. Sum(Worth, T) <= Sum(Worth, Moved(q))
    BY <2>2, SumGrows
  <2>5. Sum(Worth, S) <= Cap /\ Sum(Worth, Moved(q)) <= Cap
    BY <1>1 DEF CapInv, WithinEach, Spent
  <2>6. Sum(Worth, S) \in Nat /\ Sum(Worth, T) \in Nat /\ Sum(Worth, Moved(q)) \in Nat
    BY <2>2, FS_Subset, SumTyped DEF Valued
  <2> HIDE DEF S, T
  <2> QED
    BY <2>3, <2>4, <2>5, <2>6, BoundsAssumption
<1> QED
  BY <1>1, CapInvariance, PTL
=============================================================================
