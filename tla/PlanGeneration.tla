--------------------------- MODULE PlanGeneration ---------------------------
(***************************************************************************)
(* Who may create a plan: jobs/rebalancing_auto_execution.py, the one-click *)
(* services/rebalancing/quick_execute_service.py, and what both share,      *)
(* build_pending_plan_for_alert.                                            *)
(*                                                                          *)
(* Jobs and clicks run in processes; a deployment overlaps two of them.     *)
(* The lock per user lives in one process, the claim per alert and day in   *)
(* the database.  All alerts belong to one user and trade one account.  A   *)
(* step ends where the code awaits something another session can change.    *)
(* A job reads its rows once: `seen` and `waiting` are what it remembers.   *)
(* The sections under the lock are a few queries; the 60 s of its TTL are   *)
(* taken to be enough for them.                                             *)
(***************************************************************************)
EXTENDS Integers, FiniteSetsExt

CONSTANTS
    Processes,
    Jobs,            \* runs of the AUTO job, at most one at a time per process
    Clicks,          \* "execute now" requests
    Home,            \* worker -> process
    Alerts,
    OncePerDay,      \* alerts without auto_execution_time
    Plans,           \* names for the plans that may come to be
    Values,          \* alert -> what the orders of its plans may be worth
    Cap,             \* auto_rebalancing_daily_value_cap_krw
    MaxFaults,       \* bound: exceptions and ends of processes
    Free, None

Workers == Jobs \cup Clicks

ASSUME WorkersAssumption ==
    /\ Jobs \cap Clicks = {}
    /\ Home \in [Workers -> Processes]
    /\ Free \notin Workers
    /\ OncePerDay \subseteq Alerts
    /\ None \notin Alerts
ASSUME BoundsAssumption ==
    /\ Values \in [Alerts -> SUBSET (Nat \ {0})]
    /\ Cap \in Nat
    /\ MaxFaults \in Nat

VARIABLES
    plan,       \* plan name -> its row, with who made it under which claim
    fired,      \* alerts whose last_triggered_at is of today
    claims,     \* alerts whose claim of today is taken
    lock,       \* process -> holder of rebalancing_plan_gen:{user}
    pc, cur, amount, made,   \* locals of a worker
    todo, seen, waiting,               \* the rows a job has read
    faults,
    judged,     \* history: alerts done for the day after an evaluation without a plan
    orphaned,   \* history: claims whose process ended before it was done
    unclaimed   \* history: plans whose commit was followed by an exception

database == <<plan, fired, claims>>
locals == <<pc, cur, amount, made>>
rows == <<todo, seen, waiting>>
history == <<faults, judged, orphaned, unclaimed>>
vars == <<database, lock, locals, rows, history>>

Statuses == {"open", "executed", "dead"}
NoPlan == [status |-> "none", alert |-> None, by |-> Free, value |-> 0]
PlanRows == [status : Statuses, alert : Alerts, by : Workers, value : Nat]

\* A worker between the checks of its caller and its plan.
Building == {"begun", "locked", "checked", "made"}

TypeOK ==
    /\ plan \in [Plans -> PlanRows \cup {NoPlan}]
    /\ fired \subseteq Alerts
    /\ claims \subseteq Alerts
    /\ lock \in [Processes -> Workers \cup {Free}]
    /\ pc \in [Workers -> {"idle"} \cup Building]
    /\ cur \in [Workers -> Alerts \cup {None}]
    /\ amount \in [Workers -> Nat]
    /\ made \in [Workers -> SUBSET Plans]
    /\ todo \in [Workers -> SUBSET Alerts]
    /\ seen \in [Workers -> SUBSET Alerts]
    /\ waiting \in [Workers -> SUBSET Alerts]
    /\ faults \in 0..MaxFaults
    /\ judged \subseteq OncePerDay
    /\ orphaned \subseteq Alerts
    /\ unclaimed \subseteq Plans

Init ==
    /\ plan = [i \in Plans |-> NoPlan]
    /\ fired = {}
    /\ claims = {}
    /\ lock = [p \in Processes |-> Free]
    /\ pc = [w \in Workers |-> "idle"]
    /\ cur = [w \in Workers |-> None]
    /\ amount = [w \in Workers |-> 0]
    /\ made = [w \in Workers |-> {}]
    /\ todo = [w \in Workers |-> {}]
    /\ seen = [w \in Workers |-> {}]
    /\ waiting = [w \in Workers |-> {}]
    /\ faults = 0
    /\ judged = {}
    /\ orphaned = {}
    /\ unclaimed = {}

-----------------------------------------------------------------------------
\* has_pending_plan_for_alert
HasOpen(a) == \E i \in Plans : plan[i].status = "open" /\ plan[i].alert = a

\* sum_today_auto_plan_value_krw, of some plans: what moved or may move money.
SumToday(S) ==
    MapThenSumSet(LAMBDA i : plan[i].value,
                  {i \in S : plan[i].status \in {"open", "executed"}})

\* Leaving build_pending_plan_for_alert gives the lock back if it is held.
Unlocked(w) == [p \in Processes |-> IF lock[p] = w THEN Free ELSE lock[p]]

\* The worker is done with its alert: a job goes on, a click is answered.
Leaves(w) ==
    /\ pc' = [pc EXCEPT ![w] = "idle"]
    /\ cur' = [cur EXCEPT ![w] = None]
    /\ amount' = [amount EXCEPT ![w] = 0]
    /\ made' = [made EXCEPT ![w] = {}]
    /\ lock' = Unlocked(w)

\* What _load_auto_alert_rows returns now for the alerts left.
Rereads(w) == seen' = [seen EXCEPT ![w] = fired \cap todo[w]]

\* The loop goes on without the row of this alert.
Drops(w, a) ==
    /\ todo' = [todo EXCEPT ![w] = @ \ {a}]
    /\ seen' = [seen EXCEPT ![w] = @ \ {a}]
    /\ waiting' = [waiting EXCEPT ![w] = @ \ {a}]

-----------------------------------------------------------------------------
(* The job up to the claim.                                                 *)

\* _run_auto_execution: the rows and the alerts with a pending plan, once.
LoadRows(w) ==
    /\ w \in Jobs
    /\ pc[w] = "idle"
    /\ todo[w] = {}
    /\ todo' = [todo EXCEPT ![w] = Alerts]
    /\ seen' = [seen EXCEPT ![w] = fired]
    /\ waiting' = [waiting EXCEPT ![w] = {a \in Alerts : HasOpen(a)}]
    /\ UNCHANGED <<database, lock, locals, history>>

\* Not its time, not its schedule day, its market closed, fired today by the
\* row in memory, pending by the set read at the start, or claimed already.
PassOver(w, a) ==
    /\ pc[w] = "idle"
    /\ a \in todo[w]
    /\ Drops(w, a)
    /\ UNCHANGED <<database, lock, locals, history>>

\* _process_one_alert before the market gate.
Eligible(w, a) ==
    /\ pc[w] = "idle"
    /\ a \in todo[w]
    /\ a \notin seen[w]
    /\ a \in OncePerDay => a \notin claims

\* The market gate blocks: an alert without a time is done for the day.
GateBlocks(w, a) ==
    /\ Eligible(w, a)
    /\ Drops(w, a)
    /\ claims' = claims \cup ({a} \cap OncePerDay)
    /\ judged' = judged \cup ({a} \cap OncePerDay)
    /\ UNCHANGED <<plan, fired, lock, locals, faults, orphaned, unclaimed>>

\* Mutant: the claim is set without looking at who has it.
MutantClaimAlert(w, a) ==
    /\ Eligible(w, a)
    /\ a \notin waiting[w]
    /\ Drops(w, a)
    /\ claims' = claims \cup {a}
    /\ pc' = [pc EXCEPT ![w] = "begun"]
    /\ cur' = [cur EXCEPT ![w] = a]
    /\ UNCHANGED <<plan, fired, lock, amount, made, history>>

\* claim_durable lets one worker through; the others pass the alert over.
ClaimAlert(w, a) ==
    /\ Eligible(w, a)
    /\ a \notin waiting[w]
    /\ a \notin claims
    /\ Drops(w, a)
    /\ claims' = claims \cup {a}
    /\ pc' = [pc EXCEPT ![w] = "begun"]
    /\ cur' = [cur EXCEPT ![w] = a]
    /\ UNCHANGED <<plan, fired, lock, amount, made, history>>

\* quick_execute_plan up to build_pending_plan_for_alert; a click answered
\* before that changes nothing.
Ask(w, a) ==
    /\ w \in Clicks
    /\ pc[w] = "idle"
    /\ ~HasOpen(a)
    /\ pc' = [pc EXCEPT ![w] = "begun"]
    /\ cur' = [cur EXCEPT ![w] = a]
    /\ UNCHANGED <<database, lock, amount, made, rows, history>>

-----------------------------------------------------------------------------
(* build_pending_plan_for_alert, and what the caller does with its answer.  *)

\* The reasons not to build; the first group is no evaluation of the alert.
Postponed == {"busy", "noRate", "syncRequired"}
Judged == {"tooStale", "noDrift", "taxGate", "capReached"}
Unbuilt == {"noRate", "syncRequired", "tooStale", "noDrift", "taxGate"}

\* Does the job take the answer for the evaluation of the day?
Counts(w, reason) == w \in Jobs /\ cur[w] \in OncePerDay /\ reason \in Judged

\* Mutant: so does a postponed evaluation.
MutantAnswers(w, reason) ==
    /\ Leaves(w)
    /\ claims' = IF w \in Jobs /\ cur[w] \notin OncePerDay THEN claims \ {cur[w]} ELSE claims
    /\ judged' = IF Counts(w, reason) THEN judged \cup {cur[w]} ELSE judged
    /\ UNCHANGED <<plan, fired, rows, faults, orphaned, unclaimed>>

\* No plan: the claim stays only where the evaluation counts for the day.
Answers(w, reason) ==
    /\ Leaves(w)
    /\ claims' = IF w \in Jobs /\ ~Counts(w, reason) THEN claims \ {cur[w]} ELSE claims
    /\ judged' = IF Counts(w, reason) THEN judged \cup {cur[w]} ELSE judged
    /\ UNCHANGED <<plan, fired, rows, faults, orphaned, unclaimed>>

\* Exchange rate, freshness of the snapshots (whose age only matters to the
\* job), analysis and tax gate, any of which may end the build, then the lock
\* of the user in this process.
TakeLock(w) ==
    /\ pc[w] = "begun"
    /\ \/ \E reason \in Unbuilt : (reason = "tooStale" => w \in Jobs) /\ Answers(w, reason)
       \/ lock[Home[w]] # Free /\ Answers(w, "busy")
       \/ /\ lock[Home[w]] = Free
          /\ lock' = [lock EXCEPT ![Home[w]] = w]
          /\ pc' = [pc EXCEPT ![w] = "locked"]
          /\ UNCHANGED <<database, cur, amount, made, rows, history>>

\* Mutant: today's plans are left out of the comparison.
MutantWithinCap(v) == v <= Cap

\* is_daily_value_cap_blocking_auto_mode
WithinCap(v) == SumToday(Plans) + v <= Cap

\* Mutant: the pending plan was looked for before the lock, and not again.
MutantCheckUnderLock(w) ==
    /\ pc[w] = "locked"
    /\ \/ Answers(w, "noDrift")
       \/ \E v \in Values[cur[w]] :
             \/ ~WithinCap(v) /\ Answers(w, "capReached")
             \/ /\ WithinCap(v)
                /\ pc' = [pc EXCEPT ![w] = "checked"]
                /\ amount' = [amount EXCEPT ![w] = v]
                /\ UNCHANGED <<database, lock, cur, made, rows, history>>

\* Under the lock the pending plan is looked for again, the orders are built
\* and their value is compared with what the day has left
\* (_check_daily_value_cap).  What another process commits between the two
\* queries could only make the second one refuse.
CheckUnderLock(w) ==
    /\ pc[w] = "locked"
    /\ \/ HasOpen(cur[w]) /\ Answers(w, "busy")
       \/ ~HasOpen(cur[w]) /\ Answers(w, "noDrift")
       \/ /\ ~HasOpen(cur[w])
          /\ \E v \in Values[cur[w]] :
                \/ ~WithinCap(v) /\ Answers(w, "capReached")
                \/ /\ WithinCap(v)
                   /\ pc' = [pc EXCEPT ![w] = "checked"]
                   /\ amount' = [amount EXCEPT ![w] = v]
                   /\ UNCHANGED <<database, lock, cur, made, rows, history>>

\* generate_pending_plan_for_alert: plan, legs and last_triggered_at commit
\* together.
CommitPlan(w, i) ==
    /\ pc[w] = "checked"
    /\ plan[i] = NoPlan
    /\ plan' = [plan EXCEPT ![i] = [status |-> "open", alert |-> cur[w], by |-> w,
                                    value |-> amount[w]]]
    /\ fired' = fired \cup {cur[w]}
    /\ pc' = [pc EXCEPT ![w] = "made"]
    /\ made' = [made EXCEPT ![w] = {i}]
    /\ UNCHANGED <<claims, lock, cur, amount, rows, history>>

\* The plan is announced; the claim stays.  If the announcement fails the loop
\* reads the remaining rows again.
Finish(w) ==
    /\ pc[w] = "made"
    /\ Leaves(w)
    /\ \/ UNCHANGED seen
       \/ w \in Jobs /\ Rereads(w)
    /\ UNCHANGED <<database, todo, waiting, history>>

-----------------------------------------------------------------------------
(* Faults.                                                                  *)

\* An exception inside build_pending_plan_for_alert, before or after the
\* commit of the plan: the job gives the claim back and reads the remaining
\* rows again, but not the set of pending alerts.
Fails(w) ==
    /\ pc[w] \in Building
    /\ faults < MaxFaults
    /\ faults' = faults + 1
    /\ Leaves(w)
    /\ IF w \in Jobs
       THEN claims' = claims \ {cur[w]} /\ Rereads(w)
       ELSE UNCHANGED <<claims, seen>>
    /\ unclaimed' = unclaimed \cup made[w]
    /\ UNCHANGED <<plan, fired, todo, waiting, judged, orphaned>>

\* A process ends: its lock and its workers are gone, the rows stay.
ProcessEnds(p) ==
    /\ faults < MaxFaults
    /\ faults' = faults + 1
    /\ LET gone == {w \in Workers : Home[w] = p}
           left(f, v) == [w \in Workers |-> IF w \in gone THEN v ELSE f[w]]
       IN /\ \E w \in gone : pc[w] # "idle" \/ todo[w] # {}
          /\ pc' = left(pc, "idle")
          /\ cur' = left(cur, None)
          /\ amount' = left(amount, 0)
          /\ made' = left(made, {})
          /\ todo' = left(todo, {})
          /\ seen' = left(seen, {})
          /\ waiting' = left(waiting, {})
          /\ orphaned' = orphaned \cup {cur[w] : w \in {u \in gone \cap Jobs : pc[u] \in Building}}
    /\ lock' = [lock EXCEPT ![p] = Free]
    /\ UNCHANGED <<database, judged, unclaimed>>

-----------------------------------------------------------------------------
(* What happens to plans, accounts and days meanwhile.                      *)

\* Orders of the plan were accepted (_execute_leg).
ExecutePlan(i) ==
    /\ plan[i].status = "open"
    /\ plan' = [plan EXCEPT ![i].status = "executed"]
    /\ UNCHANGED <<fired, claims, lock, locals, rows, history>>

\* Declined, expired or failed.  (A leg the sweep calls failed while its
\* execution goes on is recorded as executed later, see PlanExecution; its
\* return into the sum is left out here.)
DropPlan(i) ==
    /\ plan[i].status = "open"
    /\ plan' = [plan EXCEPT ![i].status = "dead"]
    /\ UNCHANGED <<fired, claims, lock, locals, rows, history>>

-----------------------------------------------------------------------------
Build(w) ==
    \/ TakeLock(w)
    \/ CheckUnderLock(w)
    \/ \E i \in Plans : CommitPlan(w, i)
    \/ Finish(w)

Next ==
    \/ \E w \in Workers :
          \/ LoadRows(w)
          \/ Build(w)
          \/ Fails(w)
          \/ \E a \in Alerts :
                PassOver(w, a) \/ GateBlocks(w, a) \/ ClaimAlert(w, a) \/ Ask(w, a)
    \/ \E p \in Processes : ProcessEnds(p)
    \/ \E i \in Plans : ExecutePlan(i) \/ DropPlan(i)

Spec == Init /\ [][Next]_vars

-----------------------------------------------------------------------------
IsOpen(i) == plan[i].status = "open"
ByJob(i) == plan[i].by \in Jobs
SameClaim(i, j) ==
    /\ ByJob(i) /\ ByJob(j)
    /\ plan[i].alert = plan[j].alert

\* Two plans of one alert wait at the same time only if two processes made
\* them: within a process the job and a click on the same alert exclude each
\* other, although both looked for a pending plan long before they build one
\* (build_pending_plan_for_alert, the check under the lock).
OpenPlanPerProcess ==
    \A i, j \in Plans :
        i # j /\ IsOpen(i) /\ IsOpen(j) /\ plan[i].alert = plan[j].alert =>
            Home[plan[i].by] # Home[plan[j].by]

\* The job makes one plan per alert and claimed day, in however many
\* processes it runs and however old the rows are that it has in memory,
\* unless an exception followed the commit of one of them; even then they do
\* not wait at the same time (_process_one_alert, claim_durable).
AutoPlanOncePerDay ==
    \A i, j \in Plans : i # j /\ SameClaim(i, j) =>
        {i, j} \cap unclaimed # {} /\ ~(IsOpen(i) /\ IsOpen(j))

\* What the plans of one process may move in a day stays within the cap, also
\* when its job and a click build plans of two alerts at once.  The overlap of
\* two processes can double it and no more (the comment on the lock in
\* build_pending_plan_for_alert).
CapPerProcess ==
    \A p \in Processes :
        SumToday({i \in Plans : plan[i] # NoPlan /\ Home[plan[i].by] = p}) <= Cap

\* A claim keeps an alert from being evaluated again that day only for a
\* reason: a job works under it, its plan was made, the evaluation was finished
\* for an alert without an execution time, or the process of the job ended.
\* Answers that are no evaluation give it back (_process_one_alert).
ClaimHasCause ==
    \A a \in claims :
        \/ \E w \in Jobs : pc[w] \in Building /\ cur[w] = a
        \/ \E i \in Plans : ByJob(i) /\ plan[i].alert = a
        \/ a \in judged \cup orphaned
=============================================================================
