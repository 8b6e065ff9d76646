--------------------------- MODULE PlanExecution ---------------------------
(***************************************************************************)
(* The life of the legs of an AUTO rebalancing plan: how a leg is created, *)
(* claimed, executed, declined, expired or swept by the actors that share  *)
(* the table rebalancing_plan_legs:                                        *)
(*                                                                         *)
(*   Planners  the AUTO job and "run now", which commit a new plan         *)
(*   Users     HTTP requests: approve, decline, switch the automation off  *)
(*   Ticks     the one-minute job that executes due BUY legs               *)
(*   Sweeps    the 15-minute job that fails stuck legs, then expires SELLs *)
(*                                                                         *)
(* Every actor is one database session.  A step of the model is the code   *)
(* between two points where another actor can run: a commit, a wait for a  *)
(* row lock (SELECT ... FOR UPDATE) or a call to the broker.  Row locks    *)
(* are held until the session commits, rolls back or ends.                 *)
(*                                                                         *)
(* Time is two monotone facts about a leg, not a clock: deadline_at        *)
(* has passed (due) and token_consumed_at is older than STUCK_LEG_TIMEOUT *)
(* (aged).  Market hours and market signal change at will, so what a tick  *)
(* reads of them is an input of its step.                                  *)
(***************************************************************************)
EXTENDS Naturals, FiniteSets

CONSTANTS
    BuyLegs,          \* legs with side = "BUY"
    SellLegs,         \* legs with side = "SELL"
    Users, Ticks, Sweeps, Planners,
    Free,             \* the holder of a row lock nobody holds
    NoLeg,            \* the leg of a session that is not working on one
    MaxLegs,          \* bound: legs that plans commit, of those of the instance
    MaxFaults,        \* bound: sessions that crash or whose transaction fails
    SlowExecution,    \* may an execution outlast STUCK_LEG_TIMEOUT?
    PlanOverlapsOff   \* may a plan be built while the automation is switched off?

Legs == BuyLegs \cup SellLegs
Workers == Users \cup Ticks \cup Sweeps \cup Planners

ASSUME LegsAssumption ==
    /\ BuyLegs \cap SellLegs = {}
    /\ NoLeg \notin Legs
ASSUME WorkersAssumption ==
    /\ Free \notin Workers
    /\ Users \cap Ticks = {} /\ Users \cap Sweeps = {} /\ Users \cap Planners = {}
    /\ Ticks \cap Sweeps = {} /\ Ticks \cap Planners = {}
    /\ Sweeps \cap Planners = {}
ASSUME BoundsAssumption ==
    /\ MaxLegs \in Nat
    /\ MaxFaults \in Nat
    /\ SlowExecution \in BOOLEAN
    /\ PlanOverlapsOff \in BOOLEAN

VARIABLES
    \* the database rows
    status,     \* leg -> RebalancingPlanLeg.status, "NONE" before the insert
    consumed,   \* legs whose token_consumed_at is set
    recorded,   \* legs whose execution_id is set
    note,       \* leg -> the kind of text in error_message
    lock,       \* leg -> session holding its row lock
    alert,      \* the alert: mode "AUTO", mode "NOTIFY", or "NONE" once deleted
    \* the sessions
    pc,         \* session -> where it stands
    cur,        \* session -> the leg it works on
    todo,       \* session -> ids it selected and has still to visit
    gateSeen,   \* session -> the gate level a tick read once, at its start
    history,    \* session -> was the execution history saved (execution_id)?
    target,     \* session -> what a switch-off turns the alert into
    \* the broker
    sent,       \* leg -> how often its orders went to execute_rebalancing
    filled,     \* legs with at least one order reported as accepted (SUCCESS)
    \* time
    due, aged,
    faults

rows == <<status, consumed, recorded, note>>
sessions == <<pc, cur, todo, gateSeen, history, target>>
broker == <<sent, filled>>
clock == <<due, aged>>
vars == <<rows, lock, alert, sessions, broker, clock, faults>>

-----------------------------------------------------------------------------
Terminal == {"EXECUTED", "CANCELED", "REJECTED", "EXPIRED", "FAILED"}
Declined == {"CANCELED", "REJECTED", "EXPIRED"}
Statuses == {"NONE", "PENDING"} \cup Terminal
Notes == {"none", "reason", "HISTORY_MISSING", "STUCK"}

\* Program points after a claim: the session alone decides what happens next.
Claiming == {"declining", "claimed", "exec", "failing", "record"}
Points == {"idle", "approve", "decline", "off", "tick", "stuck", "expire",
           "planning"} \cup Claiming

TypeOK ==
    /\ status \in [Legs -> Statuses]
    /\ consumed \in SUBSET Legs
    /\ recorded \in SUBSET Legs
    /\ note \in [Legs -> Notes]
    /\ lock \in [Legs -> Workers \cup {Free}]
    /\ alert \in {"AUTO", "NOTIFY", "NONE"}
    /\ pc \in [Workers -> Points]
    /\ cur \in [Workers -> Legs \cup {NoLeg}]
    /\ \A w \in Workers : pc[w] \in Claiming \cup {"approve", "decline"} => cur[w] \in Legs
    /\ todo \in [Workers -> SUBSET Legs]
    /\ gateSeen \in [Workers -> BOOLEAN]
    /\ history \in [Workers -> BOOLEAN]
    /\ target \in [Workers -> {"NOTIFY", "NONE"}]
    /\ sent \in [Legs -> Nat]
    /\ filled \in SUBSET Legs
    /\ due \in SUBSET Legs
    /\ aged \in SUBSET Legs
    /\ faults \in 0..MaxFaults

Init ==
    /\ status = [l \in Legs |-> "NONE"]
    /\ consumed = {}
    /\ recorded = {}
    /\ note = [l \in Legs |-> "none"]
    /\ lock = [l \in Legs |-> Free]
    /\ alert = "AUTO"
    /\ pc = [w \in Workers |-> "idle"]
    /\ cur = [w \in Workers |-> NoLeg]
    /\ todo = [w \in Workers |-> {}]
    /\ gateSeen = [w \in Workers |-> FALSE]
    /\ history = [w \in Workers |-> FALSE]
    /\ target = [w \in Workers |-> "NONE"]
    /\ sent = [l \in Legs |-> 0]
    /\ filled = {}
    /\ due = {}
    /\ aged = {}
    /\ faults = 0

-----------------------------------------------------------------------------
\* Mutant: the token is not checked under the lock.
MutantClaimable(l) == status[l] = "PENDING"

\* The check made under the row lock by every path that decides a fresh leg.
Claimable(l) == status[l] = "PENDING" /\ l \notin consumed

\* The row locks after session w commits, rolls back or ends.
Released(w) == [l \in Legs |-> IF lock[l] = w THEN Free ELSE lock[l]]

\* A session moves to p, on leg l, with the ids S still to visit.  An idle
\* session has forgotten what it read.
Goto(w, p, l, S) ==
    /\ pc' = [pc EXCEPT ![w] = p]
    /\ cur' = [cur EXCEPT ![w] = l]
    /\ todo' = [todo EXCEPT ![w] = S]
    /\ gateSeen' = [gateSeen EXCEPT ![w] = @ /\ p # "idle"]
    /\ target' = [target EXCEPT ![w] = IF p = "idle" THEN "NONE" ELSE @]

\* Mutant: a tick that has recorded a leg does not move on.
MutantAfterLeg(w) == IF w \in Ticks THEN pc[w] ELSE "idle"

\* Where a session goes on after the leg it executed.
AfterLeg(w) == IF w \in Ticks THEN "tick" ELSE "idle"

Executing(l) == \E w \in Workers : pc[w] \in Claiming /\ cur[w] = l

-----------------------------------------------------------------------------
(* Plan generation: only what the legs see of it.  The alert and the        *)
(* absence of a PENDING leg are read first; the plan, its legs and          *)
(* alert.last_triggered_at are committed later.                             *)

Committed == {l \in Legs : status[l] # "NONE"}

BeginPlan(p) ==
    /\ pc[p] = "idle"
    /\ alert # "NONE"
    /\ \A l \in Legs : status[l] # "PENDING"
    /\ \E l \in Legs : status[l] = "NONE"     \* bound: the legs of the instance
    /\ Cardinality(Committed) < MaxLegs
    /\ PlanOverlapsOff \/ \A u \in Users : pc[u] # "off"
    /\ Goto(p, "planning", NoLeg, {})
    /\ UNCHANGED <<rows, lock, alert, history, broker, clock, faults>>

CommitPlan(p, S) ==
    /\ pc[p] = "planning"
    /\ alert # "NONE"
    /\ S # {}
    /\ \A l \in S : status[l] = "NONE"
    /\ Cardinality(Committed \cup S) <= MaxLegs
    /\ status' = [l \in Legs |-> IF l \in S THEN "PENDING" ELSE status[l]]
    /\ Goto(p, "idle", NoLeg, {})
    /\ UNCHANGED <<consumed, recorded, note, lock, alert, history, broker, clock, faults>>

\* No drift, a gate, or the UPDATE of a deleted alert: nothing is inserted.
AbandonPlan(p) ==
    /\ pc[p] = "planning"
    /\ Goto(p, "idle", NoLeg, {})
    /\ UNCHANGED <<rows, lock, alert, history, broker, clock, faults>>

-----------------------------------------------------------------------------
(* Requests on one leg.                                                     *)

RequestApproval(u, l) ==
    /\ pc[u] = "idle"
    /\ status[l] # "NONE"
    /\ Goto(u, "approve", l, {})
    /\ UNCHANGED <<rows, lock, alert, history, broker, clock, faults>>

RequestDecline(u, l) ==
    /\ pc[u] = "idle"
    /\ status[l] # "NONE"
    /\ Goto(u, "decline", l, {})
    /\ UNCHANGED <<rows, lock, alert, history, broker, clock, faults>>

\* Mutant: no populate_existing, so the check sees what was read before the lock.
MutantLockAndClaim(u) ==
    LET l == cur[u] IN
    /\ pc[u] \in {"approve", "decline"}
    /\ lock[l] = Free
    /\ consumed' = consumed \cup {l}
    /\ Goto(u, IF pc[u] = "approve" THEN "claimed" ELSE "declining", l, {})
    /\ UNCHANGED <<status, recorded, note, lock, alert, history, broker, clock, faults>>

\* _lock_and_claim: the lock is taken, checked and released by the commit.
LockAndClaim(u) ==
    LET l == cur[u] IN
    /\ pc[u] \in {"approve", "decline"}
    /\ lock[l] = Free
    /\ Claimable(l)
    /\ consumed' = consumed \cup {l}
    /\ Goto(u, IF pc[u] = "approve" THEN "claimed" ELSE "declining", l, {})
    /\ UNCHANGED <<status, recorded, note, lock, alert, history, broker, clock, faults>>

ClaimConflict(u) ==
    /\ pc[u] \in {"approve", "decline"}
    /\ lock[cur[u]] = Free
    /\ ~Claimable(cur[u])
    /\ Goto(u, "idle", NoLeg, {})
    /\ UNCHANGED <<rows, lock, alert, history, broker, clock, faults>>

\* _decline_leg, second transaction.
DeclineLeg(u) ==
    LET l == cur[u] IN
    /\ pc[u] = "declining"
    /\ lock[l] = Free
    /\ status' = [status EXCEPT ![l] = IF l \in BuyLegs THEN "CANCELED" ELSE "REJECTED"]
    /\ Goto(u, "idle", NoLeg, {})
    /\ UNCHANGED <<consumed, recorded, note, lock, alert, history, broker, clock, faults>>

PastDeadline(l) == l \in SellLegs \cap due

\* _approve_leg_now on a SELL leg whose market has closed.
ApproveTooLate(u) ==
    LET l == cur[u] IN
    /\ pc[u] = "claimed"
    /\ PastDeadline(l)
    /\ lock[l] = Free
    /\ status' = [status EXCEPT ![l] = "EXPIRED"]
    /\ Goto(u, "idle", NoLeg, {})
    /\ UNCHANGED <<consumed, recorded, note, lock, alert, history, broker, clock, faults>>

ApproveInTime(u) ==
    /\ pc[u] = "claimed"
    /\ ~PastDeadline(cur[u])
    /\ Goto(u, "exec", cur[u], {})
    /\ UNCHANGED <<rows, lock, alert, history, broker, clock, faults>>

-----------------------------------------------------------------------------
(* _execute_leg, on behalf of a request or of a tick.  None of its steps    *)
(* looks at the status again: the claim is its only protection.             *)

\* _rebuild_orders_from_items raises: no order has been sent.
RebuildFails(w) ==
    /\ pc[w] = "exec"
    /\ Goto(w, "failing", cur[w], todo[w])
    /\ UNCHANGED <<rows, lock, alert, history, broker, clock, faults>>

\* execute_rebalancing returns: some order was accepted or none was (fills),
\* and the history was saved or its failure swallowed (saved).
SendOrders(w, fills, saved) ==
    LET l == cur[w] IN
    /\ pc[w] = "exec"
    /\ sent' = [sent EXCEPT ![l] = @ + 1]
    /\ filled' = IF fills THEN filled \cup {l} ELSE filled
    /\ history' = [history EXCEPT ![w] = saved]
    /\ Goto(w, "record", l, todo[w])
    /\ UNCHANGED <<rows, lock, alert, clock, faults>>

\* Mutant: a lost history leaves no message.
MutantRecordExecuted(w) ==
    LET l == cur[w] IN
    /\ pc[w] = "record"
    /\ l \in filled
    /\ lock[l] = Free
    /\ status' = [status EXCEPT ![l] = "EXECUTED"]
    /\ recorded' = IF history[w] THEN recorded \cup {l} ELSE recorded \ {l}
    /\ history' = [history EXCEPT ![w] = FALSE]
    /\ Goto(w, AfterLeg(w), NoLeg, todo[w])
    /\ UNCHANGED <<consumed, note, lock, alert, broker, clock, faults>>

\* The row an execution leaves behind.  A saved history leaves error_message
\* as it stands, a lost one asks the user to look at the broker's app.
RecordExecuted(w) ==
    LET l == cur[w] IN
    /\ pc[w] = "record"
    /\ l \in filled
    /\ lock[l] = Free
    /\ status' = [status EXCEPT ![l] = "EXECUTED"]
    /\ recorded' = IF history[w] THEN recorded \cup {l} ELSE recorded \ {l}
    /\ note' = [note EXCEPT ![l] = IF history[w] THEN @ ELSE "HISTORY_MISSING"]
    /\ history' = [history EXCEPT ![w] = FALSE]
    /\ Goto(w, AfterLeg(w), NoLeg, todo[w])
    /\ UNCHANGED <<consumed, lock, alert, broker, clock, faults>>

\* _fail_leg_without_fills: every order was refused or skipped.
RecordNoFill(w) ==
    LET l == cur[w] IN
    /\ pc[w] = "record"
    /\ l \notin filled
    /\ lock[l] = Free
    /\ status' = [status EXCEPT ![l] = "FAILED"]
    /\ recorded' = IF history[w] THEN recorded \cup {l} ELSE recorded \ {l}
    /\ note' = [note EXCEPT ![l] = "reason"]
    /\ history' = [history EXCEPT ![w] = FALSE]
    /\ Goto(w, AfterLeg(w), NoLeg, todo[w])
    /\ UNCHANGED <<consumed, lock, alert, broker, clock, faults>>

\* The exception path, after its rollback.
RecordFailure(w) ==
    LET l == cur[w] IN
    /\ pc[w] = "failing"
    /\ lock[l] = Free
    /\ status' = [status EXCEPT ![l] = "FAILED"]
    /\ note' = [note EXCEPT ![l] = "reason"]
    /\ Goto(w, AfterLeg(w), NoLeg, todo[w])
    /\ UNCHANGED <<consumed, recorded, lock, alert, history, broker, clock, faults>>

-----------------------------------------------------------------------------
(* The one-minute job.  One session visits all due BUY legs; a visit that   *)
(* changes nothing does not end the transaction, so its row lock stays.     *)

\* The query has no token filter: consumed legs are selected too.
DueBuys == {l \in BuyLegs : status[l] = "PENDING" /\ l \in due}

\* The confirmed signal level is read once for the whole tick.
StartTick(t, gate) ==
    /\ pc[t] = "idle"
    /\ DueBuys # {}
    /\ pc' = [pc EXCEPT ![t] = "tick"]
    /\ todo' = [todo EXCEPT ![t] = DueBuys]
    /\ gateSeen' = [gateSeen EXCEPT ![t] = gate]
    /\ UNCHANGED <<rows, lock, alert, cur, history, target, broker, clock, faults>>

\* Session t stands before leg l and gets its row lock.
Visits(t, l) ==
    /\ pc[t] = "tick"
    /\ l \in todo[t]
    /\ lock[l] \in {Free, t}

\* A deleted alert gates nothing: is_alert_blocked_by_market_gate(None, ...).
Blocked(t) == gateSeen[t] /\ alert # "NONE"

TickSkipsDecided(t, l) ==
    /\ Visits(t, l)
    /\ ~Claimable(l)
    /\ lock' = [lock EXCEPT ![l] = t]
    /\ Goto(t, "tick", NoLeg, todo[t] \ {l})
    /\ UNCHANGED <<rows, alert, history, broker, clock, faults>>

\* The market of the leg is closed at this moment: the leg does not carry over.
TickExpires(t, l) ==
    /\ Visits(t, l)
    /\ Claimable(l)
    /\ status' = [status EXCEPT ![l] = "EXPIRED"]
    /\ note' = [note EXCEPT ![l] = "reason"]
    /\ lock' = Released(t)
    /\ Goto(t, "tick", NoLeg, todo[t] \ {l})
    /\ UNCHANGED <<consumed, recorded, alert, history, broker, clock, faults>>

\* The market is open and the signal blocks: the leg waits for the next tick.
TickHolds(t, l) ==
    /\ Visits(t, l)
    /\ Claimable(l)
    /\ Blocked(t)
    /\ lock' = [lock EXCEPT ![l] = t]
    /\ Goto(t, "tick", NoLeg, todo[t] \ {l})
    /\ UNCHANGED <<rows, alert, history, broker, clock, faults>>

\* Mutant: the leg is executed before its token is consumed.
MutantTickClaims(t, l) ==
    /\ Visits(t, l)
    /\ Claimable(l)
    /\ ~Blocked(t)
    /\ lock' = Released(t)
    /\ Goto(t, "exec", l, todo[t] \ {l})
    /\ UNCHANGED <<rows, alert, history, broker, clock, faults>>

TickClaims(t, l) ==
    /\ Visits(t, l)
    /\ Claimable(l)
    /\ ~Blocked(t)
    /\ consumed' = consumed \cup {l}
    /\ lock' = Released(t)
    /\ Goto(t, "exec", l, todo[t] \ {l})
    /\ UNCHANGED <<status, recorded, note, alert, history, broker, clock, faults>>

\* Mutant: the session of a finished tick stays open.
MutantEndTick(t) ==
    /\ pc[t] = "tick"
    /\ todo[t] = {}
    /\ Goto(t, "idle", NoLeg, {})
    /\ UNCHANGED <<rows, lock, alert, history, broker, clock, faults>>

\* The session is closed: what it still holds is released.
EndTick(t) ==
    /\ pc[t] = "tick"
    /\ todo[t] = {}
    /\ lock' = Released(t)
    /\ Goto(t, "idle", NoLeg, {})
    /\ UNCHANGED <<rows, alert, history, broker, clock, faults>>

-----------------------------------------------------------------------------
(* cancel_pending_buy_legs and the transaction around it: the waiting BUY   *)
(* legs are read, locked one after another and canceled together with the   *)
(* change of the alert.                                                     *)

\* Mutant: only the legs whose wait is over are canceled.
MutantWaitingBuys == {l \in BuyLegs : Claimable(l) /\ l \in due}

WaitingBuys == {l \in BuyLegs : Claimable(l)}

\* The alert is deleted (new = "NONE") or leaves mode AUTO (new = "NOTIFY").
BeginOff(u, new) ==
    /\ pc[u] = "idle"
    /\ alert = "AUTO" \/ (alert = "NOTIFY" /\ new = "NONE")
    /\ PlanOverlapsOff \/ \A p \in Planners : pc[p] # "planning"
    /\ pc' = [pc EXCEPT ![u] = "off"]
    /\ todo' = [todo EXCEPT ![u] = WaitingBuys]
    /\ target' = [target EXCEPT ![u] = new]
    /\ UNCHANGED <<rows, lock, alert, cur, gateSeen, history, broker, clock, faults>>

OffLocks(u, l) ==
    /\ pc[u] = "off"
    /\ l \in todo[u]
    /\ lock[l] = Free
    /\ lock' = [lock EXCEPT ![l] = u]
    /\ Goto(u, "off", NoLeg, todo[u] \ {l})
    /\ UNCHANGED <<rows, alert, history, broker, clock, faults>>

\* Mutant: a leg claimed after the query is canceled too.
MutantOffCancels(u) == {l \in BuyLegs : lock[l] = u /\ status[l] = "PENDING"}

\* Legs the session holds and found waiting.  Their rows cannot change while
\* it holds them, so the decision made at the lock is the one made here.
OffCancels(u) == {l \in BuyLegs : lock[l] = u /\ Claimable(l)}

CommitOff(u) ==
    /\ pc[u] = "off"
    /\ todo[u] = {}
    /\ alert # "NONE" \/ target[u] = "NONE"
    /\ status' = [l \in Legs |-> IF l \in OffCancels(u) THEN "CANCELED" ELSE status[l]]
    /\ alert' = target[u]
    /\ lock' = Released(u)
    /\ Goto(u, "idle", NoLeg, {})
    /\ UNCHANGED <<consumed, recorded, note, history, broker, clock, faults>>

\* The UPDATE of an alert that another request deleted matches no row and is
\* rolled back (a DELETE of it would go through).
OffLosesAlert(u) ==
    /\ pc[u] = "off"
    /\ todo[u] = {}
    /\ alert = "NONE" /\ target[u] = "NOTIFY"
    /\ lock' = Released(u)
    /\ Goto(u, "idle", NoLeg, {})
    /\ UNCHANGED <<rows, alert, history, broker, clock, faults>>

\* The mode of an existing alert is set back to AUTO.
TurnAutomationOn(u) ==
    /\ pc[u] = "idle"
    /\ alert = "NOTIFY"
    /\ alert' = "AUTO"
    /\ UNCHANGED <<rows, lock, sessions, broker, clock, faults>>

-----------------------------------------------------------------------------
(* The 15-minute job: each leg is its own transaction.                      *)

\* Mutant: looks for legs without a token (is_ instead of is_not).
MutantStuckLegs == {l \in Legs : Claimable(l) /\ l \in aged}

StuckLegs == {l \in Legs : status[l] = "PENDING" /\ l \in consumed /\ l \in aged}
DueSells == {l \in SellLegs : Claimable(l) /\ l \in due}

\* Mutant: returns early when no leg is stuck.
MutantStartSweep(s) ==
    /\ pc[s] = "idle"
    /\ StuckLegs # {}
    /\ Goto(s, "stuck", NoLeg, StuckLegs)
    /\ UNCHANGED <<rows, lock, alert, history, broker, clock, faults>>

StartSweep(s) ==
    /\ pc[s] = "idle"
    /\ StuckLegs \cup DueSells # {}
    /\ Goto(s, "stuck", NoLeg, StuckLegs)
    /\ UNCHANGED <<rows, lock, alert, history, broker, clock, faults>>

\* Mutant: the status is not checked again under the lock.
MutantSweepStuck(s, l) ==
    /\ pc[s] = "stuck"
    /\ l \in todo[s]
    /\ lock[l] = Free
    /\ status' = [status EXCEPT ![l] = "FAILED"]
    /\ note' = [note EXCEPT ![l] = "STUCK"]
    /\ Goto(s, "stuck", NoLeg, todo[s] \ {l})
    /\ UNCHANGED <<consumed, recorded, lock, alert, history, broker, clock, faults>>

\* Rechecks the status only: the leg was seen consumed, which is for ever.
SweepStuck(s, l) ==
    /\ pc[s] = "stuck"
    /\ l \in todo[s]
    /\ lock[l] = Free
    /\ IF status[l] = "PENDING"
       THEN /\ status' = [status EXCEPT ![l] = "FAILED"]
            /\ note' = [note EXCEPT ![l] = "STUCK"]
       ELSE UNCHANGED <<status, note>>
    /\ Goto(s, "stuck", NoLeg, todo[s] \ {l})
    /\ UNCHANGED <<consumed, recorded, lock, alert, history, broker, clock, faults>>

SweepTurnsToSells(s) ==
    /\ pc[s] = "stuck"
    /\ todo[s] = {}
    /\ Goto(s, "expire", NoLeg, DueSells)
    /\ UNCHANGED <<rows, lock, alert, history, broker, clock, faults>>

\* Mutant: the leg is not checked again under the lock.
MutantExpireSell(s, l) ==
    /\ pc[s] = "expire"
    /\ l \in todo[s]
    /\ lock[l] = Free
    /\ status' = [status EXCEPT ![l] = "EXPIRED"]
    /\ Goto(s, "expire", NoLeg, todo[s] \ {l})
    /\ UNCHANGED <<consumed, recorded, note, lock, alert, history, broker, clock, faults>>

ExpireSell(s, l) ==
    /\ pc[s] = "expire"
    /\ l \in todo[s]
    /\ lock[l] = Free
    /\ status' = IF Claimable(l) THEN [status EXCEPT ![l] = "EXPIRED"] ELSE status
    /\ Goto(s, "expire", NoLeg, todo[s] \ {l})
    /\ UNCHANGED <<consumed, recorded, note, lock, alert, history, broker, clock, faults>>

EndSweep(s) ==
    /\ pc[s] = "expire"
    /\ todo[s] = {}
    /\ Goto(s, "idle", NoLeg, {})
    /\ UNCHANGED <<rows, lock, alert, history, broker, clock, faults>>

-----------------------------------------------------------------------------
(* Faults.                                                                  *)

\* The process or the request ends: nothing uncommitted survives.
Crash(w) ==
    /\ pc[w] # "idle"
    /\ faults < MaxFaults
    /\ faults' = faults + 1
    /\ history' = [history EXCEPT ![w] = FALSE]
    /\ lock' = Released(w)
    /\ Goto(w, "idle", NoLeg, {})
    /\ UNCHANGED <<rows, alert, broker, clock>>

\* An exception while a job works on one leg is rolled back, and the job goes
\* on with the rest of its ids.
JobLegFails(w) ==
    /\ w \in Ticks \cup Sweeps
    /\ faults < MaxFaults
    /\ \/ pc[w] \in Claiming /\ Goto(w, "tick", NoLeg, todo[w])
       \/ pc[w] \in {"tick", "stuck", "expire"} /\ \E l \in todo[w] :
             Goto(w, pc[w], NoLeg, todo[w] \ {l})
    /\ faults' = faults + 1
    /\ history' = [history EXCEPT ![w] = FALSE]
    /\ lock' = Released(w)
    /\ UNCHANGED <<rows, alert, broker, clock>>

\* Two sessions can wait for each other when both keep locks between legs.
WaitsFor(v, w) ==
    /\ pc[v] \in {"tick", "off"}
    /\ \E l \in todo[v] : lock[l] = w

\* The database breaks the cycle by aborting one of the two: a tick drops the
\* leg it waited for, a switch-off fails as a whole.
DeadlockVictim(v) ==
    /\ \E w \in Workers \ {v} : WaitsFor(v, w) /\ WaitsFor(w, v)
    /\ lock' = Released(v)
    /\ \/ pc[v] = "off" /\ Goto(v, "idle", NoLeg, {})
       \/ pc[v] = "tick" /\ \E l \in todo[v] :
             lock[l] \notin {Free, v} /\ Goto(v, "tick", NoLeg, todo[v] \ {l})
    /\ UNCHANGED <<rows, alert, history, broker, clock, faults>>

-----------------------------------------------------------------------------
(* Time.                                                                    *)

DeadlinePasses(l) ==
    /\ status[l] # "NONE"
    /\ l \notin due
    /\ due' = due \cup {l}
    /\ UNCHANGED <<rows, lock, alert, sessions, broker, aged, faults>>

\* STUCK_LEG_TIMEOUT elapses since the claim.
ClaimAges(l) ==
    /\ l \in consumed \ aged
    /\ SlowExecution \/ ~Executing(l)
    /\ aged' = aged \cup {l}
    /\ UNCHANGED <<rows, lock, alert, sessions, broker, due, faults>>

-----------------------------------------------------------------------------
PlanStep(p) ==
    \/ BeginPlan(p)
    \/ \E S \in SUBSET Legs : CommitPlan(p, S)
    \/ AbandonPlan(p)

Execute(w) ==
    \/ RebuildFails(w)
    \/ \E fills, saved \in BOOLEAN : SendOrders(w, fills, saved)
    \/ RecordExecuted(w)
    \/ RecordNoFill(w)
    \/ RecordFailure(w)

\* What the server does for a request once the user has sent it.
Serve(u) ==
    \/ LockAndClaim(u)
    \/ ClaimConflict(u)
    \/ DeclineLeg(u)
    \/ ApproveTooLate(u)
    \/ ApproveInTime(u)
    \/ Execute(u)
    \/ \E l \in BuyLegs : OffLocks(u, l)
    \/ CommitOff(u)
    \/ OffLosesAlert(u)

Ask(u) ==
    \/ \E l \in Legs : RequestApproval(u, l) \/ RequestDecline(u, l)
    \/ \E new \in {"NOTIFY", "NONE"} : BeginOff(u, new)
    \/ TurnAutomationOn(u)

TickVisits(t, l) ==
    \/ TickSkipsDecided(t, l)
    \/ TickExpires(t, l)
    \/ TickHolds(t, l)
    \/ TickClaims(t, l)

TickStep(t) ==
    \/ \E gate \in BOOLEAN : StartTick(t, gate)
    \/ \E l \in BuyLegs : TickVisits(t, l)
    \/ EndTick(t)
    \/ Execute(t)

SweepStep(s) ==
    \/ StartSweep(s)
    \/ \E l \in Legs : SweepStuck(s, l)
    \/ SweepTurnsToSells(s)
    \/ \E l \in SellLegs : ExpireSell(s, l)
    \/ EndSweep(s)

Fault(w) == Crash(w) \/ JobLegFails(w) \/ DeadlockVictim(w)

Clock == \E l \in Legs : DeadlinePasses(l) \/ ClaimAges(l)

Next ==
    \/ \E p \in Planners : PlanStep(p)
    \/ \E u \in Users : Ask(u) \/ Serve(u)
    \/ \E t \in Ticks : TickStep(t)
    \/ \E s \in Sweeps : SweepStep(s)
    \/ \E w \in Workers : Fault(w)
    \/ Clock

Spec == Init /\ [][Next]_vars

-----------------------------------------------------------------------------
(* Fairness: what runs on the server goes on (requests once sent, the jobs  *)
(* at their intervals), deadlines and timeouts pass.  Strong fairness twice: *)
(* a session that waits for a row lock is queued by the database and gets it *)
(* before those who ask later; and the market closes again and again for far *)
(* longer than the minute between two ticks, so a tick that keeps visiting a *)
(* leg also visits it while the market is closed.  Users owe nothing, faults *)
(* owe nothing, and the market signal may stay as it is for ever.            *)
Fairness ==
    /\ \A u \in Users : SF_vars(Serve(u))
    /\ \A t \in Ticks : WF_vars(TickStep(t))
    /\ \A t \in Ticks : \A l \in BuyLegs : SF_vars(TickExpires(t, l))
    /\ \A s \in Sweeps : SF_vars(SweepStep(s))
    /\ \A w \in Workers : WF_vars(DeadlockVictim(w))
    /\ \A l \in Legs : WF_vars(DeadlinePasses(l)) /\ WF_vars(ClaimAges(l))

FairSpec == Spec /\ Fairness

-----------------------------------------------------------------------------
(* Safety.                                                                  *)

\* The orders of a leg are handed to the broker at most once, whatever
\* requests, ticks, sweeps, crashes and retries meet on the leg
\* (_lock_and_claim and the claim of _run_due_buy_leg).
OrdersAtMostOnce == \A l \in Legs : sent[l] <= 1

\* A leg the user or the system declined (canceled, rejected, expired) never
\* had its orders sent, and no session is still about to send them.
DeclinedNeverOrdered ==
    \A l \in Legs : status[l] \in Declined => sent[l] = 0 /\ ~Executing(l)

\* No accepted order is lost from the books: a leg with one is either still
\* open, or EXECUTED with an execution record or with the request to check the
\* broker's app, or FAILED by the sweep with that same request.
FillsAreAccounted ==
    \A l \in filled :
        \/ status[l] = "PENDING" /\ l \in consumed
        \/ status[l] = "EXECUTED" /\ (l \in recorded \/ note[l] = "HISTORY_MISSING")
        \/ status[l] = "FAILED" /\ note[l] = "STUCK"

\* Once the alert is gone no BUY leg is left waiting to be executed without
\* the user's approval and without a market gate (cancel_pending_buy_legs).
OffStopsBuys ==
    alert = "NONE" => \A l \in BuyLegs : status[l] = "PENDING" => l \in consumed

\* A leg's final status stays, except that an execution which outlasted
\* STUCK_LEG_TIMEOUT replaces the sweep's verdict with what really happened.
TerminalIsFinal ==
    [][\A l \in Legs : status[l] \in Terminal =>
          \/ status'[l] = status[l]
          \/ SlowExecution /\ status[l] = "FAILED" /\ note[l] = "STUCK"]_vars

-----------------------------------------------------------------------------
(* Liveness, under FairSpec.                                                *)

\* Every leg of a committed plan is decided in the end: a claimed one by its
\* session or, when that session died, by the stuck sweep; a BUY leg that the
\* market signal blocks at every tick when the market closes
\* (execute_due_buy_legs); a SELL leg nobody answered by the expiry sweep.
LegIsDecided ==
    \A l \in Legs : status[l] = "PENDING" ~> status[l] \in Terminal

\* Every request is answered: no lock order between a tick that keeps the rows
\* it skipped and a switch-off that locks several rows leaves one waiting.
RequestIsAnswered ==
    \A u \in Users : pc[u] # "idle" ~> pc[u] = "idle"

-----------------------------------------------------------------------------
(* Refinement: sessions, locks, jobs and time implement the promise about a *)
(* leg that LegPromise states.                                              *)

Phase(l) ==
    IF status[l] = "PENDING" /\ l \in consumed THEN "CLAIMED" ELSE status[l]

Promise == INSTANCE LegPromise WITH
    phase <- [l \in Legs |-> Phase(l)],
    working <- {l \in Legs : Executing(l)},
    sent <- sent

\* Every step of the actors above is a step of the abstract life of the legs,
\* or leaves it alone (the claim of _lock_and_claim and _run_due_buy_leg).
ImplementsPromise == Promise!Spec

=============================================================================
