# Growlio in TLA+

Growlio keeps a user's brokerage accounts in sync, watches how far a portfolio
has drifted from its targets and, when the user wants it, trades the difference
by itself. The part that must not go wrong is the automatic one: orders go to a
broker with real money while a web request, three scheduled jobs, a deployment
that overlaps two processes, and a broker that may not answer all act on the
same rows. These modules model that part first.

Paths below are relative to `src/backend/app/`.

## 1. Inventory

| Component | State | Operations | What must hold | What makes it hard |
|---|---|---|---|---|
| Plan legs (`services/rebalancing/plan_execution.py`) | a row per leg: status, `token_consumed_at`, `execution_id`, `error_message`, `deadline_at` | approve, decline, buy tick, stuck sweep, sell expiry, switch-off | orders at most once; never after a decline; an accepted order leaves a trace; every leg ends | four kinds of sessions on one row, crashes between commits, executions that outlast a timeout |
| Plan generation (`plan_generation.py`, `jobs/rebalancing_auto_execution.py`, `quick_execute_service.py`) | plans, `last_triggered_at`, a daily claim, a lock per user | build, commit, release the claim | one open plan per alert, one per day, the daily cap | check-then-act across processes, rows read long before they are used, a crash between claim and commit |
| Order execution (`execution_service.py`, `_broker_order_flow.py`, the KIS and Kiwoom executors, `providers/http_client.py`) | single orders and their results | sell, buy within budget, resend, save history | what the broker took is what is recorded, and no more than was planned | lost answers, partial failure, orders split around the sales |
| Order cancellation (`order_cancel_service.py`) | `cancel_status` of an order | cancel | the record of a cancellation is final, and true as far as the app can know | concurrent clicks, lost answers, error replies that promise nothing, the broker's own app |
| Quantities (`_order_quantity_guard.py`, `krx_tick.py`) | none | clamp, floor, tick rounding | never more than held or affordable | rounding at boundaries |
| Order building (`service.py`, `group_expansion.py`, `order_builder.py`) | rows of an analysis, refreshed in place | analyse, expand groups, refresh prices, share sales, cap | orders go towards the target and not past it, nor past a holding or the cap | rows, holdings and prices of different moments; fractional shares; leveraged members |
| Circuit breakers (`utils/circuit_breaker.py`) | state, failure count, probe slot, opening time | `call`, `is_available`, `record_*` | one probe; the slot never leaks; recovery | answers that arrive in another state than the one that admitted the call |
| In-process lock, single flight, cache (`utils/inproc_lock.py`, `core/cache_store.py`) | keys with a TTL, bounded | lock, fetch once, evict, sweep | one holder; only the holder releases | TTL shorter than the work, eviction of live keys |
| Durable state (`utils/durable_state.py`) | rows with an expiry | get, set, claim | a claim has one winner | two processes |
| Account sync (`services/accounts/*`, `_overseas_cache.py`) | positions, deposits, `last_synced_at`, snapshots | sync one, sync all | positions of one sync; no way back behind an earlier one; a gate that knows about orders | half of a sync failing, skipped or running on, a lock of 120 s, rows loaded long before, orders under way |
| Token caches (`providers/_token_cache.py`, `kis/auth.py`) | token in memory and in the database | get, refresh | the newest token wins | concurrent refreshes |
| Market signal (`services/market_signal/market_signal_service.py`) | confirmed level, pending streak | observe | a level changes after two observations | repeated and interleaved readers, rows that run out |
| Market notices (`market_signal_alert_service.py`, `_dispatch.py`) | level last told, failed tries, a mark per user and change | tell, retry, give up | told once; the told level catches up | send, then commit; users nobody reaches |
| Tactical strategy (`services/tactical/*`, `api/v1/tactical.py`, `jobs/tactical_regime_check.py`) | a row per portfolio: confirmed, pending, applied, half-applied and told regime, dip level | view, save, check daily, apply all or half, disable | a regime is confirmed on two days and then told; half is applied once; the columns agree | copies of the row from before the market was fetched, updates by column, a server that sleeps through the job |
| Other alerts, jobs | dedup flags | send | sent once | the same dispatch |
| Diagnosis, tax, dividend, goal, ETF, backtest, clients | none of their own, or views | compute | numeric | no protocol between actors |

How they interact: plan generation writes plans whose legs the plan-leg
component executes; an execution calls the order executors, which use the token
caches; cancellation works on the history an execution saved; the buy tick and
plan generation read the confirmed market signal; plan generation asks whether
the holdings are newer than the last execution, which account sync provides;
account sync and the price sources go through the circuit breakers; generation,
sync and the market signal take in-process locks that live in the cache store;
claims, streaks and notices live in the durable key-value rows; the tactical
strategy looks at the confirmed signal and tells through the same dispatch.
`PROJECT.json` lists every component with its status and every hazard at its
line.

## 2. Modules

| Module | Content |
|---|---|
| `LegPromise` | the abstract life of a leg: withdrawn before anybody claims it, or claimed once, sent at most once, concluded in agreement with what was sent, or given up |
| `PlanExecution` | legs, row locks, sessions, jobs, switch-off, crashes; refines `LegPromise` |
| `PlanExecution_proofs` | inductive invariant, safety theorems, refinement theorem |
| `CircuitBreaker` | the breaker and its two kinds of users |
| `CircuitBreaker_proofs` | its theorems |
| `PlanGeneration` | the AUTO job and the one-click request of two processes up to the plan's commit |
| `PlanGeneration_proofs` | its theorems; uses the lemmas on sums of `OrderBuilding_proofs` |
| `OrderQuantity` | quantities and tick prices of one order, as operators |
| `OrderBuilding` | from positions, targets and prices to the orders of a plan, as operators |
| `OrderBuilding_proofs` | lemmas on sums over finite sets and on queues, its theorems |
| `OrderCancel` | cancel requests on the lines of a history |
| `OrderExecution` | the orders of one account against its broker; EXTENDS both, so the lines it saves are what requests cancel |
| `OrderExecution_proofs` | theorems of the three |
| `SingleFlight` | a cache entry, its lock and the callers that want it |
| `MarketSignal` | confirmation and notice of the market level; EXTENDS `SingleFlight`, through which its readers come |
| `MarketSignal_proofs` | theorems of both |
| `AccountSync` | syncs of one account against its user, its orders and the gate before a plan |
| `AccountSync_proofs` | its theorems |
| `TacticalRegime` | the row of one tactical strategy under the requests, the job and the user |
| `TacticalRegime_proofs` | its theorems |
| `MC...` | names and values for the instances TLC checks; `MCOrderBuilding` checks the operators of `OrderBuilding` |

`PlanExecution` takes a plan's commit and an execution as single steps;
`PlanGeneration` and `OrderExecution` open the two. In turn `PlanGeneration` sees
of a plan only that it is open, executed or dead, and of the freshness gate only
its answer, which `AccountSync` opens; how its orders come to be is `OrderBuilding`.

### PlanExecution

One step is the code between two points where another session can run: a commit,
a wait for a row lock, a call to the broker.

| Model | Code |
|---|---|
| `status`, `consumed`, `recorded`, `note` | `status`, `token_consumed_at IS NOT NULL`, `execution_id IS NOT NULL`, the kind of `error_message` |
| `lock` | the row lock of `_lock_leg` (`SELECT ... FOR UPDATE`) until commit, rollback or the end of the session |
| `alert` | the alert that owns the plan: mode AUTO, mode NOTIFY, or deleted (`plan.alert_id` becomes NULL) |
| `pc`, `cur`, `todo`, `gateSeen`, `history`, `target` | local variables of one request or job |
| `sent`, `filled` | calls of `execute_rebalancing`; legs with an order reported `SUCCESS` |
| `due`, `aged` | `deadline_at <= now`; `token_consumed_at <= now - STUCK_LEG_TIMEOUT` |
| `LockAndClaim`, `ClaimConflict`, `DeclineLeg` | `_lock_and_claim`, `_decline_leg` |
| `ApproveTooLate`, `ApproveInTime` | `_approve_leg_now` |
| `RebuildFails`, `SendOrders`, `RecordExecuted`, `RecordNoFill`, `RecordFailure` | `_execute_leg` with its exception path |
| `StartTick`, `TickSkipsDecided`, `TickExpires`, `TickHolds`, `TickClaims`, `EndTick` | `execute_due_buy_legs`, `_run_due_buy_leg` |
| `BeginOff`, `OffLocks`, `CommitOff`, `OffLosesAlert`, `TurnAutomationOn` | `cancel_pending_buy_legs` inside the endpoints that delete or change an alert |
| `StartSweep`, `SweepStuck`, `SweepTurnsToSells`, `ExpireSell`, `EndSweep` | `fail_stuck_consumed_legs`, `expire_due_sell_legs` |
| `BeginPlan`, `CommitPlan`, `AbandonPlan` | plan generation as far as the legs see it |
| `Crash`, `JobLegFails`, `DeadlockVictim` | the end of a process, an exception caught per leg, PostgreSQL's deadlock detection |

Details that carry weight:

* A tick that skips or holds a leg does not end its transaction, so the row stays
  locked until the next commit of the tick or its end. The sweep rolls back
  instead. Both are modelled as written.
* The buy query has no filter on the token: a tick visits claimed legs too.
* `_execute_leg` never looks at the status again. The claim is its only
  protection, which is why the record may replace the sweep's verdict.
* The confirmed signal is read once per tick (`gateSeen`); whether it blocks, and
  whether the market is open when a leg is visited, is free.
* Two ticks stand for two processes during a deployment, since the lock of the
  job lives in one process. The sweep takes no lock at all.

Abstractions. A leg's orders are one call with two outcomes, some order accepted
or none, and a history saved or lost. A leg whose orders were all left out before
sending counts as executed in the code (`_no_order_succeeded` of an empty list);
here it is a leg with an accepted order. An exception inside the broker flow that
is not caught there ends the session (`Crash`). An answer of the broker that is
lost belongs to order execution: `filled` means *reported* accepted.

### CircuitBreaker

| Model | Code |
|---|---|
| `state`, `failures`, `claimed` | `_state`, `_failures`, `_half_open_probe_claimed` |
| `lapsed` | `monotonic() - _opened_at >= reset_timeout` |
| `role` | how each call in flight was admitted (history of the call, not in the code) |
| `Look`, `Enter`, `Preview` | the property `state`, `call` up to its await, `is_available` by code that reports itself |
| `Succeed`, `Fail`, `Bypass` | `record_success`, `record_failure`, the `_is_bypass` branch |

`failures` stops at `FailMax` because the code only asks whether it has reached
`fail_max`. Nothing is awaited while the probe lock is held, so entering is one
step. Two facts about the callers are parameters: `slow`, whether a call can
last longer than `reset_timeout` (a broker sync can: 50 s per attempt, retried,
against 60 s; a FRED request cannot: 10 s against 300 s), one of the kinds in
`Stragglers` and the same for a whole behaviour, and `Previewers`, users
of `is_available` and `record_*` that never claim the slot (the KIS price
fallback, Yahoo). The Yahoo circuit is updated from worker threads; interleavings
inside one update are left out. Calls are taken to end with an answer or an
exception: cancellation of a task from outside, which `except Exception` would
not see, does not occur around `call` in this code.

### PlanGeneration

| Model | Code |
|---|---|
| `plan` | the plan rows as far as anybody asks: status of its legs, alert, value, and who made it |
| `claims`, `fired` | `claim_durable` rows of the day, `last_triggered_at` of the day |
| `lock` | `inproc_lock` of `rebalancing_plan_gen:{user}`, one per process |
| `seen`, `waiting` | `last_triggered_at` and the pending set as the job read them at its start |
| `LoadRows`, `PassOver`, `GateBlocks`, `ClaimAlert` | `_run_auto_execution`, `_process_one_alert` |
| `TakeLock`, `CheckUnderLock`, `CommitPlan` | `build_pending_plan_for_alert`, `generate_pending_plan_for_alert` |
| `Answers`, `Fails`, `Finish` | what the job does with a refusal, an exception, a plan |
| `Ask` | `quick_execute_plan` |
| `ProcessEnds` | the end of one of two overlapping processes |

The reasons for a refusal are kept apart as far as the claim depends on them:
`Judged` counts as the evaluation of the day for alerts without an execution
time, everything else gives the claim back. After an exception the job reads the
remaining rows again, but not its set of pending alerts. Left out: midnight (one
calendar day), a lock whose 60 s run out under its holder, and a leg that is
recorded as executed after the sweep had called it failed, which raises the day's
sum later. A plan is one leg, because the cap only adds up values.

### OrderExecution, OrderQuantity, OrderCancel

| Model | Code |
|---|---|
| `stage`, `todo`, `tried`, `wanted` | where `_execute_account_group` is, and the lists it passes on (`remaining`) |
| `budget`, `balance` | `get_orderable_cash` and the balance, per stage |
| `row`, `saved` | the results, and whether `_save_execution_history` has committed them |
| `book`, `cash`, `held` | the broker's own view, which the code cannot see |
| `BeginGroup`, `GroupFails`, `NextStage` | `_execute_account_group`, `_build_failed_group_result`, the phases |
| `SendTaken`, `SendNotTaken`, `SentAgain` | `_execute_single_order` with `broker_request` for an order |
| `PassOver`, `Records`, `BudgetLeft`, `Fitted` | skipping, splitting and counting of orders |
| `CheckRow`, `LockRow`, `CancelTaken`, `CancelRefused`, `CancelDoubtful`, `CancelUnanswered` | `cancel_execution_order` |
| `CancelOutside` | a cancellation in the broker's own app, of which the app hears nothing |

An answer may be lost after the broker took the order or before it saw it; the
code cannot tell, records FAILED and does not resend, and the model keeps both
views. A cancellation has four ends: taken, refused, no answer, and an error reply
that does not say it was not taken. `kis/client.py:78-79` says the last of `rt_cd` "1",
which is why orders and cancellations are not resent after it; `cancel_execution_order`
records it as CANCEL_FAILED like a refusal. `uncertain` (history) holds the lines about
which the app cannot know, and `CancelTellsTheTruth` excepts nothing else: of a line
that is not in it, CANCEL_FAILED means the order stands. Orders fill whole. TWO_PHASE at Kiwoom sells, then buys, which is the shape
of FULL. Foreign cash and the second look at the markets of overseas sales are left
out. FULL drops what a buy cannot afford with a log line only; the property about
every share is therefore about TWO_PHASE, as the comment it comes from is.

### OrderBuilding

| Model | Code |
|---|---|
| `BaseValue`, `CashItem`, `ImplicitCash` | `compute_base_value_krw`, the CASH item, `_build_implicit_cash_item` |
| `Holding`, `EffectivePrice` | `_build_current_map`, `_effective_price` |
| `TargetRow`, `UntrackedRow` | `_build_target_items`, `_build_untracked_items`: `RebalancingItem` as far as orders depend on it |
| `MemberTarget`, `MemberRow`, `Trades` | `allocate_group_trades`, `_set_trade`, `expand_group_items` |
| `AtLivePrice` | `refresh_live_prices`, for a row whose price was found |
| `Orderable`, `OrdersOf`, `Take` | `build_rebalancing_orders`, `_build_sell_orders` |
| `Capped`, `Limited`, `PlanOrders` | `clamp_orders_to_max_value`, `_coerce_overseas_market_orders_to_limit`, `_build_plan_orders` |

There is no state: the module is the function from what is read to what is ordered.
A loop that serves one after the other is stated per participant: `Portion` is what
is left for one behind those served before it. Holdings are counted in parts of a
share, because `int()` and `floor` differ for fractional overseas shares; an implied
price is kept as money for so many parts and never divided. Rounding to the won, the
percentages, the threshold of a drift, dividends and returns are left out.
`MCPlanGeneration` extends `MCOrderBuilding`, so that the run `plan_generation`
evaluates its named assumptions: `SalesAreShared` (what is asked is sold as far as it
is there, tax-deferred shares last), `GroupsReachTheirTarget`, `PlansAreBounded` (the
whole way from positions to orders, with rows that were refreshed or not),
`LiveRowsAgree` and `ImplicitCashCountsProperty`. Each of them fails when the code is
changed in the places it is about: a queue in the wrong order, leverage forgotten, a
cap one share off, an account that takes no orders, quantities not cut to whole
shares.

### SingleFlight and MarketSignal

| Model | Code |
|---|---|
| `entry`, `lock`, `at` | the cached signal, its lock, the place of a caller in `single_flight_fetch` |
| `EntryGoes`, `LockGoes` | TTL or eviction by a full cache, at any step |
| `confirmed`, `pending`, `notified`, `attempts`, `sent` | the durable rows of the signal and its notices |
| `ReadSignal` to `DropPending` | `_resolve_confirmed_level`, a step per statement, for every reader |
| `BeginNotice` to `ForgetAttempts` | `check_market_signal_level_change`, `dispatch_dual_channel_alert`, `_finish_level_notice` |
| `ConfirmedExpires`, `PendingExpires` | `get_durable` of a row whose 7 days are over |
| `JobDies` | the job ends between two commits |
| `row`, `grounds`, `told`, `twice`, `unrecorded` | history, not in the code: the observations written down in a row, those a reader counts on, who was told |

Observations are numbered; the last number repeats, so that runs are endless in a
finite space. `LockGoes` covers eviction, which makes exclusion conditional: the
property says what remains of it. The confirmed level gets its 7 days when it is
stored and not when it is seen again (`market_signal_service.py:177-179`), so its row
may run out under a level that never changed. A reader that finds it gone confirms what
it sees (`ConfirmFirst`); it need not be the first to act on that, and it leaves a
streak of another level standing. `ConfirmedSeenTwice` says of every other reader that
`Required` different observations were written down in a row when it counted the streak.

### AccountSync

| Model | Code |
|---|---|
| `row`, `stale`, `dirty` | the account's committed columns, the detached row of a sync, the columns its `merge()` will write |
| `positions` | sets of current positions, each with a name of its own and the orders it contains |
| `gone` | the rows the delete statement of a sync has removed |
| `since` | per market, the recorded orders `_check_snapshot_freshness` still waits for: `executed_at` after `last_synced_at`, SUCCESS and not CANCELED |
| `lock` | `sync_lock_key(account)` |
| `mark`, `stray` | `has_overseas_key` with a value for "nothing"; an overseas half that runs on |
| `Load`, `Skip`, `Merge`, `ReadBalance`, `MarkOverseas`, `Retry`, `DeleteRows`, `CommitSync`, `Fail` | `sync_accounts`, `sync_account`, `_retry_provider_sync`, `fetch_overseas_cached` |
| `MergeBeside` | the lock is gone under a sync that still runs |
| `StoreToken` | the commit of a new token inside the session of a sync |
| `HalfRunsOn`, `StraySets` | `gather` raises when the domestic half fails and does not cancel the other one |
| `DeleteAccount`, `DeleteCredentials`, `SetCredentials` | `delete_account`, `delete_account_credentials`, `update_account` with keys |
| `StartExecution`, `Accept`, `Fill`, `CancelRest`, `RecordExecution`, `LoseHistory` | an execution and its cancellations as the gate sees them |
| `overlapped`, `blind`, `exposed`, `misled` | history, not in the code |

The lock is an entry of the process' cache for 120 s, and a sync may take three
attempts of 50 s with pauses between; two processes have a lock each. `MergeBeside`
stands for all of it: a run begins although another one is still on the account. Both
are `exposed` from then on, and so is every run that begins before the last of them has
ended. `DeleteRows` and `CommitSync` are separate because the delete sees only rows that
are committed when it runs: that is how two syncs side by side leave two sets. (A
delete that meets rows another transaction deletes waits for its commit; the sets
that remain are the same.)

The properties say what the code can promise with such a lock. A sync that has the
account for itself leaves one set of positions, also when it finds several. Holdings go
back only by a sync that was exposed, or overseas by one that trusted a mark written
late: by the half of a sync that had failed, or of one that was exposed. And after all
that they catch up, as one set.

The gate counts results that are SUCCESS and not CANCELED
(`plan_generation.py:479-483`). `Accept` therefore has two outcomes: an order with an
answer, which will be recorded, and one whose answer was lost, which is FAILED and which
the gate never hears of. `CancelRest` takes an order out of what the gate waits for,
whether or not part of it had filled. `blind` collects the markets with an order that
the last sync did not show and the gate does not wait for, where one of the listed
reasons arises.

Accounts entered by hand have no keys and no sync with a broker; their positions are
saved under the same lock with the same delete and insert. Other edits of an
account than its keys are overwritten by a merge in the same way. Both are left out,
and replaced keys are the same as the ones before.

### TacticalRegime

| Model | Code |
|---|---|
| `row` | a row of `tactical_strategies` |
| `sess` | a session: the row it loaded (`old`) and what it made of it (`new`) |
| `Observed`, `Stepped`, `DipOf`, `Advanced`, `Reports` | `classify_regime`, `step_confirmation` with `advance_regime`, `advance_dip_level`, `advance_strategy` and its result |
| `Updated` | the UPDATE SQLAlchemy writes: the columns in which the session's copy changed |
| `ViewLoads`, `ViewEnds` | `get_tactical_status`, `_status` |
| `SaveBegins`, `SaveEnds` | `save_strategy` before and after `evaluate_market` |
| `JobCheck`, `RegimeSent`, `AfterRegimeSent`, `RegimeNotSent`, `DipEnds` | `_check_one`, `_notify_regime`, `_notify_dip`, split where a notice is dispatched |
| `ApplyAll`, `ApplyHalf`, `Disable` | `apply_tactical_weights`, `disable_strategy` |
| `slipped`, `seen`, `halves` | history, not in the code |

No request but the application locks the row it reads, and none has a version to
compare, so a session can be outrun by another one's commit and write all the same;
`slipped` says that one did. What the columns mean together is only claimed while none
did, which is what the code can promise. A save commits its settings in the middle:
asking for the confirmed level writes durable state on the same session, unless the
signal is stale. Dates are ages (today, earlier), which is all `step_confirmation`
compares, so days are unbounded in a finite space.

Left out: the weights, and with them the expected regime of an application, its checks
of the portfolio and the tilt (of which remains that its first complete look of a
month is a change to save, at any look here); `TACTICAL` alerts, which read the
confirmed regime and are reset by `disable_strategy`; database errors while the market
is asked. A request does not outlive midnight and the job begins once a day and is done
by then: it takes seconds and runs at 07:40.

## 3. Runs

All run with two workers in about three minutes at most. The runs about plans, orders,
syncs and notices disable the deadlock check because the system may really stop:
with every leg decided, every order filled or every plan name used nothing has to
happen.

| Run | Instance | Question |
|---|---|---|
| `plan_one_leg` | 1 leg, bought or sold, 2 users, 1 tick, 1 sweep, 1 planner, 1 fault, executions may outlast the sweep's timeout | type invariant, orders at most once, declined legs unordered, accepted orders accounted for, final statuses final, refinement, every leg decided |
| `plan_two_legs` | 2 BUY legs, 1 user, 1 tick, no fault | a deleted alert leaves no waiting BUY leg; no request waits for ever although ticks and switch-offs lock several rows |
| `plan_off_race` | 1 BUY leg, plan generation may overlap the switch-off | **violated**, see findings |
| `breaker` | 4 callers, 1 with bad credentials, 1 previewer, threshold 3, calls that outlast the timeout or calls that never do | types, count against state, slot against probes, one probe, who decides, recovery |
| `breaker_probe_rule` | 3 callers, threshold 2, stragglers | **violated**, see findings |
| `plan_generation` | 2 processes with a job each, 1 click, 2 alerts (one with, one without a time), 2 plans, cap 2, 1 fault | plans waiting at once, plans per day, value per process, claims that block an alert; and the operators of `OrderBuilding` over small inputs |
| `order_execution` | 4 plans of 3 orders, FULL and TWO_PHASE, little cash and stock, 1 repeated call, 1 dealing elsewhere, 2 cancel requests, cancellation elsewhere | nothing sent twice, nothing missing in the history, every share accounted for, refusals explained, cancellations final, and true where the app can know |
| `market_alerts` | the job, a gate, 1 subscriber, 2 levels, 3 observations, 2 tries, 1 fault or row that runs out | who fetches, when a level is confirmed, who is told, that telling catches up |
| `account_sync` | 2 syncs, 1 order, 3 sets of positions, and one of: a lock outlived, a half that runs on, keys or account deleted | one set of positions, no way back, what the gate can miss, holdings catch up |
| `sync_merge` | 1 sync and the deletion of its account | **violated**, see findings |
| `tactical_regime` | 2 clients that save, one of which also views, the job, 4 markets, 2 requests, days without end | types, columns that agree, two days for a regime, half applied once, the dip's ratchet, regimes confirmed and told in the end |
| `tactical_missed_job` | the same | **violated**, see findings |

Bounds. Legs do not share anything but the sessions that visit them and the
alert, so one leg shows every race on a leg, and two legs show the lock order;
sessions come back to idle and start again, so one session stands for a sequence
of requests, and two are needed only where two overlap. `MaxFaults = 1` lets one
crash or failed transaction fall anywhere, which is what the recovery paths are
for. Legs are created once each (`BeginPlan` needs an unused one), and `MaxLegs`
says how many of the legs of an instance a behaviour may create: with a BUY and a
SELL leg and `MaxLegs = 1`, each behaviour has one of them. Two users are needed
because on a SELL leg only requests compete besides the sweep. Two ticks at once on
one leg are left to the theorems, which hold for any number of them.
Plan generation needs two plans: one, and the one that must not be made beside it
or after it; a cap of 2 lets a plan of 1 and one of 2 compete. The four plans of
`order_execution` are the cases in which orders depend on each other: a sale that
pays for a split buy, buys that share cash, sales that share a holding, overseas
orders beside domestic ones. Two observations confirm a level, so three let one
level be confirmed and another begin; one row that runs out can be the confirmed or the
pending one, at any step. One order, in either market, is enough for a sync to be behind or
ahead, since the two markets meet only in the reading. Three sets of positions in a market
are the two that runs side by side leave and the one they both delete. One of the rare
events (`MaxRare`) shows what it leads to, and the run that begins beside another is
always the same one of the two (`Late`), which loses nothing, since they are alike. The four markets of `tactical_regime` give each regime, one that
depends on the regime before it, no regime, a stale signal, two depths of a dip and its
end; two requests and the job are three sessions, and two races at most are needed for
any of the properties: one request outruns another, or two create the same strategy.
The days and the runs of the job are not bounded. Every property of a
passing run has a mutant of the code that violates it.

### Fairness

`PlanExecution.Fairness`: requests that were sent are served, ticks and sweeps
come back at their intervals, deadlines and timeouts pass. Serving and sweeping
are strongly fair, because PostgreSQL queues those who wait for a row. A visit of
a leg by a tick while the market is closed is strongly fair: markets close every
day for far longer than the minute between ticks. Users, faults, planners and the
market signal owe nothing; the signal may block for ever.

`CircuitBreaker.Fairness`: the timeout lapses, calls end, and each caller (a job
that comes back) gets the slot if it finds it free again and again. `Recovers`
assumes in addition that from some time on no call fails.

`MarketSignal.Fairness`: the hourly job comes back and its calls end; nothing is
asked of other readers, of entries or of locks. `NoticeCatchesUp` assumes that from
some time on the job gets reliable signals.

`AccountSync.Fairness`: every run goes on, daily jobs load, the mark "holds nothing
overseas" expires, some run or other finds the lock free again and again and gets it
(strong, because others hold it meanwhile), and runs whose reading is fresh are not
failed for ever by the broker or the database (strong, because each of them may be).
Users and executions owe nothing. `HoldingsCatchUp` assumes that from some time on the
account exists and has its keys.

`TacticalRegime.Fairness`: days pass, the daily job comes back (strong, because a
strategy may be disabled and enabled between) and a dispatch ends. `RegimeIsTold`
assumes that from some time on notices go out, and `RegimeCatchesUp` that the job does
not fail and every look shows one regime. Users owe nothing.

### Findings

1. `plan_off_race`. `cancel_pending_buy_legs` reads the waiting BUY legs, then the
   endpoint deletes the alert and commits. A plan committed in between is not
   among the legs read. Its BUY leg stays PENDING with `alert_id` NULL and later
   runs without a market gate, which is what the function's docstring
   (`plan_execution.py:131-132`) says it is there to prevent. With
   `PlanOverlapsOff = FALSE` the property holds (`plan_two_legs`), and is proved.
2. `breaker_probe_rule`. The tests of the half-open gating
   (`src/backend/tests/test_circuit_breaker.py:138-139`) say only the probe's
   result decides the circuit. A call admitted before the circuit opened decides
   it too when it answers in the half-open state. Without stragglers no such
   answer decides it (`OnlyTrialDecides` in `breaker`), and without previewers
   besides the rule itself holds; both are proved.
3. `sync_merge`. `sync_accounts` is given rows that another session loaded, and
   merges each into its own session once a slot and the lock are free. `merge()`
   copies every column, so what the user changed since then is written back. If the
   user deleted the account meanwhile it is active again, with its keys, although
   `api/v1/assets.py:392` says there is no way back and the keys are not kept. Keys
   deleted on their own (`api/v1/assets.py:334-361`) come back in the same way.
4. `tactical_missed_job`. A view advances the strategy so that the regime is confirmed
   although the server slept through the job (`api/v1/tactical.py:88`,
   `jobs/tactical_regime_check.py:4-5`). But `_status` commits only when
   `advance_strategy` reports a change, and an observation that is only pending is
   none. The first observation is dropped, so the second one, on the next day, is the
   first again: without the job views never confirm a regime, unless a tilt or a dip
   happens to change in the same look.

Ten more observations came up while modelling and have no run of their own. Two outrun
sessions of the tactical strategy can leave a pending regime without its date (one
clears both columns, the other had changed only the name); `step_confirmation` then
neither confirms nor dates it, however often it is observed, until another regime is
(`slipped` in `RegimeCatchesUp`). A database error while `save_strategy` asks for the
market rolls back its session (`market_signal_service.py:158-159`), and the settings of
the request with it, before they are committed. The
notice job drops the second result of `get_confirmed_composite_level`, so it tells
levels of unreliable observations, and GREEN after a failed fetch, while its
docstring speaks of confirmed levels (`market_signal_alert_service.py:81`). An
exception between the two commits of `_finish_level_notice` leaves the count of
tries behind, and the next change to that level starts with it. The fallback of the
single flight can make two observations of a level within seconds, while the comment
at `market_signal_service.py:134-135` counts an hour for each. The implicit cash row
of a portfolio without a KR_PROPERTY item counts property as cash
(`ImplicitCashIs`), although the base it is compared with leaves property out and the
comment at `services/rebalancing/service.py:494-495` speaks of the rule of the CASH
item, which always takes property off: such a portfolio drifts by its real estate. A confirmed level that
was last stored 7 days ago is gone even if it was seen every hour since, and then one
observation confirms any level, while `cache_keys.py:343-348` says it does not change
without repeated confirmation and the comment at line 62 that the job keeps renewing it;
`ConfirmFirst` leaves another level's streak standing, so that level may need one
observation less. A sync that outlives its lock can leave two sets of positions, which the
comment at `sync_all_service.py:64-66` says the lock is for; they stay until the next sync
that is alone. The overseas half that `gather` leaves running can note "nothing overseas"
after a purchase, and the next sync within 15 minutes then drops the holding. And the
freshness gate does not count an order whose answer was lost (FAILED), nor one that
filled in part before it was canceled, so a plan can be built from holdings without them.

## 4. Proofs

Each theorem holds for every number of the actors and objects of its module, every
bound and every threshold, but for the hypotheses it states (`Required <= 2`, two
processes, no overlap with a switch-off). Assumptions are the named ones of the
modules: kinds of sessions, legs and clients are disjoint, names that stand for
nobody are nobody, the bounds have their types. TLC evaluates each of them in a run.

`PlanExecution_proofs`. `TypeCorrect`, `OrdersOnce`, `DeclinedStaysUnordered`,
`FillsLeaveATrace` and `FinalityHolds` follow from one inductive invariant `Inv`:

* `ClaimsSound`: a session past its claim works on a consumed leg whose orders
  have been sent exactly when it stands at its record;
* `ClaimsExclusive`: no two sessions are past a claim of the same leg. The
  properties alone are not inductive without it: a second session at `exec` would
  send again;
* `LegsSound`: what `sent`, `filled`, `status` and `note` say of one leg agree,
  also when nobody works on it any more;
* `SweepsSound`: a sweep only visits legs it saw consumed, which is for ever.

`SwitchOffStopsBuys` assumes `~PlanOverlapsOff` and adds an invariant about legs
that wait while a switch-off is under way: each is still to be visited or locked
by the switch-off. `PromiseIsKept` shows the refinement with one lemma per kind of
abstract step (`ClaimMaps`, `SendMaps`, `ConcludeMaps`, `LoseMaps`, `GiveUpMaps`);
every other step stutters.

`CircuitBreaker_proofs`. `CountDecidesState` and `SlotNeverLeaks` from `Inv`; that
the slot is taken only in the half-open state is the part that makes them
inductive (`BreakerTyped` is its type part). `ProbesAreAlone` and `TrialDecides`
speak of circuits that are not `slow` and use `Alone`: one that may turn half-open
has no call in flight, and in a half-open one the only caller in flight owns the
slot. `ProbeDecides` adds `Previewers = {}`.

`PlanGeneration_proofs`. A worker that builds has an alert, which makes the types
inductive (`GenerationTyped`). `OneOpenPlan` rests on `LockHeld` (from the check to
the commit a worker has the lock of its process) and `CheckLasts` (so nothing it
looked for can appear by another worker of its process). `OnePlanPerClaim` and
`ClaimAccountedFor` rest on the claim instead, over all processes: `ClaimHeld` (a
job works under the claim of its alert and no other does), `PlanKeepsClaim` (a plan
of the job keeps the claim; a job on that alert can only be the one that has just
made it), `JobAlone` and `MadeIsThere`. The two arguments are separate because the
two protections are: a click has the lock and no claim. `CapKept` needs the lock
again: `RoomLeft` says that a worker between the comparison and its commit has the
room for its plan, because what its process has spent cannot grow meanwhile;
without it `WithinEach` is not inductive. `FewPlans` (the plans that exist are
finitely many) is what makes the sums mean something when `Plans` is infinite.
`DoubledAtMost` joins the sums of two processes.

`OrderExecution_proofs`. `FitBuyFits`, `ClampSellFits` and `PriceOnGrid` are about
single quantities and prices; the last one goes through the bands of the tick table,
since a sale rounded up may end in the next band, whose grid is coarser. `Inv` joins `LedgerFits` (what the broker took of an order and what is
still wanted of it are together no more than was planned, and a line not yet sent
is empty on both sides), `Seen` (whatever the broker took has a result with at
least that quantity), `StagesFit` and `CancelFits` (a request that asks the broker
has its row, and a row says CANCELED only of an order that is, or CANCEL_FAILED of a
canceled order only where a cancellation was uncertain). From it follow
`ExecutionTyped`, `NothingSentTwice`, `HistoryComplete`, `CancelFinal` and
`CancelHonest`. `NoShareForgotten` adds `SharesFit`: what is not yet recorded of a
buy is still wanted. `RefusalsExplained` adds `BudgetFits` and `BalanceFits`: without
one of the causes, the broker still has at least the cash and the shares it named
at the start of the stage less what was sent since. No line the broker took is
written again, which is why a cause, once there, stays one.

`OrderBuilding_proofs`. `LiveRowsTrade`: the sign test of `build_rebalancing_orders`
drops nothing that moves a share at a live price, so it only catches rows whose price
was not found; a buy ends within the target and a sale less than a share above it. It
follows from what floor division leaves (`DivBounds`), scaled by the price
(`Scaled`). `NoOrderPastTheCap` and `OverseasIsLimited` rest on `CappedTyped`.
Sums over a set of any size take an induction. The induction theorems of the library
cannot be instantiated here, but a smallest counterexample can be picked: strict
inclusion is well founded on the finite subsets of a set, so among the subsets for
which a statement fails one has no such subset below it (`Smallest`). From the fold's
own definition follow `SumUnrolled` (it exists and takes one element off) and then
what does not depend on the order of elements: `SumSplits`, `SumGrows`, `SumJoins`,
`SumAdds`, `SumAgrees`. The code shares out twice with the same loop, `remaining -= take`
over a sorted list; `QueueServed` and `QueueInTurn` say what it does for any
strict order, and `SalesShared` and `GroupsBalance` show that the two sort keys are
strict orders. `SalesWithinHoldings` follows an order through the cap into the plan.

`MarketSignal_proofs`. `FlightExclusive` from `HolderHasLock`: a caller that fetches
under the lock has it, or is noted as one who lost it. `NoNoticeTwice` from
`MemoryFits`, `NoticeFits`, `StreakShort` and `ToldIsKept`: who was told of a change
has its sent key or was told without a record, and the level told last does not
move before the notice is closed. `ConfirmedAfterTwo` rests on two facts: the pending row
is backed by the observations written down in a row (`RowFits`), and so is the streak a
reader is about to confirm with (`GroundsFit`), because a streak of two takes a pending
row with another observation than the one at hand (`CountedTwice`). It assumes
`Required <= 2`; the code has 2 (`CONFIRM_STREAK_REQUIRED`). A streak of three would not
do: the pending row may count the second observation, and a late reader of the first one
counts it again, so two looks at the market make three of the streak.

`AccountSync_proofs`. A run that is not exposed has the lock and the account for itself
(`Alone`); what it has read is not behind what the database holds, and what it has deleted
is all there is (`AloneFits`, with `GotFits` for all runs). `OverseasFits`: a mark written
in time says "nothing overseas" only while the database has nothing and nobody is about to
write any. From these follow `PositionsOfOneSync` and `NoWayBack`, which needs
`OverseasFits` because a run that does not ask overseas writes "nothing" for it. Neither
bounds the locks outlived or the halves that run on: what the theorems except are the runs
that this happened to, and nothing they leave behind for later ones. `BrokerFits` and
`GateFits` (what the gate does not wait for the database shows, or the market is blind)
give `GateHasReason`. `RevivedByLateMerge` delimits the finding about deleted
accounts: a deleted account is revived only by a run that writes the column, and a run
comes to write it only when it merges, after the deletion, a copy from before. One that
had merged by then does not.

`TacticalRegime_proofs`. One invariant, `Inv`, has four parts: the types; `Absent` (while
there is no row, the row and its history are those of a new one and every session is
about to create it); `Shapes` (what each kind of session holds); and `Fits`. The last
one says, as long as no session has written over the row of another, that the row is
sound, that every session in time holds the row as it is now, and that what it has made
of it `Follows` by one look at the market: a pending regime bears the date of its
observation, a replaced one was witnessed on an earlier day. `SoundUnlessSlipped` and
`HalvesOnce` are read off it; `TwoDaysToConfirm` and `DipOnlyGrows` from `Orderly`,
which says the same of a step.

Model-checked only:

* the liveness properties `LegIsDecided`, `RequestIsAnswered`, `Recovers`,
  `NoticeCatchesUp`, `HoldingsCatchUp`, `RegimeIsTold` and `RegimeCatchesUp`,
  since the provers do not reach fairness and ENABLED;
* `PlansAreBounded` in one respect, that nothing is bought overseas for a tax-deferred
  account: it is the definition of `BuyOrders`;
* the statements that expect a violation.

## 5. Not modelled

* Token caches: of a token only the commit it causes inside a sync.
* Manual positions, which take the same lock, delete and insert as a sync, and edits of
  an account other than its keys.
* Of an analysis everything orders do not depend on: percentages and their threshold,
  dividends, returns. The diagnosis of portfolios, the weights and the
  backtest of the tactical allocation, goals, tax, dividends, ETFs and exposure:
  floating point without a protocol between actors. They are most of the code, together with
  templates, HTTP clients, schemas and views, which is why the lines the modules
  stand for are a small share of all lines.
* Mail and push: of a notice only whether it went out.
* The order in which a full cache evicts, the sweeps of expired entries and rows, and
  the deletion by prefix: entries and locks go at any step instead.
* Calendar and clock: one day for generation, timeouts as events that may happen at
  any step. A run over midnight KST, and the lock of plan generation that runs out under
  its holder, are listed as hazards.
* Clients, migrations and the configuration of the scheduler, whose intervals appear
  only as fairness.

What is worth adding next: tokens with content (the newest wins, none outlives its
key), the second day of plan generation, and several accounts in one execution.
