---------------------------- MODULE AccountSync ----------------------------
(***************************************************************************)
(* Synchronisation of one broker account against its users, its orders and *)
(* the gate that plan generation puts before a new plan:                    *)
(*   services/accounts/sync_all_service.py, asset_service.py,               *)
(*   providers/_overseas_cache.py, the endpoints of api/v1/assets.py, and   *)
(*   _check_snapshot_freshness of rebalancing/plan_generation.py.           *)
(*                                                                          *)
(* Holdings are counted by the orders they contain: `filled` is what the    *)
(* broker holds, `positions` what the database says.  A sync loads the row  *)
(* of the account long before it runs; merge() then carries every column    *)
(* that differs into its transaction.  The lock of the account is an entry  *)
(* of the process' cache with a TTL of 120 s, while a sync may take three   *)
(* attempts of 50 s.                                                        *)
(* The account is one of a broker: a MANUAL one has no keys and no sync.    *)
(***************************************************************************)
EXTENDS Naturals, FiniteSetsExt

CONSTANTS
    Syncs,       \* runs that sync the account: the daily jobs, sync-all, /sync
    Late,        \* bound: those that may begin while one that outlived its lock runs
    MaxOrders,   \* bound: accepted orders, in both markets
    MaxSets,     \* bound: sets of current positions of a market at a time
    MaxRare,     \* bound: locks outlived, halves left running, keys and accounts deleted
    Free

ASSUME SyncAssumption ==
    /\ Free \notin Syncs
    /\ Late \subseteq Syncs
    /\ MaxOrders \in Nat
    /\ MaxSets \in Nat
    /\ MaxRare \in Nat

Markets == {"KR", "US"}
Unknown == MaxOrders + 1      \* the overseas half did not answer

VARIABLES
    row,         \* columns of the account the user changes, as committed
    positions,   \* market -> sets of current positions, each as <<id, orders>>
    since,       \* market -> orders whose executed_at is after last_synced_at
    lock,        \* sync_lock_key of the account
    pc, stale, dirty, got, gone,   \* locals of a run
    mark,        \* has_overseas_key: overseas is not asked unless it is "none"
    stray,       \* does an overseas half that found nothing run on by itself?
    accepted,    \* market -> orders the broker accepted and nobody canceled
    filled,      \* market -> orders that are in its balance
    executing,   \* market -> orders the execution under way had an answer for
    running,     \* is an execution under way?
    overlapped,  \* history: has a sync committed since it began?
    blind,       \* history: markets with an order the gate cannot know of
    exposed,     \* history: runs that were not alone on the account
    misled,      \* history: runs that trusted a mark written too late
    rare         \* how many of the MaxRare events there were

db == <<row, positions, since>>
run == <<pc, stale, dirty, got, gone>>
memory == <<mark, stray>>
broker == <<accepted, filled>>
execution == <<executing, running, overlapped>>
trust == <<exposed, misled>>
vars == <<db, lock, run, memory, broker, execution, blind, trust, rare>>

Columns == {"active", "key"}
Rows == [active : BOOLEAN, key : {"set", "deleted"}]
Readings == [Markets -> 0..Unknown]
Sets == (1..MaxSets) \X (0..MaxOrders)
Steps == {"idle", "loaded", "merged", "asked", "read", "written"}
InFlight == {"merged", "asked", "read", "written"}

TypeOK ==
    /\ row \in Rows
    /\ positions \in [Markets -> SUBSET Sets]
    /\ since \in [Markets -> 0..MaxOrders]
    /\ lock \in Syncs \cup {Free}
    /\ pc \in [Syncs -> Steps]
    /\ stale \in [Syncs -> Rows]
    /\ dirty \in [Syncs -> SUBSET Columns]
    /\ got \in [Syncs -> Readings]
    /\ gone \in [Syncs -> [Markets -> SUBSET Sets]]
    /\ mark \in {"none", "sound", "late"}
    /\ stray \in BOOLEAN
    /\ accepted \in [Markets -> 0..MaxOrders]
    /\ filled \in [Markets -> 0..MaxOrders]
    /\ executing \in [Markets -> 0..MaxOrders]
    /\ running \in BOOLEAN
    /\ overlapped \in BOOLEAN
    /\ blind \subseteq Markets
    /\ exposed \subseteq Syncs
    /\ misled \subseteq Syncs
    /\ rare \in 0..MaxRare

NewRow == [active |-> TRUE, key |-> "set"]
NoReading == [m \in Markets |-> 0]
NoRows == [m \in Markets |-> {}]

Init ==
    /\ row = NewRow
    /\ positions = NoRows
    /\ since = NoReading
    /\ lock = Free
    /\ pc = [s \in Syncs |-> "idle"]
    /\ stale = [s \in Syncs |-> NewRow]
    /\ dirty = [s \in Syncs |-> {}]
    /\ got = [s \in Syncs |-> NoReading]
    /\ gone = [s \in Syncs |-> NoRows]
    /\ mark = "none"
    /\ stray = FALSE
    /\ accepted = NoReading
    /\ filled = NoReading
    /\ executing = NoReading
    /\ running = FALSE
    /\ overlapped = FALSE
    /\ blind = {}
    /\ exposed = {}
    /\ misled = {}
    /\ rare = 0

Rarely == rare < MaxRare /\ rare' = rare + 1

-----------------------------------------------------------------------------
(* A run: the row is loaded, the lock taken, the broker asked, the rows     *)
(* replaced, all of it committed at once.                                   *)

\* What the session of a run writes into the row.
Written(s) == [c \in Columns |-> IF c \in dirty[s] THEN stale[s][c] ELSE row[c]]

\* The locals of a run that is over; the lock goes back if it is still its own.
Ends(s) ==
    /\ pc' = [pc EXCEPT ![s] = "idle"]
    /\ stale' = [stale EXCEPT ![s] = NewRow]
    /\ dirty' = [dirty EXCEPT ![s] = {}]
    /\ got' = [got EXCEPT ![s] = NoReading]
    /\ gone' = [gone EXCEPT ![s] = NoRows]
    /\ lock' = IF lock = s THEN Free ELSE lock
    /\ exposed' = exposed \ {s}
    /\ misled' = misled \ {s}

\* The accounts to sync are selected: only active ones.
Load(s) ==
    /\ pc[s] = "idle"
    /\ row.active
    /\ pc' = [pc EXCEPT ![s] = "loaded"]
    /\ stale' = [stale EXCEPT ![s] = row]
    /\ UNCHANGED <<db, lock, dirty, got, gone, memory, broker, execution, blind, trust, rare>>

\* Another run has the account: the job skips it, /sync answers 409.
Skip(s) ==
    /\ pc[s] = "loaded"
    /\ lock # Free
    /\ Ends(s)
    /\ UNCHANGED <<db, memory, broker, execution, blind, rare>>

\* inproc_lock, then merge() of the row as it was loaded.
Takes(s) ==
    /\ pc[s] = "loaded"
    /\ lock' = s
    /\ pc' = [pc EXCEPT ![s] = "merged"]
    /\ dirty' = [dirty EXCEPT ![s] = {c \in Columns : stale[s][c] # row[c]}]
    /\ UNCHANGED <<db, stale, got, gone, memory, broker, execution, blind, misled>>

\* Mutant: a run goes on although another one has the account.
MutantMerge(s) ==
    /\ exposed' = IF exposed = {} THEN {} ELSE exposed \cup {s}
    /\ Takes(s)
    /\ UNCHANGED rare

\* The lock is free.  A run that has outlived it may still be on the account.
Merge(s) ==
    /\ lock = Free
    /\ exposed' = IF exposed = {} THEN {} ELSE exposed \cup {s}
    /\ Takes(s)
    /\ UNCHANGED rare

\* The run that took the lock has outlived it: its TTL is over, the cache evicted
\* it, or it is in another process.
MergeBeside(s) ==
    /\ s \in Late
    /\ lock # Free
    /\ Rarely
    /\ exposed' = exposed \cup {lock, s}
    /\ Takes(s)

\* A new token is stored on the way; its commit writes the merged row too.
StoreToken(s) ==
    /\ pc[s] = "merged"
    /\ dirty[s] # {}
    /\ row' = Written(s)
    /\ dirty' = [dirty EXCEPT ![s] = {}]
    /\ UNCHANGED <<positions, since, lock, pc, stale, got, gone, memory, broker, execution, blind,
                   trust, rare>>

\* Mutant: an overseas half that failed counts as no overseas holdings.
MutantOverseasReadings == {IF mark = "none" THEN filled["US"] ELSE 0, 0}

\* fetch_overseas_cached: nothing is asked of an account known to hold nothing
\* overseas; a failure is not an answer.
OverseasReadings == IF mark = "none" THEN {filled["US"], Unknown} ELSE {0}

\* Both halves are asked at once, if the copy of the row has its keys.
ReadBalance(s) ==
    /\ pc[s] = "merged"
    /\ stale[s].key = "set"
    /\ pc' = [pc EXCEPT ![s] = IF mark = "none" THEN "asked" ELSE "read"]
    /\ \E us \in OverseasReadings : got' = [got EXCEPT ![s] = [KR |-> filled["KR"], US |-> us]]
    /\ misled' = IF mark = "late" THEN misled \cup {s} ELSE misled
    /\ UNCHANGED <<db, lock, stale, dirty, gone, memory, broker, execution, blind, exposed, rare>>

\* The overseas half is back: "holds nothing overseas" is remembered.
MarkOverseas(s) ==
    /\ pc[s] = "asked"
    /\ pc' = [pc EXCEPT ![s] = "read"]
    /\ mark' = IF got[s]["US"] = Unknown THEN mark
               ELSE IF got[s]["US"] > 0 THEN "none"
               ELSE IF s \in exposed THEN "late" ELSE "sound"
    /\ UNCHANGED <<db, lock, stale, dirty, got, gone, stray, broker, execution, blind, trust, rare>>

\* gather() raises when the other half fails, and leaves this one running.
HalfRunsOn(s) ==
    \/ UNCHANGED <<stray, rare>>
    \/ /\ pc[s] = "asked" /\ got[s]["US"] = 0
       /\ Rarely
       /\ stray' = TRUE

\* Mutant: a sync that failed counts as the last sync.
MutantFail(s) ==
    /\ pc[s] \in InFlight
    /\ Ends(s)
    /\ HalfRunsOn(s)
    /\ since' = NoReading
    /\ UNCHANGED <<row, positions, mark, broker, execution, blind>>

\* Retries, the timeout, the circuit, missing keys or the database end the
\* sync: rolled back, only last_sync_error is written.
Fail(s) ==
    /\ pc[s] \in InFlight
    /\ Ends(s)
    /\ HalfRunsOn(s)
    /\ UNCHANGED <<db, mark, broker, execution, blind>>

\* _retry_provider_sync, with_token_refresh: the balance is asked for again.
Retry(s) ==
    /\ pc[s] \in {"asked", "read"}
    /\ pc' = [pc EXCEPT ![s] = "merged"]
    /\ got' = [got EXCEPT ![s] = NoReading]
    /\ misled' = misled \ {s}
    /\ HalfRunsOn(s)
    /\ UNCHANGED <<db, lock, stale, dirty, gone, mark, broker, execution, blind, exposed>>

\* The half that was left running finds nothing and remembers it.
StraySets ==
    /\ stray
    /\ stray' = FALSE
    /\ mark' = "late"
    /\ UNCHANGED <<db, lock, run, broker, execution, blind, trust, rare>>

\* The markets whose current positions a run replaces.
Replaced(s) == IF got[s]["US"] = Unknown THEN {"KR"} ELSE Markets

\* The delete statement: it removes the rows it sees.
DeleteRows(s) ==
    /\ pc[s] = "read"
    /\ pc' = [pc EXCEPT ![s] = "written"]
    /\ gone' = [gone EXCEPT ![s] = [m \in Markets |-> IF m \in Replaced(s) THEN positions[m] ELSE {}]]
    /\ UNCHANGED <<db, lock, stale, dirty, got, memory, broker, execution, blind, trust, rare>>

\* Rows that stay in a market when a run commits, or that another run deletes.
Ids(s, m) == {p[1] : p \in (positions[m] \ gone[s][m]) \cup UNION {gone[r][m] : r \in Syncs \ {s}}}
Unused(s, m) == (1..MaxSets) \ Ids(s, m)

\* The set of positions a run inserts in a market.
Inserted(s, m) ==
    IF m \in Replaced(s) THEN {<<CHOOSE i \in Unused(s, m) : TRUE, got[s][m]>>} ELSE {}

\* The new rows, last_synced_at and the merged row commit together.
CommitSync(s) ==
    /\ pc[s] = "written"
    /\ \A m \in Markets : Unused(s, m) # {}
    /\ row' = Written(s)
    /\ positions' = [m \in Markets |-> (positions[m] \ gone[s][m]) \cup Inserted(s, m)]
    /\ since' = NoReading
    /\ overlapped' = running
    /\ blind' = {m \in Markets : accepted[m] > 0 /\ got[s][m] # accepted[m]}
    /\ Ends(s)
    /\ UNCHANGED <<memory, broker, executing, running, rare>>

\* Mutant: "holds nothing overseas" is stored without an expiry.
MutantForgetNoOverseas ==
    /\ FALSE
    /\ UNCHANGED vars

\* has_overseas_key expires.
ForgetNoOverseas ==
    /\ mark # "none"
    /\ mark' = "none"
    /\ UNCHANGED <<db, lock, run, stray, broker, execution, blind, trust, rare>>

-----------------------------------------------------------------------------
(* The user.                                                                *)

Edits(new) ==
    /\ row.active
    /\ row' = new
    /\ UNCHANGED <<positions, since, lock, run, memory, broker, execution, blind, trust>>

\* delete_account: inactive, credentials gone, in one commit.
DeleteAccount == Rarely /\ Edits([active |-> FALSE, key |-> "deleted"])

\* delete_account_credentials: the account stays.
DeleteCredentials ==
    /\ row.key = "set"
    /\ Rarely
    /\ Edits([active |-> TRUE, key |-> "deleted"])

\* update_account with new keys.
SetCredentials ==
    /\ row.key = "deleted"
    /\ Edits(NewRow)
    /\ UNCHANGED rare

-----------------------------------------------------------------------------
(* Orders on the account: an execution at a time, as the legs see to.       *)

MoreOrders == accepted["KR"] + accepted["US"] < MaxOrders

StartExecution ==
    /\ ~running
    /\ MoreOrders
    /\ running' = TRUE
    /\ overlapped' = FALSE
    /\ UNCHANGED <<db, lock, run, memory, broker, executing, blind, trust, rare>>

\* The broker takes an order.  One whose answer is lost is recorded FAILED,
\* which the gate does not count.
Accept(m) ==
    /\ running
    /\ MoreOrders
    /\ accepted' = [accepted EXCEPT ![m] = @ + 1]
    /\ \/ executing' = [executing EXCEPT ![m] = @ + 1] /\ UNCHANGED blind
       \/ blind' = blind \cup {m} /\ UNCHANGED executing
    /\ UNCHANGED <<db, lock, run, memory, filled, running, overlapped, trust, rare>>

\* An accepted order fills, now, later or never.
Fill(m) ==
    /\ filled[m] < accepted[m]
    /\ filled' = [filled EXCEPT ![m] = @ + 1]
    /\ UNCHANGED <<db, lock, run, memory, accepted, execution, blind, trust, rare>>

\* An order the gate counts is canceled, and not counted any more: nothing of
\* it filled, or some of it did and is in the balance for good.
CancelRest(m) ==
    /\ since[m] > 0
    /\ since' = [since EXCEPT ![m] = @ - 1]
    /\ \/ /\ filled[m] < accepted[m]
          /\ accepted' = [accepted EXCEPT ![m] = @ - 1]
          /\ UNCHANGED blind
       \/ /\ filled[m] > 0
          /\ blind' = blind \cup {m}
          /\ UNCHANGED accepted
    /\ UNCHANGED <<row, positions, lock, run, memory, filled, execution, trust, rare>>

ExecutionEnds ==
    /\ running
    /\ running' = FALSE
    /\ executing' = NoReading
    /\ overlapped' = FALSE
    /\ UNCHANGED <<row, positions, lock, run, memory, broker, trust, rare>>

Answered == {m \in Markets : executing[m] > 0}

\* The history is saved.  executed_at is the start of the transaction, so a
\* sync that committed meanwhile may be later.
RecordExecution ==
    /\ ExecutionEnds
    /\ \/ /\ since' = [m \in Markets |-> since[m] + executing[m]]
          /\ UNCHANGED blind
       \/ /\ overlapped
          /\ blind' = blind \cup Answered
          /\ UNCHANGED since

\* The history is not saved: the gate never hears of these orders.
LoseHistory ==
    /\ ExecutionEnds
    /\ blind' = blind \cup Answered
    /\ UNCHANGED since

-----------------------------------------------------------------------------
SyncStep(s) ==
    \/ Merge(s)
    \/ Skip(s)
    \/ ReadBalance(s)
    \/ MarkOverseas(s)
    \/ Retry(s)
    \/ Fail(s)
    \/ DeleteRows(s)
    \/ CommitSync(s)

Next ==
    \/ \E s \in Syncs : Load(s) \/ MergeBeside(s) \/ StoreToken(s) \/ SyncStep(s)
    \/ \E m \in Markets : Accept(m) \/ Fill(m) \/ CancelRest(m)
    \/ StraySets
    \/ StartExecution
    \/ RecordExecution
    \/ LoseHistory
    \/ DeleteAccount
    \/ DeleteCredentials
    \/ SetCredentials
    \/ ForgetNoOverseas

Spec == Init /\ [][Next]_vars

\* What a run has read is all the broker holds by now.
Fresh(s) == got[s] = filled

\* Jobs come back every day and every HTTP call ends.  Again and again some run
\* finds the lock free, and neither the broker nor the database fails all of
\* them for ever.
Fairness ==
    /\ WF_vars(ForgetNoOverseas)
    /\ \A s \in Syncs : WF_vars(SyncStep(s))
    /\ WF_vars(\E s \in Syncs : Load(s))
    /\ SF_vars(\E s \in Syncs : Merge(s))
    /\ SF_vars(\E s \in Syncs : ReadBalance(s) /\ Fresh(s)')
    /\ SF_vars(\E s \in Syncs : MarkOverseas(s) /\ Fresh(s))
    /\ SF_vars(\E s \in Syncs : DeleteRows(s) /\ Fresh(s))
    /\ SF_vars(\E s \in Syncs : CommitSync(s) /\ Fresh(s))

FairSpec == Spec /\ Fairness

-----------------------------------------------------------------------------
\* The database knows of the first n orders in a market.
Shows(m, n) == n = 0 \/ \E p \in positions[m] : p[2] >= n

\* A sync leaves the positions of a market as one set, its own (sync_accounts,
\* plans/115 A1), also when it found more of them.  Only one that was not alone
\* on the account leaves several: its lock had gone, or it began beside one whose
\* lock had.
OneSetOfPositions ==
    [][\A m \in Markets : positions[m]' # positions[m] /\ Cardinality(positions[m]') > 1 =>
          \E s \in exposed : pc[s] = "written" /\ pc'[s] = "idle"]_vars

\* No sync takes back what an earlier one saw: neither one that read the
\* balance earlier, nor one whose overseas half failed or was not asked
\* (sync_account with overseas_known, fetch_overseas_cached).  It takes a lock
\* outlived, or a mark that came after its sync was over or out of its lock.
HoldingsNeverGoBack ==
    [][\A m \in Markets, n \in 0..MaxOrders : Shows(m, n) /\ ~Shows(m, n)' =>
          \E s \in Syncs :
              /\ pc[s] = "written" /\ pc'[s] = "idle"
              /\ s \in exposed \/ (m = "US" /\ s \in misled)]_vars

\* The freshness gate lets a plan be built from holdings that lack an accepted
\* order only if the last sync could not show the order (it was not filled, or
\* the balance was read before, or the overseas half failed or was not asked),
\* the sync overlapped the execution, the history was lost, the answer of the
\* broker was lost (the order is recorded FAILED), or the order filled in part
\* and was canceled then.
GateMissesForAReason ==
    since = NoReading /\ ~running =>
        \A m \in Markets : ~Shows(m, accepted[m]) => m \in blind

\* Whatever fails in between, the database comes to hold what the broker holds,
\* and holds it once, as long as the account exists and has its keys.
HoldingsCatchUp ==
    <>[](row = NewRow) =>
        <>[](\A m \in Markets : \E i \in 1..MaxSets : positions[m] = {<<i, filled[m]>>})

\* A deleted account does not come back (delete_account: "there is no way to
\* restore a deleted account").
DeletedStaysDeleted == [][~row.active => ~row'.active]_vars
=============================================================================
