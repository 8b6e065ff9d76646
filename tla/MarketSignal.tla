---------------------------- MODULE MarketSignal ----------------------------
(***************************************************************************)
(* The confirmed market level and the notice of its change:                 *)
(*   services/market_signal/market_signal_service.py,                       *)
(*   services/alerts/market_signal_alert_service.py, alerts/_dispatch.py,   *)
(*   over the key-value rows of utils/durable_state.py.                     *)
(*                                                                          *)
(* Every reader (gates of plans, tactical views, the hourly job) runs the   *)
(* same confirmation over rows the others read and write between its own    *)
(* statements.  The job then tells every subscriber of a level that is not  *)
(* the one they were last told.  A step ends where a statement commits.     *)
(***************************************************************************)
EXTENDS SingleFlight

CONSTANTS
    Green,       \* the level of no risk
    Job,         \* the reader that is check_market_signal_level_change
    Users,       \* subscribers
    Required,    \* CONFIRM_STREAK_REQUIRED
    MaxAttempts, \* _MAX_LEVEL_NOTICE_ATTEMPTS
    MaxFaults    \* bound: ends of the job before its time, and rows that run out

ASSUME MarketAssumption ==
    /\ Job \in Readers
    /\ Required \in Nat \ {0}
    /\ MaxAttempts \in Nat \ {0}
    /\ MaxFaults \in Nat
    /\ None \notin Levels
    /\ Green \in Levels

VARIABLES
    confirmed, pending,     \* rows: the level, and the streak that may change it
    notified, attempts,     \* rows: the level last told, and failed tries of one
    sent,                   \* rows: <<user, old, new>> that was told
    step, memory,           \* reader -> where it is in the confirmation, what it read
    notice,                 \* the change the job is telling, whom yet, how many failed
    faults,
    row,                    \* history: the observations written down since one of the
                            \* confirmed level was, all of one level
    told, twice, unrecorded \* history: who was told which level since the job last
                            \* had nothing to tell: once, again, without a record

rows == <<confirmed, pending, notified, attempts, sent>>
locals == <<step, memory, notice>>
tellings == <<told, twice, unrecorded>>
history == <<faults, row, tellings>>
vars == <<flightVars, rows, locals, history>>

NoStreak == [level |-> None, streak |-> 0, seen |-> 0]
NoAttempts == [level |-> None, count |-> 0]
NoRow == [level |-> None, ids |-> {}]
NoMemory == [level |-> None, streak |-> 0, grounds |-> {}]
NoNotice == [old |-> None, new |-> None, left |-> {}, failed |-> FALSE]

TypeOK ==
    /\ FlightTypeOK
    /\ confirmed \in Levels \cup {None}
    /\ pending \in [level : Levels \cup {None}, streak : 0..Required, seen : 0..MaxObs]
    /\ notified \in Levels \cup {None}
    /\ attempts \in [level : Levels \cup {None}, count : 0..MaxAttempts]
    /\ sent \subseteq Users \X Levels \X Levels
    /\ step \in [Readers -> {"start", "read", "counted", "promoted", "compare", "tell", "close"}]
    /\ memory \in [Readers -> [level : Levels \cup {None}, streak : 0..Required,
                               grounds : SUBSET (1..MaxObs)]]
    /\ notice \in [old : Levels \cup {None}, new : Levels \cup {None},
                   left : SUBSET Users, failed : BOOLEAN]
    /\ row \in [level : Levels \cup {None}, ids : SUBSET (1..MaxObs)]
    /\ faults \in 0..MaxFaults
    /\ \A t \in {told, twice, unrecorded} : t \subseteq Users \X Levels

Init ==
    /\ FlightInit
    /\ confirmed = None
    /\ pending = NoStreak
    /\ notified = None
    /\ attempts = NoAttempts
    /\ sent = {}
    /\ step = [r \in Readers |-> "start"]
    /\ memory = [r \in Readers |-> NoMemory]
    /\ notice = NoNotice
    /\ faults = 0
    /\ row = NoRow
    /\ told = {} /\ twice = {} /\ unrecorded = {}

-----------------------------------------------------------------------------
(* get_confirmed_composite_level.                                           *)

\* The signal is fetched.
ReadSignal(r) ==
    /\ step[r] = "start"
    /\ FlightStep(r)
    /\ UNCHANGED <<rows, locals, history>>

\* The level is returned: the job goes on with it, the others are done.
Answer(r, level) ==
    /\ step' = [step EXCEPT ![r] = IF r = Job THEN "compare" ELSE "start"]
    /\ memory' = [memory EXCEPT ![r] =
                     IF r = Job THEN [level |-> level, streak |-> 0, grounds |-> {}] ELSE NoMemory]
    /\ Leave(r)

\* Too few indicators: the level as it is.
AnswerStale(r) ==
    /\ step[r] = "start"
    /\ at[r] = "back"
    /\ got[r].stale
    /\ Answer(r, got[r].level)
    /\ UNCHANGED <<rows, notice, history>>

\* No reading at all, or a statement that failed: GREEN, and stale.
AnswerFailed(r) ==
    /\ step[r] = "start"
    /\ at[r] = "failed"
    /\ Answer(r, Green)
    /\ UNCHANGED <<rows, notice, history>>

\* The row of the confirmed level is read; it may be missing or run out.
ReadConfirmed(r) ==
    /\ step[r] = "start"
    /\ at[r] = "back"
    /\ ~got[r].stale
    /\ step' = [step EXCEPT ![r] = "read"]
    /\ memory' = [memory EXCEPT ![r].level = confirmed]
    /\ UNCHANGED <<flightVars, rows, notice, history>>

\* There was no confirmed level: this one is, and a streak of another stands.
ConfirmFirst(r) ==
    /\ step[r] = "read"
    /\ memory[r].level = None
    /\ confirmed' = got[r].level
    /\ Answer(r, got[r].level)
    /\ UNCHANGED <<pending, notified, attempts, sent, notice, history>>

\* It is the one that was observed: whatever was pending is not.
ConfirmSame(r) ==
    /\ step[r] = "read"
    /\ got[r].level = memory[r].level
    /\ pending' = NoStreak
    /\ row' = NoRow
    /\ Answer(r, memory[r].level)
    /\ UNCHANGED <<confirmed, notified, attempts, sent, notice, faults, tellings>>

\* Mutant: every reader of an observation counts it.
MutantStreak(o) == IF pending.level = o.level THEN pending.streak + 1 ELSE 1

\* The streak with this observation; one that was counted is not again.
Streak(o) ==
    CASE pending.level = o.level /\ pending.seen = o.id -> pending.streak
      [] pending.level = o.level /\ pending.seen # o.id -> pending.streak + 1
      [] pending.level # o.level                        -> 1

\* The observations in a row once this one is written down too.
RowWith(o) ==
    [level |-> o.level, ids |-> {o.id} \cup (IF row.level = o.level THEN row.ids ELSE {})]

\* The pending row is read.
CountStreak(r) ==
    /\ step[r] = "read"
    /\ memory[r].level \notin {None, got[r].level}
    /\ step' = [step EXCEPT ![r] = "counted"]
    /\ memory' = [memory EXCEPT ![r] = [level |-> @.level, streak |-> Streak(got[r]),
                                       grounds |-> RowWith(got[r]).ids]]
    /\ UNCHANGED <<flightVars, rows, notice, history>>

\* Not often enough yet.
KeepPending(r) ==
    /\ step[r] = "counted"
    /\ memory[r].streak < Required
    /\ pending' = [level |-> got[r].level, streak |-> memory[r].streak, seen |-> got[r].id]
    /\ row' = RowWith(got[r])
    /\ Answer(r, memory[r].level)
    /\ UNCHANGED <<confirmed, notified, attempts, sent, notice, faults, tellings>>

\* Often enough: confirmed, and in a second commit no longer pending.
Promote(r) ==
    /\ step[r] = "counted"
    /\ memory[r].streak >= Required
    /\ confirmed' = got[r].level
    /\ step' = [step EXCEPT ![r] = "promoted"]
    /\ UNCHANGED <<flightVars, pending, notified, attempts, sent, memory, notice, history>>

DropPending(r) ==
    /\ step[r] = "promoted"
    /\ pending' = NoStreak
    /\ row' = NoRow
    /\ Answer(r, got[r].level)
    /\ UNCHANGED <<confirmed, notified, attempts, sent, notice, faults, tellings>>

Faulty == faults < MaxFaults /\ faults' = faults + 1

\* TTL_MARKET_SIGNAL_LAST_LEVEL is over since the level was confirmed, however
\* often it was seen again.  get_durable deletes the row by its key, which may
\* have been written again meanwhile.
ConfirmedExpires ==
    /\ confirmed # None
    /\ Faulty
    /\ confirmed' = None
    /\ UNCHANGED <<flightVars, pending, notified, attempts, sent, locals, row, tellings>>

\* The same of the pending row.
PendingExpires ==
    /\ pending # NoStreak
    /\ Faulty
    /\ pending' = NoStreak
    /\ UNCHANGED <<flightVars, confirmed, notified, attempts, sent, locals, row, tellings>>

\* The job ends with its process or an exception; its session has nothing
\* uncommitted.  Another reader that ends is one that takes no further step.
JobDies ==
    /\ step[Job] # "start"
    /\ Faulty
    /\ step' = [step EXCEPT ![Job] = "start"]
    /\ memory' = [memory EXCEPT ![Job] = NoMemory]
    /\ notice' = NoNotice
    /\ IF at[Job] = "back" THEN Leave(Job) ELSE UNCHANGED flightVars
    /\ UNCHANGED <<rows, row, tellings>>

-----------------------------------------------------------------------------
(* check_market_signal_level_change, from the level on.                     *)

JobEnds ==
    /\ step' = [step EXCEPT ![Job] = "start"]
    /\ memory' = [memory EXCEPT ![Job] = NoMemory]
    /\ notice' = NoNotice

\* Nothing to tell: the first level ever, or the one that was told.
NothingToTell ==
    /\ step[Job] = "compare"
    /\ notified \in {None, memory[Job].level}
    /\ notified' = memory[Job].level
    /\ JobEnds
    /\ told' = {} /\ twice' = {} /\ unrecorded' = {}
    /\ UNCHANGED <<flightVars, confirmed, pending, attempts, sent, faults, row>>

\* The subscribers are read; every one of them gets a session.
BeginNotice ==
    /\ step[Job] = "compare"
    /\ notified \notin {None, memory[Job].level}
    /\ step' = [step EXCEPT ![Job] = "tell"]
    /\ notice' = [old |-> notified, new |-> memory[Job].level, left |-> Users, failed |-> FALSE]
    /\ UNCHANGED <<flightVars, rows, memory, history>>

Key(u) == <<u, notice.old, notice.new>>

\* The sent key of this change is there.
PassOver(u) ==
    /\ u \in notice.left
    /\ Key(u) \in sent
    /\ notice' = [notice EXCEPT !.left = @ \ {u}]
    /\ UNCHANGED <<flightVars, rows, step, memory, history>>

\* The mail or the push went out.
Reaches(u) ==
    /\ told' = told \cup {<<u, notice.new>>}
    /\ twice' = IF <<u, notice.new>> \in told THEN twice \cup {<<u, notice.new>>} ELSE twice

\* Mutant: the key is not written with the notice.
MutantTell(u) ==
    /\ u \in notice.left
    /\ Key(u) \notin sent
    /\ Reaches(u)
    /\ notice' = [notice EXCEPT !.left = @ \ {u}]
    /\ UNCHANGED <<flightVars, rows, step, memory, faults, row, unrecorded>>

\* dispatch_dual_channel_alert, with its history and the key in one commit.
Tell(u) ==
    /\ u \in notice.left
    /\ Key(u) \notin sent
    /\ Reaches(u)
    /\ sent' = sent \cup {Key(u)}
    /\ notice' = [notice EXCEPT !.left = @ \ {u}]
    /\ UNCHANGED <<flightVars, confirmed, pending, notified, attempts, step, memory,
                   faults, row, unrecorded>>

\* The user is told and the commit fails.
TellUnrecorded(u) ==
    /\ u \in notice.left
    /\ Key(u) \notin sent
    /\ Reaches(u)
    /\ unrecorded' = unrecorded \cup {<<u, notice.new>>}
    /\ notice' = [notice EXCEPT !.left = @ \ {u}, !.failed = TRUE]
    /\ UNCHANGED <<flightVars, rows, step, memory, faults, row>>

\* No channel of the user takes it.
TellFails(u) ==
    /\ u \in notice.left
    /\ Key(u) \notin sent
    /\ notice' = [notice EXCEPT !.left = @ \ {u}, !.failed = TRUE]
    /\ UNCHANGED <<flightVars, rows, step, memory, history>>

\* Mutant: a retry that fails does not count.
MutantTries == 1

\* _finish_level_notice: the tries with this one.
Tries == IF attempts.level = notice.new THEN attempts.count + 1 ELSE 1

\* Somebody was not told: next hour again.
RetryLater ==
    /\ step[Job] = "tell"
    /\ notice.left = {}
    /\ notice.failed /\ Tries < MaxAttempts
    /\ attempts' = [level |-> notice.new, count |-> Tries]
    /\ JobEnds
    /\ UNCHANGED <<flightVars, confirmed, pending, notified, sent, history>>

\* Everybody was told, or it is given up: the level counts as told.
CloseNotice ==
    /\ step[Job] = "tell"
    /\ notice.left = {}
    /\ ~notice.failed \/ Tries >= MaxAttempts
    /\ notified' = notice.new
    /\ step' = [step EXCEPT ![Job] = "close"]
    /\ told' = {} /\ twice' = {} /\ unrecorded' = {}
    /\ UNCHANGED <<flightVars, confirmed, pending, attempts, sent, memory, notice, faults, row>>

\* The second commit of _finish_level_notice.
ForgetAttempts ==
    /\ step[Job] = "close"
    /\ attempts' = NoAttempts
    /\ JobEnds
    /\ UNCHANGED <<flightVars, confirmed, pending, notified, sent, history>>

\* TTL_MARKET_SIGNAL_CHANGE_SENT is longer than the tries of one change.
SentKeysExpire ==
    /\ sent # {}
    /\ told = {}
    /\ notice = NoNotice
    /\ sent' = {}
    /\ UNCHANGED <<flightVars, confirmed, pending, notified, attempts, locals, history>>

-----------------------------------------------------------------------------
ConfirmStep(r) ==
    \/ ReadSignal(r)
    \/ AnswerStale(r)
    \/ AnswerFailed(r)
    \/ ReadConfirmed(r)
    \/ ConfirmFirst(r)
    \/ ConfirmSame(r)
    \/ CountStreak(r)
    \/ KeepPending(r)
    \/ Promote(r)
    \/ DropPending(r)

NoticeStep ==
    \/ NothingToTell
    \/ BeginNotice
    \/ \E u \in Users : PassOver(u) \/ Tell(u) \/ TellUnrecorded(u) \/ TellFails(u)
    \/ RetryLater
    \/ CloseNotice
    \/ ForgetAttempts

Next ==
    \/ \E r \in Readers : ConfirmStep(r)
    \/ NoticeStep
    \/ JobDies
    \/ ConfirmedExpires \/ PendingExpires \/ SentKeysExpire
    \/ (EntryGoes \/ LockGoes) /\ UNCHANGED <<rows, locals, history>>

Spec == Init /\ [][Next]_vars

\* The job comes back every hour, and its calls end.
Fairness == WF_vars(ConfirmStep(Job) \/ NoticeStep)

FairSpec == Spec /\ Fairness

-----------------------------------------------------------------------------
\* A level replaces the confirmed one only if, when its reader counted the
\* streak, as many different observations of it as are required had been written
\* down in a row, its own included, with none of the confirmed level in between:
\* however many readers share an observation and whichever comes first to the
\* rows (_resolve_confirmed_level).  The exception is a reader that had found the
\* row missing or run out, after which one observation confirms.
ConfirmedSeenTwice ==
    [][confirmed # None /\ confirmed' \notin {None, confirmed} =>
          \E r \in Readers :
              /\ got[r].level = confirmed'
              /\ step'[r] # step[r]
              /\ \/ step[r] = "counted" /\ Cardinality(memory[r].grounds) >= Required
                 \/ step[r] = "read" /\ memory[r].level = None]_confirmed

\* Nobody is told of the same change again, be it retried because others were
\* not reached or because the job died, unless the notice went out and its
\* commit failed (dispatch_dual_channel_alert sends before it commits).
ToldAgainForAReason == twice \subseteq unrecorded

\* Once the job gets reliable signals only, the level that was told becomes the
\* confirmed one, as long as there is one: neither subscribers nobody can reach
\* nor a confirmed level that runs out hold it up for ever.
NoticeCatchesUp ==
    <>[](at[Job] # "failed" /\ ~(at[Job] = "back" /\ got[Job].stale))
        => <>[](confirmed \in {None, notified})
=============================================================================
