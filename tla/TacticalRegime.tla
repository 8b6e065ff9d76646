--------------------------- MODULE TacticalRegime ---------------------------
(***************************************************************************)
(* The tactical strategy of one portfolio: its row in the database, and    *)
(* the sessions that read the row, look at the market and write back what  *)
(* they changed (services/tactical/*, api/v1/tactical.py,                  *)
(* jobs/tactical_regime_check.py).                                         *)
(*                                                                         *)
(*   Views   GET: the row is loaded, the market looked at, the state       *)
(*           advanced, and saved only if advance_strategy says so          *)
(*   Saves   PUT: creates the strategy or changes its settings, advances   *)
(*   "job"   the daily check: advances, tells the user, remembers it       *)
(*                                                                         *)
(* Only the application of the weights locks the row it reads.  The others *)
(* work on a copy from before the market was fetched; an UPDATE writes the *)
(* columns in which the session's copy changed, and no other.  A session   *)
(* that is outrun by the commit of another one writes all the same.        *)
(*                                                                         *)
(* Dates are kept as ages (today, earlier), so days need no bound.  The    *)
(* weights and the tilt of the month, which is but another change to save, *)
(* are left out.                                                           *)
(***************************************************************************)
EXTENDS Naturals

CONSTANTS
    Views, Saves, \* the clients that may GET, and those that may PUT
    Markets,      \* what evaluate_market may find
    Settings,     \* what a PUT may ask for
    MaxRequests   \* bound: requests of one behaviour

Clients == Views \cup Saves \cup {"job"}
Regimes == {"RISK_ON", "NEUTRAL", "RISK_OFF"}
None == "none"
Known == Regimes \cup {None}
Ages == {"none", "today", "earlier"}
Trends == {"UP", "NEUTRAL", "DOWN", "UNKNOWN"}

LevelOf ==
    [stage \in {"NONE", "SMA20", "SMA60", "SMA120", "SMA120_RSI", "UNKNOWN"} |->
        CASE stage = "SMA60" -> 1
          [] stage = "SMA120" -> 2
          [] stage = "SMA120_RSI" -> 3
          [] OTHER -> 0]

ASSUME ClientsAssumption == {"job", "user"} \cap (Views \cup Saves) = {}
ASSUME InputsAssumption ==
    /\ Markets \subseteq [level : {"GREEN", "YELLOW", "RED"}, stale : BOOLEAN,
                          spy : Trends, qqq : Trends,
                          tilt : BOOLEAN,   \* is this the first full look of the month?
                          stage : DOMAIN LevelOf]
    /\ Settings \subseteq [notify : BOOLEAN, macro : BOOLEAN, dips : BOOLEAN]
    /\ MaxRequests \in Nat

\* A row of tactical_strategies.
Rows ==
    [last : Known,            \* last_regime
     pending : Known,         \* pending_regime
     since : Ages,            \* pending_first_seen
     partial : Known,         \* partial_regime
     applied : Known,         \* applied_regime
     told : Known,            \* notified_regime
     dip : 0..3,              \* dip_level
     toldDip : 0..3,          \* notified_dip_level
     notify : BOOLEAN,        \* notify_enabled
     macro : BOOLEAN,         \* use_macro
     dips : BOOLEAN]          \* dip_shift_pct > 0

Fresh ==
    [last |-> None, pending |-> None, since |-> "none", partial |-> None,
     applied |-> None, told |-> None, dip |-> 0, toldDip |-> 0,
     notify |-> TRUE, macro |-> TRUE, dips |-> FALSE]

VARIABLES
    exists, row,   \* the row, if there is one
    sess,          \* client -> its session: the row it loaded, what it made of it
    used,          \* requests so far
    ran,           \* has the job of today begun?
    slipped,       \* has an outrun session written to this row?
    seen,          \* regime -> when it was first observed since the last confirmation
    halves         \* half applications under the confirmed regime, since a full one

vars == <<exists, row, sess, used, ran, slipped, seen, halves>>
history == <<slipped, seen, halves>>

\* at: what the session is doing; old, new: the row it loaded and that row as
\* it changed it; creates: will it insert the row?; stale: what it was told of
\* the macro signal; with "regime" and "dip" the job waits for a dispatch.
\* outrun (history): has another commit changed the row since it was loaded?
Sessions ==
    [at : {"idle", "view", "save", "regime", "dip", "sent"},
     old : Rows, new : Rows, creates : BOOLEAN, stale : BOOLEAN, outrun : BOOLEAN]

Idle ==
    [at |-> "idle", old |-> Fresh, new |-> Fresh,
     creates |-> FALSE, stale |-> FALSE, outrun |-> FALSE]

\* A session that goes on from the row `old` with the changed row `new`.
Session(at, old, new) == [Idle EXCEPT !.at = at, !.old = old, !.new = new]

Busy(c) == sess[c].at # "idle"

\* What the job has sent to the database in an open transaction locks the row:
\* selecting the recipient of a notice flushes.
Locked == sess["job"].at \in {"regime", "dip"} /\ sess["job"].new # sess["job"].old

TypeOK ==
    /\ exists \in BOOLEAN
    /\ row \in Rows
    /\ sess \in [Clients -> Sessions]
    /\ used \in 0..MaxRequests
    /\ ran \in BOOLEAN
    /\ slipped \in BOOLEAN
    /\ seen \in [Regimes -> Ages]
    /\ halves \in 0..2

Unseen == [r \in Regimes |-> "none"]

-----------------------------------------------------------------------------
(* How a look at market m advances a row.                                  *)

\* classify_regime, with the regime that was confirmed before; without the
\* macro signal it counts as GREEN.
Observed(r, m) ==
    LET level == IF r.macro THEN m.level ELSE "GREEN"
        stale == r.macro /\ m.stale
        calm == level = "GREEN" /\ ~stale
        holds == r.last = "RISK_ON" /\ level # "RED"
    IN  IF m.spy = "UNKNOWN" /\ m.qqq = "UNKNOWN" THEN None
        ELSE IF (level = "RED" /\ ~stale) \/ m.spy = "DOWN" THEN "RISK_OFF"
        ELSE IF m.spy = "UNKNOWN" \/ m.qqq = "UNKNOWN" THEN None
        ELSE IF m.spy = "UP" /\ m.qqq = "UP" /\ (calm \/ holds) THEN "RISK_ON"
        ELSE "NEUTRAL"

\* Mutant: the day of the first observation is not compared.
MutantConfirms(r, o) == r.last = None \/ (o # r.last /\ o = r.pending)

\* The test of step_confirmation.
Confirms(r, o) ==
    r.last = None \/ (o # r.last /\ o = r.pending /\ r.since = "earlier")

\* Mutant: half of the weights stays applied when the regime changes.
MutantStepped(r, o) ==
    IF o = None THEN r
    ELSE IF Confirms(r, o)
    THEN [r EXCEPT !.last = o, !.pending = None, !.since = "none"]
    ELSE IF o = r.last THEN [r EXCEPT !.pending = None, !.since = "none"]
    ELSE IF o # r.pending THEN [r EXCEPT !.pending = o, !.since = "today"]
    ELSE r

\* step_confirmation and advance_regime.
Stepped(r, o) ==
    IF o = None THEN r
    ELSE IF Confirms(r, o)
    THEN [r EXCEPT !.last = o, !.pending = None, !.since = "none", !.partial = None]
    ELSE IF o = r.last THEN [r EXCEPT !.pending = None, !.since = "none"]
    ELSE IF o # r.pending THEN [r EXCEPT !.pending = o, !.since = "today"]
    ELSE r

\* Mutant: the level is added to the one that is in already.
MutantAddsUp(r, stage) ==
    IF r.last # "RISK_ON" \/ stage = "NONE" THEN 0 ELSE r.dip + LevelOf[stage]

\* Mutant: no ratchet.
MutantDipOf(r, stage) ==
    IF r.last # "RISK_ON" \/ stage = "NONE" THEN 0
    ELSE IF stage = "UNKNOWN" THEN r.dip ELSE LevelOf[stage]

\* advance_dip_level, from the level and the regime of r.
DipOf(r, stage) ==
    IF r.last # "RISK_ON" \/ stage = "NONE" THEN 0
    ELSE IF LevelOf[stage] > r.dip THEN LevelOf[stage] ELSE r.dip

\* advance_strategy: the regime, the tilt (whose columns are left out), the dip.
Advanced(r, m) ==
    LET s == Stepped(r, Observed(r, m))
    IN  [s EXCEPT !.dip = DipOf(s, m.stage)]

\* What advance_strategy returns for it.
Reports(r, m) ==
    LET n == Advanced(r, m) IN n.last # r.last \/ m.tilt \/ n.dip # r.dip

-----------------------------------------------------------------------------
(* Writing back.  An UPDATE sets the columns in which new differs from old. *)

Col(base, old, new) == IF new = old THEN base ELSE new

Updated(base, old, new) ==
    [last |-> Col(base.last, old.last, new.last),
     pending |-> Col(base.pending, old.pending, new.pending),
     since |-> Col(base.since, old.since, new.since),
     partial |-> Col(base.partial, old.partial, new.partial),
     applied |-> Col(base.applied, old.applied, new.applied),
     told |-> Col(base.told, old.told, new.told),
     dip |-> Col(base.dip, old.dip, new.dip),
     toldDip |-> Col(base.toldDip, old.toldDip, new.toldDip),
     notify |-> Col(base.notify, old.notify, new.notify),
     macro |-> Col(base.macro, old.macro, new.macro),
     dips |-> Col(base.dips, old.dips, new.dips)]

\* History: when each regime was first observed, after an observation of o, and
\* how often half was applied.  Both end with the confirmed regime, and when the
\* row has slipped.
Noted(o) ==
    IF o \in {None, row.last} \/ slipped \/ seen[o] # "none" THEN seen
    ELSE [seen EXCEPT ![o] = "today"]

Records(r, o, n) ==
    IF r.last # row.last \/ slipped' THEN seen' = Unseen /\ halves' = 0
    ELSE seen' = Noted(o) /\ halves' = n

\* Client c commits r as the row and goes on as `next`; whoever else has loaded
\* the row is outrun if r changes it.
Commits(c, r, next) ==
    /\ row' = r
    /\ sess' = [d \in Clients |->
                  IF d = c THEN next
                  ELSE IF Busy(d) /\ r # row THEN [sess[d] EXCEPT !.outrun = TRUE]
                  ELSE sess[d]]

\* The same for what session c made of the row it loaded, with o the regime
\* it had observed (or none).
Saved(c, new, o, next) ==
    /\ ~Locked \/ c = "job"
    /\ Commits(c, Updated(row, sess[c].old, new), next)
    /\ slipped' = (slipped \/ (sess[c].outrun /\ new # sess[c].old))
    /\ Records(row', o, halves)

Goes(c, next) == sess' = [sess EXCEPT ![c] = next]

Asks == used < MaxRequests /\ used' = used + 1 /\ UNCHANGED ran

-----------------------------------------------------------------------------
(* GET *)

ViewLoads(v) ==
    /\ exists /\ ~Busy(v) /\ Asks
    /\ Goes(v, Session("view", row, row))
    /\ UNCHANGED <<exists, row, history>>

\* The state is saved only when advance_strategy reports a change; an
\* observation that is merely pending is none.
ViewEnds(v, m) ==
    LET old == sess[v].old
        new == Advanced(old, m)
    IN  /\ sess[v].at = "view"
        /\ \/ Reports(old, m) /\ Saved(v, new, Observed(old, m), Idle)
           \/ /\ ~Reports(old, m)
              /\ Goes(v, Idle)
              /\ seen' = Noted(Observed(old, m))
              /\ UNCHANGED <<row, slipped, halves>>
        /\ UNCHANGED <<exists, used, ran>>

-----------------------------------------------------------------------------
(* PUT *)

With(r, set) == [r EXCEPT !.notify = set.notify, !.macro = set.macro, !.dips = set.dips]

\* The settings are set before the market is asked.  Asking it commits them,
\* with a strategy that is new, unless the macro signal is stale: the durable
\* state of the confirmed level commits the session.
SaveBegins(s, set, stale) ==
    LET old == IF exists THEN row ELSE Fresh
        new == With(old, set)
    IN  /\ ~Busy(s) /\ Asks
        /\ \/ /\ stale
              /\ Goes(s, [Session("save", old, new)
                            EXCEPT !.creates = ~exists, !.stale = TRUE])
              /\ UNCHANGED <<exists, row, history>>
           \/ /\ ~stale
              /\ ~Locked
              /\ exists' = TRUE
              /\ Commits(s, new, Session("save", new, new))
              /\ UNCHANGED history

\* Nobody is told of the regime and the dip a strategy starts with.
Started(r) == IF r.told = None THEN [r EXCEPT !.told = r.last, !.toldDip = r.dip] ELSE r

SaveEnds(s, m) ==
    LET new == Started(Advanced(sess[s].new, m))
    IN  /\ sess[s].at = "save"
        /\ m.stale = sess[s].stale
        /\ \/ /\ ~sess[s].creates
              /\ Saved(s, new, Observed(sess[s].new, m), Idle)
              /\ UNCHANGED exists
           \/ /\ sess[s].creates /\ ~exists
              /\ exists' = TRUE
              /\ Commits(s, new, Idle)
              /\ UNCHANGED history
           \/ /\ sess[s].creates /\ exists    \* one strategy per portfolio
              /\ Goes(s, Idle)
              /\ UNCHANGED <<exists, row, history>>
        /\ UNCHANGED <<used, ran>>

-----------------------------------------------------------------------------
(* The job.  It advances the row right after it loaded it, and waits only  *)
(* for the dispatch of a notice.                                           *)

\* _notify_regime: is there a regime to tell?  It is told unless notices are off
\* or its weights are applied, and counts as told then.
RegimeNews(r) == r.last # None /\ r.last # r.told
TellsRegime(r) == RegimeNews(r) /\ r.notify /\ r.last # r.applied

\* Mutant: a regime whose weights are applied is left untold.
MutantUntold(r) == IF RegimeNews(r) /\ ~r.notify THEN [r EXCEPT !.told = r.last] ELSE r

Untold(r) == IF RegimeNews(r) THEN [r EXCEPT !.told = r.last] ELSE r

\* _notify_dip: a deeper level is told if cash is put in.
TellsDip(r) == r.dip > r.toldDip /\ r.dips /\ r.notify
DipTold(r) == [r EXCEPT !.toldDip = r.dip]

JobWaits(at, new, o) ==
    /\ Goes("job", Session(at, row, new))
    /\ seen' = Noted(o)
    /\ UNCHANGED <<exists, row, used, slipped, halves>>

\* Mutant: as in a view, an observation that is merely pending is not kept.
MutantChecked(m) == IF Reports(row, m) THEN Advanced(row, m) ELSE row

\* The row as the job advances it.
Checked(m) == Advanced(row, m)

JobCheck(m) ==
    LET o == Observed(row, m)
        new == Checked(m)
    IN  /\ exists /\ ~Busy("job") /\ ~ran
        /\ ran' = TRUE
        /\ \/ TellsRegime(new) /\ JobWaits("regime", new, o)
           \/ ~TellsRegime(new) /\ TellsDip(new) /\ JobWaits("dip", Untold(new), o)
           \/ \* nothing to tell, or no cash to speak of
              /\ ~TellsRegime(new)
              /\ Commits("job", DipTold(Untold(new)), Idle)
              /\ UNCHANGED <<exists, used, slipped>>
              /\ Records(row', o, halves)

\* The dispatch commits what was advanced and that the regime is told.
RegimeSent ==
    LET new == [sess["job"].new EXCEPT !.told = sess["job"].new.last]
    IN  /\ sess["job"].at = "regime"
        /\ Saved("job", new, None, Session("sent", new, new))
        /\ UNCHANGED <<exists, used, ran>>

\* The notice named the weights with the dip in them.
AfterRegimeSent ==
    /\ sess["job"].at = "sent"
    /\ Saved("job", DipTold(sess["job"].new), None, Idle)
    /\ UNCHANGED <<exists, used, ran>>

\* No channel took the notice, or nobody is there to tell.
RegimeNotSent ==
    LET new == sess["job"].new
    IN  /\ sess["job"].at = "regime"
        /\ \/ /\ TellsDip(new)
              /\ Goes("job", [sess["job"] EXCEPT !.at = "dip"])
              /\ UNCHANGED <<row, history>>
           \/ Saved("job", DipTold(new), None, Idle)
        /\ UNCHANGED <<exists, used, ran>>

DipEnds(isSent) ==
    LET new == sess["job"].new
    IN  /\ sess["job"].at = "dip"
        /\ Saved("job", IF isSent THEN DipTold(new) ELSE new, None, Idle)
        /\ UNCHANGED <<exists, used, ran>>

\* An exception, or the end of the server, in the middle of a dispatch.
JobFails ==
    /\ Busy("job")
    /\ Goes("job", Idle)
    /\ UNCHANGED <<exists, row, used, ran, history>>

JobEnds ==
    RegimeSent \/ AfterRegimeSent \/ RegimeNotSent \/ \E sent \in BOOLEAN : DipEnds(sent)

-----------------------------------------------------------------------------
(* The user, and the days. *)

\* POST apply, which reads the row again under its lock; n counts the halves.
Applies(r, n) ==
    /\ exists /\ ~Locked /\ Asks
    /\ row.last # None
    /\ Commits("user", r, Idle)
    /\ UNCHANGED <<exists, slipped>>
    /\ Records(r, None, n)

ApplyAll ==
    Applies([row EXCEPT !.applied = row.last, !.told = row.last, !.partial = None,
                        !.toldDip = row.dip], 0)

\* Mutant: half of the weights is applied as often as it is asked for.
MutantApplyHalf ==
    Applies([row EXCEPT !.partial = row.last, !.told = row.last],
            IF halves = 2 THEN 2 ELSE halves + 1)

ApplyHalf ==
    /\ row.partial # row.last
    /\ Applies([row EXCEPT !.partial = row.last, !.told = row.last],
               IF halves = 2 THEN 2 ELSE halves + 1)

\* DELETE.  A session that had loaded the row fails when it writes it.
Disable ==
    /\ exists /\ ~Locked /\ Asks
    /\ exists' = FALSE
    /\ row' = Fresh
    /\ sess' = [c \in Clients |-> IF sess[c].creates THEN sess[c] ELSE Idle]
    /\ slipped' = FALSE
    /\ seen' = Unseen
    /\ halves' = 0

Older(age) == IF age = "today" THEN "earlier" ELSE age

\* Midnight in Seoul.  The job, at 07:40, is done before; a request, which takes
\* seconds, is not continued after it.
NextDay ==
    /\ ~Busy("job")
    /\ sess' = [c \in Clients |-> Idle]
    /\ row' = [row EXCEPT !.since = Older(row.since)]
    /\ seen' = [r \in Regimes |-> Older(seen[r])]
    /\ ran' = FALSE
    /\ UNCHANGED <<exists, used, slipped, halves>>

Next ==
    \/ \E v \in Views : ViewLoads(v) \/ \E m \in Markets : ViewEnds(v, m)
    \/ \E s \in Saves :
          \/ \E set \in Settings, stale \in BOOLEAN : SaveBegins(s, set, stale)
          \/ \E m \in Markets : SaveEnds(s, m)
    \/ \E m \in Markets : JobCheck(m)
    \/ JobEnds
    \/ JobFails
    \/ ApplyAll
    \/ ApplyHalf
    \/ Disable
    \/ NextDay

\* Either nobody has turned the strategy on yet, or somebody has, long ago.
Init ==
    /\ \/ exists = FALSE /\ row = Fresh
       \/ /\ exists = TRUE
          /\ \E set \in Settings, m \in Markets :
                row = Started(Advanced(With(Fresh, set), m))
    /\ sess = [c \in Clients |-> Idle]
    /\ used = 0
    /\ ran = FALSE
    /\ slipped = FALSE
    /\ seen = Unseen
    /\ halves = 0

Spec == Init /\ [][Next]_vars

\* Days pass, and the job comes back and comes to an end.  Requests owe nothing.
Fairness ==
    /\ WF_vars(NextDay)
    /\ SF_vars(\E m \in Markets : JobCheck(m))
    /\ WF_vars(JobEnds)

FairSpec == Spec /\ Fairness

-----------------------------------------------------------------------------
\* As long as no session writes from a row that another has changed meanwhile,
\* the columns of the row agree: a pending regime has a date and is not the
\* confirmed one, half of the weights are applied only of the confirmed
\* regime, and cash is put in only under RISK_ON (step_confirmation,
\* advance_regime, tactical_dip).
RowIsSound ==
    slipped \/ /\ row.pending = None <=> row.since = "none"
               /\ row.pending # None => row.last \notin {None, row.pending}
               /\ row.partial \in {None, row.last}
               /\ row.dip > 0 => row.last = "RISK_ON"

\* The first regime is confirmed at once, every other one only when it was
\* observed on an earlier day too, under the regime that it replaces, whoever
\* observed it (step_confirmation).
ConfirmedOnTwoDays ==
    [][exists' /\ row.last \notin {None, row'.last} =>
          slipped' \/ seen[row'.last] = "earlier"]_vars

\* Under one regime half of the weights are applied once; a second half would
\* make it three quarters (check_apply_allowed).
HalfOnce == slipped \/ halves <= 1

\* Within one dip the cash put in only grows, until all of it is taken back
\* (the ratchet of advance_dip_level).
DipRatchets == [][exists' /\ row'.dip < row.dip => slipped' \/ row'.dip = 0]_vars

\* A view that sees a new regime on a second day, nobody having seen anything
\* else since the last change, confirms it: it does the job's work when the
\* server slept (the docstrings of step_confirmation, of
\* jobs/tactical_regime_check.py and the comment in get_tactical_status).
SeenTwiceIsConfirmed ==
    [][\A v \in Views, m \in Markets, o \in Regimes :
          (/\ ViewEnds(v, m) /\ ~sess[v].outrun
           /\ Observed(sess[v].old, m) = o
           /\ seen[o] = "earlier"
           /\ \A r \in Regimes \ {o} : seen[r] = "none")
          => row'.last = o]_vars

\* Somebody looks at the market, and observes one of os in it (the cheap guards
\* are repeated in front: the rest is costly to evaluate).
Looks(os) ==
    \E m \in Markets :
        \/ ~ran /\ ran' /\ Observed(row, m) \in os /\ JobCheck(m)
        \/ \E v \in Views :
              sess[v].at = "view" /\ Observed(sess[v].old, m) \in os /\ ViewEnds(v, m)
        \/ \E s \in Saves :
              sess[s].at = "save" /\ Observed(sess[s].new, m) \in os /\ SaveEnds(s, m)

\* A step of the job that can only be its failure.
Fails == JobFails /\ ~JobEnds

\* If in the end every look shows one regime, it is confirmed in the end,
\* unless an outrun session has left a pending regime without its date
\* (_check_one, which saves what step_confirmation makes of every observation).
RegimeCatchesUp ==
    \A o \in Regimes :
        <>[][~Fails /\ (Looks(Known) => Looks({o}))]_vars
            => <>[](exists => row.last = o \/ slipped)

\* Whatever regime is confirmed, by a view or a save as well, the user is told
\* or it is noted that there is no need, once notices go out
\* (the comment on notified_regime).
RegimeIsTold ==
    (<>[][~Fails /\ ~RegimeNotSent]_vars) => []<>(exists => row.told = row.last)
=============================================================================
