------------------------ MODULE TacticalRegime_proofs -----------------------
(***************************************************************************)
(* What holds of a tactical strategy for any sets of clients, any markets  *)
(* and settings and any number of requests.                                *)
(***************************************************************************)
EXTENDS TacticalRegime, TLAPS

(* Types: a row stays a row whatever is made of it.                        *)

LEMMA FreshIsARow == Fresh \in Rows
  BY DEF Fresh, Rows, Known, Regimes, Ages, None

LEMMA RowParts ==
  ASSUME NEW r \in Rows
  PROVE  /\ r.last \in Known /\ r.pending \in Known /\ r.since \in Ages
         /\ r.partial \in Known /\ r.applied \in Known /\ r.told \in Known
         /\ r.dip \in 0..3 /\ r.toldDip \in 0..3
         /\ r.notify \in BOOLEAN /\ r.macro \in BOOLEAN /\ r.dips \in BOOLEAN
  BY DEF Rows

LEMMA LevelTyped == ASSUME NEW stage \in DOMAIN LevelOf PROVE LevelOf[stage] \in 0..3
  BY DEF LevelOf

LEMMA MarketParts ==
  ASSUME NEW m \in Markets PROVE m.stage \in DOMAIN LevelOf
  BY InputsAssumption

LEMMA ObservedTyped == ASSUME NEW r, NEW m PROVE Observed(r, m) \in Known
  BY DEF Observed, Known, Regimes, None

LEMMA SteppedTyped ==
  ASSUME NEW r \in Rows, NEW o \in Known PROVE Stepped(r, o) \in Rows
  BY DEF Stepped, Rows, Known, Ages, None

LEMMA DipTyped ==
  ASSUME NEW r \in Rows, NEW stage \in DOMAIN LevelOf PROVE DipOf(r, stage) \in 0..3
  BY LevelTyped, RowParts DEF DipOf

LEMMA AdvancedTyped ==
  ASSUME NEW r \in Rows, NEW m \in Markets PROVE Advanced(r, m) \in Rows
  <1> DEFINE s == Stepped(r, Observed(r, m))
  <1>1. s \in Rows
    BY ObservedTyped, SteppedTyped
  <1>2. DipOf(s, m.stage) \in 0..3
    BY <1>1, MarketParts, DipTyped
  <1>3. Advanced(r, m) = [s EXCEPT !.dip = DipOf(s, m.stage)]
    BY DEF Advanced
  <1> HIDE DEF s
  <1> QED BY <1>1, <1>2, <1>3 DEF Rows

LEMMA WithTyped ==
  ASSUME NEW r \in Rows, NEW set \in Settings PROVE With(r, set) \in Rows
  BY InputsAssumption DEF With, Rows

LEMMA ToldTyped ==
  ASSUME NEW r \in Rows
  PROVE  Started(r) \in Rows /\ Untold(r) \in Rows /\ DipTold(r) \in Rows
  BY DEF Started, Untold, DipTold, Rows

LEMMA UpdatedTyped ==
  ASSUME NEW base \in Rows, NEW old \in Rows, NEW new \in Rows
  PROVE  Updated(base, old, new) \in Rows
  BY RowParts DEF Updated, Col, Rows

(* An update from the row itself writes what was made of it; one that      *)
(* changes nothing writes nothing.                                         *)
LEMMA RowExtensionality ==
  ASSUME NEW r \in Rows
  PROVE  r = [last |-> r.last, pending |-> r.pending, since |-> r.since,
              partial |-> r.partial, applied |-> r.applied, told |-> r.told,
              dip |-> r.dip, toldDip |-> r.toldDip, notify |-> r.notify,
              macro |-> r.macro, dips |-> r.dips]
  BY DEF Rows

LEMMA UpdatedFromRow ==
  ASSUME NEW r \in Rows, NEW new \in Rows
  PROVE  Updated(r, r, new) = new
  <1>1. \A a, b : Col(a, a, b) = b
    BY DEF Col
  <1> QED BY <1>1, RowExtensionality DEF Updated

LEMMA UpdatedByNothing ==
  ASSUME NEW r \in Rows, NEW old
  PROVE  Updated(r, old, old) = r
  <1>1. \A a, b : Col(a, b, b) = a
    BY DEF Col
  <1> QED BY <1>1, RowExtensionality DEF Updated

-----------------------------------------------------------------------------
(* Types: sessions, history, steps.                                        *)

LEMMA IdleTyped == Idle \in Sessions
  BY FreshIsARow DEF Idle, Sessions

LEMMA SessionTyped ==
  ASSUME NEW old \in Rows, NEW new \in Rows,
         NEW at \in {"idle", "view", "save", "regime", "dip", "sent"}
  PROVE  /\ Session(at, old, new) \in Sessions
         /\ Session(at, old, new).at = at
         /\ Session(at, old, new).old = old
         /\ Session(at, old, new).new = new
         /\ ~Session(at, old, new).creates
         /\ ~Session(at, old, new).outrun
  <1>1. Session(at, old, new) \in Sessions
    BY IdleTyped DEF Session, Sessions
  <1>2. ~Idle.creates /\ ~Idle.outrun
    BY DEF Idle
  <1> QED BY <1>1, <1>2, IdleTyped DEF Session, Sessions

LEMMA SessionParts ==
  ASSUME NEW s \in Sessions
  PROVE  /\ s.at \in {"idle", "view", "save", "regime", "dip", "sent"}
         /\ s.old \in Rows /\ s.new \in Rows
         /\ s.creates \in BOOLEAN /\ s.outrun \in BOOLEAN
  BY DEF Sessions

LEMMA GoesTyped ==
  ASSUME TypeOK, NEW c \in Clients, NEW next \in Sessions, Goes(c, next)
  PROVE  sess' \in [Clients -> Sessions]
  BY DEF TypeOK, Goes

LEMMA CommitsTyped ==
  ASSUME TypeOK, NEW c, NEW r \in Rows, NEW next \in Sessions, Commits(c, r, next)
  PROVE  row' \in Rows /\ sess' \in [Clients -> Sessions]
  <1>1. ASSUME NEW d \in Clients PROVE [sess[d] EXCEPT !.outrun = TRUE] \in Sessions
    BY DEF TypeOK, Sessions
  <1> QED BY <1>1 DEF Commits, TypeOK

LEMMA NotedTyped ==
  ASSUME TypeOK, NEW o \in Known PROVE Noted(o) \in [Regimes -> Ages]
  BY DEF TypeOK, Noted, Known, Ages

LEMMA RecordsTyped ==
  ASSUME TypeOK, NEW r, NEW o \in Known, NEW n \in 0..2, Records(r, o, n)
  PROVE  seen' \in [Regimes -> Ages] /\ halves' \in 0..2
  BY NotedTyped DEF Records, Unseen, Ages

LEMMA SavedTyped ==
  ASSUME TypeOK, NEW c \in Clients, NEW new \in Rows, NEW o \in Known, NEW next \in Sessions,
         Saved(c, new, o, next)
  PROVE  /\ row' \in Rows /\ sess' \in [Clients -> Sessions]
         /\ slipped' \in BOOLEAN /\ seen' \in [Regimes -> Ages] /\ halves' \in 0..2
  <1>1. sess[c].old \in Rows /\ sess[c].outrun \in BOOLEAN
    BY SessionParts DEF TypeOK
  <1>2. Updated(row, sess[c].old, new) \in Rows
    BY <1>1, UpdatedTyped DEF TypeOK
  <1>3. row' \in Rows /\ sess' \in [Clients -> Sessions]
    BY <1>2, CommitsTyped DEF Saved
  <1>4. seen' \in [Regimes -> Ages] /\ halves' \in 0..2
    BY RecordsTyped DEF Saved, TypeOK
  <1> QED BY <1>1, <1>3, <1>4 DEF Saved, TypeOK

LEMMA JobIsAClient == "job" \in Clients /\ Views \subseteq Clients /\ Saves \subseteq Clients
  BY DEF Clients

LEMMA NoneIsKnown == None \in Known
  BY DEF Known

LEMMA TypeInit == Init => TypeOK
  <1> SUFFICES ASSUME Init PROVE TypeOK
    OBVIOUS
  <1>1. ASSUME NEW set \in Settings, NEW m \in Markets
        PROVE  Started(Advanced(With(Fresh, set), m)) \in Rows
    BY FreshIsARow, WithTyped, AdvancedTyped, ToldTyped
  <1>2. row \in Rows /\ exists \in BOOLEAN
    BY <1>1, FreshIsARow DEF Init
  <1>3. sess \in [Clients -> Sessions]
    BY IdleTyped DEF Init
  <1>4. seen \in [Regimes -> Ages]
    BY DEF Init, Unseen, Ages
  <1>5. used \in 0..MaxRequests /\ halves \in 0..2
    BY InputsAssumption DEF Init
  <1>6. ran \in BOOLEAN /\ slipped \in BOOLEAN
    BY DEF Init
  <1> QED BY <1>2, <1>3, <1>4, <1>5, <1>6 DEF TypeOK

LEMMA TypeStep == ASSUME TypeOK, [Next]_vars PROVE TypeOK'
  <1>t. /\ exists \in BOOLEAN /\ row \in Rows /\ sess \in [Clients -> Sessions]
        /\ used \in 0..MaxRequests /\ ran \in BOOLEAN /\ slipped \in BOOLEAN
        /\ seen \in [Regimes -> Ages] /\ halves \in 0..2 /\ MaxRequests \in Nat
    BY InputsAssumption DEF TypeOK
  <1>s. \A c \in Clients : sess[c] \in Sessions /\ sess[c].old \in Rows /\ sess[c].new \in Rows
    BY <1>t, SessionParts
  <1>a. Asks => used' \in 0..MaxRequests /\ ran' \in BOOLEAN
    BY <1>t DEF Asks
  <1> USE JobIsAClient, IdleTyped, NoneIsKnown
  <1>1. ASSUME NEW v \in Views, ViewLoads(v) PROVE TypeOK'
    <2>1. Session("view", row, row) \in Sessions
      BY <1>t, SessionTyped
    <2>2. sess' \in [Clients -> Sessions]
      BY <1>1, <2>1, GoesTyped DEF ViewLoads
    <2> QED BY <1>1, <1>t, <1>a, <2>2 DEF ViewLoads, history, TypeOK
  <1>2. ASSUME NEW v \in Views, NEW m \in Markets, ViewEnds(v, m) PROVE TypeOK'
    <2>1. Advanced(sess[v].old, m) \in Rows /\ Observed(sess[v].old, m) \in Known
      BY <1>s, AdvancedTyped, ObservedTyped
    <2>2. CASE Saved(v, Advanced(sess[v].old, m), Observed(sess[v].old, m), Idle)
      BY <1>2, <1>t, <2>1, <2>2, SavedTyped DEF ViewEnds, TypeOK
    <2>3. CASE /\ Goes(v, Idle)
               /\ seen' = Noted(Observed(sess[v].old, m))
               /\ UNCHANGED <<row, slipped, halves>>
      BY <1>2, <1>t, <2>1, <2>3, GoesTyped, NotedTyped DEF ViewEnds, TypeOK
    <2> QED BY <1>2, <2>2, <2>3 DEF ViewEnds
  <1>3. ASSUME NEW s \in Saves, NEW set \in Settings, NEW stale \in BOOLEAN,
               SaveBegins(s, set, stale)
        PROVE  TypeOK'
    <2> DEFINE old == IF exists THEN row ELSE Fresh
               new == With(old, set)
    <2>1. old \in Rows
      BY <1>t, FreshIsARow
    <2>2. new \in Rows
      BY <2>1, WithTyped
    <2>3. CASE /\ Goes(s, [Session("save", old, new) EXCEPT !.creates = ~exists, !.stale = TRUE])
               /\ UNCHANGED <<exists, row, history>>
      <3>1. [Session("save", old, new) EXCEPT !.creates = ~exists, !.stale = TRUE] \in Sessions
        <4> HIDE DEF old, new
        <4>1. Session("save", old, new) \in Sessions
          BY <2>1, <2>2, SessionTyped
        <4> QED BY <4>1, <1>t DEF Sessions
      <3> HIDE DEF old, new
      <3> QED BY <1>3, <1>t, <1>a, <2>3, <3>1, GoesTyped DEF SaveBegins, history, TypeOK
    <2>4. CASE /\ exists' = TRUE
               /\ Commits(s, new, Session("save", new, new))
               /\ UNCHANGED history
      <3>1. Session("save", new, new) \in Sessions
        BY <2>2, SessionTyped
      <3> HIDE DEF new
      <3>2. row' \in Rows /\ sess' \in [Clients -> Sessions]
        BY <2>2, <2>4, <3>1, CommitsTyped
      <3> QED BY <1>3, <1>t, <1>a, <2>4, <3>2 DEF SaveBegins, history, TypeOK
    <2> QED BY <1>3, <2>3, <2>4 DEF SaveBegins
  <1>4. ASSUME NEW s \in Saves, NEW m \in Markets, SaveEnds(s, m) PROVE TypeOK'
    <2> DEFINE new == Started(Advanced(sess[s].new, m))
               o == Observed(sess[s].new, m)
    <2>1. new \in Rows /\ o \in Known
      BY <1>s, AdvancedTyped, ToldTyped, ObservedTyped
    <2>2. CASE Saved(s, new, o, Idle) /\ UNCHANGED exists
      <3> HIDE DEF new, o
      <3> QED BY <1>4, <1>t, <2>1, <2>2, SavedTyped DEF SaveEnds, TypeOK
    <2>3. CASE exists' = TRUE /\ Commits(s, new, Idle) /\ UNCHANGED history
      <3> HIDE DEF new
      <3> QED BY <1>4, <1>t, <2>1, <2>3, CommitsTyped DEF SaveEnds, history, TypeOK
    <2>4. CASE Goes(s, Idle) /\ UNCHANGED <<exists, row, history>>
      BY <1>4, <1>t, <2>4, GoesTyped DEF SaveEnds, history, TypeOK
    <2> QED BY <1>4, <2>2, <2>3, <2>4 DEF SaveEnds
  <1>5. ASSUME NEW m \in Markets, JobCheck(m) PROVE TypeOK'
    <2> DEFINE o == Observed(row, m)
               new == Checked(m)
    <2>1. new \in Rows /\ o \in Known
      BY <1>t, AdvancedTyped, ObservedTyped DEF Checked
    <2>2. Untold(new) \in Rows
      BY <2>1, ToldTyped
    <2>3. DipTold(Untold(new)) \in Rows
      BY <2>2, ToldTyped
    <2> HIDE DEF o, new
    <2>4. ASSUME NEW at \in {"regime", "dip"}, NEW n \in Rows, JobWaits(at, n, o) PROVE TypeOK'
      <3>1. Session(at, row, n) \in Sessions
        BY <1>t, SessionTyped
      <3> QED BY <1>5, <1>t, <2>1, <2>4, <3>1, GoesTyped, NotedTyped DEF JobCheck, JobWaits, TypeOK
    <2>5. CASE /\ Commits("job", DipTold(Untold(new)), Idle)
               /\ UNCHANGED <<exists, used, slipped>>
               /\ Records(row', o, halves)
      BY <1>5, <1>t, <2>1, <2>3, <2>5, CommitsTyped, RecordsTyped DEF JobCheck, TypeOK
    <2> QED BY <1>5, <2>1, <2>2, <2>4, <2>5 DEF JobCheck, o, new
  <1>6. ASSUME NEW n \in Rows, NEW next \in Sessions, Saved("job", n, None, next),
               UNCHANGED <<exists, used, ran>>
        PROVE  TypeOK'
    BY <1>6, <1>t, SavedTyped DEF TypeOK
  <1>7. CASE RegimeSent
    <2> DEFINE new == [sess["job"].new EXCEPT !.told = sess["job"].new.last]
    <2>1. new \in Rows
      BY <1>s DEF Rows
    <2>2. Session("sent", new, new) \in Sessions
      BY <2>1, SessionTyped
    <2> QED BY <1>6, <1>7, <2>1, <2>2 DEF RegimeSent
  <1>8. CASE AfterRegimeSent
    BY <1>6, <1>8, <1>s, ToldTyped DEF AfterRegimeSent
  <1>9. CASE RegimeNotSent
    <2>1. CASE Saved("job", DipTold(sess["job"].new), None, Idle)
      BY <1>6, <1>9, <2>1, <1>s, ToldTyped DEF RegimeNotSent
    <2>2. CASE Goes("job", [sess["job"] EXCEPT !.at = "dip"]) /\ UNCHANGED <<row, history>>
      <3>1. [sess["job"] EXCEPT !.at = "dip"] \in Sessions
        BY <1>s DEF Sessions
      <3> QED BY <1>9, <1>t, <2>2, <3>1, GoesTyped DEF RegimeNotSent, history, TypeOK
    <2> QED BY <1>9, <2>1, <2>2 DEF RegimeNotSent
  <1>10. ASSUME NEW isSent \in BOOLEAN, DipEnds(isSent) PROVE TypeOK'
    <2>1. (IF isSent THEN DipTold(sess["job"].new) ELSE sess["job"].new) \in Rows
      BY <1>s, ToldTyped
    <2> QED BY <1>6, <1>10, <2>1 DEF DipEnds
  <1>11. CASE JobFails
    BY <1>11, <1>t, GoesTyped DEF JobFails, history, TypeOK
  <1>12. ASSUME NEW r \in Rows, NEW n \in 0..2, Applies(r, n) PROVE TypeOK'
    BY <1>12, <1>t, <1>a, CommitsTyped, RecordsTyped DEF Applies, TypeOK
  <1>13. CASE ApplyAll
    <2>1. [row EXCEPT !.applied = row.last, !.told = row.last, !.partial = None,
                      !.toldDip = row.dip] \in Rows
      BY <1>t DEF Rows
    <2> QED BY <1>12, <1>13, <2>1 DEF ApplyAll
  <1>14. CASE ApplyHalf
    <2>1. [row EXCEPT !.partial = row.last, !.told = row.last] \in Rows
      BY <1>t DEF Rows
    <2>2. (IF halves = 2 THEN 2 ELSE halves + 1) \in 0..2
      BY <1>t
    <2> QED BY <1>12, <1>14, <2>1, <2>2 DEF ApplyHalf
  <1>15. CASE Disable
    <2>1. seen' \in [Regimes -> Ages]
      BY <1>15 DEF Disable, Unseen, Ages
    <2>2. sess' \in [Clients -> Sessions]
      BY <1>15, <1>t DEF Disable
    <2>3. row' = Fresh /\ exists' \in BOOLEAN /\ slipped' \in BOOLEAN
      BY <1>15 DEF Disable
    <2>5. halves' \in 0..2
      BY <1>15 DEF Disable
    <2>4. used' \in 0..MaxRequests /\ ran' \in BOOLEAN
      BY <1>15, <1>a DEF Disable
    <2> QED BY <2>1, <2>2, <2>3, <2>4, <2>5, FreshIsARow DEF TypeOK
  <1>16. CASE NextDay
    <2>1. [row EXCEPT !.since = Older(row.since)] \in Rows
      BY <1>t DEF Rows, Older, Ages
    <2> QED BY <1>16, <1>t, <2>1 DEF NextDay, TypeOK, Older, Ages
  <1>17. CASE UNCHANGED vars
    BY <1>17, <1>t DEF vars, history, TypeOK
  <1> QED
    BY <1>1, <1>2, <1>3, <1>4, <1>5, <1>7, <1>8, <1>9, <1>10, <1>11, <1>13, <1>14, <1>15, <1>16,
       <1>17 DEF Next, JobEnds

\* Rows, sessions and histories keep their types.
THEOREM RegimeTyped == Spec => []TypeOK
  <1>1. TypeOK /\ [Next]_vars => TypeOK'
    BY TypeStep
  <1> QED BY TypeInit, <1>1, PTL DEF Spec

-----------------------------------------------------------------------------
(* The inductive invariant.  As long as the row has not slipped:           *)
(*   the row and whatever a session in time has made of it are sound;      *)
(*   half of the weights counts as applied only of the confirmed regime;   *)
(*   a pending regime was observed when the row says so; and               *)
(*   a session in time changed the row it works on, the last one there is, *)
(*   as one look at the market may.                                        *)

Sound(r) ==
    /\ r.pending = None <=> r.since = "none"
    /\ r.pending # None => r.last \notin {None, r.pending}
    /\ r.partial \in {None, r.last}
    /\ r.dip > 0 => r.last = "RISK_ON"

\* s says when each regime was observed first.
Dated(s, r) ==
    r.pending # None => /\ s[r.pending] # "none"
                        /\ r.since = "earlier" => s[r.pending] = "earlier"

Witnessed(s, old, new) ==
    old.last \notin {None, new.last} => new.last # None /\ s[new.last] = "earlier"

Grows(old, new) == new.dip = 0 \/ new.dip >= old.dip

\* What is made of a row by one look at the market that was noted in s.
Follows(s, old, new) ==
    /\ Sound(new)
    /\ Grows(old, new)
    /\ Witnessed(s, old, new)
    /\ new.last # old.last => new.pending = None
    /\ new.last = old.last => new.partial = old.partial /\ Dated(s, new)

SameSignal(a, b) ==
    /\ a.last = b.last /\ a.pending = b.pending /\ a.since = b.since
    /\ a.partial = b.partial /\ a.dip = b.dip

SessionShape(s) ==
    /\ s.creates => s.at = "save" /\ SameSignal(s.new, Fresh)
    /\ s.at \in {"view", "sent"} => s.new = s.old
    /\ s.at = "save" => SameSignal(s.new, s.old)
    /\ s.at = "regime" => s.new.told = s.old.told /\ s.new.last # s.new.told

Live(c) == Busy(c) /\ ~sess[c].creates /\ ~sess[c].outrun

SessionFits(c) == sess[c].old = row /\ Follows(seen, row, sess[c].new)

RowFits ==
    /\ Sound(row)
    /\ Dated(seen, row)
    /\ halves \in 0..1
    /\ halves = 1 => row.partial = row.last

\* While there is no row, the only sessions are those that will insert one.
Absent ==
    ~exists => /\ row = Fresh /\ seen = Unseen /\ halves = 0 /\ ~slipped
               /\ \A c \in Clients : Busy(c) => sess[c].creates

Shapes == \A c \in Clients : SessionShape(sess[c])

Fits == slipped \/ (RowFits /\ \A c \in Clients : Live(c) => SessionFits(c))

Inv == TypeOK /\ Absent /\ Shapes /\ Fits

\* What no step does to the regime and the dip of a row that goes on.
Orderly == exists' => slipped' \/ (Witnessed(seen, row, row') /\ Grows(row, row'))

(* What a look at the market makes of a sound row.                         *)

LEMMA KnownRegime ==
  ASSUME NEW o \in Known, o # None PROVE o \in Regimes
  BY DEF Known

LEMMA SteppedKeeps ==
  ASSUME NEW r \in Rows, NEW o \in Known, Sound(r)
  PROVE  LET s == Stepped(r, o)
         IN  /\ s.pending = None <=> s.since = "none"
             /\ s.pending # None => s.last \notin {None, s.pending}
             /\ s.partial \in {None, s.last}
             /\ s.dip = r.dip
             /\ s.last # r.last => s.pending = None
             /\ s.last = r.last => s.partial = r.partial
             /\ s.last # r.last => s.last = o /\ o # None
             /\ r.last \notin {None, s.last} => s.last = r.pending /\ r.since = "earlier"
             /\ s.pending \in {None, r.pending, o}
             /\ s.pending # None /\ s.pending # r.pending => s.since = "today"
             /\ s.pending # None /\ s.pending = r.pending => s.since = r.since
  BY DEF Stepped, Confirms, Sound, Rows, Known, Ages, Regimes, None

LEMMA SteppedTold ==
  ASSUME NEW r \in Rows, NEW o PROVE Stepped(r, o).told = r.told
  BY DEF Stepped, Rows

LEMMA NotedGrows ==
  ASSUME TypeOK, NEW o \in Known, NEW r \in Regimes, seen[r] # "none"
  PROVE  Noted(o)[r] = seen[r]
  BY DEF TypeOK, Noted, Known

LEMMA NotedNotes ==
  ASSUME TypeOK, ~slipped, NEW o \in Known, o # None, o # row.last
  PROVE  Noted(o)[o] # "none"
  BY KnownRegime DEF TypeOK, Noted

LEMMA NotedNothing == Noted(None) = seen
  BY DEF Noted

LEMMA DatedGrows ==
  ASSUME TypeOK, NEW o \in Known, NEW r \in Rows, Dated(seen, r)
  PROVE  Dated(Noted(o), r)
  BY KnownRegime, RowParts, NotedGrows DEF Dated

LEMMA AdvancedParts ==
  ASSUME NEW r \in Rows, NEW m \in Markets
  PROVE  LET n == Advanced(r, m)
             s == Stepped(r, Observed(r, m))
         IN  /\ s \in Rows
             /\ n.last = s.last /\ n.pending = s.pending /\ n.since = s.since
             /\ n.partial = s.partial /\ n.told = s.told /\ n.dip = DipOf(s, m.stage)
  <1> DEFINE s == Stepped(r, Observed(r, m))
  <1>1. s \in Rows
    BY ObservedTyped, SteppedTyped
  <1>2. Advanced(r, m) = [s EXCEPT !.dip = DipOf(s, m.stage)]
    BY DEF Advanced
  <1> HIDE DEF s
  <1>3. /\ Advanced(r, m).last = s.last /\ Advanced(r, m).pending = s.pending
        /\ Advanced(r, m).since = s.since /\ Advanced(r, m).partial = s.partial
        /\ Advanced(r, m).told = s.told /\ Advanced(r, m).dip = DipOf(s, m.stage)
    BY <1>1, <1>2 DEF Rows
  <1> QED BY <1>1, <1>3 DEF s

LEMMA DipKeeps ==
  ASSUME NEW s \in Rows, NEW stage \in DOMAIN LevelOf
  PROVE  /\ DipOf(s, stage) > 0 => s.last = "RISK_ON"
         /\ DipOf(s, stage) = 0 \/ DipOf(s, stage) >= s.dip
  BY LevelTyped, RowParts DEF DipOf

LEMMA AdvancedFollows ==
  ASSUME TypeOK, ~slipped, NEW r \in Rows, NEW m \in Markets,
         Sound(r), Dated(seen, r), r.last = row.last
  PROVE  /\ Follows(Noted(Observed(r, m)), r, Advanced(r, m))
         /\ Witnessed(seen, r, Advanced(r, m))
  <1> DEFINE o == Observed(r, m)
             s == Stepped(r, o)
             n == Advanced(r, m)
  <1>1. o \in Known /\ s \in Rows /\ n \in Rows /\ m.stage \in DOMAIN LevelOf
    BY ObservedTyped, SteppedTyped, AdvancedTyped, MarketParts
  <1>2. /\ s.pending = None <=> s.since = "none"
        /\ s.pending # None => s.last \notin {None, s.pending}
        /\ s.partial \in {None, s.last}
        /\ s.dip = r.dip
        /\ s.last # r.last => s.pending = None
        /\ s.last = r.last => s.partial = r.partial
        /\ s.last # r.last => s.last = o /\ o # None
        /\ r.last \notin {None, s.last} => s.last = r.pending /\ r.since = "earlier"
        /\ s.pending \in {None, r.pending, o}
        /\ s.pending # None /\ s.pending # r.pending => s.since = "today"
        /\ s.pending # None /\ s.pending = r.pending => s.since = r.since
    BY <1>1, SteppedKeeps
  <1>3. /\ n.last = s.last /\ n.pending = s.pending /\ n.since = s.since
        /\ n.partial = s.partial /\ n.dip = DipOf(s, m.stage)
    BY AdvancedParts
  <1> HIDE DEF o, s, n
  <1>4. n.dip > 0 => n.last = "RISK_ON"
    BY <1>1, <1>3, DipKeeps
  <1>5. Grows(r, n)
    BY <1>1, <1>2, <1>3, DipKeeps DEF Grows
  <1>6. Sound(n)
    BY <1>2, <1>3, <1>4 DEF Sound
  <1>7. Witnessed(seen, r, n)
    <2> SUFFICES ASSUME r.last \notin {None, n.last} PROVE n.last # None /\ seen[n.last] = "earlier"
      BY DEF Witnessed
    <2>1. n.last = r.pending /\ r.since = "earlier" /\ n.last = o /\ o # None
      BY <1>2, <1>3
    <2> QED BY <2>1 DEF Dated
  <1>8. Witnessed(Noted(o), r, n)
    BY <1>1, <1>7, KnownRegime, RowParts, NotedGrows DEF Witnessed
  <1>9. ASSUME n.last = r.last PROVE Dated(Noted(o), n)
    <2> SUFFICES ASSUME n.pending # None
                 PROVE  /\ Noted(o)[n.pending] # "none"
                        /\ n.since = "earlier" => Noted(o)[n.pending] = "earlier"
      BY DEF Dated
    <2>1. CASE n.pending = r.pending
      BY <1>1, <1>2, <1>3, <2>1, DatedGrows DEF Dated
    <2>2. CASE n.pending # r.pending
      <3>1. n.pending = o /\ n.since = "today" /\ o # None
        BY <1>2, <1>3, <2>2
      <3>2. o # row.last
        BY <1>2, <1>3, <1>9, <3>1
      <3> QED BY <1>1, <3>1, <3>2, NotedNotes
    <2> QED BY <2>1, <2>2
  <1> QED BY <1>2, <1>3, <1>5, <1>6, <1>7, <1>8, <1>9 DEF Follows, o, n

(* Settings and notices do not touch the signal.                           *)

LEMMA SignalFollows ==
  ASSUME NEW s, NEW old, NEW a, NEW b, SameSignal(a, b), Follows(s, old, a)
  PROVE  Follows(s, old, b)
  BY DEF SameSignal, Follows, Sound, Grows, Witnessed, Dated

LEMMA WithKeepsSignal ==
  ASSUME NEW r \in Rows, NEW set \in Settings PROVE SameSignal(r, With(r, set))
  BY InputsAssumption DEF SameSignal, With, Rows

LEMMA ToldKeepsSignal ==
  ASSUME NEW r \in Rows
  PROVE  /\ SameSignal(r, Untold(r)) /\ SameSignal(r, DipTold(r)) /\ SameSignal(r, Started(r))
         /\ SameSignal(r, [r EXCEPT !.told = r.last])
  BY DEF SameSignal, Untold, DipTold, Started, Rows

LEMMA RowFollowsItself ==
  ASSUME TypeOK, RowFits PROVE Follows(seen, row, row)
  BY RowParts DEF TypeOK, RowFits, Follows, Grows, Witnessed

-----------------------------------------------------------------------------
(* Sessions: one goes on, the others stay, or are outrun by a commit.      *)

LEMMA IdleShape == SessionShape(Idle) /\ Idle.at = "idle"
  BY DEF SessionShape, Idle

LEMMA GoesOthers ==
  ASSUME TypeOK, NEW c \in Clients, NEW next, Goes(c, next)
  PROVE  /\ sess'[c] = next
         /\ \A d \in Clients : d # c => sess'[d] = sess[d]
  BY DEF TypeOK, Goes

LEMMA CommitsOthers ==
  ASSUME TypeOK, NEW c, NEW r, NEW next, Commits(c, r, next)
  PROVE  /\ row' = r
         /\ c \in Clients => sess'[c] = next
         /\ \A d \in Clients :
              d # c => /\ sess'[d].at = sess[d].at
                       /\ sess'[d].old = sess[d].old
                       /\ sess'[d].new = sess[d].new
                       /\ sess'[d].creates = sess[d].creates
                       /\ r = row => sess'[d] = sess[d]
                       /\ r # row /\ Busy(d) => sess'[d].outrun
  <1>1. ASSUME NEW d \in Clients
        PROVE  LET s == [sess[d] EXCEPT !.outrun = TRUE]
               IN  s.at = sess[d].at /\ s.old = sess[d].old /\ s.new = sess[d].new
                     /\ s.creates = sess[d].creates /\ s.outrun
    BY DEF TypeOK, Sessions
  <1>2. \A d \in Clients :
           sess'[d] = IF d = c THEN next
                      ELSE IF Busy(d) /\ r # row THEN [sess[d] EXCEPT !.outrun = TRUE]
                      ELSE sess[d]
    BY DEF Commits
  <1> QED BY <1>1, <1>2 DEF Commits

LEMMA GoesShapes ==
  ASSUME TypeOK, Shapes, NEW c \in Clients, NEW next, SessionShape(next), Goes(c, next)
  PROVE  Shapes'
  BY GoesOthers DEF Shapes

LEMMA CommitsShapes ==
  ASSUME TypeOK, Shapes, NEW c, NEW r, NEW next, SessionShape(next), Commits(c, r, next)
  PROVE  Shapes'
  <1> SUFFICES ASSUME NEW d \in Clients PROVE SessionShape(sess'[d])
    BY DEF Shapes
  <1>1. CASE d = c
    BY <1>1, CommitsOthers
  <1>2. CASE d # c
    BY <1>2, CommitsOthers DEF Shapes, SessionShape
  <1> QED BY <1>1, <1>2

(* A session that does not write: what it noted spoils nothing.            *)
LEMMA NotedFits ==
  ASSUME TypeOK, RowFits, NEW o \in Known, row' = row, seen' = Noted(o), halves' = halves
  PROVE  /\ RowFits'
         /\ \A d \in Clients : SessionFits(d) /\ sess'[d] = sess[d] => SessionFits(d)'
  <1>1. Dated(seen', row')
    BY DatedGrows DEF TypeOK, RowFits
  <1>2. RowFits'
    BY <1>1 DEF RowFits
  <1>3. ASSUME NEW d \in Clients, SessionFits(d), sess'[d] = sess[d] PROVE SessionFits(d)'
    <2>1. sess[d].new \in Rows /\ sess[d].old = row
      BY <1>3, SessionParts DEF TypeOK, SessionFits
    <2> DEFINE n == sess[d].new
    <2>2. Follows(seen, row, n)
      BY <1>3 DEF SessionFits
    <2> HIDE DEF n
    <2>3. n \in Rows
      BY <2>1 DEF n
    <2>4. Dated(seen, n) => Dated(Noted(o), n)
      BY <2>3, DatedGrows
    <2>5. Witnessed(seen, row, n) => Witnessed(Noted(o), row, n)
      BY <2>3, RowParts, KnownRegime, NotedGrows DEF Witnessed
    <2>6. Follows(seen', row', n)
      BY <2>2, <2>4, <2>5 DEF Follows
    <2> QED BY <1>3, <2>1, <2>6 DEF SessionFits, n
  <1> QED BY <1>2, <1>3

(* A commit of a row that follows from the last one.                       *)
LEMMA CommitFits ==
  ASSUME TypeOK, RowFits, \A d \in Clients : Live(d) => SessionFits(d),
         NEW r \in Rows, NEW o \in Known, NEW n \in 0..1, NEW c, NEW next, Commits(c, r, next),
         Sound(r),
         r.last # row.last => r.pending = None,
         r.last = row.last => Dated(Noted(o), r) /\ (n = 1 => r.partial = r.last),
         IF r.last # row.last THEN seen' = Unseen /\ halves' = 0
                              ELSE seen' = Noted(o) /\ halves' = n,
         c \in Clients /\ Live(c)' => next.old = r /\ next.new = r,
         r # row \/ n = halves
  PROVE  Fits'
  <1>1. row' = r
    BY CommitsOthers
  <1>2. Dated(seen', r)
    BY DEF Dated
  <1>3. RowFits'
    BY <1>1, <1>2 DEF RowFits
  <1>4. Follows(seen', r, r)
    BY <1>2, RowParts DEF Follows, Grows, Witnessed
  <1>5. ASSUME NEW d \in Clients, d # c, Live(d)' PROVE SessionFits(d)'
    <2>1. r = row /\ sess'[d] = sess[d]
      BY <1>5, CommitsOthers DEF Live, Busy
    <2>2. Live(d)
      BY <1>5, <2>1 DEF Live, Busy
    <2>3. seen' = Noted(o) /\ halves' = halves
      BY <2>1
    <2> QED BY <1>1, <2>1, <2>2, <2>3, NotedFits
  <1>6. c \in Clients /\ Live(c)' => SessionFits(c)'
    BY <1>1, <1>4, CommitsOthers DEF SessionFits
  <1> QED BY <1>3, <1>5, <1>6 DEF Fits

-----------------------------------------------------------------------------
(* Steps.                                                                   *)

LEMMA ExistsWhileWorking ==
  ASSUME Absent, NEW c \in Clients, Busy(c), ~sess[c].creates PROVE exists
  BY DEF Absent

LEMMA RowStays ==
  ASSUME TypeOK, row' = row PROVE Orderly
  BY RowParts DEF TypeOK, Orderly, Witnessed, Grows

LEMMA SavedKeeps ==
  ASSUME TypeOK, Fits, NEW c \in Clients, Busy(c), ~sess[c].creates,
         NEW new \in Rows, NEW o \in Known, NEW next, Saved(c, new, o, next),
         ~slipped /\ Live(c) => Follows(Noted(o), row, new) /\ Witnessed(seen, row, new),
         next.at # "idle" => new # sess[c].old /\ next.old = new /\ next.new = new
  PROVE  Fits' /\ Orderly
  <1>1. CASE slipped'
    BY <1>1 DEF Fits, Orderly
  <1>2. CASE ~slipped'
    <2>1. ~slipped /\ (sess[c].outrun => new = sess[c].old)
      BY <1>2 DEF Saved
    <2>2. RowFits /\ \A d \in Clients : Live(d) => SessionFits(d)
      BY <2>1 DEF Fits
    <2>3. row \in Rows /\ sess[c].old \in Rows
      BY SessionParts DEF TypeOK
    <2> DEFINE r == Updated(row, sess[c].old, new)
    <2>4. /\ Commits(c, r, next)
          /\ IF r.last # row.last THEN seen' = Unseen /\ halves' = 0
                                  ELSE seen' = Noted(o) /\ halves' = halves
      <3>1. Commits(c, r, next) /\ Records(r, o, halves)
        BY CommitsOthers DEF Saved
      <3> QED BY <3>1, <1>2 DEF Records
    <2>5. halves \in 0..1 /\ Live(c)' => next.at # "idle"
      BY <2>2, <2>4, CommitsOthers DEF RowFits, Live, Busy
    <2>6. CASE ~sess[c].outrun
      <3>1. sess[c].old = row /\ Follows(Noted(o), row, new) /\ Witnessed(seen, row, new)
        BY <2>1, <2>2, <2>6 DEF Live, SessionFits
      <3>2. r = new
        BY <2>3, <3>1, UpdatedFromRow
      <3> HIDE DEF r
      <3>3. Sound(r) /\ (r.last # row.last => r.pending = None)
        BY <3>1, <3>2 DEF Follows
      <3>4. r.last = row.last => Dated(Noted(o), r) /\ (halves = 1 => r.partial = r.last)
        BY <3>1, <3>2, <2>2 DEF Follows, RowFits
      <3>5. halves \in 0..1
        BY <2>2 DEF RowFits
      <3>6. c \in Clients /\ Live(c)' => next.old = r /\ next.new = r
        BY <2>4, <3>2, CommitsOthers DEF Live, Busy
      <3>7. Fits'
        BY <2>2, <2>4, <3>2, <3>3, <3>4, <3>5, <3>6, CommitFits
      <3>8. row' = new
        BY <2>4, <3>2, CommitsOthers
      <3> QED BY <3>1, <3>7, <3>8 DEF Orderly, Follows
    <2>7. CASE sess[c].outrun
      <3>1. r = row
        BY <2>1, <2>3, <2>7, UpdatedByNothing
      <3> HIDE DEF r
      <3>2. Sound(r) /\ (r.last # row.last => r.pending = None)
        BY <2>2, <3>1 DEF RowFits
      <3>3. r.last = row.last => Dated(Noted(o), r) /\ (halves = 1 => r.partial = r.last)
        BY <2>2, <2>3, <3>1, DatedGrows DEF RowFits
      <3>4. halves \in 0..1
        BY <2>2 DEF RowFits
      <3>5. c \in Clients /\ Live(c)' => next.old = r /\ next.new = r
        BY <2>1, <2>4, <2>7, CommitsOthers DEF Live, Busy
      <3>6. Fits'
        BY <2>2, <2>3, <2>4, <3>1, <3>2, <3>3, <3>4, <3>5, CommitFits
      <3>7. row' = row
        BY <2>4, <3>1, CommitsOthers
      <3> QED BY <3>6, <3>7, RowStays
    <2> QED BY <2>6, <2>7
  <1> QED BY <1>1, <1>2

LEMMA SavedShapes ==
  ASSUME TypeOK, Shapes, NEW c, NEW new, NEW o, NEW next, SessionShape(next),
         Saved(c, new, o, next)
  PROVE  Shapes'
  BY CommitsShapes DEF Saved

(* A session begins, or ends without a word.                               *)
LEMMA GoesKeeps ==
  ASSUME TypeOK, Fits, NEW c \in Clients, NEW next, Goes(c, next), NEW o \in Known,
         row' = row, seen' = Noted(o), halves' = halves, slipped' = slipped,
         ~slipped /\ Live(c)' => next.old = row /\ Follows(Noted(o), row, next.new)
  PROVE  Fits' /\ Orderly
  <1>1. Orderly
    BY RowStays
  <1>2. CASE ~slipped
    <2>1. RowFits /\ \A d \in Clients : Live(d) => SessionFits(d)
      BY <1>2 DEF Fits
    <2>2. RowFits' /\ \A d \in Clients : SessionFits(d) /\ sess'[d] = sess[d] => SessionFits(d)'
      BY <2>1, NotedFits
    <2>3. ASSUME NEW d \in Clients, d # c, Live(d)' PROVE SessionFits(d)'
      <3>1. sess'[d] = sess[d]
        BY <2>3, GoesOthers
      <3>2. Live(d)
        BY <2>3, <3>1 DEF Live, Busy
      <3> QED BY <2>1, <2>2, <3>1, <3>2
    <2>4. Live(c)' => SessionFits(c)'
      BY <1>2, GoesOthers DEF SessionFits
    <2> QED BY <1>1, <2>2, <2>3, <2>4 DEF Fits
  <1>3. CASE slipped
    BY <1>1, <1>3 DEF Fits
  <1> QED BY <1>2, <1>3

LEMMA ViewStep ==
  ASSUME Inv, NEW v \in Views, ViewLoads(v) \/ \E m \in Markets : ViewEnds(v, m)
  PROVE  Absent' /\ Shapes' /\ Fits' /\ Orderly
  <1>i. TypeOK /\ Absent /\ Shapes /\ Fits /\ v \in Clients
    BY JobIsAClient DEF Inv
  <1>1. CASE ViewLoads(v)
    <2> DEFINE next == Session("view", row, row)
    <2>0. row \in Rows
      BY <1>i DEF TypeOK
    <2>1. next.old = row /\ next.new = row /\ next.at = "view" /\ ~next.creates
      BY <2>0, SessionTyped
    <2> HIDE DEF next
    <2>2. Goes(v, next) /\ UNCHANGED <<exists, row, history>>
      BY <1>1 DEF ViewLoads, next
    <2>3. SessionShape(next)
      BY <2>1 DEF SessionShape
    <2>4. Shapes'
      BY <1>i, <2>2, <2>3, GoesShapes
    <2>5. ~slipped => Follows(Noted(None), row, next.new)
      BY <1>i, <2>1, NotedNothing, RowFollowsItself DEF Fits
    <2>6. Fits' /\ Orderly
      BY <1>i, <2>1, <2>2, <2>5, NotedNothing, NoneIsKnown, GoesKeeps DEF history
    <2>7. Absent'
      BY <1>1 DEF ViewLoads, Absent
    <2> QED BY <2>4, <2>6, <2>7
  <1>2. ASSUME NEW m \in Markets, ViewEnds(v, m) PROVE Absent' /\ Shapes' /\ Fits' /\ Orderly
    <2> DEFINE old == sess[v].old
               new == Advanced(old, m)
               o == Observed(old, m)
    <2>1. sess[v].at = "view" /\ UNCHANGED <<exists, used, ran>>
      BY <1>2 DEF ViewEnds
    <2>2. Busy(v) /\ ~sess[v].creates /\ old \in Rows
      BY <1>i, <2>1, SessionParts DEF Busy, Shapes, SessionShape, TypeOK
    <2>3. new \in Rows /\ o \in Known
      BY <2>2, AdvancedTyped, ObservedTyped
    <2>4. Absent'
      BY <1>i, <2>1, <2>2, ExistsWhileWorking DEF Absent
    <2>5. CASE Saved(v, new, o, Idle)
      <3>1. ~slipped /\ Live(v) => Follows(Noted(o), row, new) /\ Witnessed(seen, row, new)
        BY <1>i, AdvancedFollows DEF Fits, SessionFits, RowFits, TypeOK
      <3> HIDE DEF new, o
      <3>2. Fits' /\ Orderly
        BY <1>i, <2>2, <2>3, <2>5, <3>1, IdleShape, SavedKeeps
      <3>3. Shapes'
        BY <1>i, <2>5, IdleShape, SavedShapes
      <3> QED BY <2>4, <3>2, <3>3
    <2>6. CASE Goes(v, Idle) /\ seen' = Noted(o) /\ UNCHANGED <<row, slipped, halves>>
      <3> HIDE DEF o
      <3>1. ~Live(v)'
        BY <1>i, <2>6, GoesOthers, IdleShape DEF Live, Busy
      <3>2. Fits' /\ Orderly
        BY <1>i, <2>3, <2>6, <3>1, GoesKeeps
      <3>3. Shapes'
        BY <1>i, <2>6, IdleShape, GoesShapes
      <3> QED BY <2>4, <3>2, <3>3
    <2> QED BY <1>2, <2>5, <2>6 DEF ViewEnds
  <1> QED BY <1>1, <1>2

LEMMA FreshFollows == Sound(Fresh) /\ \A s : Dated(s, Fresh)
  BY DEF Fresh, Sound, Dated, None

LEMMA SameSignalBack ==
  ASSUME NEW a, NEW b, SameSignal(a, b) PROVE SameSignal(b, a)
  BY DEF SameSignal

LEMMA SaveBeginsStep ==
  ASSUME Inv, NEW s \in Saves, NEW set \in Settings, NEW stale \in BOOLEAN,
         SaveBegins(s, set, stale)
  PROVE  Absent' /\ Shapes' /\ Fits' /\ Orderly
  <1> DEFINE old == IF exists THEN row ELSE Fresh
             new == With(old, set)
  <1>i. TypeOK /\ Absent /\ Shapes /\ Fits /\ s \in Clients
    BY JobIsAClient DEF Inv
  <1>1. old = row /\ row \in Rows
    BY <1>i DEF Absent, TypeOK
  <1>2. new \in Rows /\ SameSignal(row, new)
    BY <1>1, WithTyped, WithKeepsSignal
  <1>3. CASE Goes(s, [Session("save", old, new) EXCEPT !.creates = ~exists, !.stale = TRUE])
             /\ UNCHANGED <<exists, row, history>>
    <2> DEFINE begun == Session("save", row, new)
               next == [begun EXCEPT !.creates = ~exists, !.stale = TRUE]
    <2>1. begun \in Sessions /\ begun.at = "save" /\ begun.old = row /\ begun.new = new
      BY <1>1, <1>2, SessionTyped
    <2>2. Goes(s, next)
      BY <1>1, <1>3
    <2> HIDE DEF begun
    <2>3. /\ next.at = "save" /\ next.old = row /\ next.new = new
          /\ next.creates <=> ~exists
      BY <1>i, <2>1 DEF Sessions, TypeOK
    <2> HIDE DEF next, new, old
    <2>4. SessionShape(next)
      BY <1>i, <1>1, <1>2, <2>3, SameSignalBack DEF SessionShape, Absent
    <2>5. Shapes'
      BY <1>i, <2>2, <2>4, GoesShapes
    <2>6. ~slipped => Follows(Noted(None), row, new)
      BY <1>i, <1>2, NotedNothing, RowFollowsItself, SignalFollows DEF Fits
    <2>7. Fits' /\ Orderly
      BY <1>i, <1>3, <2>2, <2>3, <2>6, NotedNothing, NoneIsKnown, GoesKeeps DEF history
    <2>8. Absent'
      <3>1. \A c \in Clients : sess'[c] = sess[c] \/ sess'[c].creates \/ exists
        BY <1>i, <2>2, <2>3, GoesOthers
      <3> QED BY <1>i, <1>3, <3>1 DEF Absent, Busy, history
    <2> QED BY <2>5, <2>7, <2>8
  <1>4. CASE /\ exists' = TRUE
             /\ Commits(s, new, Session("save", new, new))
             /\ UNCHANGED history
    <2> DEFINE next == Session("save", new, new)
    <2>1. next.at = "save" /\ next.old = new /\ next.new = new /\ ~next.creates
      BY <1>2, SessionTyped
    <2>2. Commits(s, new, next)
      BY <1>4
    <2> HIDE DEF next, new, old
    <2>3. SessionShape(next)
      BY <2>1 DEF SessionShape, SameSignal
    <2>4. Shapes'
      BY <1>i, <2>2, <2>3, CommitsShapes
    <2>5. Absent'
      BY <1>4 DEF Absent
    <2>6. Orderly
      <3>1. row' = new
        BY <1>i, <2>2, CommitsOthers
      <3>2. Witnessed(seen, row, new) /\ Grows(row, new)
        BY <1>1, <1>2, RowParts DEF Witnessed, Grows, SameSignal
      <3> QED BY <3>1, <3>2 DEF Orderly
    <2>7. CASE ~slipped
      <3>1. RowFits /\ \A d \in Clients : Live(d) => SessionFits(d)
        BY <1>i, <2>7 DEF Fits
      <3>2. Sound(new) /\ Dated(Noted(None), new) /\ new.last = row.last
              /\ (halves = 1 => new.partial = new.last)
        BY <1>2, <3>1, NotedNothing DEF SameSignal, RowFits, Sound, Dated
      <3>3. seen' = Noted(None) /\ halves' = halves /\ halves \in 0..1
        BY <1>4, <3>1, NotedNothing DEF history, RowFits
      <3> QED BY <1>i, <1>2, <2>1, <2>2, <2>4, <2>5, <2>6, <3>1, <3>2, <3>3, NoneIsKnown, CommitFits
    <2>8. CASE slipped
      BY <1>4, <2>4, <2>5, <2>6, <2>8 DEF Fits, history
    <2> QED BY <2>7, <2>8
  <1> QED BY <1>3, <1>4 DEF SaveBegins

LEMMA SaveEndsStep ==
  ASSUME Inv, NEW s \in Saves, NEW m \in Markets, SaveEnds(s, m)
  PROVE  Absent' /\ Shapes' /\ Fits' /\ Orderly
  <1> DEFINE mine == sess[s].new
             moved == Advanced(mine, m)
             new == Started(moved)
             o == Observed(mine, m)
  <1>i. TypeOK /\ Absent /\ Shapes /\ Fits /\ s \in Clients
    BY JobIsAClient DEF Inv
  <1>1. sess[s].at = "save" /\ Busy(s)
    BY DEF SaveEnds, Busy
  <1>2. mine \in Rows /\ sess[s].old \in Rows /\ SameSignal(mine, sess[s].old)
    BY <1>i, <1>1, SessionParts DEF TypeOK, Shapes, SessionShape
  <1>3. moved \in Rows /\ o \in Known
    BY <1>2, AdvancedTyped, ObservedTyped
  <1>4. new \in Rows /\ SameSignal(moved, new)
    BY <1>3, ToldTyped, ToldKeepsSignal
  <1>5. ASSUME ~slipped, SameSignal(mine, row)
        PROVE  Follows(Noted(o), row, new) /\ Witnessed(seen, row, new)
    <2>1. Sound(mine) /\ Dated(seen, mine) /\ mine.last = row.last
      BY <1>i, <1>5 DEF Fits, RowFits, SameSignal, Sound, Dated
    <2>2. Follows(Noted(o), mine, moved) /\ Witnessed(seen, mine, moved)
      BY <1>i, <1>2, <1>5, <2>1, AdvancedFollows
    <2> HIDE DEF mine, moved, new, o
    <2>3. Follows(Noted(o), mine, new) /\ Witnessed(seen, mine, new)
      BY <1>4, <2>2, SignalFollows DEF SameSignal, Witnessed
    <2> QED BY <1>5, <2>3 DEF SameSignal, Follows, Grows, Witnessed
  <1>6. CASE ~sess[s].creates /\ Saved(s, new, o, Idle) /\ UNCHANGED exists
    <2>1. ~slipped /\ Live(s) => SameSignal(mine, row)
      BY <1>i, <1>2 DEF Fits, SessionFits
    <2> HIDE DEF new, moved, o
    <2>2. Fits' /\ Orderly
      BY <1>i, <1>1, <1>3, <1>4, <1>5, <1>6, <2>1, IdleShape, SavedKeeps
    <2>3. Shapes'
      BY <1>i, <1>6, IdleShape, SavedShapes
    <2>4. Absent'
      BY <1>i, <1>1, <1>6, ExistsWhileWorking DEF Absent
    <2> QED BY <2>2, <2>3, <2>4
  <1>7. CASE /\ sess[s].creates /\ ~exists
             /\ exists' = TRUE
             /\ Commits(s, new, Idle)
             /\ UNCHANGED history
    <2>1. row = Fresh /\ seen = Unseen /\ halves = 0 /\ ~slipped
      BY <1>i, <1>7 DEF Absent
    <2>2. SameSignal(mine, row)
      BY <1>i, <1>7, <2>1 DEF Shapes, SessionShape
    <2> HIDE DEF new, moved, o
    <2>3. Follows(Noted(o), row, new) /\ Witnessed(seen, row, new)
      BY <1>5, <2>1, <2>2
    <2>4. new.pending = None
      <3>1. row.last = None /\ row.pending = None
        BY <2>1 DEF Fresh
      <3>2. mine.last = None /\ mine.pending = None
        BY <2>2, <3>1 DEF SameSignal
      <3>3. Stepped(mine, o).pending = None
        BY <1>2, <3>2 DEF Stepped, Confirms, Rows
      <3> QED BY <1>2, <1>4, <3>3, AdvancedParts DEF SameSignal, moved, o
    <2>5. RowFits /\ \A d \in Clients : Live(d) => SessionFits(d)
      BY <1>i, <2>1 DEF Fits
    <2>6. Shapes'
      BY <1>i, <1>7, IdleShape, CommitsShapes
    <2>7. row' = new
      BY <1>i, <1>7, CommitsOthers
    <2>8. Absent' /\ Orderly
      BY <1>7, <2>3, <2>7 DEF Absent, Orderly, Follows
    <2>9. RowFits'
      <3>1. halves' = 0
        BY <1>7, <2>1 DEF history
      <3>2. Dated(seen', new) /\ Sound(new)
        BY <2>3, <2>4 DEF Dated, Follows
      <3> QED BY <2>7, <3>1, <3>2 DEF RowFits
    <2>10. ASSUME NEW d \in Clients, Live(d)' PROVE FALSE
      <3>1. Busy(d) => sess[d].creates
        BY <1>i, <1>7 DEF Absent
      <3> QED BY <1>i, <1>7, <2>10, <3>1, IdleShape, CommitsOthers DEF Live, Busy
    <2> QED BY <2>6, <2>8, <2>9, <2>10 DEF Fits
  <1>8. CASE Goes(s, Idle) /\ UNCHANGED <<exists, row, history>> /\ exists
    <2>1. ~Live(s)'
      BY <1>i, <1>8, GoesOthers, IdleShape DEF Live, Busy
    <2>2. Fits' /\ Orderly
      BY <1>i, <1>8, <2>1, NotedNothing, NoneIsKnown, GoesKeeps DEF history
    <2>3. Shapes'
      BY <1>i, <1>8, IdleShape, GoesShapes
    <2>4. Absent'
      BY <1>8 DEF Absent
    <2> QED BY <2>2, <2>3, <2>4
  <1> QED BY <1>6, <1>7, <1>8 DEF SaveEnds

(* The job begins with the row as it is, and later goes on with what it    *)
(* made of it.                                                             *)
LEMMA JobCheckStep ==
  ASSUME Inv, NEW m \in Markets, JobCheck(m)
  PROVE  Absent' /\ Shapes' /\ Fits' /\ Orderly
  <1> DEFINE o == Observed(row, m)
             new == Advanced(row, m)
  <1>i. TypeOK /\ Absent /\ Shapes /\ Fits /\ row \in Rows
    BY DEF Inv, TypeOK
  <1>1. o \in Known /\ new \in Rows /\ Checked(m) = new
    BY <1>i, AdvancedTyped, ObservedTyped DEF Checked
  <1>2. Untold(new) \in Rows /\ DipTold(Untold(new)) \in Rows
    BY <1>1, ToldTyped
  <1>3. SameSignal(new, Untold(new)) /\ SameSignal(Untold(new), DipTold(Untold(new)))
    BY <1>1, <1>2, ToldKeepsSignal
  <1>4. ~slipped => Follows(Noted(o), row, new) /\ Witnessed(seen, row, new)
    BY <1>i, AdvancedFollows DEF Fits, RowFits
  <1>5. new.told = row.told
    BY <1>i, <1>1, AdvancedParts, SteppedTold
  <1>6. exists /\ exists' = exists
    BY DEF JobCheck, JobWaits
  <1>7. Absent'
    BY <1>6 DEF Absent
  <1> HIDE DEF o, new
  <1>8. ASSUME NEW at \in {"regime", "dip"}, NEW n \in Rows, JobWaits(at, n, o),
               SameSignal(new, n), at = "regime" => TellsRegime(n) /\ n.told = row.told
        PROVE  Absent' /\ Shapes' /\ Fits' /\ Orderly
    <2> DEFINE next == Session(at, row, n)
    <2>1. next.at = at /\ next.old = row /\ next.new = n /\ ~next.creates
      BY <1>i, SessionTyped
    <2>2. Goes("job", next) /\ seen' = Noted(o) /\ UNCHANGED <<exists, row, used, slipped, halves>>
      BY <1>8 DEF JobWaits
    <2> HIDE DEF next
    <2>3. SessionShape(next)
      BY <1>8, <2>1 DEF SessionShape, TellsRegime, RegimeNews
    <2>4. Shapes'
      BY <1>i, <2>2, <2>3, JobIsAClient, GoesShapes
    <2>5. ~slipped => Follows(Noted(o), row, next.new)
      BY <1>4, <1>8, <2>1, SignalFollows
    <2>6. Fits' /\ Orderly
      BY <1>i, <1>1, <2>1, <2>2, <2>5, JobIsAClient, GoesKeeps
    <2> QED BY <1>7, <2>4, <2>6
  <1>9. CASE /\ Commits("job", DipTold(Untold(new)), Idle)
             /\ UNCHANGED <<exists, used, slipped>>
             /\ Records(row', o, halves)
    <2> DEFINE n == DipTold(Untold(new))
    <2>1. ~slipped => Follows(Noted(o), row, n) /\ Witnessed(seen, row, n)
      BY <1>3, <1>4, SignalFollows DEF SameSignal, Witnessed
    <2>2. n \in Rows /\ Commits("job", n, Idle) /\ Records(row', o, halves)
      BY <1>2, <1>9
    <2> HIDE DEF n
    <2>3. row' = n
      BY <1>i, <2>2, CommitsOthers
    <2>4. Shapes'
      BY <1>i, <2>2, IdleShape, CommitsShapes
    <2>5. CASE ~slipped
      <3>1. RowFits /\ \A d \in Clients : Live(d) => SessionFits(d)
        BY <1>i, <2>5 DEF Fits
      <3>2. halves \in 0..1 /\ ~Live("job")'
        BY <1>i, <2>2, <3>1, JobIsAClient, IdleShape, CommitsOthers DEF RowFits, Live, Busy
      <3>3. IF n.last # row.last THEN seen' = Unseen /\ halves' = 0
                                 ELSE seen' = Noted(o) /\ halves' = halves
        BY <1>9, <2>2, <2>3, <2>5 DEF Records
      <3>4. /\ Sound(n)
            /\ n.last # row.last => n.pending = None
            /\ n.last = row.last => Dated(Noted(o), n) /\ (halves = 1 => n.partial = n.last)
        BY <2>1, <2>5, <3>1 DEF Follows, RowFits
      <3>5. Fits'
        BY <1>i, <1>1, <2>2, <3>1, <3>2, <3>3, <3>4, CommitFits
      <3>6. Orderly
        BY <2>1, <2>3, <2>5 DEF Orderly, Follows
      <3> QED BY <1>7, <2>4, <3>5, <3>6
    <2>6. CASE slipped
      BY <1>7, <1>9, <2>4, <2>6 DEF Fits, Orderly
    <2> QED BY <2>5, <2>6
  <1>10. CASE TellsRegime(new) /\ JobWaits("regime", new, o)
    BY <1>1, <1>5, <1>8, <1>10 DEF SameSignal
  <1>11. CASE JobWaits("dip", Untold(new), o)
    BY <1>2, <1>3, <1>8, <1>11
  <1> QED BY <1>1, <1>9, <1>10, <1>11 DEF JobCheck, o

LEMMA JobSaves ==
  ASSUME Inv, Busy("job"), ~sess["job"].creates, NEW new \in Rows, NEW next,
         SameSignal(sess["job"].new, new), Saved("job", new, None, next), SessionShape(next),
         next.at # "idle" => new # sess["job"].old /\ next.old = new /\ next.new = new,
         exists' = exists
  PROVE  Absent' /\ Shapes' /\ Fits' /\ Orderly
  <1>i. TypeOK /\ Absent /\ Shapes /\ Fits /\ "job" \in Clients
    BY JobIsAClient DEF Inv
  <1>1. ~slipped /\ Live("job") => Follows(Noted(None), row, new) /\ Witnessed(seen, row, new)
    <2>1. ~slipped /\ Live("job") => Follows(seen, row, sess["job"].new)
      BY <1>i DEF Fits, SessionFits
    <2> QED BY <2>1, NotedNothing, SignalFollows DEF Follows
  <1>2. Fits' /\ Orderly
    BY <1>i, <1>1, NoneIsKnown, SavedKeeps
  <1>3. Shapes'
    BY <1>i, SavedShapes
  <1>4. Absent'
    BY <1>i, ExistsWhileWorking DEF Absent
  <1> QED BY <1>2, <1>3, <1>4

LEMMA JobEndsStep ==
  ASSUME Inv, JobEnds \/ JobFails
  PROVE  Absent' /\ Shapes' /\ Fits' /\ Orderly
  <1> DEFINE mine == sess["job"].new
  <1>i. TypeOK /\ Absent /\ Shapes /\ Fits /\ "job" \in Clients
    BY JobIsAClient DEF Inv
  <1>j. sess["job"] \in Sessions /\ mine \in Rows /\ SessionShape(sess["job"])
    BY <1>i, SessionParts DEF TypeOK, Shapes
  <1>k. sess["job"].at \in {"regime", "dip", "sent"} => Busy("job") /\ ~sess["job"].creates
    BY <1>j DEF Busy, SessionShape
  <1>t. DipTold(mine) \in Rows /\ SameSignal(mine, DipTold(mine)) /\ SameSignal(mine, mine)
    BY <1>j, ToldTyped, ToldKeepsSignal DEF SameSignal
  <1>1. CASE RegimeSent
    <2> DEFINE new == [mine EXCEPT !.told = mine.last]
               next == Session("sent", new, new)
    <2>1. new \in Rows /\ new.told = mine.last
      BY <1>j DEF Rows
    <2>2. SameSignal(mine, new)
      BY <1>j, ToldKeepsSignal
    <2>3. next.at = "sent" /\ next.old = new /\ next.new = new /\ ~next.creates
      BY <2>1, SessionTyped
    <2>4. sess["job"].at = "regime" /\ Saved("job", new, None, next) /\ exists' = exists
      BY <1>1 DEF RegimeSent
    <2> HIDE DEF new, next
    <2>5. new # sess["job"].old
      BY <1>j, <2>1, <2>4 DEF SessionShape
    <2>6. SessionShape(next)
      BY <2>3 DEF SessionShape
    <2> QED BY <1>k, <2>1, <2>2, <2>3, <2>4, <2>5, <2>6, JobSaves
  <1>2. CASE AfterRegimeSent
    BY <1>2, <1>k, <1>t, IdleShape, JobSaves DEF AfterRegimeSent
  <1>3. CASE RegimeNotSent
    <2>1. CASE Saved("job", DipTold(mine), None, Idle)
      BY <1>3, <2>1, <1>k, <1>t, IdleShape, JobSaves DEF RegimeNotSent
    <2>2. CASE Goes("job", [sess["job"] EXCEPT !.at = "dip"]) /\ UNCHANGED <<row, history>>
      <3> DEFINE next == [sess["job"] EXCEPT !.at = "dip"]
      <3>1. /\ next.at = "dip" /\ next.old = sess["job"].old /\ next.new = mine
            /\ next.creates <=> sess["job"].creates
            /\ next.outrun <=> sess["job"].outrun
        BY <1>j DEF Sessions
      <3>2. Goes("job", next)
        BY <2>2
      <3> HIDE DEF next
      <3>3. sess["job"].at = "regime" /\ exists' = exists
        BY <1>3 DEF RegimeNotSent
      <3>4. SessionShape(next)
        BY <1>k, <3>1, <3>3 DEF SessionShape
      <3>5. Shapes'
        BY <1>i, <3>2, <3>4, GoesShapes
      <3>6. Live("job")' => Live("job")
        BY <1>i, <1>k, <3>1, <3>2, <3>3, GoesOthers DEF Live
      <3>7. ~slipped /\ Live("job")' => next.old = row /\ Follows(Noted(None), row, next.new)
        BY <1>i, <3>1, <3>6, NotedNothing DEF Fits, SessionFits
      <3>8. Fits' /\ Orderly
        BY <1>i, <2>2, <3>2, <3>7, NotedNothing, NoneIsKnown, GoesKeeps DEF history
      <3>9. Absent'
        BY <1>i, <1>k, <3>3, ExistsWhileWorking DEF Absent
      <3> QED BY <3>5, <3>8, <3>9
    <2> QED BY <1>3, <2>1, <2>2 DEF RegimeNotSent
  <1>4. ASSUME NEW isSent \in BOOLEAN, DipEnds(isSent) PROVE Absent' /\ Shapes' /\ Fits' /\ Orderly
    <2>1. CASE isSent
      BY <1>4, <2>1, <1>k, <1>t, IdleShape, JobSaves DEF DipEnds
    <2>2. CASE ~isSent
      BY <1>4, <2>2, <1>j, <1>k, <1>t, IdleShape, JobSaves DEF DipEnds
    <2> QED BY <2>1, <2>2
  <1>5. CASE JobFails
    <2>1. Goes("job", Idle) /\ UNCHANGED <<exists, row, used, ran, history>>
      BY <1>5 DEF JobFails
    <2>2. ~Live("job")'
      BY <1>i, <2>1, GoesOthers, IdleShape DEF Live, Busy
    <2>3. Fits' /\ Orderly
      BY <1>i, <2>1, <2>2, NotedNothing, NoneIsKnown, GoesKeeps DEF history
    <2>4. Shapes'
      BY <1>i, <2>1, IdleShape, GoesShapes
    <2>5. Absent'
      <3>1. \A c \in Clients : sess'[c] = sess[c] \/ sess'[c].at = "idle"
        BY <1>i, <2>1, GoesOthers, IdleShape
      <3> QED BY <1>i, <2>1, <3>1 DEF Absent, Busy, history
    <2> QED BY <2>3, <2>4, <2>5
  <1> QED BY <1>1, <1>2, <1>3, <1>4, <1>5 DEF JobEnds

(* The user, and the days.                                                 *)

LEMMA AppliesStep ==
  ASSUME Inv, NEW r \in Rows, NEW n \in 0..2, Applies(r, n),
         r.last = row.last, r.pending = row.pending, r.since = row.since, r.dip = row.dip,
         r.partial \in {None, r.last}, n # 0 => r.partial = r.last,
         ~slipped /\ halves \in 0..1 => n \in 0..1,
         r = row => n = 0
  PROVE  Absent' /\ Shapes' /\ Fits' /\ Orderly
  <1>i. TypeOK /\ Absent /\ Shapes /\ Fits /\ "user" \notin Clients
    BY ClientsAssumption DEF Inv, Clients
  <1>1. /\ exists /\ exists' = exists /\ slipped' = slipped
        /\ Commits("user", r, Idle) /\ Records(r, None, n)
    BY DEF Applies
  <1>2. row' = r
    BY <1>i, <1>1, CommitsOthers
  <1>3. Orderly
    BY <1>2, RowParts DEF Orderly, Witnessed, Grows
  <1>4. Shapes'
    BY <1>i, <1>1, IdleShape, CommitsShapes
  <1>5. Absent'
    BY <1>1 DEF Absent
  <1>6. CASE ~slipped
    <2>1. RowFits /\ \A d \in Clients : Live(d) => SessionFits(d)
      BY <1>i, <1>6 DEF Fits
    <2>2. seen' = Noted(None) /\ halves' = n /\ n \in 0..1
      BY <1>1, <1>6, <2>1 DEF Records, RowFits
    <2>3. Sound(r) /\ Dated(Noted(None), r)
      BY <2>1, NotedNothing DEF RowFits, Sound, Dated
    <2>4. CASE r # row
      BY <1>i, <1>1, <1>3, <1>4, <1>5, <2>1, <2>2, <2>3, <2>4, NoneIsKnown, CommitFits
    <2>5. CASE r = row
      <3>1. RowFits'
        BY <1>2, <2>2, <2>3, <2>5, NotedNothing DEF RowFits
      <3>2. ASSUME NEW d \in Clients, Live(d)' PROVE SessionFits(d)'
        <4>1. d # "user" /\ sess'[d] = sess[d]
          BY <1>i, <1>1, <2>5, CommitsOthers
        <4> QED BY <1>2, <2>1, <2>2, <2>5, <3>2, <4>1, NotedNothing DEF Live, Busy, SessionFits
      <3> QED BY <1>3, <1>4, <1>5, <3>1, <3>2 DEF Fits
    <2> QED BY <2>4, <2>5
  <1>7. CASE slipped
    BY <1>1, <1>3, <1>4, <1>5, <1>7 DEF Fits
  <1> QED BY <1>6, <1>7

LEMMA UserStep ==
  ASSUME Inv, ApplyAll \/ ApplyHalf PROVE Absent' /\ Shapes' /\ Fits' /\ Orderly
  <1>t. row \in Rows /\ halves \in 0..2
    BY DEF Inv, TypeOK
  <1>1. CASE ApplyAll
    <2> DEFINE r == [row EXCEPT !.applied = row.last, !.told = row.last, !.partial = None,
                                !.toldDip = row.dip]
    <2>1. /\ r \in Rows /\ r.last = row.last /\ r.pending = row.pending /\ r.since = row.since
          /\ r.dip = row.dip /\ r.partial = None
      BY <1>t DEF Rows, Known
    <2>2. Applies(r, 0)
      BY <1>1 DEF ApplyAll
    <2> HIDE DEF r
    <2> QED BY <2>1, <2>2, AppliesStep
  <1>2. CASE ApplyHalf
    <2> DEFINE r == [row EXCEPT !.partial = row.last, !.told = row.last]
               n == IF halves = 2 THEN 2 ELSE halves + 1
    <2>1. /\ r \in Rows /\ r.last = row.last /\ r.pending = row.pending /\ r.since = row.since
          /\ r.dip = row.dip /\ r.partial = row.last
      BY <1>t DEF Rows
    <2>2. Applies(r, n) /\ row.partial # row.last
      BY <1>2 DEF ApplyHalf
    <2>3. n \in 0..2
      BY <1>t
    <2>4. ~slipped /\ halves \in 0..1 => n \in 0..1
      <3>1. ~slipped => (halves = 1 => row.partial = row.last)
        BY DEF Inv, Fits, RowFits
      <3> QED BY <2>2, <3>1
    <2> HIDE DEF r, n
    <2> QED BY <2>1, <2>2, <2>3, <2>4, AppliesStep
  <1> QED BY <1>1, <1>2

LEMMA DisableStep == ASSUME Inv, Disable PROVE Absent' /\ Shapes' /\ Fits' /\ Orderly
  <1>i. TypeOK /\ Shapes
    BY DEF Inv
  <1>1. /\ row' = Fresh /\ seen' = Unseen /\ halves' = 0
        /\ ~exists' /\ ~slipped'
        /\ \A c \in Clients : sess'[c] = IF sess[c].creates THEN sess[c] ELSE Idle
    BY DEF Disable
  <1>2. \A c \in Clients : Busy(c)' => sess'[c].creates
    BY <1>1, IdleShape DEF Busy
  <1>3. Shapes'
    BY <1>i, <1>1, IdleShape DEF Shapes
  <1>4. RowFits'
    <2>1. halves' \in 0..1 /\ halves' # 1
      BY <1>1
    <2> QED BY <1>i, <1>1, <2>1, FreshFollows DEF RowFits
  <1> QED BY <1>1, <1>2, <1>3, <1>4 DEF Absent, Fits, Orderly, Live

LEMMA NextDayStep == ASSUME Inv, NextDay PROVE Absent' /\ Shapes' /\ Fits' /\ Orderly
  <1>i. TypeOK /\ Absent /\ Fits /\ row \in Rows
    BY DEF Inv, TypeOK
  <1>1. /\ row' = [row EXCEPT !.since = Older(row.since)]
        /\ seen' = [r \in Regimes |-> Older(seen[r])]
        /\ sess' = [c \in Clients |-> Idle]
        /\ exists' = exists /\ slipped' = slipped /\ halves' = halves
    BY DEF NextDay
  <1>2. /\ row'.last = row.last /\ row'.pending = row.pending /\ row'.partial = row.partial
        /\ row'.dip = row.dip /\ row'.since = Older(row.since)
    BY <1>i, <1>1 DEF Rows
  <1>3. \A c \in Clients : sess'[c] = Idle
    BY <1>1
  <1>4. Shapes'
    BY <1>3, IdleShape DEF Shapes
  <1>5. \A c \in Clients : ~Busy(c)'
    BY <1>3, IdleShape DEF Busy
  <1>6. Orderly
    <2>1. Witnessed(seen, row, row') /\ Grows(row, row')
      BY <1>i, <1>2, RowParts DEF Witnessed, Grows
    <2> QED BY <2>1 DEF Orderly
  <1>7. Absent'
    <2>1. row = Fresh => row' = row
      <3>1. row = Fresh => Older(row.since) = row.since
        BY DEF Older, Fresh
      <3>2. [row EXCEPT !.since = row.since] = row
        BY <1>i DEF Rows
      <3> QED BY <1>1, <3>1, <3>2
    <2>2. seen = Unseen => seen' = seen
      BY <1>1 DEF Older, Unseen
    <2> QED BY <1>i, <1>1, <1>5, <2>1, <2>2 DEF Absent
  <1>8. CASE ~slipped
    <2>1. RowFits
      BY <1>i, <1>8 DEF Fits
    <2>2. Sound(row')
      BY <1>2, <2>1 DEF RowFits, Sound, Older
    <2>3. Dated(seen', row')
      <3> SUFFICES ASSUME row.pending # None
                   PROVE  seen'[row.pending] = "earlier"
        BY <1>2 DEF Dated
      <3>1. row.pending \in Regimes
        BY <1>i, RowParts, KnownRegime
      <3>2. seen'[row.pending] = Older(seen[row.pending]) /\ seen[row.pending] # "none"
        BY <1>1, <2>1, <3>1 DEF RowFits, Dated
      <3>3. seen[row.pending] \in Ages
        BY <1>i, <3>1 DEF TypeOK
      <3> QED BY <3>2, <3>3 DEF Older, Ages
    <2>4. RowFits'
      BY <1>1, <1>2, <2>1, <2>2, <2>3 DEF RowFits
    <2> QED BY <1>4, <1>5, <1>6, <1>7, <2>4 DEF Fits, Live
  <1>9. CASE slipped
    BY <1>1, <1>4, <1>6, <1>7, <1>9 DEF Fits
  <1> QED BY <1>8, <1>9

LEMMA InvInit == Init => Inv
  <1> SUFFICES ASSUME Init PROVE Inv
    OBVIOUS
  <1>1. TypeOK
    BY TypeInit
  <1>2. \A c \in Clients : sess[c] = Idle
    BY DEF Init
  <1>3. Shapes /\ \A c \in Clients : ~Busy(c)
    BY <1>2, IdleShape DEF Shapes, Busy
  <1>4. Absent
    BY <1>3 DEF Init, Absent
  <1>5. Sound(row) /\ row.pending = None
    <2>1. Sound(Fresh) /\ Fresh.pending = None /\ Fresh.last = None
      BY FreshFollows DEF Fresh
    <2>2. ASSUME NEW set \in Settings, NEW m \in Markets,
                 row = Started(Advanced(With(Fresh, set), m))
          PROVE  Sound(row) /\ row.pending = None
      <3> DEFINE r == With(Fresh, set)
                 n == Advanced(r, m)
                 s == Stepped(r, Observed(r, m))
      <3>1. r \in Rows /\ n \in Rows /\ SameSignal(Fresh, r)
        BY FreshIsARow, WithTyped, WithKeepsSignal, AdvancedTyped
      <3>2. Sound(r) /\ r.pending = None /\ r.last = None
        BY <2>1, <3>1 DEF SameSignal, Sound
      <3>3. /\ s \in Rows /\ n.last = s.last /\ n.pending = s.pending /\ n.since = s.since
            /\ n.partial = s.partial /\ n.dip = DipOf(s, m.stage)
        BY <3>1, AdvancedParts
      <3>4. SameSignal(n, row)
        BY <2>2, <3>1, ToldKeepsSignal
      <3> HIDE DEF n
      <3>5. /\ s.pending = None <=> s.since = "none"
            /\ s.pending # None => s.last \notin {None, s.pending}
            /\ s.partial \in {None, s.last}
        BY <3>1, <3>2, ObservedTyped, SteppedKeeps
      <3>6. s.pending = None
        BY <3>1, <3>2 DEF Stepped, Confirms, Rows
      <3> HIDE DEF s
      <3>7. n.dip > 0 => n.last = "RISK_ON"
        BY <3>3, MarketParts, DipKeeps
      <3> QED BY <3>3, <3>4, <3>5, <3>6, <3>7 DEF SameSignal, Sound
    <2> QED BY <2>1, <2>2 DEF Init
  <1>6. RowFits
    <2>1. halves \in 0..1 /\ halves # 1
      BY DEF Init
    <2> QED BY <1>5, <2>1 DEF RowFits, Dated
  <1> QED BY <1>1, <1>3, <1>4, <1>6 DEF Inv, Fits, Live

LEMMA InvStep == ASSUME Inv, [Next]_vars PROVE Inv' /\ (Orderly \/ UNCHANGED vars)
  <1>t. TypeOK'
    BY TypeStep DEF Inv
  <1>1. ASSUME NEW v \in Views, ViewLoads(v) \/ \E m \in Markets : ViewEnds(v, m)
        PROVE  Inv' /\ Orderly
    BY <1>1, <1>t, ViewStep DEF Inv
  <1>2. ASSUME NEW s \in Saves, NEW set \in Settings, NEW stale \in BOOLEAN, SaveBegins(s, set, stale)
        PROVE  Inv' /\ Orderly
    BY <1>2, <1>t, SaveBeginsStep DEF Inv
  <1>3. ASSUME NEW s \in Saves, NEW m \in Markets, SaveEnds(s, m) PROVE Inv' /\ Orderly
    BY <1>3, <1>t, SaveEndsStep DEF Inv
  <1>4. ASSUME NEW m \in Markets, JobCheck(m) PROVE Inv' /\ Orderly
    BY <1>4, <1>t, JobCheckStep DEF Inv
  <1>5. CASE JobEnds \/ JobFails
    BY <1>5, <1>t, JobEndsStep DEF Inv
  <1>6. CASE ApplyAll \/ ApplyHalf
    BY <1>6, <1>t, UserStep DEF Inv
  <1>7. CASE Disable
    BY <1>7, <1>t, DisableStep DEF Inv
  <1>8. CASE NextDay
    BY <1>8, <1>t, NextDayStep DEF Inv
  <1>9. CASE UNCHANGED vars
    BY <1>9, <1>t DEF vars, history, Inv, Absent, Shapes, Fits, RowFits, Live, SessionFits, Busy
  <1> QED BY <1>1, <1>2, <1>3, <1>4, <1>5, <1>6, <1>7, <1>8, <1>9 DEF Next

LEMMA Invariance == Spec => []Inv
  <1>1. Inv /\ [Next]_vars => Inv'
    BY InvStep
  <1> QED BY InvInit, <1>1, PTL DEF Spec

-----------------------------------------------------------------------------

\* The columns of the row agree as long as nobody writes from a row that was
\* changed meanwhile, whatever the views, the saves and the job do at once.
THEOREM SoundUnlessSlipped == Spec => []RowIsSound
  <1>1. Inv => RowIsSound
    BY DEF Inv, Fits, RowFits, Sound, RowIsSound
  <1> QED BY <1>1, Invariance, PTL

\* Half of the weights are applied at most once under one regime.
THEOREM HalvesOnce == Spec => []HalfOnce
  <1>1. Inv => HalfOnce
    BY DEF Inv, Fits, RowFits, HalfOnce
  <1> QED BY <1>1, Invariance, PTL

\* A regime is replaced only by one that was observed under it on an earlier
\* day, whichever session confirms it.
THEOREM TwoDaysToConfirm == Spec => ConfirmedOnTwoDays
  <1>1. Inv /\ [Next]_vars =>
          [exists' /\ row.last \notin {None, row'.last} =>
              slipped' \/ seen[row'.last] = "earlier"]_vars
    BY InvStep DEF Orderly, Witnessed
  <1> QED BY <1>1, Invariance, PTL DEF Spec, ConfirmedOnTwoDays

\* What is put in during a dip only grows until all of it is taken back,
\* whichever session looked at the market last.
THEOREM DipOnlyGrows == Spec => DipRatchets
  <1>1. ASSUME Inv, [Next]_vars
        PROVE  [exists' /\ row'.dip < row.dip => slipped' \/ row'.dip = 0]_vars
    <2>1. row.dip \in 0..3 /\ row'.dip \in 0..3
      BY <1>1, InvStep, RowParts DEF Inv, TypeOK
    <2>2. CASE Orderly
      <3>1. Grows(row, row') => (row'.dip = 0 \/ ~(row'.dip < row.dip))
        BY <2>1 DEF Grows
      <3> QED BY <2>2, <3>1 DEF Orderly
    <2>3. CASE UNCHANGED vars
      BY <2>3
    <2> QED BY <1>1, <2>2, <2>3, InvStep
  <1> QED BY <1>1, Invariance, PTL DEF Spec, DipRatchets
=============================================================================
