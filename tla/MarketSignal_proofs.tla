------------------------ MODULE MarketSignal_proofs ------------------------
(***************************************************************************)
(* What holds of the single flight and of the notices for any number of     *)
(* readers, subscribers, observations and tries, and any loss of locks,     *)
(* entries and jobs.                                                        *)
(***************************************************************************)
EXTENDS MarketSignal, FiniteSetTheorems, TLAPS

(* The fetch alone: what a step of anybody does to the flight.              *)

FlightNext ==
    \/ \E r \in Readers : FlightStep(r) \/ Leave(r)
    \/ EntryGoes
    \/ LockGoes
    \/ UNCHANGED flightVars

LEMMA StepOfFlight == [Next]_vars => FlightNext
<1> SUFFICES ASSUME [Next]_vars PROVE FlightNext
  OBVIOUS
<1> USE DEF FlightNext
<1>1. ASSUME NEW r \in Readers, ConfirmStep(r) PROVE FlightNext
  BY <1>1, Zenon DEF ConfirmStep, ReadSignal, AnswerStale, AnswerFailed, ConfirmFirst,
     ReadConfirmed, ConfirmSame, CountStreak, KeepPending, Promote, DropPending, Answer
<1>2. CASE NoticeStep
  BY <1>2, Zenon DEF NoticeStep, NothingToTell, BeginNotice, PassOver, Tell, TellUnrecorded,
     TellFails, RetryLater, CloseNotice, ForgetAttempts
<1>3. CASE JobDies
  BY <1>3, MarketAssumption, Zenon DEF JobDies
<1>4. CASE ConfirmedExpires \/ PendingExpires \/ SentKeysExpire
  BY <1>4, Zenon DEF ConfirmedExpires, PendingExpires, SentKeysExpire
<1>5. CASE EntryGoes \/ LockGoes
  BY <1>5, Zenon
<1>6. CASE UNCHANGED vars
  BY <1>6, Zenon DEF vars
<1> QED
  BY <1>1, <1>2, <1>3, <1>4, <1>5, <1>6, Zenon DEF Next

(* Whoever comes back has an observation.                                   *)
BackWithObservation == \A r \in Readers : at[r] = "back" => got[r] \in Observations

LEMMA Fetched ==
    ASSUME FlightTypeOK, NEW o \in NewObservations PROVE o \in Observations
  BY ReadersAssumption DEF FlightTypeOK, NewObservations, Observations, NoObservation

LEMMA FlightStepTyped ==
    ASSUME FlightTypeOK, BackWithObservation, FlightNext
    PROVE  FlightTypeOK' /\ BackWithObservation'
<1> USE DEF FlightTypeOK, BackWithObservation
<1>1. ASSUME NEW r \in Readers, LookUp(r) PROVE FlightTypeOK' /\ BackWithObservation'
  BY <1>1 DEF LookUp, Returns
<1>2. ASSUME NEW r \in Readers, TryLock(r) PROVE FlightTypeOK' /\ BackWithObservation'
  BY <1>2 DEF TryLock
<1>3. ASSUME NEW r \in Readers, PollHit(r) PROVE FlightTypeOK' /\ BackWithObservation'
  BY <1>3 DEF PollHit, Returns
<1>4. ASSUME NEW r \in Readers, StopWaiting(r) PROVE FlightTypeOK' /\ BackWithObservation'
  BY <1>4 DEF StopWaiting
<1>5. ASSUME NEW r \in Readers, Fetch(r) PROVE FlightTypeOK' /\ BackWithObservation'
  <2>1. PICK o \in NewObservations : last' = o /\ entry' = o /\ Returns(r, o)
    BY <1>5 DEF Fetch
  <2>2. o \in Observations
    BY Fetched
  <2> QED
    BY <1>5, <2>1, <2>2 DEF Fetch, Returns, Released
<1>6. ASSUME NEW r \in Readers, FetchFails(r) PROVE FlightTypeOK' /\ BackWithObservation'
  BY <1>6 DEF FetchFails, Released
<1>7. ASSUME NEW r \in Readers, Leave(r) PROVE FlightTypeOK' /\ BackWithObservation'
  BY <1>7 DEF Leave
<1>8. CASE EntryGoes
  BY <1>8 DEF EntryGoes
<1>9. CASE LockGoes
  BY <1>9 DEF LockGoes
<1>10. CASE UNCHANGED flightVars
  BY <1>10 DEF flightVars
<1> QED
  BY <1>1, <1>2, <1>3, <1>4, <1>5, <1>6, <1>7, <1>8, <1>9, <1>10 DEF FlightNext, FlightStep

(* A caller that fetches under the lock has it, or has lost it and is noted *)
(* as one who has.                                                          *)
HolderHasLock == \A r \in Readers : at[r] = "holding" => lock = r \/ r \in robbed

FlightInv == FlightTypeOK /\ BackWithObservation /\ HolderHasLock

LEMMA HolderStep ==
    ASSUME FlightTypeOK, HolderHasLock, FlightNext PROVE HolderHasLock'
<1> USE DEF FlightTypeOK, HolderHasLock
<1>1. ASSUME NEW r \in Readers, FlightStep(r) PROVE HolderHasLock'
  <2>1. CASE LookUp(r)
    BY <2>1 DEF LookUp, Returns
  <2>2. CASE TryLock(r)
    BY <2>2, ReadersAssumption DEF TryLock
  <2>3. CASE PollHit(r)
    BY <2>3 DEF PollHit, Returns
  <2>4. CASE StopWaiting(r)
    BY <2>4 DEF StopWaiting
  <2>5. CASE Fetch(r)
    BY <2>5 DEF Fetch, Returns, Released
  <2>6. CASE FetchFails(r)
    BY <2>6 DEF FetchFails, Released
  <2> QED
    BY <1>1, <2>1, <2>2, <2>3, <2>4, <2>5, <2>6 DEF FlightStep
<1>2. ASSUME NEW r \in Readers, Leave(r) PROVE HolderHasLock'
  BY <1>2 DEF Leave
<1>3. CASE EntryGoes
  BY <1>3 DEF EntryGoes
<1>4. CASE LockGoes
  BY <1>4 DEF LockGoes
<1>5. CASE UNCHANGED flightVars
  BY <1>5 DEF flightVars
<1> QED
  BY <1>1, <1>2, <1>3, <1>4, <1>5 DEF FlightNext

LEMMA FlightInvInit == Init => FlightInv
  BY DEF Init, FlightInit, FlightInv, FlightTypeOK, BackWithObservation, HolderHasLock

LEMMA FlightInvariance == Spec => []FlightInv
<1>1. FlightInv /\ [Next]_vars => FlightInv'
  BY StepOfFlight, FlightStepTyped, HolderStep DEF FlightInv
<1> QED
  BY FlightInvInit, <1>1, PTL DEF Spec

\* Two callers of single_flight_fetch fetch under the lock at once only if the
\* lock of one ran out or was evicted.
THEOREM FlightExclusive == Spec => []LockHolderExclusive
<1>1. FlightInv => LockHolderExclusive
  BY DEF FlightInv, FlightTypeOK, HolderHasLock, LockHolderExclusive
<1> QED
  BY <1>1, FlightInvariance, PTL

-----------------------------------------------------------------------------
(* The notices.                                                             *)

(* Where a reader is, and what it then has in memory; the change that is    *)
(* being told starts from the level that was told last.                     *)
Confirming == {"read", "counted", "promoted"}

MemoryFits ==
    \A r \in Readers :
        /\ step[r] \in Confirming => at[r] = "back"
        /\ step[r] = "counted" => memory[r].level \in Levels

NoticeFits ==
    /\ step[Job] = "compare" => memory[Job].level \in Levels
    /\ step[Job] = "tell" => notice.old = notified /\ notice.old \in Levels
    /\ step[Job] \in {"tell", "close"} => notice.new \in Levels
    /\ notice.left # {} => step[Job] = "tell"

StreakShort == pending.streak < Required

Inv == TypeOK /\ BackWithObservation /\ MemoryFits /\ NoticeFits /\ StreakShort

LEMMA ObservationParts ==
    ASSUME NEW o \in Observations
    PROVE  o.id \in 0..MaxObs /\ o.level \in Levels /\ o.stale \in BOOLEAN
  BY DEF Observations

LEMMA InvInit == Init => Inv
<1> SUFFICES ASSUME Init PROVE Inv
  OBVIOUS
<1>1. FlightTypeOK /\ BackWithObservation
  BY FlightInvInit DEF FlightInv
<1>2. TypeOK
  BY <1>1, ReadersAssumption, MarketAssumption
  DEF Init, TypeOK, NoStreak, NoRow, NoAttempts, NoMemory, NoNotice
<1>3. MemoryFits /\ NoticeFits /\ StreakShort
  BY MarketAssumption
  DEF Init, MemoryFits, NoticeFits, StreakShort, Confirming, NoStreak, NoNotice
<1> QED
  BY <1>1, <1>2, <1>3 DEF Inv

LEMMA FlightPart ==
    ASSUME Inv, [Next]_vars PROVE FlightTypeOK' /\ BackWithObservation'
  BY StepOfFlight, FlightStepTyped DEF Inv, TypeOK

LEMMA AnswerStep ==
    ASSUME Inv, NEW r \in Readers, NEW level \in Levels, Answer(r, level)
    PROVE  /\ step' \in [Readers -> {"start", "read", "counted", "promoted", "compare", "tell", "close"}]
           /\ memory' \in [Readers -> [level : Levels \cup {None}, streak : 0..Required,
                                        grounds : SUBSET (1..MaxObs)]]
           /\ MemoryFits'
           /\ step'[Job] = "compare" => memory'[Job].level \in Levels
           /\ step'[Job] \in {"tell", "close"} => step[Job] = step'[Job]
           /\ step[Job] = "tell" /\ r # Job => step'[Job] = "tell"
<1> USE MarketAssumption DEF Inv, TypeOK, FlightTypeOK, NoMemory
<1>1. step' = [step EXCEPT ![r] = IF r = Job THEN "compare" ELSE "start"]
  BY DEF Answer
<1>2. memory' = [memory EXCEPT ![r] =
                     IF r = Job THEN [level |-> level, streak |-> 0, grounds |-> {}]
                                ELSE [level |-> None, streak |-> 0, grounds |-> {}]]
  BY DEF Answer
<1>3. at' = [at EXCEPT ![r] = "idle"]
  BY DEF Answer, Leave
<1>4. MemoryFits'
  BY <1>1, <1>2, <1>3 DEF MemoryFits, Confirming
<1> QED
  BY <1>1, <1>2, <1>4 DEF NoticeFits

LEMMA RowWithTyped ==
    ASSUME TypeOK, NEW o \in Observations
    PROVE  RowWith(o) \in [level : Levels \cup {None}, ids : SUBSET (1..MaxObs)]
  BY DEF TypeOK, RowWith, Observations

LEMMA ConfirmStepInv ==
    ASSUME Inv, NEW r \in Readers, ConfirmStep(r), FlightTypeOK', BackWithObservation'
    PROVE  Inv'
<1>r. Inv /\ MemoryFits /\ NoticeFits /\ StreakShort /\ TypeOK /\ BackWithObservation
  BY DEF Inv
<1> USE <1>r, MarketAssumption DEF Inv, TypeOK
<1>1. CASE ReadSignal(r)
  <2>1. \A q \in Readers : q # r => at'[q] = at[q]
    BY <1>1 DEF ReadSignal, FlightStep, LookUp, TryLock, PollHit, StopWaiting, Fetch,
       FetchFails, Returns, FlightTypeOK
  <2>2. MemoryFits' /\ NoticeFits' /\ StreakShort'
    BY <1>1, <2>1 DEF ReadSignal, locals, rows, MemoryFits, NoticeFits, StreakShort, Confirming
  <2> QED
    BY <1>1, <2>2 DEF ReadSignal, locals, rows, history, tellings
<1>2. CASE AnswerStale(r)
  <2>1. Answer(r, got[r].level) /\ got[r].level \in Levels
    BY <1>2, ObservationParts DEF AnswerStale, BackWithObservation
  <2> QED
    BY <1>2, <2>1, AnswerStep
    DEF AnswerStale, rows, history, tellings, NoticeFits, StreakShort
<1>3. CASE AnswerFailed(r)
  BY <1>3, AnswerStep DEF AnswerFailed, rows, history, tellings, NoticeFits, StreakShort
<1>4. CASE ConfirmFirst(r)
  <2>1. Answer(r, got[r].level) /\ got[r].level \in Levels
    BY <1>4, ObservationParts DEF ConfirmFirst, MemoryFits, Confirming, BackWithObservation
  <2> QED
    BY <1>4, <2>1, AnswerStep DEF ConfirmFirst, history, tellings, NoticeFits, StreakShort
<1>5. CASE ReadConfirmed(r)
  BY <1>5 DEF ReadConfirmed, flightVars, rows, history, tellings, MemoryFits, NoticeFits,
     StreakShort, Confirming
<1>6. CASE ConfirmSame(r)
  <2>1. Answer(r, memory[r].level) /\ memory[r].level \in Levels
    BY <1>6, ObservationParts DEF ConfirmSame, MemoryFits, Confirming, BackWithObservation
  <2> QED
    BY <1>6, <2>1, AnswerStep, ReadersAssumption
    DEF ConfirmSame, tellings, NoticeFits, StreakShort, NoStreak, NoRow
<1>7. CASE CountStreak(r)
  <2>1. Streak(got[r]) \in 0..Required
    BY DEF Streak, StreakShort
  <2>2. got[r] \in Observations
    BY <1>7 DEF CountStreak, MemoryFits, Confirming, BackWithObservation
  <2>3. RowWith(got[r]).ids \in SUBSET (1..MaxObs)
    BY <2>2, RowWithTyped
  <2>4. /\ \A q \in Readers : q # r => memory'[q] = memory[q]
        /\ memory'[r] = [level |-> memory[r].level, streak |-> Streak(got[r]),
                         grounds |-> RowWith(got[r]).ids]
    BY <1>7 DEF CountStreak
  <2>5. memory' \in [Readers -> [level : Levels \cup {None}, streak : 0..Required,
                                grounds : SUBSET (1..MaxObs)]]
    <3>1. memory' = [q \in Readers |-> memory'[q]]
      BY <1>7 DEF CountStreak
    <3> QED
      BY <2>1, <2>3, <2>4, <3>1
  <2>6. memory[r].level \in Levels
    BY <1>7 DEF CountStreak
  <2> QED
    BY <1>7, <2>4, <2>5, <2>6 DEF CountStreak, flightVars, rows, history, tellings, MemoryFits,
       NoticeFits, StreakShort, Confirming
<1>8. CASE KeepPending(r)
  <2>1. Answer(r, memory[r].level) /\ memory[r].level \in Levels
    BY <1>8 DEF KeepPending, MemoryFits
  <2>2. got[r] \in Observations
    BY <1>8 DEF KeepPending, MemoryFits, Confirming, BackWithObservation
  <2>3. pending' \in [level : Levels \cup {None}, streak : 0..Required, seen : 0..MaxObs]
    BY <1>8, <2>2, ObservationParts DEF KeepPending
  <2>4. StreakShort'
    BY <1>8 DEF KeepPending, StreakShort
  <2>5. row' \in [level : Levels \cup {None}, ids : SUBSET (1..MaxObs)]
    BY <1>8, <2>2, RowWithTyped DEF KeepPending
  <2> QED
    BY <1>8, <2>1, <2>3, <2>4, <2>5, AnswerStep DEF KeepPending, tellings, NoticeFits
<1>9. CASE Promote(r)
  <2>1. got[r].level \in Levels
    BY <1>9, ObservationParts DEF Promote, MemoryFits, Confirming, BackWithObservation
  <2> QED
    BY <1>9, <2>1 DEF Promote, flightVars, history, tellings, MemoryFits, NoticeFits,
       StreakShort, Confirming
<1>10. CASE DropPending(r)
  <2>1. Answer(r, got[r].level) /\ got[r].level \in Levels
    BY <1>10, ObservationParts DEF DropPending, MemoryFits, Confirming, BackWithObservation
  <2> QED
    BY <1>10, <2>1, AnswerStep, ReadersAssumption
    DEF DropPending, tellings, NoticeFits, StreakShort, NoStreak, NoRow
<1> QED
  BY <1>1, <1>2, <1>3, <1>4, <1>5, <1>6, <1>7, <1>8, <1>9, <1>10 DEF ConfirmStep

LEMMA NoticeStepInv ==
    ASSUME Inv, NoticeStep, FlightTypeOK', BackWithObservation' PROVE Inv'
<1>r. Inv /\ MemoryFits /\ NoticeFits /\ StreakShort /\ TypeOK
  BY DEF Inv
<1> USE <1>r, MarketAssumption
    DEF Inv, TypeOK, flightVars, rows, locals, history, tellings, MemoryFits, NoticeFits,
        StreakShort, Confirming
<1>1. CASE NothingToTell
  BY <1>1 DEF NothingToTell, JobEnds, NoMemory, NoNotice
<1>2. CASE BeginNotice
  BY <1>2 DEF BeginNotice
<1>3. ASSUME NEW u \in Users, PassOver(u) PROVE Inv'
  BY <1>3 DEF PassOver
<1>4. ASSUME NEW u \in Users, Tell(u) PROVE Inv'
  BY <1>4 DEF Tell, Reaches, Key
<1>5. ASSUME NEW u \in Users, TellUnrecorded(u) PROVE Inv'
  <2>1. notice.new \in Levels /\ step[Job] = "tell"
    BY <1>5 DEF TellUnrecorded
  <2>2. told' \subseteq Users \X Levels /\ twice' \subseteq Users \X Levels
          /\ unrecorded' \subseteq Users \X Levels
    BY <1>5, <2>1 DEF TellUnrecorded, Reaches
  <2>3. notice' = [notice EXCEPT !.left = @ \ {u}, !.failed = TRUE]
    BY <1>5 DEF TellUnrecorded
  <2>4. /\ notice' \in [old : Levels \cup {None}, new : Levels \cup {None},
                         left : SUBSET Users, failed : BOOLEAN]
        /\ notice'.old = notice.old /\ notice'.new = notice.new
        /\ notice'.left \subseteq notice.left
    BY <2>3
  <2> QED
    BY <1>5, <2>1, <2>2, <2>4 DEF TellUnrecorded
<1>6. ASSUME NEW u \in Users, TellFails(u) PROVE Inv'
  BY <1>6 DEF TellFails
<1>7. CASE RetryLater
  <2>1. Tries \in Nat
    BY DEF Tries
  <2> QED
    BY <1>7, <2>1 DEF RetryLater, JobEnds, NoMemory, NoNotice
<1>8. CASE CloseNotice
  BY <1>8 DEF CloseNotice
<1>9. CASE ForgetAttempts
  BY <1>9 DEF ForgetAttempts, JobEnds, NoMemory, NoNotice, NoAttempts
<1> QED
  BY <1>1, <1>2, <1>3, <1>4, <1>5, <1>6, <1>7, <1>8, <1>9 DEF NoticeStep

LEMMA InvStep == ASSUME Inv, [Next]_vars PROVE Inv'
<1>r. Inv /\ MemoryFits /\ NoticeFits /\ StreakShort /\ TypeOK
  BY DEF Inv
<1>f. FlightTypeOK' /\ BackWithObservation'
  BY FlightPart
<1>1. ASSUME NEW r \in Readers, ConfirmStep(r) PROVE Inv'
  BY <1>1, <1>f, ConfirmStepInv
<1>2. CASE NoticeStep
  BY <1>2, <1>f, NoticeStepInv
<1>3. CASE JobDies
  <2>1. \A r \in Readers : r # Job => at'[r] = at[r]
    BY <1>3, <1>r, MarketAssumption DEF JobDies, Leave, flightVars, TypeOK, FlightTypeOK
  <2>2. step' = [step EXCEPT ![Job] = "start"] /\ memory' = [memory EXCEPT ![Job] = NoMemory]
    BY <1>3 DEF JobDies
  <2>3. MemoryFits'
    BY <1>r, <2>1, <2>2 DEF MemoryFits, Confirming, TypeOK
  <2>4. NoticeFits'
    BY <1>3, <1>r, <2>2, MarketAssumption DEF JobDies, NoticeFits, NoNotice, TypeOK
  <2>5. TypeOK'
    BY <1>3, <1>r, <1>f, <2>2, MarketAssumption
    DEF JobDies, Faulty, TypeOK, rows, tellings, NoMemory, NoNotice
  <2> QED
    BY <1>3, <1>r, <1>f, <2>3, <2>4, <2>5 DEF JobDies, Inv, rows, StreakShort
<1>4. CASE SentKeysExpire
  BY <1>4, <1>r, <1>f
  DEF SentKeysExpire, Inv, TypeOK, flightVars, locals, history, tellings, MemoryFits,
      NoticeFits, StreakShort
<1>7. CASE ConfirmedExpires
  BY <1>7, <1>r, <1>f, MarketAssumption
  DEF ConfirmedExpires, Faulty, Inv, TypeOK, flightVars, locals, tellings, MemoryFits,
      NoticeFits, StreakShort
<1>8. CASE PendingExpires
  BY <1>8, <1>r, <1>f, MarketAssumption, ReadersAssumption
  DEF PendingExpires, Faulty, NoStreak, Inv, TypeOK, flightVars, locals, tellings, MemoryFits,
      NoticeFits, StreakShort
<1>5. CASE (EntryGoes \/ LockGoes) /\ UNCHANGED <<rows, locals, history>>
  BY <1>5, <1>r, <1>f
  DEF EntryGoes, LockGoes, Inv, TypeOK, rows, locals, history, tellings, MemoryFits,
      NoticeFits, StreakShort
<1>6. CASE UNCHANGED vars
  BY <1>6, <1>r, <1>f
  DEF vars, Inv, TypeOK, flightVars, rows, locals, history, tellings, MemoryFits,
      NoticeFits, StreakShort
<1> QED
  BY <1>1, <1>2, <1>3, <1>4, <1>5, <1>6, <1>7, <1>8 DEF Next

LEMMA Invariance == Spec => []Inv
<1>1. Inv /\ [Next]_vars => Inv'
  BY InvStep
<1> QED
  BY InvInit, <1>1, PTL DEF Spec

\* The rows, the flight and the locals keep their types.
THEOREM MarketTyped == Spec => []TypeOK
  BY Invariance, PTL DEF Inv

(* Who was told of the change under way has a sent key of it, or was told   *)
(* without a record.  The level told last stands for the old one: it does   *)
(* not change before the notice is closed, and then nobody counts as told.  *)
ToldIsKept ==
    \A u \in Users, l \in Levels :
        <<u, l>> \in told => <<u, notified, l>> \in sent \/ <<u, l>> \in unrecorded

ToldInv == ToldIsKept /\ ToldAgainForAReason

LEMMA ToldStep == ASSUME Inv, ToldInv, [Next]_vars PROVE ToldInv'
<1>r. NoticeFits /\ TypeOK
  BY DEF Inv
<1> USE DEF ToldInv, ToldIsKept, ToldAgainForAReason
<1>0. ASSUME UNCHANGED <<notified, sent, tellings>> PROVE ToldInv'
  BY <1>0 DEF tellings
<1>1. ASSUME NEW r \in Readers, ConfirmStep(r) PROVE ToldInv'
  BY <1>0, <1>1 DEF ConfirmStep, ReadSignal, AnswerStale, AnswerFailed, ConfirmFirst,
     ReadConfirmed, ConfirmSame, CountStreak, KeepPending, Promote, DropPending, rows, history
<1>2. CASE NothingToTell
  BY <1>2 DEF NothingToTell
<1>3. CASE CloseNotice
  BY <1>3 DEF CloseNotice
<1>4. ASSUME NEW u \in Users, Tell(u) PROVE ToldInv'
  <2>1. notice.old = notified /\ notice.new \in Levels
    BY <1>4, <1>r DEF Tell, NoticeFits
  <2>2. <<u, notified, notice.new>> \notin sent /\ sent' = sent \cup {<<u, notified, notice.new>>}
    BY <1>4, <2>1 DEF Tell, Key
  <2> QED
    BY <1>4, <2>1, <2>2 DEF Tell, Reaches
<1>5. ASSUME NEW u \in Users, TellUnrecorded(u) PROVE ToldInv'
  BY <1>5 DEF TellUnrecorded, Reaches, rows
<1>6. CASE BeginNotice \/ (\E u \in Users : PassOver(u) \/ TellFails(u)) \/ RetryLater
              \/ ForgetAttempts \/ JobDies \/ ConfirmedExpires \/ PendingExpires
  BY <1>0, <1>6 DEF BeginNotice, PassOver, TellFails, RetryLater, ForgetAttempts, JobDies,
     ConfirmedExpires, PendingExpires, rows, history, tellings
<1>7. CASE SentKeysExpire
  BY <1>7 DEF SentKeysExpire, history, tellings
<1>8. CASE (EntryGoes \/ LockGoes) /\ UNCHANGED <<rows, locals, history>>
  BY <1>0, <1>8 DEF rows, history
<1>9. CASE UNCHANGED vars
  BY <1>0, <1>9 DEF vars, rows, history
<1> QED
  BY <1>1, <1>2, <1>3, <1>4, <1>5, <1>6, <1>7, <1>8, <1>9 DEF Next, NoticeStep

\* A retry of a notice, after failures of others or the death of the job, tells
\* nobody again whose notice was recorded, however many there are.
THEOREM NoNoticeTwice == Spec => []ToldAgainForAReason
<1>1. Init => ToldInv
  BY DEF Init, ToldInv, ToldIsKept, ToldAgainForAReason
<1>2. Inv /\ ToldInv /\ [Next]_vars => ToldInv'
  BY ToldStep
<1>3. ToldInv => ToldAgainForAReason
  BY DEF ToldInv
<1> QED
  BY <1>1, <1>2, <1>3, Invariance, PTL DEF Spec

-----------------------------------------------------------------------------
(* The streak.  What the pending row counts was written down in a row: a    *)
(* streak of two takes a pending row with another observation than the one  *)
(* at hand.  A streak of three may be the second observation, counted once  *)
(* by the row and then again by a late reader of the first: hence           *)
(* Required <= 2.                                                           *)
RowFits == pending.level # None => row.level = pending.level /\ pending.seen \in row.ids

GroundsFit ==
    \A r \in Readers :
        step[r] = "counted" /\ memory[r].streak >= Required
            => Cardinality(memory[r].grounds) >= Required

LEMMA GroundsFinite ==
    ASSUME TypeOK, NEW o \in Observations PROVE IsFiniteSet(RowWith(o).ids)
<1>1. RowWith(o).ids \subseteq 1..MaxObs
  BY RowWithTyped
<1>2. IsFiniteSet(1..MaxObs)
  BY ReadersAssumption, FS_Interval
<1> QED
  BY <1>1, <1>2, FS_Subset

LEMMA CountedTwice ==
    ASSUME Required <= 2, TypeOK, StreakShort, RowFits, NEW o \in Observations,
           Streak(o) >= Required
    PROVE  Cardinality(RowWith(o).ids) >= Required
<1>r. Required \in {1, 2} /\ pending.streak \in Nat /\ pending.streak < Required
  BY MarketAssumption DEF TypeOK, StreakShort
<1>1. IsFiniteSet(RowWith(o).ids) /\ o.id \in RowWith(o).ids
  BY GroundsFinite DEF RowWith
<1>2. Cardinality(RowWith(o).ids) \in Nat /\ Cardinality(RowWith(o).ids) >= 1
  <2>1. Cardinality({o.id}) = 1
    BY FS_Singleton
  <2> QED
    BY <1>1, <2>1, FS_CardinalityType, FS_Subset
<1>3. CASE Required = 2
  <2>1. pending.level = o.level /\ pending.seen # o.id
    BY <1>r, <1>3 DEF Streak
  <2>2. o.level \in Levels /\ o.level # None
    BY MarketAssumption DEF Observations
  <2>3. pending.seen \in RowWith(o).ids
    BY <2>1, <2>2 DEF RowFits, RowWith
  <2>4. Cardinality({o.id, pending.seen}) = 2
    <3>1. IsFiniteSet({o.id}) /\ Cardinality({o.id}) = 1 /\ pending.seen \notin {o.id}
      BY <2>1, FS_Singleton
    <3>2. Cardinality({o.id} \cup {pending.seen}) = 2
      BY <3>1, FS_AddElement
    <3>3. {o.id} \cup {pending.seen} = {o.id, pending.seen}
      OBVIOUS
    <3> QED
      BY <3>2, <3>3
  <2>5. {o.id, pending.seen} \subseteq RowWith(o).ids
    BY <1>1, <2>3
  <2> QED
    BY <1>1, <1>2, <1>3, <2>4, <2>5, FS_Subset
<1> QED
  BY <1>r, <1>2, <1>3

LEMMA RowStep == ASSUME Inv, RowFits, [Next]_vars PROVE RowFits'
<1>r. TypeOK
  BY DEF Inv
<1>1. ASSUME NEW r \in Readers, KeepPending(r) PROVE RowFits'
  BY <1>1 DEF KeepPending, RowWith, RowFits
<1>2. ASSUME NEW r \in Readers, ConfirmSame(r) \/ DropPending(r) PROVE RowFits'
  BY <1>2 DEF ConfirmSame, DropPending, NoStreak, RowFits
<1>3. CASE PendingExpires
  BY <1>3 DEF PendingExpires, NoStreak, RowFits
<1>4. ASSUME UNCHANGED <<pending, row>> PROVE RowFits'
  BY <1>4 DEF RowFits
<1>5. ASSUME NEW r \in Readers, ConfirmStep(r) PROVE RowFits'
  BY <1>1, <1>2, <1>4, <1>5
  DEF ConfirmStep, ReadSignal, AnswerStale, AnswerFailed, ConfirmFirst, ReadConfirmed,
      CountStreak, Promote, rows, history
<1>6. CASE NoticeStep
  BY <1>4, <1>6
  DEF NoticeStep, NothingToTell, BeginNotice, PassOver, Tell, TellUnrecorded, TellFails,
      RetryLater, CloseNotice, ForgetAttempts, rows, history
<1>7. CASE JobDies \/ ConfirmedExpires \/ SentKeysExpire
  BY <1>4, <1>7 DEF JobDies, ConfirmedExpires, SentKeysExpire, rows, history
<1>8. CASE (EntryGoes \/ LockGoes) /\ UNCHANGED <<rows, locals, history>>
  BY <1>4, <1>8 DEF rows, history
<1>9. CASE UNCHANGED vars
  BY <1>4, <1>9 DEF vars, rows, history
<1> QED
  BY <1>3, <1>5, <1>6, <1>7, <1>8, <1>9 DEF Next

(* A reader comes to confirm by its own steps only, and then keeps what it  *)
(* has.                                                                     *)
Goes(r) ==
    step[r] \in Confirming /\ got'[r] = got[r]
      /\ (step'[r] = "counted" => step[r] = "counted" /\ memory'[r] = memory[r])

LEMMA OthersGo ==
    ASSUME Inv, [Next]_vars, NEW r \in Readers, step'[r] \in Confirming,
           ~ReadConfirmed(r), ~CountStreak(r)
    PROVE  Goes(r)
<1> USE DEF Confirming, Goes
<1>r. TypeOK /\ FlightTypeOK /\ Job \in Readers
  BY MarketAssumption DEF Inv, TypeOK
<1>s. step \in [Readers -> {"start", "read", "counted", "promoted", "compare", "tell", "close"}]
        /\ memory \in [Readers -> [level : Levels \cup {None}, streak : 0..Required,
                                   grounds : SUBSET (1..MaxObs)]]
        /\ got \in [Readers -> Observations \cup {NoObservation}]
  BY <1>r DEF TypeOK, FlightTypeOK
<1>1. ASSUME NEW q \in Readers, ReadSignal(q) PROVE Goes(r)
  <2>1. step' = step /\ memory' = memory /\ step[q] = "start"
    BY <1>1 DEF ReadSignal, locals
  <2>2. \A p \in Readers : p # q => got'[p] = got[p]
    BY <1>1, <1>s DEF ReadSignal, FlightStep, LookUp, TryLock, PollHit, StopWaiting, Fetch,
       FetchFails, Returns
  <2> QED
    BY <2>1, <2>2
<1>2. ASSUME NEW q \in Readers, NEW level, Answer(q, level) PROVE Goes(r)
  <2>1. /\ step' = [step EXCEPT ![q] = IF q = Job THEN "compare" ELSE "start"]
        /\ \A p \in Readers : p # q => memory'[p] = memory[p] /\ got'[p] = got[p]
    BY <1>2, <1>s DEF Answer, Leave
  <2> QED
    BY <1>s, <2>1
<1>3. ASSUME NEW q \in Readers, q # r, ReadConfirmed(q) \/ CountStreak(q) PROVE Goes(r)
  <2>1. got' = got /\ step'[r] = step[r] /\ memory'[r] = memory[r]
    BY <1>3, <1>s DEF ReadConfirmed, CountStreak, flightVars
  <2> QED
    BY <2>1
<1>4. ASSUME NEW q \in Readers, Promote(q) PROVE Goes(r)
  <2>1. got' = got /\ memory' = memory /\ step[q] = "counted" /\ step' = [step EXCEPT ![q] = "promoted"]
    BY <1>4 DEF Promote, flightVars
  <2> QED
    BY <1>s, <2>1
<1>5. ASSUME NEW q \in Readers, ConfirmStep(q) PROVE Goes(r)
  BY <1>1, <1>2, <1>3, <1>4, <1>5, Zenon
  DEF ConfirmStep, AnswerStale, AnswerFailed, ConfirmFirst, ConfirmSame, KeepPending, DropPending
<1>6. CASE NoticeStep
  <2>1. got' = got
    BY <1>6 DEF NoticeStep, NothingToTell, BeginNotice, PassOver, Tell, TellUnrecorded, TellFails,
       RetryLater, CloseNotice, ForgetAttempts, flightVars
  <2>2. \/ step' = step /\ memory' = memory
        \/ /\ \E at1 \in {"start", "tell", "close"} : step' = [step EXCEPT ![Job] = at1]
           /\ memory' \in {memory, [memory EXCEPT ![Job] = NoMemory]}
    BY <1>6 DEF NoticeStep, NothingToTell, BeginNotice, PassOver, Tell, TellUnrecorded, TellFails,
       RetryLater, CloseNotice, ForgetAttempts, JobEnds
  <2> QED
    BY <1>r, <1>s, <2>1, <2>2
<1>7. CASE JobDies
  <2>1. /\ step' = [step EXCEPT ![Job] = "start"] /\ memory' = [memory EXCEPT ![Job] = NoMemory]
        /\ \A p \in Readers : p # Job => got'[p] = got[p]
    BY <1>7, <1>r, <1>s DEF JobDies, Leave, flightVars
  <2> QED
    BY <1>r, <1>s, <2>1
<1>8. CASE ConfirmedExpires \/ PendingExpires \/ SentKeysExpire \/ UNCHANGED vars
  BY <1>8 DEF ConfirmedExpires, PendingExpires, SentKeysExpire, vars, flightVars, locals
<1>9. CASE (EntryGoes \/ LockGoes) /\ UNCHANGED <<rows, locals, history>>
  BY <1>9 DEF EntryGoes, LockGoes, locals
<1> QED
  BY <1>5, <1>6, <1>7, <1>8, <1>9 DEF Next

LEMMA GroundsStep ==
    ASSUME Required <= 2, Inv, RowFits, GroundsFit, [Next]_vars PROVE GroundsFit'
<1> SUFFICES ASSUME NEW r \in Readers, step'[r] = "counted", memory'[r].streak >= Required
             PROVE  Cardinality(memory'[r].grounds) >= Required
  BY DEF GroundsFit
<1>r. TypeOK /\ BackWithObservation /\ MemoryFits /\ StreakShort
  BY DEF Inv
<1>1. CASE ReadConfirmed(r)
  BY <1>1, <1>r DEF ReadConfirmed, TypeOK
<1>2. CASE CountStreak(r)
  <2>1. got[r] \in Observations
    BY <1>2, <1>r DEF CountStreak, MemoryFits, Confirming, BackWithObservation
  <2>2. memory'[r].streak = Streak(got[r]) /\ memory'[r].grounds = RowWith(got[r]).ids
    BY <1>2, <1>r DEF CountStreak, TypeOK
  <2> QED
    BY <1>r, <2>1, <2>2, CountedTwice
<1>3. CASE ~ReadConfirmed(r) /\ ~CountStreak(r)
  <2>1. step[r] = "counted" /\ memory'[r] = memory[r]
    BY <1>3, OthersGo DEF Goes, Confirming
  <2> QED
    BY <2>1 DEF GroundsFit
<1> QED
  BY <1>1, <1>2, <1>3

\* A level replaces the confirmed one after Required observations in a row, for
\* any number of readers that share them and come to the rows in any order, if
\* at most two are required, as in the code, and the row had not run out.
THEOREM ConfirmedAfterTwo == ASSUME Required <= 2 PROVE Spec => ConfirmedSeenTwice
<1>1. Init => RowFits /\ GroundsFit
  BY DEF Init, RowFits, GroundsFit, NoStreak
<1>2. Inv /\ RowFits /\ GroundsFit /\ [Next]_vars => RowFits' /\ GroundsFit'
  BY RowStep, GroundsStep
<1>3. ASSUME Inv, GroundsFit, [Next]_vars
      PROVE  [confirmed # None /\ confirmed' \notin {None, confirmed} =>
                 \E r \in Readers :
                     /\ got[r].level = confirmed'
                     /\ step'[r] # step[r]
                     /\ \/ step[r] = "counted" /\ Cardinality(memory[r].grounds) >= Required
                        \/ step[r] = "read" /\ memory[r].level = None]_confirmed
  <2> SUFFICES ASSUME confirmed' # None, confirmed' # confirmed
               PROVE  \E r \in Readers :
                          /\ got[r].level = confirmed'
                          /\ step'[r] # step[r]
                          /\ \/ step[r] = "counted" /\ Cardinality(memory[r].grounds) >= Required
                             \/ step[r] = "read" /\ memory[r].level = None
    OBVIOUS
  <2>r. TypeOK
    BY <1>3 DEF Inv
  <2>1. PICK r \in Readers : Promote(r) \/ ConfirmFirst(r)
    BY <1>3
    DEF Next, ConfirmStep, ReadSignal, AnswerStale, AnswerFailed, ReadConfirmed,
        ConfirmSame, CountStreak, KeepPending, DropPending, NoticeStep, NothingToTell, BeginNotice,
        PassOver, Tell, TellUnrecorded, TellFails, RetryLater, CloseNotice, ForgetAttempts,
        JobDies, ConfirmedExpires, PendingExpires, SentKeysExpire, rows, vars
  <2>2. CASE Promote(r)
    BY <1>3, <2>r, <2>2 DEF Promote, GroundsFit, TypeOK
  <2>3. CASE ConfirmFirst(r)
    BY <2>r, <2>3 DEF ConfirmFirst, Answer, TypeOK
  <2> QED
    BY <2>1, <2>2, <2>3
<1> QED
  BY <1>1, <1>2, <1>3, Invariance, PTL DEF Spec, ConfirmedSeenTwice
=============================================================================
