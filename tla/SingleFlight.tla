---------------------------- MODULE SingleFlight ----------------------------
(***************************************************************************)
(* One value of the in-process cache and the callers that want it:          *)
(*   core/cache_store.py, utils/inproc_lock.py, and the reading of the      *)
(*   market signal, get_market_signal of market_signal_service.py.          *)
(*                                                                          *)
(* A caller that misses fetches if it gets the lock, else it polls the      *)
(* cache and in the end fetches by itself.  A fetch makes an observation of *)
(* the market.  Time is not modelled: an entry or a lock may run out, or be *)
(* evicted by a full cache, at any step.                                    *)
(***************************************************************************)
EXTENDS Integers, FiniteSets

CONSTANTS
    Readers,     \* callers of get_market_signal
    Levels,      \* composite levels
    MaxObs,      \* bound: observations; later ones repeat the last
    Free, None

ASSUME ReadersAssumption ==
    /\ Free \notin Readers
    /\ MaxObs \in Nat \ {0}

VARIABLES
    entry,       \* market_signal_latest_key: an observation or None
    lock,        \* its lock: a reader or Free
    at,          \* reader -> where it is in single_flight_fetch
    got,         \* reader -> the observation it came back with
    last,        \* the last observation made, None at the start
    robbed       \* history: holders whose lock ran out or was evicted

flightVars == <<entry, lock, at, got, last, robbed>>

Observations == [id : 1..MaxObs, level : Levels, stale : BOOLEAN]
NoObservation == [id |-> 0, level |-> None, stale |-> TRUE]

FlightTypeOK ==
    /\ entry \in Observations \cup {NoObservation}
    /\ lock \in Readers \cup {Free}
    /\ at \in [Readers -> {"idle", "missed", "holding", "waiting", "alone", "back", "failed"}]
    /\ got \in [Readers -> Observations \cup {NoObservation}]
    /\ last \in Observations \cup {NoObservation}
    /\ robbed \subseteq Readers

FlightInit ==
    /\ entry = NoObservation
    /\ lock = Free
    /\ at = [r \in Readers |-> "idle"]
    /\ got = [r \in Readers |-> NoObservation]
    /\ last = NoObservation
    /\ robbed = {}

-----------------------------------------------------------------------------
\* A caller comes back with an observation.
Returns(r, o) ==
    /\ at' = [at EXCEPT ![r] = "back"]
    /\ got' = [got EXCEPT ![r] = o]

\* The first look at the cache.
LookUp(r) ==
    /\ at[r] = "idle"
    /\ IF entry # NoObservation
         THEN Returns(r, entry)
         ELSE at' = [at EXCEPT ![r] = "missed"] /\ UNCHANGED got
    /\ UNCHANGED <<entry, lock, last, robbed>>

\* CacheStore.set with nx: one caller gets the lock.
TryLock(r) ==
    /\ at[r] = "missed"
    /\ IF lock = Free
         THEN lock' = r /\ at' = [at EXCEPT ![r] = "holding"]
         ELSE at' = [at EXCEPT ![r] = "waiting"] /\ UNCHANGED lock
    /\ UNCHANGED <<entry, got, last, robbed>>

\* A poll finds the value.
PollHit(r) ==
    /\ at[r] = "waiting"
    /\ entry # NoObservation
    /\ Returns(r, entry)
    /\ UNCHANGED <<entry, lock, last, robbed>>

\* The lock is gone and the cache still empty, or the polls are used up.
StopWaiting(r) ==
    /\ at[r] = "waiting"
    /\ entry = NoObservation
    /\ at' = [at EXCEPT ![r] = "alone"]
    /\ UNCHANGED <<entry, lock, got, last, robbed>>

\* Mutant: whoever leaves deletes the lock, its own or not.
MutantReleased(r) == IF at[r] = "holding" THEN Free ELSE lock

\* A holder gives back its own lock only.
Released(r) == IF lock = r THEN Free ELSE lock

\* What a fetch may see: any level, with too few indicators or enough.
NewObservations ==
    IF last.id < MaxObs
      THEN [id : {last.id + 1}, level : Levels, stale : BOOLEAN]
      ELSE {last}

\* The fetch succeeds and fills the cache.
Fetch(r) ==
    /\ at[r] \in {"holding", "alone"}
    /\ \E o \in NewObservations : last' = o /\ entry' = o /\ Returns(r, o)
    /\ lock' = Released(r)
    /\ robbed' = robbed \ {r}

\* It ends with an exception.
FetchFails(r) ==
    /\ at[r] \in {"holding", "alone"}
    /\ at' = [at EXCEPT ![r] = "failed"]
    /\ lock' = Released(r)
    /\ robbed' = robbed \ {r}
    /\ UNCHANGED <<entry, got, last>>

\* TTL_MARKET_SIGNAL or the shorter one of a degraded observation is over, or
\* the entry is evicted.
EntryGoes ==
    /\ entry # NoObservation
    /\ entry' = NoObservation
    /\ UNCHANGED <<lock, at, got, last, robbed>>

\* The TTL of the lock is over, or the full cache evicts it, while its holder
\* still fetches.
LockGoes ==
    /\ lock # Free
    /\ lock' = Free
    /\ robbed' = robbed \cup {lock}
    /\ UNCHANGED <<entry, at, got, last>>

\* The value is used; the caller may come again.
Leave(r) ==
    /\ at' = [at EXCEPT ![r] = "idle"]
    /\ got' = [got EXCEPT ![r] = NoObservation]
    /\ UNCHANGED <<entry, lock, last, robbed>>

FlightStep(r) ==
    \/ LookUp(r)
    \/ TryLock(r)
    \/ PollHit(r)
    \/ StopWaiting(r)
    \/ Fetch(r)
    \/ FetchFails(r)

-----------------------------------------------------------------------------
\* Two callers hold the lock at once only if it ran out or was evicted under
\* the first: a caller that comes back late does not take the lock of the next
\* one with it (inproc_lock deletes the lock only if the value is its own).
LockHolderExclusive ==
    \A r, s \in Readers :
        at[r] = "holding" /\ at[s] = "holding" /\ r # s => r \in robbed \/ s \in robbed
=============================================================================
