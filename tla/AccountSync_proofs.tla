------------------------- MODULE AccountSync_proofs -------------------------
(***************************************************************************)
(* What holds of the syncs of an account for any number of them, any number *)
(* of orders, any number of locks outlived, and any halves of a sync that   *)
(* fail, are not asked or run on by themselves.                             *)
(***************************************************************************)
EXTENDS AccountSync, FiniteSetTheorems, TLAPS

(* The invariant.                                                           *)

AtBroker == {"asked", "read", "written"}

(* A run that is not exposed has the account for itself.                    *)
Alone ==
    \A s \in Syncs : pc[s] \in InFlight /\ s \notin exposed =>
        /\ lock = s
        /\ \A r \in Syncs : pc[r] \in InFlight => r = s

(* Only a run that was not asked overseas is misled.                        *)
MisledFits == \A s \in Syncs : s \in misled => pc[s] \in {"read", "written"}

(* A reading is what the broker had.                                        *)
GotFits ==
    \A s \in Syncs :
        /\ got[s]["KR"] \in 0..MaxOrders
        /\ pc[s] \in AtBroker => \A m \in Replaced(s) : got[s][m] <= filled[m]

(* That of a run which is alone is not behind what the database holds, and   *)
(* what such a run has deleted is all there is.                             *)
AloneFits ==
    \A s \in Syncs \ exposed :
        /\ pc[s] \in AtBroker => \A m \in Replaced(s) :
               (m = "US" /\ s \in misled) \/ \A p \in positions[m] : p[2] <= got[s][m]
        /\ pc[s] = "written" => \A m \in Markets :
               gone[s][m] = IF m \in Replaced(s) THEN positions[m] ELSE {}

(* An account is marked in time as one without overseas holdings only while *)
(* the database has none for it and nobody is about to write any.           *)
OverseasFits ==
    mark = "sound" =>
        /\ \A p \in positions["US"] : p[2] = 0
        /\ \A s \in Syncs : pc[s] \in AtBroker => got[s]["US"] \in {0, Unknown}

BrokerFits ==
    \A m \in Markets :
        /\ filled[m] <= accepted[m]
        /\ \A p \in positions[m] : p[2] <= filled[m]

(* Orders of a market the gate still waits for.                             *)
Awaited(m) == since[m] + executing[m]

(* What the gate does not wait for, the database knows, or it is blind.     *)
GateFits ==
    /\ ~running => \A m \in Markets : executing[m] = 0
    /\ \A m \in Markets :
          /\ Awaited(m) <= accepted[m]
          /\ m \notin blind => Shows(m, accepted[m] - Awaited(m))

Inv ==
    /\ TypeOK
    /\ Alone
    /\ MisledFits
    /\ GotFits
    /\ AloneFits
    /\ OverseasFits
    /\ BrokerFits
    /\ GateFits

LEMMA Bounds ==
    /\ MaxOrders \in Nat /\ MaxSets \in Nat /\ MaxRare \in Nat
    /\ Unknown = MaxOrders + 1
    /\ "KR" \in Markets /\ "US" \in Markets
  BY SyncAssumption DEF Unknown, Markets

LEMMA InvInit == Init => Inv
<1> SUFFICES ASSUME Init PROVE Inv
  OBVIOUS
<1>1. TypeOK
  <2>1. NewRow \in Rows /\ NoReading \in Readings
    BY Bounds DEF NewRow, Rows, NoReading, Readings
  <2>2. NoRows \in [Markets -> SUBSET Sets] /\ NoReading \in [Markets -> 0..MaxOrders]
    BY Bounds DEF NoRows, NoReading
  <2>3. 0 \in 0..MaxRare
    BY Bounds
  <2> QED
    BY <2>1, <2>2, <2>3 DEF Init, TypeOK, Steps
<1>2. Alone /\ MisledFits /\ GotFits /\ AloneFits /\ OverseasFits /\ BrokerFits
  BY Bounds DEF Init, Alone, MisledFits, GotFits, AloneFits, OverseasFits, BrokerFits, AtBroker,
     InFlight, NoReading, NoRows
<1>3. GateFits
  BY DEF Init, GateFits, Awaited, Shows, NoReading
<1> QED
  BY <1>1, <1>2, <1>3 DEF Inv

-----------------------------------------------------------------------------
(* Steps.                                                                   *)

(* The end of a run keeps what concerns runs.                               *)
LEMMA EndsTyped ==
    ASSUME TypeOK, NEW s \in Syncs, Ends(s)
    PROVE  /\ pc' \in [Syncs -> Steps]
           /\ stale' \in [Syncs -> Rows]
           /\ dirty' \in [Syncs -> SUBSET Columns]
           /\ got' \in [Syncs -> Readings]
           /\ gone' \in [Syncs -> [Markets -> SUBSET Sets]]
           /\ lock' \in Syncs \cup {Free}
           /\ exposed' \subseteq Syncs /\ misled' \subseteq Syncs
<1>1. NewRow \in Rows /\ NoReading \in Readings
  BY Bounds DEF NewRow, Rows, NoReading, Readings
<1>2. NoRows \in [Markets -> SUBSET Sets] /\ "idle" \in Steps
  BY DEF NoRows, Steps
<1> QED
  BY <1>1, <1>2 DEF TypeOK, Ends

LEMMA EndsKeeps ==
    ASSUME TypeOK, NEW s \in Syncs, Ends(s)
    PROVE  /\ pc'[s] = "idle" /\ got'[s] = NoReading
           /\ \A r \in Syncs \ {s} :
                 pc'[r] = pc[r] /\ got'[r] = got[r] /\ gone'[r] = gone[r]
           /\ exposed' = exposed \ {s} /\ misled' = misled \ {s}
  BY DEF TypeOK, Ends

(* The row a run writes has its columns from the database or as loaded.     *)
LEMMA WrittenTyped ==
    ASSUME TypeOK, NEW s \in Syncs PROVE Written(s) \in Rows
<1>1. row \in Rows /\ stale[s] \in Rows
  BY DEF TypeOK
<1>2. Written(s) = [c \in {"active", "key"} |-> IF c \in dirty[s] THEN stale[s][c] ELSE row[c]]
  BY DEF Written, Columns
<1> QED
  BY <1>1, <1>2 DEF Rows

(* What a run inserts.                                                      *)
LEMMA InsertedIs ==
    ASSUME NEW s \in Syncs, NEW m \in Markets, Unused(s, m) # {}
    PROVE  /\ m \notin Replaced(s) => Inserted(s, m) = {}
           /\ m \in Replaced(s) =>
                 \E i \in 1..MaxSets : Inserted(s, m) = {<<i, got[s][m]>>}
<1>1. (CHOOSE i \in Unused(s, m) : TRUE) \in 1..MaxSets
  BY DEF Unused
<1> QED
  BY <1>1 DEF Inserted

LEMMA ReplacedIs ==
    ASSUME TypeOK, GotFits, NEW s \in Syncs, NEW m \in Replaced(s)
    PROVE  m \in Markets /\ got[s][m] \in 0..MaxOrders
<1>1. got[s]["US"] \in 0..Unknown
  BY Bounds DEF TypeOK, Readings
<1> QED
  BY <1>1, Bounds DEF GotFits, Replaced, Markets

(* A step of a run that asks the broker.                                    *)
LEMMA Asked ==
    ASSUME TypeOK, NEW s \in Syncs, ReadBalance(s)
    PROVE  /\ pc[s] = "merged" /\ pc'[s] \in {"asked", "read"}
           /\ pc'[s] = "asked" <=> mark = "none"
           /\ got'[s]["KR"] = filled["KR"] /\ got'[s]["US"] \in OverseasReadings
           /\ \A r \in Syncs \ {s} : pc'[r] = pc[r] /\ got'[r] = got[r]
           /\ pc' \in [Syncs -> Steps] /\ got' \in [Syncs -> Readings]
<1>1. PICK us \in OverseasReadings :
          got' = [got EXCEPT ![s] = [KR |-> filled["KR"], US |-> us]]
  BY DEF ReadBalance
<1>2. us \in 0..Unknown /\ filled["KR"] \in 0..Unknown
  BY Bounds DEF OverseasReadings, TypeOK
<1>3. [KR |-> filled["KR"], US |-> us] \in Readings
  BY <1>2 DEF Readings, Markets
<1>4. pc' = [pc EXCEPT ![s] = IF mark = "none" THEN "asked" ELSE "read"] /\ pc[s] = "merged"
  BY DEF ReadBalance
<1>5. got' \in [Syncs -> Readings] /\ got'[s] = [KR |-> filled["KR"], US |-> us]
      /\ \A r \in Syncs \ {s} : got'[r] = got[r]
  BY <1>1, <1>3 DEF TypeOK
<1>6. /\ pc' \in [Syncs -> Steps] /\ pc'[s] = IF mark = "none" THEN "asked" ELSE "read"
      /\ \A r \in Syncs \ {s} : pc'[r] = pc[r]
  BY <1>4 DEF TypeOK, Steps
<1> QED
  BY <1>4, <1>5, <1>6

LEMMA HalfTyped ==
    ASSUME TypeOK, NEW s \in Syncs, HalfRunsOn(s)
    PROVE  stray' \in BOOLEAN /\ rare' \in 0..MaxRare
<1>1. CASE UNCHANGED <<stray, rare>>
  BY <1>1 DEF TypeOK
<1>2. CASE Rarely /\ stray' = TRUE
  BY <1>2, Bounds DEF Rarely, TypeOK
<1> QED
  BY <1>1, <1>2 DEF HalfRunsOn

LEMMA TypeStep == ASSUME TypeOK, GotFits, GateFits, [Next]_vars PROVE TypeOK'
<1> USE DEF Steps
<1>1. ASSUME NEW s \in Syncs, Load(s) PROVE TypeOK'
  BY <1>1 DEF Load, TypeOK, db, memory, broker, execution, trust
<1>2. ASSUME NEW s \in Syncs, Skip(s) PROVE TypeOK'
  BY <1>2, EndsTyped DEF Skip, TypeOK, db, memory, broker, execution
<1>3. ASSUME NEW s \in Syncs, Merge(s) PROVE TypeOK'
  BY <1>3 DEF Merge, Takes, TypeOK, db, memory, broker, execution
<1>4. ASSUME NEW s \in Syncs, MergeBeside(s) PROVE TypeOK'
  BY <1>4, Bounds DEF MergeBeside, Rarely, Takes, TypeOK, db, memory, broker, execution
<1>5. ASSUME NEW s \in Syncs, StoreToken(s) PROVE TypeOK'
  BY <1>5, WrittenTyped DEF StoreToken, TypeOK, memory, broker, execution, trust
<1>6. ASSUME NEW s \in Syncs, ReadBalance(s) PROVE TypeOK'
  BY <1>6, Asked DEF ReadBalance, TypeOK, db, memory, broker, execution
<1>7. ASSUME NEW s \in Syncs, MarkOverseas(s) PROVE TypeOK'
  BY <1>7 DEF MarkOverseas, TypeOK, db, broker, execution, trust
<1>8. ASSUME NEW s \in Syncs, Retry(s) PROVE TypeOK'
  <2>1. NoReading \in Readings
    BY Bounds DEF NoReading, Readings
  <2> QED
    BY <1>8, <2>1, HalfTyped DEF Retry, TypeOK, db, broker, execution
<1>9. ASSUME NEW s \in Syncs, Fail(s) PROVE TypeOK'
  BY <1>9, EndsTyped, HalfTyped DEF Fail, TypeOK, db, broker, execution
<1>10. ASSUME NEW s \in Syncs, DeleteRows(s) PROVE TypeOK'
  BY <1>10 DEF DeleteRows, TypeOK, db, memory, broker, execution, trust
<1>11. ASSUME NEW s \in Syncs, CommitSync(s) PROVE TypeOK'
  <2>1. \A m \in Markets : Inserted(s, m) \subseteq Sets
    <3> SUFFICES ASSUME NEW m \in Markets PROVE Inserted(s, m) \subseteq Sets
      OBVIOUS
    <3>1. Unused(s, m) # {}
      BY <1>11 DEF CommitSync
    <3>2. CASE m \in Replaced(s)
      <4>1. got[s][m] \in 0..MaxOrders
        BY <3>2, ReplacedIs
      <4> QED
        BY <3>1, <3>2, <4>1, InsertedIs DEF Sets
    <3>3. CASE m \notin Replaced(s)
      BY <3>1, <3>3, InsertedIs
    <3> QED
      BY <3>2, <3>3
  <2>2. positions' \in [Markets -> SUBSET Sets]
    BY <1>11, <2>1 DEF CommitSync, TypeOK
  <2>3. row' \in Rows
    BY <1>11, WrittenTyped DEF CommitSync
  <2>4. since' \in [Markets -> 0..MaxOrders]
    BY <1>11, Bounds DEF CommitSync, NoReading
  <2> QED
    BY <1>11, <2>2, <2>3, <2>4, EndsTyped DEF CommitSync, TypeOK, memory, broker
<1>12. CASE DeleteAccount \/ DeleteCredentials \/ SetCredentials
  <2>1. row' \in Rows
    <3>1. /\ [active |-> FALSE, key |-> "deleted"] \in Rows
          /\ [active |-> TRUE, key |-> "deleted"] \in Rows
          /\ NewRow \in Rows
      BY DEF Rows, NewRow
    <3> QED
      BY <1>12, <3>1 DEF DeleteAccount, DeleteCredentials, SetCredentials, Edits
  <2>2. rare' \in 0..MaxRare
    BY <1>12, Bounds DEF DeleteAccount, DeleteCredentials, SetCredentials, Rarely, TypeOK
  <2> QED
    BY <1>12, <2>1, <2>2 DEF DeleteAccount, DeleteCredentials, SetCredentials, Edits, TypeOK, run,
       memory, broker, execution, trust
<1>13. CASE ForgetNoOverseas \/ StraySets
  BY <1>13 DEF ForgetNoOverseas, StraySets, TypeOK, db, run, broker, execution, trust
<1>14. CASE StartExecution
  BY <1>14 DEF StartExecution, TypeOK, db, run, memory, broker, trust
<1>15. ASSUME NEW m \in Markets, Accept(m) PROVE TypeOK'
  <2>1. accepted[m] \in 0..MaxOrders /\ executing[m] \in 0..MaxOrders /\ since[m] \in 0..MaxOrders
    BY DEF TypeOK
  <2>2. accepted["KR"] \in 0..MaxOrders /\ accepted["US"] \in 0..MaxOrders
    BY Bounds DEF TypeOK
  <2>3. accepted[m] < MaxOrders /\ executing[m] <= accepted[m]
    BY <1>15, <2>1, <2>2, Bounds DEF Accept, MoreOrders, Markets, GateFits, Awaited
  <2>4. accepted' \in [Markets -> 0..MaxOrders]
    BY <1>15, <2>1, <2>3, Bounds DEF Accept, TypeOK
  <2>5. executing' \in [Markets -> 0..MaxOrders] /\ blind' \subseteq Markets
    BY <1>15, <2>1, <2>3, Bounds DEF Accept, TypeOK
  <2> QED
    BY <1>15, <2>4, <2>5 DEF Accept, TypeOK, db, run, memory, trust
<1>16. ASSUME NEW m \in Markets, Fill(m) PROVE TypeOK'
  BY <1>16, Bounds DEF Fill, TypeOK, db, run, memory, execution, trust
<1>17. ASSUME NEW m \in Markets, CancelRest(m) PROVE TypeOK'
  <2>1. accepted[m] \in 0..MaxOrders /\ since[m] \in 0..MaxOrders /\ filled[m] \in 0..MaxOrders
    BY DEF TypeOK
  <2>2. since' \in [Markets -> 0..MaxOrders]
    BY <1>17, <2>1, Bounds DEF CancelRest, TypeOK
  <2>3. accepted' \in [Markets -> 0..MaxOrders] /\ blind' \subseteq Markets
    BY <1>17, <2>1, Bounds DEF CancelRest, TypeOK
  <2> QED
    BY <1>17, <2>2, <2>3 DEF CancelRest, TypeOK, run, memory, execution, trust
<1>18. CASE RecordExecution \/ LoseHistory
  <2>1. executing' \in [Markets -> 0..MaxOrders]
    BY <1>18, Bounds DEF RecordExecution, LoseHistory, ExecutionEnds, NoReading
  <2>2. since' \in [Markets -> 0..MaxOrders]
    <3>1. \A m \in Markets : since[m] + executing[m] \in 0..MaxOrders
      BY Bounds DEF TypeOK, GateFits, Awaited
    <3> QED
      BY <1>18, <3>1 DEF RecordExecution, LoseHistory, TypeOK
  <2>3. blind' \subseteq Markets
    BY <1>18 DEF RecordExecution, LoseHistory, Answered, TypeOK
  <2> QED
    BY <1>18, <2>1, <2>2, <2>3
    DEF RecordExecution, LoseHistory, ExecutionEnds, TypeOK, run, memory, broker, trust
<1>19. CASE UNCHANGED vars
  BY <1>19 DEF vars, TypeOK, db, run, memory, broker, execution, trust
<1> QED
  BY <1>1, <1>2, <1>3, <1>4, <1>5, <1>6, <1>7, <1>8, <1>9, <1>10, <1>11, <1>12, <1>13, <1>14,
     <1>15, <1>16, <1>17, <1>18, <1>19 DEF Next, SyncStep

(* The steps that neither start, end nor carry on a run.                    *)
Elsewhere ==
    \/ DeleteAccount \/ DeleteCredentials \/ SetCredentials
    \/ StartExecution \/ RecordExecution \/ LoseHistory
    \/ \E m \in Markets : Accept(m) \/ Fill(m) \/ CancelRest(m)
    \/ UNCHANGED vars

LEMMA ElsewhereKeeps ==
    ASSUME Elsewhere
    PROVE  UNCHANGED <<positions, lock, pc, stale, dirty, got, gone, mark, exposed, misled>>
  BY DEF Elsewhere, DeleteAccount, DeleteCredentials, SetCredentials, Edits, StartExecution,
     RecordExecution, LoseHistory, ExecutionEnds, Accept, Fill, CancelRest, vars, db, run, memory,
     trust

(* What the steps outside the commit leave alone.                           *)
LEMMA SetsKept ==
    ASSUME [Next]_vars, \A s \in Syncs : ~CommitSync(s)
    PROVE  UNCHANGED positions
  BY ElsewhereKeeps
  DEF Elsewhere, Next, SyncStep, Load, Skip, Merge, MergeBeside, Takes, StoreToken, ReadBalance,
     MarkOverseas, Retry, Fail, DeleteRows, ForgetNoOverseas, StraySets, db

LEMMA AloneStep == ASSUME TypeOK, Alone, [Next]_vars PROVE Alone'
<1> USE DEF InFlight
<1>1. ASSUME NEW s \in Syncs, Load(s) \/ StoreToken(s) \/ ReadBalance(s) \/ MarkOverseas(s)
                                \/ Retry(s) \/ DeleteRows(s)
      PROVE  Alone'
  <2>1. UNCHANGED <<lock, exposed>>
    BY <1>1 DEF Load, StoreToken, ReadBalance, MarkOverseas, Retry, DeleteRows, trust
  <2>2. \A r \in Syncs : pc'[r] \in InFlight <=> pc[r] \in InFlight
    BY <1>1, Asked DEF TypeOK, Load, StoreToken, MarkOverseas, Retry, DeleteRows
  <2> QED
    BY <2>1, <2>2 DEF Alone
<1>2. ASSUME NEW s \in Syncs, Skip(s) \/ Fail(s) \/ CommitSync(s) PROVE Alone'
  <2>1. Ends(s)
    BY <1>2 DEF Skip, Fail, CommitSync
  <2>2. lock' = IF lock = s THEN Free ELSE lock
    BY <2>1 DEF Ends
  <2> QED
    BY <2>1, <2>2, EndsKeeps DEF Alone
<1>3. ASSUME NEW s \in Syncs, Merge(s) PROVE Alone'
  <2>1. \A r \in Syncs : pc[r] \in InFlight => r \in exposed
    BY <1>3, SyncAssumption DEF Merge, Alone
  <2>2. /\ pc'[s] = "merged" /\ lock' = s
        /\ \A r \in Syncs \ {s} : pc'[r] = pc[r]
        /\ exposed' = IF exposed = {} THEN {} ELSE exposed \cup {s}
    BY <1>3 DEF Merge, Takes, TypeOK
  <2> QED
    BY <2>1, <2>2 DEF Alone
<1>4. ASSUME NEW s \in Syncs, MergeBeside(s) PROVE Alone'
  <2>1. \A r \in Syncs : pc[r] \in InFlight => r \in exposed \cup {lock}
    BY DEF Alone
  <2>2. exposed' = exposed \cup {lock, s} /\ \A r \in Syncs \ {s} : pc'[r] = pc[r]
    BY <1>4 DEF MergeBeside, Takes, TypeOK
  <2> QED
    BY <2>1, <2>2 DEF Alone
<1>5. CASE Elsewhere
  BY <1>5, ElsewhereKeeps DEF Alone
<1>6. CASE ForgetNoOverseas \/ StraySets
  BY <1>6 DEF ForgetNoOverseas, StraySets, Alone, run, trust
<1> QED
  BY <1>1, <1>2, <1>3, <1>4, <1>5, <1>6 DEF Next, SyncStep, Elsewhere

(* Orders only ever fill.                                                   *)
LEMMA FilledGrows ==
    ASSUME TypeOK, [Next]_vars, NEW m \in Markets
    PROVE  filled[m] \in Nat /\ filled'[m] \in Nat /\ filled[m] <= filled'[m]
<1>1. filled[m] \in Nat
  BY Bounds DEF TypeOK
<1>2. ASSUME NEW n \in Markets, Fill(n) PROVE filled'[m] \in Nat /\ filled[m] <= filled'[m]
  BY <1>1, <1>2 DEF Fill, TypeOK
<1>3. CASE \A n \in Markets : ~Fill(n)
  <2>1. filled' = filled
    BY <1>3 DEF Next, SyncStep, Load, Skip, Merge, MergeBeside, Takes, StoreToken, ReadBalance,
       MarkOverseas, Retry, Fail, DeleteRows, CommitSync, ForgetNoOverseas, StraySets, DeleteAccount,
       DeleteCredentials, SetCredentials, Edits, StartExecution, RecordExecution, LoseHistory,
       ExecutionEnds, Accept, CancelRest, vars, broker
  <2> QED
    BY <1>1, <2>1
<1> QED
  BY <1>1, <1>2, <1>3

LEMMA MisledStep == ASSUME TypeOK, MisledFits, [Next]_vars PROVE MisledFits'
<1>1. ASSUME NEW s \in Syncs, Load(s) \/ Merge(s) \/ MergeBeside(s) \/ StoreToken(s)
                                \/ MarkOverseas(s) \/ DeleteRows(s)
      PROVE  MisledFits'
  BY <1>1 DEF MisledFits, TypeOK, Load, Merge, MergeBeside, Takes, StoreToken, MarkOverseas,
     DeleteRows, trust
<1>2. ASSUME NEW s \in Syncs, ReadBalance(s) PROVE MisledFits'
  BY <1>2, Asked DEF MisledFits, ReadBalance
<1>3. ASSUME NEW s \in Syncs, Retry(s) PROVE MisledFits'
  BY <1>3 DEF MisledFits, TypeOK, Retry
<1>4. ASSUME NEW s \in Syncs, Skip(s) \/ Fail(s) \/ CommitSync(s) PROVE MisledFits'
  <2>1. Ends(s)
    BY <1>4 DEF Skip, Fail, CommitSync
  <2> QED
    BY <2>1, EndsKeeps DEF MisledFits
<1>5. CASE Elsewhere
  BY <1>5, ElsewhereKeeps DEF MisledFits
<1>6. CASE ForgetNoOverseas \/ StraySets
  BY <1>6 DEF ForgetNoOverseas, StraySets, MisledFits, run, trust
<1> QED
  BY <1>1, <1>2, <1>3, <1>4, <1>5, <1>6 DEF Next, SyncStep, Elsewhere

LEMMA GotStep == ASSUME TypeOK, GotFits, [Next]_vars PROVE GotFits'
<1> DEFINE Good(r) == /\ got[r]["KR"] \in 0..MaxOrders
                      /\ pc[r] \in AtBroker => \A m \in Replaced(r) : got[r][m] <= filled[m]
<1>1. \A r \in Syncs : Good(r)
  BY DEF GotFits
<1>2. ASSUME NEW r \in Syncs, got'[r] = got[r], pc'[r] \in AtBroker => pc[r] \in AtBroker
      PROVE  Good(r)'
  <2>1. Replaced(r)' = Replaced(r)
    BY <1>2 DEF Replaced
  <2>2. ASSUME pc[r] \in AtBroker, NEW m \in Replaced(r) PROVE got[r][m] <= filled'[m]
    <3>1. m \in Markets /\ got[r][m] \in Nat
      BY ReplacedIs, Bounds
    <3>2. got[r][m] <= filled[m]
      BY <1>1, <2>2
    <3> QED
      BY <3>1, <3>2, FilledGrows
  <2> QED
    BY <1>1, <1>2, <2>1, <2>2
<1>3. ASSUME NEW r \in Syncs, got'[r]["KR"] \in 0..MaxOrders, pc'[r] \notin AtBroker PROVE Good(r)'
  BY <1>3
<1>4. NoReading["KR"] \in 0..MaxOrders
  BY Bounds DEF NoReading
<1>5. SUFFICES \A r \in Syncs : Good(r)'
  BY DEF GotFits
<1> HIDE DEF Good
<1>6. ASSUME NEW s \in Syncs, Load(s) \/ Merge(s) \/ MergeBeside(s) \/ StoreToken(s)
                                \/ MarkOverseas(s) \/ DeleteRows(s)
      PROVE  \A r \in Syncs : Good(r)'
  <2>1. got' = got /\ \A r \in Syncs : pc'[r] \in AtBroker => pc[r] \in AtBroker
    BY <1>6 DEF Load, Merge, MergeBeside, Takes, StoreToken, MarkOverseas, DeleteRows, TypeOK, AtBroker
  <2> QED
    BY <1>2, <2>1
<1>7. ASSUME NEW s \in Syncs, Skip(s) \/ Fail(s) \/ CommitSync(s) PROVE \A r \in Syncs : Good(r)'
  <2>1. Ends(s)
    BY <1>7 DEF Skip, Fail, CommitSync
  <2>2. Good(s)'
    BY <1>3, <1>4, <2>1, EndsKeeps DEF AtBroker
  <2> QED
    BY <1>2, <2>1, <2>2, EndsKeeps
<1>8. ASSUME NEW s \in Syncs, Retry(s) PROVE \A r \in Syncs : Good(r)'
  <2>1. pc'[s] = "merged" /\ got'[s] = NoReading
        /\ \A r \in Syncs \ {s} : pc'[r] = pc[r] /\ got'[r] = got[r]
    BY <1>8 DEF Retry, TypeOK
  <2>2. Good(s)'
    BY <1>3, <1>4, <2>1 DEF AtBroker
  <2> QED
    BY <1>2, <2>1, <2>2
<1>9. ASSUME NEW s \in Syncs, ReadBalance(s) PROVE \A r \in Syncs : Good(r)'
  <2>1. /\ got'[s]["KR"] = filled["KR"] /\ got'[s]["US"] \in OverseasReadings
        /\ filled' = filled
        /\ \A r \in Syncs \ {s} : pc'[r] = pc[r] /\ got'[r] = got[r]
    BY <1>9, Asked DEF ReadBalance, broker
  <2>2. filled["KR"] \in 0..MaxOrders /\ filled["US"] \in 0..MaxOrders
    BY Bounds DEF TypeOK
  <2>3. \A m \in Replaced(s)' : got'[s][m] <= filled'[m]
    BY <2>1, <2>2, Bounds DEF Replaced, Markets, OverseasReadings
  <2>4. Good(s)'
    BY <2>1, <2>2, <2>3 DEF Good
  <2> QED
    BY <1>2, <2>1, <2>4
<1>10. CASE Elsewhere
  BY <1>2, <1>10, ElsewhereKeeps
<1>11. CASE ForgetNoOverseas \/ StraySets
  <2>1. got' = got /\ pc' = pc
    BY <1>11 DEF ForgetNoOverseas, StraySets, run
  <2> QED
    BY <1>2, <2>1
<1> QED
  BY <1>6, <1>7, <1>8, <1>9, <1>10, <1>11 DEF Next, SyncStep, Elsewhere

(* What a commit leaves of a market.                                        *)
LEMMA Committed ==
    ASSUME TypeOK, GotFits, NEW s \in Syncs, CommitSync(s), NEW m \in Markets
    PROVE  /\ m \notin Replaced(s) => positions'[m] = positions[m] \ gone[s][m]
           /\ m \in Replaced(s) => \E i \in 1..MaxSets :
                 positions'[m] = (positions[m] \ gone[s][m]) \cup {<<i, got[s][m]>>}
<1>1. Unused(s, m) # {} /\ positions'[m] = (positions[m] \ gone[s][m]) \cup Inserted(s, m)
  BY DEF CommitSync
<1> QED
  BY <1>1, InsertedIs

(* One that is alone leaves its own set, or what there was.                 *)
LEMMA CommittedAlone ==
    ASSUME TypeOK, GotFits, AloneFits, NEW s \in Syncs \ exposed, CommitSync(s), NEW m \in Markets
    PROVE  /\ m \notin Replaced(s) => positions'[m] = positions[m]
           /\ m \in Replaced(s) => \E i \in 1..MaxSets : positions'[m] = {<<i, got[s][m]>>}
<1>1. gone[s][m] = IF m \in Replaced(s) THEN positions[m] ELSE {}
  BY DEF AloneFits, CommitSync
<1>2. CASE m \in Replaced(s)
  <2>1. PICK i \in 1..MaxSets : positions'[m] = (positions[m] \ gone[s][m]) \cup {<<i, got[s][m]>>}
    BY <1>2, Committed
  <2>2. positions'[m] = {<<i, got[s][m]>>}
    BY <1>1, <1>2, <2>1
  <2> QED
    BY <1>2, <2>2
<1>3. CASE m \notin Replaced(s)
  <2>1. positions'[m] = positions[m] \ gone[s][m]
    BY <1>3, Committed
  <2> QED
    BY <1>1, <1>3, <2>1
<1> QED
  BY <1>2, <1>3

LEMMA AloneFitsStep ==
    ASSUME TypeOK, Alone, MisledFits, GotFits, AloneFits, OverseasFits, BrokerFits, [Next]_vars
    PROVE  AloneFits'
<1> DEFINE Good(r) ==
        /\ pc[r] \in AtBroker => \A m \in Replaced(r) :
               (m = "US" /\ r \in misled) \/ \A p \in positions[m] : p[2] <= got[r][m]
        /\ pc[r] = "written" => \A m \in Markets :
               gone[r][m] = IF m \in Replaced(r) THEN positions[m] ELSE {}
<1>1. \A r \in Syncs \ exposed : Good(r)
  BY DEF AloneFits
<1>2. ASSUME NEW r \in Syncs, pc'[r] \notin AtBroker PROVE Good(r)'
  BY <1>2 DEF AtBroker
<1>3. ASSUME NEW r \in Syncs \ exposed', r \notin exposed, UNCHANGED positions,
             got'[r] = got[r], gone'[r] = gone[r], r \in misled' <=> r \in misled,
             pc'[r] \in AtBroker => pc[r] \in AtBroker /\ (pc'[r] = "written" => pc[r] = "written")
      PROVE  Good(r)'
  <2>1. Good(r) /\ Replaced(r)' = Replaced(r) /\ "written" \in AtBroker
    BY <1>1, <1>3 DEF Replaced, AtBroker
  <2> QED
    BY <1>3, <2>1
<1>4. SUFFICES \A r \in Syncs \ exposed' : Good(r)'
  BY DEF AloneFits
<1> HIDE DEF Good
<1>5. ASSUME NEW s \in Syncs, Load(s) \/ StoreToken(s) \/ MarkOverseas(s)
                                \/ Merge(s) \/ MergeBeside(s)
      PROVE  \A r \in Syncs \ exposed' : Good(r)'
  <2>1. /\ UNCHANGED <<got, gone, misled, positions>> /\ exposed \subseteq exposed'
        /\ \A r \in Syncs : pc'[r] \in AtBroker =>
               pc[r] \in AtBroker /\ (pc'[r] = "written" => pc[r] = "written")
    BY <1>5 DEF Load, Merge, MergeBeside, Takes, StoreToken, MarkOverseas, TypeOK, AtBroker, db, trust
  <2> QED
    BY <1>3, <2>1
<1>6. ASSUME NEW s \in Syncs, Skip(s) \/ Fail(s) \/ Retry(s)
      PROVE  \A r \in Syncs \ exposed' : Good(r)'
  <2>1. /\ pc'[s] \notin AtBroker /\ UNCHANGED positions
        /\ \A r \in Syncs \ {s} :
               /\ pc'[r] = pc[r] /\ got'[r] = got[r] /\ gone'[r] = gone[r]
               /\ r \in exposed' <=> r \in exposed
               /\ r \in misled' <=> r \in misled
    BY <1>6, EndsKeeps DEF Skip, Fail, Retry, TypeOK, AtBroker, db
  <2> QED
    BY <1>2, <1>3, <2>1
<1>7. ASSUME NEW s \in Syncs, ReadBalance(s) PROVE \A r \in Syncs \ exposed' : Good(r)'
  <2>1. /\ pc'[s] \in {"asked", "read"} /\ UNCHANGED <<positions, gone, exposed>>
        /\ got'[s]["KR"] = filled["KR"] /\ got'[s]["US"] \in OverseasReadings
        /\ \A r \in Syncs \ {s} : pc'[r] = pc[r] /\ got'[r] = got[r]
        /\ misled' = IF mark = "late" THEN misled \cup {s} ELSE misled
    BY <1>7, Asked DEF ReadBalance, db
  <2>2. ASSUME NEW m \in Replaced(s)', ~(m = "US" /\ s \in misled')
        PROVE  \A p \in positions[m] : p[2] <= got'[s][m]
    <3>1. CASE m = "KR"
      BY <2>1, <3>1, Bounds DEF BrokerFits
    <3>2. CASE m = "US" /\ mark = "none"
      <4>1. got'[s]["US"] = filled["US"]
        BY <2>1, <2>2, <3>2, Bounds DEF Replaced, OverseasReadings
      <4> QED
        BY <3>2, <4>1, Bounds DEF BrokerFits
    <3>3. CASE m = "US" /\ mark = "sound"
      <4>1. got'[s]["US"] = 0
        BY <2>1, <3>3 DEF OverseasReadings
      <4> QED
        BY <3>3, <4>1 DEF OverseasFits
    <3>4. CASE m = "US" /\ mark = "late"
      BY <2>1, <2>2, <3>4
    <3> QED
      BY <3>1, <3>2, <3>3, <3>4 DEF Replaced, Markets, TypeOK
  <2>3. Good(s)'
    BY <2>1, <2>2 DEF Good, AtBroker
  <2>4. ASSUME NEW r \in Syncs \ exposed', r # s PROVE Good(r)'
    BY <1>3, <2>1, <2>4
  <2> QED
    BY <2>3, <2>4
<1>8. ASSUME NEW s \in Syncs, DeleteRows(s) PROVE \A r \in Syncs \ exposed' : Good(r)'
  <2>1. /\ UNCHANGED <<positions, got, exposed, misled>>
        /\ pc[s] = "read" /\ pc'[s] = "written"
        /\ gone'[s] = [m \in Markets |-> IF m \in Replaced(s) THEN positions[m] ELSE {}]
        /\ \A r \in Syncs \ {s} : pc'[r] = pc[r] /\ gone'[r] = gone[r]
    BY <1>8 DEF DeleteRows, TypeOK, db, trust
  <2>2. ASSUME s \notin exposed PROVE Good(s)'
    <3>1. Good(s) /\ pc[s] \in AtBroker /\ Replaced(s)' = Replaced(s)
      BY <1>1, <2>1, <2>2 DEF AtBroker, Replaced
    <3> QED
      BY <2>1, <3>1 DEF Good
  <2>3. ASSUME NEW r \in Syncs \ exposed', r # s PROVE Good(r)'
    BY <1>3, <2>1, <2>3
  <2> QED
    BY <2>1, <2>2, <2>3
<1>9. ASSUME NEW s \in Syncs, CommitSync(s) PROVE \A r \in Syncs \ exposed' : Good(r)'
  <2>1. /\ pc'[s] = "idle" /\ pc[s] = "written"
        /\ \A r \in Syncs \ {s} : pc'[r] = pc[r] /\ (r \in exposed' <=> r \in exposed)
    BY <1>9, EndsKeeps DEF CommitSync
  <2>2. \A r \in Syncs \ exposed' : pc'[r] \notin AtBroker
    BY <2>1 DEF Alone, AtBroker, InFlight
  <2> QED
    BY <1>2, <2>2
<1>10. CASE Elsewhere
  BY <1>3, <1>10, ElsewhereKeeps
<1>11. CASE ForgetNoOverseas \/ StraySets
  <2>1. UNCHANGED <<positions, pc, got, gone, exposed, misled>>
    BY <1>11 DEF ForgetNoOverseas, StraySets, run, trust, db
  <2> QED
    BY <1>3, <2>1
<1> QED
  BY <1>5, <1>6, <1>7, <1>8, <1>9, <1>10, <1>11 DEF Next, SyncStep, Elsewhere

LEMMA OverseasStep ==
    ASSUME TypeOK, Alone, MisledFits, GotFits, AloneFits, OverseasFits, [Next]_vars
    PROVE  OverseasFits'
<1>1. ASSUME UNCHANGED <<positions, mark>>,
             \A r \in Syncs : pc'[r] \in AtBroker => pc[r] \in AtBroker /\ got'[r] = got[r]
      PROVE  OverseasFits'
  BY <1>1 DEF OverseasFits
<1>2. ASSUME NEW s \in Syncs, Load(s) \/ Merge(s) \/ MergeBeside(s) \/ StoreToken(s) \/ DeleteRows(s)
                                \/ Skip(s) \/ Fail(s) \/ Retry(s)
      PROVE  OverseasFits'
  <2>1. CASE Skip(s) \/ Fail(s)
    BY <1>1, <2>1, EndsKeeps DEF Skip, Fail, AtBroker, db, memory
  <2>2. CASE ~Skip(s) /\ ~Fail(s)
    <3>1. /\ UNCHANGED <<positions, mark>>
          /\ \A r \in Syncs : pc'[r] \in AtBroker => pc[r] \in AtBroker /\ got'[r] = got[r]
      BY <1>2, <2>2 DEF Load, Merge, MergeBeside, Takes, StoreToken, DeleteRows, Retry, TypeOK,
         AtBroker, db, memory
    <3> QED
      BY <1>1, <3>1
  <2> QED
    BY <2>1, <2>2
<1>3. ASSUME NEW s \in Syncs, ReadBalance(s) PROVE OverseasFits'
  <2>1. /\ UNCHANGED <<positions, mark>>
        /\ got'[s]["US"] \in OverseasReadings
        /\ \A r \in Syncs \ {s} : pc'[r] = pc[r] /\ got'[r] = got[r]
    BY <1>3, Asked DEF ReadBalance, db, memory
  <2>2. mark = "sound" => got'[s]["US"] = 0
    BY <2>1 DEF OverseasReadings
  <2> QED
    BY <2>1, <2>2 DEF OverseasFits
<1>4. ASSUME NEW s \in Syncs, MarkOverseas(s) PROVE OverseasFits'
  <2>1. /\ UNCHANGED <<positions, got>>
        /\ pc[s] = "asked" /\ pc'[s] = "read"
        /\ \A r \in Syncs \ {s} : pc'[r] = pc[r]
        /\ mark' = "sound" => mark = "sound" \/ (got[s]["US"] = 0 /\ s \notin exposed)
    <3>1. got[s]["US"] \in Nat
      BY Bounds DEF TypeOK, Readings
    <3>2. /\ UNCHANGED <<positions, got>> /\ pc[s] = "asked"
          /\ pc'[s] = "read" /\ \A r \in Syncs \ {s} : pc'[r] = pc[r]
      BY <1>4 DEF MarkOverseas, TypeOK, db
    <3>3. mark' = "sound" => mark = "sound" \/ (~(got[s]["US"] > 0) /\ s \notin exposed)
      BY <1>4 DEF MarkOverseas
    <3> QED
      BY <3>1, <3>2, <3>3
  <2>2. CASE mark = "sound"
    BY <2>1, <2>2 DEF OverseasFits, AtBroker
  <2>3. CASE got[s]["US"] = 0 /\ s \notin exposed
    <3>1. \A r \in Syncs \ {s} : pc'[r] \notin AtBroker
      BY <2>1, <2>3 DEF Alone, AtBroker, InFlight
    <3>2. "US" \in Replaced(s) /\ s \notin misled
      BY <2>1, <2>3, Bounds DEF Replaced, MisledFits
    <3>3. \A p \in positions["US"] : p[2] <= 0
      BY <2>1, <2>3, <3>2 DEF AloneFits, AtBroker
    <3>4. \A p \in positions["US"] : p[2] \in Nat
      BY Bounds DEF TypeOK, Sets
    <3>5. \A p \in positions'["US"] : p[2] = 0
      BY <2>1, <3>3, <3>4
    <3>6. got'[s]["US"] = 0
      BY <2>1, <2>3
    <3> QED
      BY <3>1, <3>5, <3>6 DEF OverseasFits
  <2> QED
    BY <2>1, <2>2, <2>3 DEF OverseasFits
<1>5. ASSUME NEW s \in Syncs, CommitSync(s) PROVE OverseasFits'
  <2>1. /\ mark' = mark /\ pc[s] = "written" /\ pc'[s] = "idle"
        /\ \A r \in Syncs \ {s} : pc'[r] = pc[r] /\ got'[r] = got[r]
    BY <1>5, EndsKeeps DEF CommitSync, memory
  <2>2. ASSUME mark = "sound", NEW p \in positions'["US"] PROVE p[2] = 0
    <3>1. p \in positions["US"] \/ ("US" \in Replaced(s) /\ p[2] = got[s]["US"])
      <4>1. CASE "US" \in Replaced(s)
        <5>1. PICK i \in 1..MaxSets :
                  positions'["US"] = (positions["US"] \ gone[s]["US"]) \cup {<<i, got[s]["US"]>>}
          BY <1>5, <4>1, Committed, Bounds
        <5> QED
          BY <2>2, <4>1, <5>1
      <4>2. CASE "US" \notin Replaced(s)
        BY <1>5, <2>2, <4>2, Committed, Bounds
      <4> QED
        BY <4>1, <4>2
    <3>2. "US" \in Replaced(s) => got[s]["US"] = 0
      BY <2>1, <2>2 DEF OverseasFits, AtBroker, Replaced
    <3> QED
      BY <2>2, <3>1, <3>2 DEF OverseasFits
  <2> QED
    BY <2>1, <2>2 DEF OverseasFits, AtBroker
<1>6. CASE ForgetNoOverseas \/ StraySets
  BY <1>6 DEF ForgetNoOverseas, StraySets, OverseasFits
<1>7. CASE Elsewhere
  BY <1>1, <1>7, ElsewhereKeeps
<1> QED
  BY <1>2, <1>3, <1>4, <1>5, <1>6, <1>7 DEF Next, SyncStep, Elsewhere

LEMMA BrokerStep == ASSUME TypeOK, GotFits, BrokerFits, [Next]_vars PROVE BrokerFits'
<1>1. ASSUME NEW m \in Markets PROVE filled'[m] <= accepted'[m]
  <2>1. filled[m] \in Nat /\ accepted[m] \in Nat /\ filled[m] <= accepted[m]
    BY Bounds DEF TypeOK, BrokerFits
  <2>2. ASSUME NEW n \in Markets, Accept(n) PROVE filled'[m] <= accepted'[m]
    BY <2>1, <2>2 DEF Accept, TypeOK
  <2>3. ASSUME NEW n \in Markets, Fill(n) PROVE filled'[m] <= accepted'[m]
    BY <2>1, <2>3 DEF Fill, TypeOK
  <2>4. ASSUME NEW n \in Markets, CancelRest(n) PROVE filled'[m] <= accepted'[m]
    BY <2>1, <2>4 DEF CancelRest, TypeOK
  <2>5. CASE \A n \in Markets : ~Accept(n) /\ ~Fill(n) /\ ~CancelRest(n)
    <3>1. UNCHANGED <<accepted, filled>>
      BY <2>5 DEF Next, SyncStep, Load, Skip, Merge, MergeBeside, Takes, StoreToken, ReadBalance,
         MarkOverseas, Retry, Fail, DeleteRows, CommitSync, ForgetNoOverseas, StraySets,
         DeleteAccount, DeleteCredentials, SetCredentials, Edits, StartExecution, RecordExecution,
         LoseHistory, ExecutionEnds, vars, broker
    <3> QED
      BY <2>1, <3>1
  <2> QED
    BY <2>2, <2>3, <2>4, <2>5
<1>2. ASSUME NEW m \in Markets, NEW p \in positions'[m] PROVE p[2] <= filled'[m]
  <2>1. p[2] <= filled[m] /\ p[2] \in Nat
    <3>1. CASE p \in positions[m]
      BY <3>1, Bounds DEF BrokerFits, TypeOK, Sets
    <3>2. ASSUME NEW s \in Syncs, CommitSync(s), p \notin positions[m]
          PROVE  p[2] <= filled[m] /\ p[2] \in Nat
      <4>1. m \in Replaced(s) /\ p[2] = got[s][m]
        BY <1>2, <3>2, Committed
      <4>2. got[s][m] <= filled[m]
        BY <3>2, <4>1 DEF GotFits, CommitSync, AtBroker
      <4> QED
        BY <4>1, <4>2, ReplacedIs, Bounds
    <3>3. CASE p \notin positions[m] /\ \A s \in Syncs : ~CommitSync(s)
      BY <1>2, <3>3, SetsKept
    <3> QED
      BY <3>1, <3>2, <3>3
  <2> QED
    BY <2>1, FilledGrows
<1> QED
  BY <1>1, <1>2 DEF BrokerFits

-----------------------------------------------------------------------------
(* What the gate knows.                                                     *)

LEMMA GateStep == ASSUME Inv, TypeOK', [Next]_vars PROVE GateFits'
<1>0. ASSUME NEW m \in Markets
      PROVE  /\ since[m] \in Nat /\ executing[m] \in Nat /\ accepted[m] \in Nat
             /\ since'[m] \in Nat /\ executing'[m] \in Nat /\ accepted'[m] \in Nat
  BY Bounds DEF Inv, TypeOK
<1>1. ASSUME NEW s \in Syncs, CommitSync(s) PROVE GateFits'
  <2>1. /\ UNCHANGED <<accepted, executing, running>>
        /\ blind' = {m \in Markets : accepted[m] > 0 /\ got[s][m] # accepted[m]}
        /\ \A m \in Markets : since'[m] = 0
    BY <1>1 DEF CommitSync, broker, NoReading
  <2>2. ASSUME NEW m \in Markets PROVE Awaited(m)' <= accepted'[m]
    BY <1>0, <2>1 DEF Awaited, Inv, GateFits
  <2>3. ASSUME NEW m \in Markets, m \notin blind' PROVE Shows(m, accepted[m] - Awaited(m))'
    <3>1. CASE accepted[m] = 0
      BY <1>0, <2>1, <2>2, <3>1 DEF Shows, Awaited
    <3>2. CASE got[s][m] = accepted[m]
      <4>1. m \in Replaced(s)
        BY <3>2, Bounds DEF Replaced, Markets, Inv, TypeOK
      <4>2. PICK i \in 1..MaxSets : <<i, got[s][m]>> \in positions'[m]
        BY <1>1, <4>1, Committed DEF Inv
      <4>3. got[s][m] >= accepted'[m] - Awaited(m)'
        BY <1>0, <2>1, <3>2 DEF Awaited
      <4> QED
        BY <4>2, <4>3 DEF Shows
    <3> QED
      BY <1>0, <2>1, <2>3, <3>1, <3>2
  <2> QED
    BY <2>1, <2>2, <2>3 DEF GateFits, Inv
<1>2. ASSUME NEW n \in Markets, Accept(n) PROVE GateFits'
  <2>1. /\ UNCHANGED <<positions, since, running>> /\ running
        /\ accepted'[n] = accepted[n] + 1
        /\ \A m \in Markets \ {n} : accepted'[m] = accepted[m] /\ executing'[m] = executing[m]
        /\ \/ executing'[n] = executing[n] + 1 /\ blind' = blind
           \/ blind' = blind \cup {n} /\ executing'[n] = executing[n]
    BY <1>2 DEF Accept, db, Inv, TypeOK
  <2>2. ASSUME NEW m \in Markets PROVE Awaited(m)' <= accepted'[m]
    BY <1>0, <2>1 DEF Awaited, Inv, GateFits
  <2>3. ASSUME NEW m \in Markets, m \notin blind' PROVE Shows(m, accepted[m] - Awaited(m))'
    <3>1. m \notin blind /\ accepted'[m] - Awaited(m)' = accepted[m] - Awaited(m)
      BY <1>0, <2>1, <2>3 DEF Awaited
    <3> QED
      BY <2>1, <3>1 DEF Inv, GateFits, Shows
  <2> QED
    BY <2>1, <2>2, <2>3 DEF GateFits
<1>3. ASSUME NEW n \in Markets, CancelRest(n) PROVE GateFits'
  <2>1. /\ UNCHANGED <<positions, executing, running>>
        /\ since[n] > 0 /\ since'[n] = since[n] - 1
        /\ \A m \in Markets \ {n} : accepted'[m] = accepted[m] /\ since'[m] = since[m]
        /\ \/ accepted'[n] = accepted[n] - 1 /\ blind' = blind
           \/ blind' = blind \cup {n} /\ accepted'[n] = accepted[n]
    BY <1>3 DEF CancelRest, execution, Inv, TypeOK
  <2>2. ASSUME NEW m \in Markets PROVE Awaited(m)' <= accepted'[m]
    BY <1>0, <2>1 DEF Awaited, Inv, GateFits
  <2>3. ASSUME NEW m \in Markets, m \notin blind' PROVE Shows(m, accepted[m] - Awaited(m))'
    <3>1. m \notin blind /\ accepted'[m] - Awaited(m)' = accepted[m] - Awaited(m)
      BY <1>0, <2>1, <2>3 DEF Awaited
    <3> QED
      BY <2>1, <3>1 DEF Inv, GateFits, Shows
  <2> QED
    BY <2>1, <2>2, <2>3 DEF Inv, GateFits
<1>4. CASE RecordExecution \/ LoseHistory
  <2>1. /\ UNCHANGED <<positions, accepted>>
        /\ \A m \in Markets : executing'[m] = 0
        /\ \/ blind' = blind /\ \A m \in Markets : since'[m] = since[m] + executing[m]
           \/ blind' = blind \cup Answered /\ since' = since
    BY <1>4 DEF RecordExecution, LoseHistory, ExecutionEnds, NoReading, broker
  <2>2. ASSUME NEW m \in Markets PROVE Awaited(m)' <= accepted'[m]
    BY <1>0, <2>1 DEF Awaited, Inv, GateFits
  <2>3. ASSUME NEW m \in Markets, m \notin blind' PROVE Shows(m, accepted[m] - Awaited(m))'
    <3>1. m \notin blind /\ Awaited(m)' = Awaited(m)
      BY <1>0, <2>1, <2>3 DEF Awaited, Answered
    <3> QED
      BY <2>1, <3>1 DEF Inv, GateFits, Shows
  <2> QED
    BY <2>1, <2>2, <2>3 DEF GateFits
<1>5. CASE /\ UNCHANGED <<positions, since, accepted, executing, blind>>
           /\ running' = running \/ running' = TRUE
  BY <1>5 DEF Inv, GateFits, Awaited, Shows
<1>6. CASE /\ \A s \in Syncs : ~CommitSync(s)
           /\ \A m \in Markets : ~Accept(m) /\ ~CancelRest(m)
           /\ ~RecordExecution /\ ~LoseHistory
  <2>1. /\ UNCHANGED <<positions, since, accepted, executing, blind>>
        /\ running' = running \/ running' = TRUE
    BY <1>6 DEF Next, SyncStep, Load, Skip, Merge, MergeBeside, Takes, StoreToken, ReadBalance,
       MarkOverseas, Retry, Fail, DeleteRows, ForgetNoOverseas, StraySets, DeleteAccount,
       DeleteCredentials, SetCredentials, Edits, StartExecution, Fill, vars, db, broker, execution
  <2> QED
    BY <1>5, <2>1
<1> QED
  BY <1>1, <1>2, <1>3, <1>4, <1>6

LEMMA InvStep == ASSUME Inv, [Next]_vars PROVE Inv'
<1>1. TypeOK' /\ Alone' /\ MisledFits' /\ GotFits' /\ AloneFits' /\ OverseasFits' /\ BrokerFits'
  BY TypeStep, AloneStep, MisledStep, GotStep, AloneFitsStep, OverseasStep, BrokerStep DEF Inv
<1> QED
  BY <1>1, GateStep DEF Inv

LEMMA Invariance == Spec => []Inv
<1>1. Inv /\ [Next]_vars => Inv'
  BY InvStep
<1> QED
  BY <1>1, InvInit, PTL DEF Spec

-----------------------------------------------------------------------------
(* The theorems.                                                            *)

\* Syncs, rows and orders keep their types, whatever of a sync fails
\* (sync_account, sync_accounts).
THEOREM AccountTyped == Spec => []TypeOK
<1>1. Inv => TypeOK
  BY DEF Inv
<1> QED
  BY <1>1, Invariance, PTL

\* A sync that has the account for itself leaves one set of positions in a
\* market, however many compete for the lock and however many sets one that
\* outlived it has left there (sync_accounts).
THEOREM PositionsOfOneSync == Spec => OneSetOfPositions
<1>1. ASSUME Inv, [Next]_vars, NEW m \in Markets,
             positions[m]' # positions[m], Cardinality(positions[m]') > 1
      PROVE  \E s \in exposed : pc[s] = "written" /\ pc'[s] = "idle"
  <2>1. PICK s \in Syncs : CommitSync(s)
    BY <1>1, SetsKept
  <2>2. pc[s] = "written" /\ pc'[s] = "idle"
    BY <1>1, <2>1, EndsKeeps DEF CommitSync, Inv
  <2>3. ASSUME s \notin exposed PROVE FALSE
    <3>1. PICK i \in 1..MaxSets : positions'[m] = {<<i, got[s][m]>>}
      BY <1>1, <2>1, <2>3, CommittedAlone DEF Inv
    <3>2. Cardinality({<<i, got[s][m]>>}) = 1
      BY FS_Singleton
    <3> QED
      BY <1>1, <3>1, <3>2
  <2> QED
    BY <2>2, <2>3
<1>2. Inv /\ [Next]_vars =>
          [\A m \in Markets : positions[m]' # positions[m] /\ Cardinality(positions[m]') > 1 =>
              \E s \in exposed : pc[s] = "written" /\ pc'[s] = "idle"]_vars
  BY <1>1
<1> QED
  BY <1>2, Invariance, PTL DEF Spec, OneSetOfPositions

\* No sync takes back what an earlier one saw, although it reads the balance
\* long before it commits and may leave out the overseas half, unless a lock was
\* outlived or a mark came late (fetch_overseas_cached, sync_account).
THEOREM NoWayBack == Spec => HoldingsNeverGoBack
<1>1. ASSUME Inv, [Next]_vars, NEW m \in Markets, NEW n \in 0..MaxOrders,
             Shows(m, n), ~Shows(m, n)'
      PROVE  \E s \in Syncs :
                 /\ pc[s] = "written" /\ pc'[s] = "idle"
                 /\ s \in exposed \/ (m = "US" /\ s \in misled)
  <2>1. PICK s \in Syncs : CommitSync(s)
    BY <1>1, SetsKept DEF Shows
  <2>2. pc[s] = "written" /\ pc'[s] = "idle"
    BY <1>1, <2>1, EndsKeeps DEF CommitSync, Inv
  <2>3. PICK p \in positions[m] : p[2] >= n
    BY <1>1 DEF Shows
  <2>4. ASSUME s \notin exposed, ~(m = "US" /\ s \in misled) PROVE FALSE
    <3>1. CASE m \in Replaced(s)
      <4>1. PICK i \in 1..MaxSets : positions'[m] = {<<i, got[s][m]>>}
        BY <1>1, <2>1, <2>4, <3>1, CommittedAlone DEF Inv
      <4>2. p[2] <= got[s][m]
        BY <1>1, <2>2, <2>3, <2>4, <3>1 DEF Inv, AloneFits, AtBroker
      <4>3. p[2] \in Nat /\ got[s][m] \in Nat /\ n \in Nat
        BY <1>1, <3>1, ReplacedIs, Bounds DEF Inv, TypeOK, Sets
      <4>4. <<i, got[s][m]>> \in positions'[m] /\ <<i, got[s][m]>>[2] >= n
        BY <2>3, <4>1, <4>2, <4>3
      <4> QED
        BY <1>1, <4>4 DEF Shows
    <3>2. CASE m \notin Replaced(s)
      BY <1>1, <2>1, <2>4, <3>2, CommittedAlone DEF Inv, Shows
    <3> QED
      BY <3>1, <3>2
  <2> QED
    BY <2>2, <2>4
<1>2. Inv /\ [Next]_vars =>
          [\A m \in Markets, n \in 0..MaxOrders : Shows(m, n) /\ ~Shows(m, n)' =>
              \E s \in Syncs :
                  /\ pc[s] = "written" /\ pc'[s] = "idle"
                  /\ s \in exposed \/ (m = "US" /\ s \in misled)]_vars
  BY <1>1
<1> QED
  BY <1>2, Invariance, PTL DEF Spec, HoldingsNeverGoBack

\* Holdings that lack an accepted order pass the freshness gate only for one of
\* the reasons `blind` collects: not filled, read before, overseas failed or not
\* asked, sync overlapped, history lost, answer lost, canceled after a partial
\* fill (_check_snapshot_freshness).
THEOREM GateHasReason == Spec => []GateMissesForAReason
<1>1. ASSUME Inv, since = NoReading, ~running, NEW m \in Markets, m \notin blind
      PROVE  Shows(m, accepted[m])
  <2>1. since[m] = 0 /\ executing[m] = 0 /\ accepted[m] \in Nat
    BY <1>1, Bounds DEF Inv, GateFits, NoReading, TypeOK
  <2>2. accepted[m] - Awaited(m) = accepted[m]
    BY <2>1 DEF Awaited
  <2>3. Shows(m, accepted[m] - Awaited(m))
    BY <1>1 DEF Inv, GateFits
  <2> QED
    BY <2>2, <2>3
<1>2. Inv => GateMissesForAReason
  BY <1>1 DEF GateMissesForAReason
<1> QED
  BY <1>2, Invariance, PTL

\* Only a sync that loaded the account before its deletion and merged its copy
\* after it brings the account back; one that had merged before does not
\* (sync_accounts, the merge of the detached row).
THEOREM RevivedByLateMerge ==
    Spec => [][/\ ~row.active /\ row'.active =>
                     \E s \in Syncs : pc[s] \in InFlight /\ "active" \in dirty[s]
               /\ \A s \in Syncs : "active" \in dirty'[s] \ dirty[s] =>
                     pc[s] = "loaded" /\ stale[s].active # row.active]_vars
<1>1. ASSUME TypeOK, [Next]_vars, ~row.active, row'.active
      PROVE  \E s \in Syncs : pc[s] \in InFlight /\ "active" \in dirty[s]
  <2>1. row' # row
    BY <1>1
  <2>2. PICK s \in Syncs : StoreToken(s) \/ CommitSync(s)
    BY <1>1, <2>1
    DEF Next, SyncStep, Load, Skip, Merge, MergeBeside, Takes, ReadBalance, MarkOverseas, Retry,
        Fail, DeleteRows, Accept, Fill, CancelRest, StartExecution, RecordExecution, LoseHistory,
        ExecutionEnds, DeleteAccount, DeleteCredentials, SetCredentials, Edits, ForgetNoOverseas,
        StraySets, vars, db
  <2>3. pc[s] \in InFlight /\ row' = Written(s)
    BY <2>2 DEF InFlight, StoreToken, CommitSync
  <2>4. Written(s)["active"] = IF "active" \in dirty[s] THEN stale[s]["active"] ELSE row["active"]
    BY DEF Written, Columns
  <2> QED
    BY <1>1, <2>3, <2>4
<1>2. ASSUME TypeOK, [Next]_vars, NEW s \in Syncs, "active" \in dirty'[s] \ dirty[s]
      PROVE  pc[s] = "loaded" /\ stale[s].active # row.active
  <2>1. ASSUME NEW r \in Syncs, Merge(r) \/ MergeBeside(r)
        PROVE  pc[s] = "loaded" /\ stale[s].active # row.active
    <3>1. /\ pc[r] = "loaded" /\ dirty'[r] = {c \in Columns : stale[r][c] # row[c]}
          /\ s # r => dirty'[s] = dirty[s]
      BY <1>2, <2>1 DEF Merge, MergeBeside, Takes, TypeOK
    <3> QED
      BY <1>2, <3>1
  <2>2. CASE \A r \in Syncs : ~Merge(r) /\ ~MergeBeside(r)
    <3>1. dirty'[s] = dirty[s] \/ dirty'[s] = {}
      <4>1. ASSUME NEW r \in Syncs, StoreToken(r) \/ Skip(r) \/ Fail(r) \/ CommitSync(r)
            PROVE  dirty'[s] = dirty[s] \/ dirty'[s] = {}
        BY <1>2, <4>1 DEF StoreToken, Skip, Fail, CommitSync, Ends, TypeOK
      <4>2. ASSUME NEW r \in Syncs, Load(r) \/ ReadBalance(r) \/ MarkOverseas(r) \/ Retry(r)
                                      \/ DeleteRows(r)
            PROVE  dirty' = dirty
        BY <4>2 DEF Load, ReadBalance, MarkOverseas, Retry, DeleteRows
      <4>3. CASE Elsewhere \/ ForgetNoOverseas \/ StraySets
        BY <4>3, ElsewhereKeeps DEF ForgetNoOverseas, StraySets, run
      <4> QED
        BY <1>2, <2>2, <4>1, <4>2, <4>3 DEF Next, SyncStep, Elsewhere
    <3> QED
      BY <1>2, <3>1
  <2> QED
    BY <2>1, <2>2
<1>3. TypeOK /\ [Next]_vars =>
          [/\ ~row.active /\ row'.active =>
                 \E s \in Syncs : pc[s] \in InFlight /\ "active" \in dirty[s]
           /\ \A s \in Syncs : "active" \in dirty'[s] \ dirty[s] =>
                 pc[s] = "loaded" /\ stale[s].active # row.active]_vars
  BY <1>1, <1>2
<1> QED
  BY <1>3, AccountTyped, PTL DEF Spec
=============================================================================
