---------------------------- MODULE OrderCancel ----------------------------
(***************************************************************************)
(* Cancelling what is not filled of an order that was executed:             *)
(*   services/rebalancing/order_cancel_service.py, order_cancel_rules.py.   *)
(*                                                                          *)
(* A request reads the row of the order, gets a token (whose commit would   *)
(* release row locks, so it comes first), locks the row, reads it again and *)
(* asks the broker.  The broker's own orders are `book`; its cancellation   *)
(* takes all that is left of an order, and an order fills whole or not.     *)
(***************************************************************************)
EXTENDS Integers

CONSTANTS
    Lines,       \* rows of the history: one per order sent
    Requests,    \* cancel requests: clicks, other devices
    Clicked,      \* bound: lines somebody tries to cancel
    Free

ASSUME RequestsAssumption == Free \notin Requests /\ Clicked \subseteq Lines

VARIABLES
    row,         \* line -> what the execution recorded of it
    saved,       \* is the history committed?
    book,        \* line -> what the broker has of it
    cancel,      \* line -> cancel_status
    rowLock,     \* line -> request that holds the row lock
    request,     \* request -> where it is, and the line it is about
    uncertain    \* history: lines with a cancellation the app cannot know the
                 \* outcome of

cancelVars == <<cancel, rowLock, request, uncertain>>

NoRequest == [at |-> "idle"]
RequestStates == {NoRequest} \cup [at : {"checked", "locked"}, line : Lines]

CancelTypeOK ==
    /\ row \in [Lines -> [status : {"none", "SUCCESS", "FAILED", "SKIPPED"}, qty : Nat]]
    /\ saved \in BOOLEAN
    /\ book \in [Lines -> [state : {"none", "open", "filled", "canceled"}, qty : Nat]]
    /\ cancel \in [Lines -> {"none", "CANCELED", "CANCEL_FAILED"}]
    /\ rowLock \in [Lines -> Requests \cup {Free}]
    /\ request \in [Requests -> RequestStates]
    /\ uncertain \subseteq Lines

CancelInit ==
    /\ cancel = [l \in Lines |-> "none"]
    /\ rowLock = [l \in Lines |-> Free]
    /\ request = [r \in Requests |-> NoRequest]
    /\ uncertain = {}

-----------------------------------------------------------------------------
\* Mutant: an order that is canceled already may be canceled again.
MutantCancelable(l) == row[l].status = "SUCCESS"

\* cancel_block_reason finds nothing: the broker took the order, and it is not
\* canceled.  A refused cancellation may be tried again.
Cancelable(l) == row[l].status = "SUCCESS" /\ cancel[l] # "CANCELED"

\* The row is read without a lock; the token comes next.
CheckRow(r, l) ==
    /\ saved
    /\ request[r] = NoRequest
    /\ Cancelable(l)
    /\ request' = [request EXCEPT ![r] = [at |-> "checked", line |-> l]]
    /\ UNCHANGED <<row, saved, book, cancel, rowLock, uncertain>>

\* Mutant: the row is not judged again once it is locked.
MutantLockRow(r) ==
    LET l == request[r].line IN
    /\ request[r].at = "checked"
    /\ rowLock[l] = Free
    /\ rowLock' = [rowLock EXCEPT ![l] = r]
    /\ request' = [request EXCEPT ![r].at = "locked"]
    /\ UNCHANGED <<row, saved, book, cancel, uncertain>>

\* SELECT FOR UPDATE waits for the row, then judges it again as it is now.
LockRow(r) ==
    LET l == request[r].line IN
    /\ request[r].at = "checked"
    /\ rowLock[l] = Free
    /\ IF Cancelable(l)
         THEN /\ rowLock' = [rowLock EXCEPT ![l] = r]
              /\ request' = [request EXCEPT ![r].at = "locked"]
         ELSE /\ request' = [request EXCEPT ![r] = NoRequest]
              /\ UNCHANGED rowLock
    /\ UNCHANGED <<row, saved, book, cancel, uncertain>>

\* The transaction ends, and the lock with it.
Closes(r) ==
    /\ rowLock' = [rowLock EXCEPT ![request[r].line] = Free]
    /\ request' = [request EXCEPT ![r] = NoRequest]
    /\ UNCHANGED <<row, saved>>

\* The broker takes what is left of the order; the row says so.
CancelTaken(r) ==
    LET l == request[r].line IN
    /\ request[r].at = "locked"
    /\ book[l].state = "open"
    /\ book' = [book EXCEPT ![l].state = "canceled"]
    /\ cancel' = [cancel EXCEPT ![l] = "CANCELED"]
    /\ Closes(r)
    /\ UNCHANGED uncertain

\* The broker says it did not take it, because nothing is left to cancel or for
\* a reason of its own; that is recorded.
CancelRefused(r) ==
    LET l == request[r].line IN
    /\ request[r].at = "locked"
    /\ cancel' = [cancel EXCEPT ![l] = "CANCEL_FAILED"]
    /\ Closes(r)
    /\ UNCHANGED <<book, uncertain>>

\* The broker has taken the cancellation, or it has not.
PerhapsCanceled(l) ==
    /\ book' \in {book, [book EXCEPT ![l].state = IF @ = "open" THEN "canceled" ELSE @]}
    /\ uncertain' = uncertain \cup {l}

\* An error reply that does not say it was not taken (rt_cd "1" of KIS): it is
\* recorded like a refusal, and for that reason not sent again.
CancelDoubtful(r) ==
    LET l == request[r].line IN
    /\ request[r].at = "locked"
    /\ PerhapsCanceled(l)
    /\ cancel' = [cancel EXCEPT ![l] = "CANCEL_FAILED"]
    /\ Closes(r)

\* No answer, or the process ends: nothing is recorded, and the user is told to
\* look.
CancelUnanswered(r) ==
    LET l == request[r].line IN
    /\ request[r].at = "locked"
    /\ PerhapsCanceled(l)
    /\ Closes(r)
    /\ UNCHANGED cancel

CancelStep(r) ==
    \/ \E l \in Clicked : CheckRow(r, l)
    \/ LockRow(r)
    \/ CancelTaken(r)
    \/ CancelRefused(r)
    \/ CancelDoubtful(r)
    \/ CancelUnanswered(r)

\* The user cancels in the broker's own app.  The app hears nothing of it.
CancelOutside(l) ==
    /\ saved
    /\ book[l].state = "open"
    /\ book' = [book EXCEPT ![l].state = "canceled"]
    /\ uncertain' = uncertain \cup {l}
    /\ UNCHANGED <<row, saved, cancel, rowLock, request>>

CancelNext ==
    \/ \E r \in Requests : CancelStep(r)
    \/ \E l \in Clicked : CancelOutside(l)

-----------------------------------------------------------------------------
\* A canceled order stays canceled: the request that waited for the row does
\* not ask the broker again, be refused, and record that (cancel_execution_order,
\* plans/90 A2).
CanceledStays ==
    [][\A l \in Lines : cancel[l] = "CANCELED" => cancel'[l] = "CANCELED"]_cancel

\* What the row says of a cancellation is so at the broker: an order marked
\* canceled is, and one that is canceled is marked CANCEL_FAILED only if some
\* cancellation of it was beyond what the app can know (no answer, an error
\* reply that promises nothing, the broker's own app).  A second request that
\* comes too late never turns a recorded cancellation into a failed one.
CancelTellsTheTruth ==
    \A l \in Lines :
        /\ cancel[l] = "CANCELED" => book[l].state = "canceled"
        /\ cancel[l] = "CANCEL_FAILED" /\ book[l].state = "canceled" => l \in uncertain
=============================================================================
