--------------------------- MODULE OrderExecution ---------------------------
(***************************************************************************)
(* The orders of one account go to its broker, one after the other:         *)
(*   services/rebalancing/execution_service.py, _broker_order_flow.py,      *)
(*   _kis_order_executor.py, _order_executor_common.py, and the resending   *)
(*   of providers/http_client.py, kis/client.py and providers/_retry.py.    *)
(*                                                                          *)
(* FULL sells, then buys within the cash there is.  TWO_PHASE buys within   *)
(* the cash, sells, and buys the rest within what the sales brought.  An    *)
(* order of a plan is sent once, or in two parts by TWO_PHASE, which leaves *)
(* a third of what it could not afford; each part is a line of the history, *)
(* which OrderCancel takes up once it is saved.                             *)
(* Orders fill whole; the price an order is judged by is what it costs.     *)
(***************************************************************************)
EXTENDS OrderCancel, OrderQuantity, FiniteSetsExt

CONSTANTS
    N,           \* orders in a plan
    Plans,       \* the lists of orders that are executed
    Tickers,
    Cash, Held,  \* what the broker may have of the user at the start
    Retries,     \* retries of broker_request
    MaxOutside,  \* bound: dealings of the user outside the app meanwhile
    Unasked, NoLimit

Orders == 1..N
Parts == {"first", "rest", "short"}
OrderInputs == [side : {"SELL", "BUY"}, market : {"KR", "US"}, ticker : Tickers,
                qty : Nat, price : Nat]

ASSUME PlansAssumption ==
    /\ N \in Nat
    /\ Lines = Orders \X Parts
    /\ Plans \subseteq [Orders -> OrderInputs]
    /\ Cash \subseteq Nat
    /\ Held \subseteq [Tickers -> Nat]
    /\ Retries \in Nat \ {0}
    /\ MaxOutside \in Nat
    /\ Unasked # NoLimit
    /\ {Unasked, NoLimit} \cap (Nat \cup [Tickers -> Nat]) = {}

VARIABLES
    plan, strategy, blocked,   \* the request; buys the tax type of the account forbids
    stage, todo, tried, wanted,    \* what is left of it
    budget, balance,               \* what the broker answered at this stage
    attempts,
    cash, held,                    \* at the broker, less what open orders take
    outside,
    failed,      \* history: did the group end before its first order?
    surprises    \* history: lines without the means the broker had just named

input == <<plan, strategy, blocked>>
progress == <<stage, todo, tried, wanted>>
answers == <<budget, balance>>
account == <<cash, held, outside>>
history == <<failed, surprises>>
vars == <<input, progress, answers, attempts, account, history, row, saved, book, cancelVars>>

BuyStages == {"first", "buy"}
SellStages == {"sellKR", "sellUS"}
Working == BuyStages \cup SellStages
Stages == {"start", "saving", "saved", "lost"} \cup Working

TypeOK ==
    /\ CancelTypeOK
    /\ plan \in Plans
    /\ strategy \in {"FULL", "TWO_PHASE"}
    /\ blocked \subseteq Orders
    /\ stage \in Stages
    /\ todo \subseteq Orders
    /\ tried \subseteq Orders
    /\ wanted \in [Orders -> Nat]
    /\ budget \in Nat \cup {Unasked, NoLimit}
    /\ balance \in [Tickers -> Nat] \cup {Unasked, NoLimit}
    /\ attempts \in 0..Retries
    /\ cash \in Nat
    /\ held \in [Tickers -> Nat]
    /\ outside \in 0..MaxOutside
    /\ failed \in BOOLEAN
    /\ surprises \subseteq Lines

IsBuy(o) == plan[o].side = "BUY"
IsOverseas(o) == plan[o].market = "US"

Init ==
    /\ plan \in Plans
    /\ strategy \in {"FULL", "TWO_PHASE"}
    /\ blocked \in {{}, {o \in Orders : IsBuy(o) /\ IsOverseas(o)}}
    /\ stage = "start"
    /\ todo = Orders
    /\ tried = {}
    /\ wanted = [o \in Orders |-> plan[o].qty]
    /\ budget = Unasked
    /\ balance = Unasked
    /\ attempts = 0
    /\ cash \in Cash
    /\ held \in Held
    /\ outside = 0
    /\ failed = FALSE
    /\ surprises = {}
    /\ row = [l \in Lines |-> [status |-> "none", qty |-> 0]]
    /\ saved = FALSE
    /\ book = [l \in Lines |-> [state |-> "none", qty |-> 0]]
    /\ CancelInit

-----------------------------------------------------------------------------
\* What an order costs or brings; a market order of unknown price, the least.
Worth(o, q) == q * Max({plan[o].price, 1})

\* The orders of a stage.
Concerns(o) ==
    CASE stage \in BuyStages -> IsBuy(o)
      [] stage = "sellKR"    -> ~IsBuy(o) /\ ~IsOverseas(o)
      [] stage = "sellUS"    -> ~IsBuy(o) /\ IsOverseas(o)
      [] OTHER               -> FALSE

Pending == {o \in todo \ tried : Concerns(o)}

\* They go out one by one, as the plan lists them.
IsNext(o) == o \in Pending /\ \A p \in Pending : o <= p

\* Mutant: results are told apart by their order alone.
MutantLine(o) == <<o, "rest">>

\* The line the history gets of an order at this stage.
Line(o) == <<o, IF stage = "first" THEN "first" ELSE "rest">>

-----------------------------------------------------------------------------
(* The stages.                                                              *)

\* _execute_account_group: what the account may not buy is skipped
\* (_split_tax_deferred_overseas_buys); TWO_PHASE falls back to sales first if
\* a buy is overseas.
BeginGroup ==
    /\ stage = "start"
    /\ todo' = Orders \ blocked
    /\ row' = [l \in Lines |-> IF l[1] \in blocked /\ l[2] = "rest"
                                 THEN [status |-> "SKIPPED", qty |-> plan[l[1]].qty]
                                 ELSE row[l]]
    /\ LET twoPhase == strategy = "TWO_PHASE"
                         /\ \A o \in Orders \ blocked : IsBuy(o) => ~IsOverseas(o)
       IN  /\ strategy' = IF twoPhase THEN "TWO_PHASE" ELSE "FULL"
           /\ stage' = IF twoPhase THEN "first" ELSE "sellKR"
    /\ UNCHANGED <<plan, blocked, tried, wanted, answers, attempts, account,
                   history, saved, book, cancelVars>>

\* _build_failed_group_result: no account, credentials or token.
GroupFails ==
    /\ stage = "start"
    /\ stage' = "saving"
    /\ todo' = {}
    /\ failed' = TRUE
    /\ row' = [l \in Lines |-> IF l[2] = "rest"
                                 THEN [status |-> "FAILED", qty |-> plan[l[1]].qty]
                                 ELSE row[l]]
    /\ UNCHANGED <<input, tried, wanted, answers, attempts, account, surprises,
                   saved, book, cancelVars>>

\* What is left of the plan goes to the next stage, which asks for itself.
NextStage ==
    /\ stage \in Working
    /\ Pending = {}
    /\ stage' = CASE stage = "first"  -> "sellKR"
                  [] stage = "sellKR" -> "sellUS"
                  [] stage = "sellUS" -> "buy"
                  [] stage = "buy"    -> "saving"
    /\ tried' = {}
    /\ budget' = Unasked
    /\ balance' = Unasked
    /\ UNCHANGED <<input, todo, wanted, attempts, account, history, row, saved,
                   book, cancelVars>>

\* The holdings before the sales of a market; without an answer they go out
\* as planned.
AskBalance ==
    /\ stage \in SellStages
    /\ Pending # {}
    /\ balance = Unasked
    /\ balance' \in {held, NoLimit}
    /\ UNCHANGED <<input, progress, budget, attempts, account, history, row, saved,
                   book, cancelVars>>

\* What the broker says may be spent.  Without an answer FULL sends the buys as
\* planned and TWO_PHASE takes it for nothing; FULL does not ask if a buy is
\* overseas.
Budgets ==
    IF strategy = "TWO_PHASE" THEN {cash, 0}
    ELSE IF \E o \in Pending : IsOverseas(o) THEN {NoLimit}
    ELSE {cash, NoLimit}

AskBudget ==
    /\ stage \in BuyStages
    /\ Pending # {}
    /\ budget = Unasked
    /\ budget' \in Budgets
    /\ UNCHANGED <<input, progress, balance, attempts, account, history, row, saved,
                   book, cancelVars>>

-----------------------------------------------------------------------------
(* One order.                                                               *)

Answered == IF stage \in BuyStages THEN budget # Unasked ELSE balance # Unasked

\* The quantity that is sent of an order, 0 for none.  What has no price waits
\* for the last stage of TWO_PHASE.
Fitted(o) ==
    CASE IsBuy(o) /\ budget = NoLimit                 -> wanted[o]
      [] ~IsBuy(o) /\ balance = NoLimit               -> wanted[o]
      [] stage = "first" /\ plan[o].price = 0         -> 0
      [] IsBuy(o) /\ budget # NoLimit
           /\ ~(stage = "first" /\ plan[o].price = 0) -> FitBuy(wanted[o], plan[o].price, budget)
      [] ~IsBuy(o) /\ balance # NoLimit               -> ClampSell(wanted[o], balance[plan[o].ticker])

\* Mutant: what cannot be afforded after the sales is left out of the results.
MutantPassOver(o) ==
    /\ IsNext(o)
    /\ Answered
    /\ Fitted(o) = 0
    /\ IF strategy = "TWO_PHASE" /\ stage \in BuyStages
         THEN /\ tried' = tried \cup {o}
              /\ UNCHANGED <<todo, row>>
         ELSE /\ todo' = todo \ {o}
              /\ row' = [row EXCEPT ![Line(o)] = [status |-> "SKIPPED", qty |-> wanted[o]]]
              /\ UNCHANGED tried
    /\ UNCHANGED <<input, stage, wanted, answers, attempts, account, history,
                   saved, book, cancelVars>>

\* Nothing of it is sent: SKIPPED, or after the sales.
PassOver(o) ==
    /\ IsNext(o)
    /\ Answered
    /\ Fitted(o) = 0
    /\ IF stage = "first"
         THEN /\ tried' = tried \cup {o}
              /\ UNCHANGED <<todo, row>>
         ELSE /\ todo' = todo \ {o}
              /\ row' = [row EXCEPT ![Line(o)] = [status |-> "SKIPPED", qty |-> wanted[o]]]
              /\ UNCHANGED tried
    /\ UNCHANGED <<input, stage, wanted, answers, attempts, account, history,
                   saved, book, cancelVars>>

\* Mutant: the budget is not reduced by what was bought.
MutantBudgetLeft(o, q, status) == budget

\* FULL counts what it sends, TWO_PHASE what was taken.
BudgetLeft(o, q, status) ==
    IF IsBuy(o) /\ budget # NoLimit /\ (strategy = "FULL" \/ status = "SUCCESS")
      THEN budget - q * plan[o].price
      ELSE budget

\* The line of an order is written; what it left over waits for the sales, and
\* after them is SKIPPED.  FULL only logs it.
Records(o, q, status) ==
    /\ LET written == [row EXCEPT ![Line(o)] = [status |-> status, qty |-> q]]
       IN  row' = IF stage = "buy" /\ strategy = "TWO_PHASE" /\ q < wanted[o]
                    THEN [written EXCEPT ![<<o, "short">>] =
                             [status |-> "SKIPPED", qty |-> wanted[o] - q]]
                    ELSE written
    /\ attempts' = 0
    /\ budget' = BudgetLeft(o, q, status)
    /\ IF stage = "first" /\ q < wanted[o]
         THEN /\ wanted' = [wanted EXCEPT ![o] = @ - q]
              /\ tried' = tried \cup {o}
              /\ UNCHANGED todo
         ELSE /\ todo' = todo \ {o}
              /\ UNCHANGED <<wanted, tried>>

\* Does the broker have what the order takes?  Foreign cash is not modelled.
HasMeans(o, q) ==
    IF IsBuy(o) THEN IsOverseas(o) \/ Worth(o, q) <= cash
                ELSE q <= held[plan[o].ticker]

Sending(o, q) ==
    /\ IsNext(o)
    /\ Answered
    /\ q = Fitted(o)
    /\ q > 0

\* Mutant: the request is sent again although the answer may be what was lost.
MutantSentAgain(answer) == attempts < Retries /\ answer \in {"throttled", "lost"}

\* broker_request, kis_request and with_token_refresh with the switches of an
\* order: only a refusal that says it did not take the order is sent again.
SentAgain(answer) == attempts < Retries /\ answer = "throttled"

\* The order is at the broker, which sets its means apart.
Takes(o, q) ==
    /\ HasMeans(o, q)
    /\ book' = [book EXCEPT ![Line(o)] = [state |-> "open", qty |-> @.qty + q]]
    /\ cash' = IF IsBuy(o) /\ ~IsOverseas(o) THEN cash - Worth(o, q) ELSE cash
    /\ held' = IF IsBuy(o) THEN held ELSE [held EXCEPT ![plan[o].ticker] = @ - q]

\* The HTTP call ends with this answer; "lost", no answer or an error reply that
\* does not say the order was not taken, says nothing of the order.
Ends(o, q, answer) ==
    IF SentAgain(answer)
      THEN /\ attempts' = attempts + 1
           /\ UNCHANGED <<row, budget, progress>>
      ELSE /\ Records(o, q, IF answer = "taken" THEN "SUCCESS" ELSE "FAILED")
           /\ UNCHANGED stage

SendTaken(o, q) ==
    /\ Sending(o, q)
    /\ Takes(o, q)
    /\ \E answer \in {"taken", "lost"} : Ends(o, q, answer)
    /\ UNCHANGED <<input, balance, outside, history, saved, cancelVars>>

\* Refused for want of means although the broker had named the limit itself.
Surprising(o, q) == ~HasMeans(o, q) /\ (IF IsBuy(o) THEN budget ELSE balance) # NoLimit

SendNotTaken(o, q) ==
    /\ Sending(o, q)
    /\ \E answer \in {"refused", "throttled", "lost"} : Ends(o, q, answer)
    /\ surprises' = IF Surprising(o, q) THEN surprises \cup {Line(o)} ELSE surprises
    /\ UNCHANGED <<input, balance, account, failed, saved, book, cancelVars>>

-----------------------------------------------------------------------------
(* The end, and what happens meanwhile.                                     *)

\* _save_execution_history
SaveHistory ==
    /\ stage = "saving"
    /\ stage' = "saved"
    /\ saved' = TRUE
    /\ UNCHANGED <<input, todo, tried, wanted, answers, attempts, account, history,
                   row, book, cancelVars>>

\* The commit fails and is rolled back, or the process ends.
LoseHistory ==
    /\ stage \notin {"saved", "lost"}
    /\ stage' = "lost"
    /\ UNCHANGED <<input, todo, tried, wanted, answers, attempts, account, history,
                   row, saved, book, cancelVars>>

\* An order fills; a domestic sale brings cash.
Fill(l) ==
    /\ book[l].state = "open"
    /\ book' = [book EXCEPT ![l].state = "filled"]
    /\ cash' = IF ~IsBuy(l[1]) /\ ~IsOverseas(l[1]) THEN cash + Worth(l[1], book[l].qty) ELSE cash
    /\ UNCHANGED <<input, progress, answers, attempts, held, outside, history, row,
                   saved, cancelVars>>

\* The user, or another execution on the account, spends and sells.
DealOutside ==
    /\ stage \in Working
    /\ outside < MaxOutside
    /\ outside' = outside + 1
    /\ cash' \in 0..cash
    /\ held' \in {held, [t \in Tickers |-> 0]}
    /\ UNCHANGED <<input, progress, answers, attempts, history, row, saved, book, cancelVars>>

Next ==
    \/ BeginGroup \/ GroupFails \/ NextStage \/ AskBalance \/ AskBudget
    \/ \E o \in Orders :
          \/ PassOver(o)
          \/ \E q \in 1..wanted[o] : SendTaken(o, q) \/ SendNotTaken(o, q)
    \/ SaveHistory \/ LoseHistory \/ DealOutside
    \/ \E l \in Lines : Fill(l)
    \/ /\ CancelNext
       /\ UNCHANGED <<input, progress, answers, attempts, account, history>>

Spec == Init /\ [][Next]_vars

-----------------------------------------------------------------------------
\* What the broker has taken of an order of the plan.
Taken(o) == book[<<o, "first">>].qty + book[<<o, "rest">>].qty

\* However often a call is repeated and whatever answer is lost, the broker
\* never takes more of an order than the plan says: an answer that is lost is
\* not a reason to send the order again, nor to buy its shares after the sales.
NeverMoreThanPlanned == \A o \in Orders : Taken(o) <= plan[o].qty

\* Once the history is saved, everything the broker took is in it, with at
\* least that quantity, as SUCCESS or, when the answer was lost, as FAILED.
NothingTakenUnseen ==
    saved => \A l \in Lines : book[l].qty > 0 =>
        row[l].status \in {"SUCCESS", "FAILED"} /\ row[l].qty >= book[l].qty

\* Every share TWO_PHASE was to buy is in the history, bought or not
\* (_execute_two_phase_orders, plans/62 A6: dropping the rest would leave the
\* user without a trace of it).
EveryShareAccounted ==
    saved /\ ~failed /\ strategy = "TWO_PHASE" =>
        \A o \in Orders : IsBuy(o) =>
            row[<<o, "first">>].qty + row[<<o, "rest">>].qty + row[<<o, "short">>].qty
                = plan[o].qty

\* An order that keeps to what the broker has just named lacks the means only
\* for a reason: the user dealt elsewhere, two sales share a holding, a buy had
\* no price, or TWO_PHASE did not count a buy whose answer was lost.
SurpriseHasCause ==
    \A l \in surprises :
        \/ outside > 0
        \/ ~IsBuy(l[1]) /\ \E o \in Orders \ {l[1]} :
              ~IsBuy(o) /\ plan[o].ticker = plan[l[1]].ticker
        \/ IsBuy(l[1]) /\ \E o \in Orders : IsBuy(o) /\ plan[o].price = 0
        \/ IsBuy(l[1]) /\ strategy = "TWO_PHASE"
             /\ \E m \in Lines : IsBuy(m[1]) /\ row[m].status = "FAILED" /\ book[m].qty > 0
=============================================================================
