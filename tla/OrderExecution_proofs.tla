----------------------- MODULE OrderExecution_proofs -----------------------
(***************************************************************************)
(* What holds of every execution, for any plans, cash, holdings, retries    *)
(* and cancel requests.                                                     *)
(***************************************************************************)
EXTENDS OrderExecution, TLAPS

(* Quantities.                                                              *)

\* What is sent of a buy with a price costs no more than the budget, and is no
\* more than was wanted (fit_buy_to_budget).
THEOREM FitBuyFits ==
    ASSUME NEW qty \in Nat, NEW price \in Nat, NEW budgeted \in Nat
    PROVE  /\ FitBuy(qty, price, budgeted) \in 0..qty
           /\ price > 0 => FitBuy(qty, price, budgeted) * price <= budgeted
<1>1. CASE price = 0
  BY <1>1 DEF FitBuy
<1>2. CASE price > 0 /\ budgeted = 0
  <2>1. Affordable(budgeted, price) = 0
    BY <1>2 DEF Affordable
  <2>2. FitBuy(qty, price, budgeted) = 0
    BY <1>2, <2>1 DEF FitBuy
  <2> QED
    BY <1>2, <2>2
<1>3. CASE price > 0 /\ budgeted > 0
  <2> DEFINE n == budgeted \div price
  <2>1. n \in Nat /\ n * price <= budgeted
    BY <1>3
  <2>2. Affordable(budgeted, price) = n
    BY <1>3 DEF Affordable
  <2> HIDE DEF n
  <2>3. FitBuy(qty, price, budgeted) = IF n >= qty THEN qty ELSE n
    BY <1>3, <2>2 DEF FitBuy
  <2>4. CASE n >= qty
    <3>1. qty * price <= n * price
      BY <2>1, <2>4
    <3> QED
      BY <2>1, <2>3, <2>4, <3>1
  <2>5. CASE ~(n >= qty)
    BY <2>1, <2>3, <2>5
  <2> QED
    BY <2>4, <2>5
<1> QED
  BY <1>1, <1>2, <1>3

\* No sale is for more than was to be sold or than is held (clamp_sell_orders).
THEOREM ClampSellFits ==
    ASSUME NEW qty \in Nat, NEW holding \in Nat
    PROVE  ClampSell(qty, holding) \in 0..qty /\ ClampSell(qty, holding) <= holding
  BY DEF ClampSell

(* What rounding to a grid does: n units of the tick are nearest from below, *)
(* or from above.                                                           *)
Ticks == {1, 5, 10, 50, 100, 500, 1000}

LEMMA UnitsBelow ==
    ASSUME NEW price \in Nat, NEW tick \in Nat, tick > 0
    PROVE  price \div tick \in Nat /\ tick * (price \div tick) <= price
               /\ price < tick * (price \div tick) + tick
  OBVIOUS

LEMMA OnGrid == ASSUME NEW tick \in Ticks, NEW n \in Nat PROVE (n * tick) % tick = 0
<1>1. CASE tick = 1  BY <1>1
<1>2. CASE tick = 5  BY <1>2
<1>3. CASE tick = 10  BY <1>3
<1>4. CASE tick = 50  BY <1>4
<1>5. CASE tick = 100  BY <1>5
<1>6. CASE tick = 500  BY <1>6
<1>7. CASE tick = 1000  BY <1>7
<1> QED
  BY <1>1, <1>2, <1>3, <1>4, <1>5, <1>6, <1>7 DEF Ticks

LEMMA Rounded ==
    ASSUME NEW price \in Nat, price > 0, NEW side \in {"BUY", "SELL"}, NEW isEtf \in BOOLEAN,
           NEW tick \in Ticks, tick = Grid(price, isEtf)
    PROVE  \E n \in Nat :
              /\ RoundToTick(price, side, isEtf) = n * tick /\ n >= 1
              /\ side = "BUY" => \/ n * tick <= price /\ price < n * tick + tick
                                 \/ price < tick /\ n = 1
              /\ side = "SELL" => n * tick >= price /\ n * tick < price + tick
<1> DEFINE units == IF side = "BUY" THEN price \div tick ELSE (price + tick - 1) \div tick
           n == IF units >= 1 THEN units ELSE 1
<1>1. tick \in Nat /\ tick > 0
  BY DEF Ticks
<1>2. RoundToTick(price, side, isEtf) = IF units >= 1 THEN units * tick ELSE tick
  BY DEF RoundToTick
<1>3. CASE side = "BUY"
  <2>1. units \in Nat /\ tick * units <= price /\ price < tick * units + tick
    BY <1>1, <1>3, UnitsBelow
  <2> HIDE DEF units
  <2>2. tick * units = units * tick
    BY <1>1, <2>1
  <2>3. CASE units >= 1
    BY <1>1, <1>2, <1>3, <2>1, <2>2, <2>3
  <2>4. CASE units = 0
    <3>1. RoundToTick(price, side, isEtf) = 1 * tick /\ price < tick
      BY <1>1, <1>2, <2>1, <2>4
    <3> QED
      BY <1>3, <3>1
  <2> QED
    BY <2>1, <2>3, <2>4
<1>4. CASE side = "SELL"
  <2> DEFINE high == price + tick - 1
  <2>1. high \in Nat /\ high >= tick /\ units = high \div tick
    BY <1>1, <1>4
  <2>2. units \in Nat /\ tick * units <= high /\ high < tick * units + tick
    <3> HIDE DEF high, units
    <3> QED
      BY <1>1, <2>1, UnitsBelow
  <2> HIDE DEF units
  <2>3. tick * units = units * tick /\ units # 0
    BY <1>1, <2>1, <2>2
  <2> QED
    BY <1>1, <1>2, <1>4, <2>2, <2>3
<1> QED
  BY <1>3, <1>4

\* A rounded price lies on the grid of the price it has become, at most a tick
\* away from what was asked, and on the user's side of it: nothing is sold for
\* less, and nothing is bought for more, but for an ETF below the first tick
\* (round_to_tick).
THEOREM PriceOnGrid ==
    ASSUME NEW price \in Nat, price > 0, NEW side \in {"BUY", "SELL"}, NEW isEtf \in BOOLEAN
    PROVE  LET rounded == RoundToTick(price, side, isEtf)
           IN  /\ rounded \in Nat /\ rounded > 0
               /\ rounded % Grid(rounded, isEtf) = 0
               /\ side = "SELL" => rounded >= price /\ rounded < price + Grid(price, isEtf)
               /\ side = "BUY" /\ price >= Grid(price, isEtf) =>
                      rounded <= price /\ price < rounded + Grid(price, isEtf)
<1> DEFINE tick == Grid(price, isEtf)
           rounded == RoundToTick(price, side, isEtf)
<1>1. tick \in Ticks /\ tick \in Nat /\ tick > 0
  BY DEF Grid, TickSize, Ticks
<1>2. PICK n \in Nat :
          /\ rounded = n * tick /\ n >= 1
          /\ side = "BUY" => \/ n * tick <= price /\ price < n * tick + tick
                             \/ price < tick /\ n = 1
          /\ side = "SELL" => n * tick >= price /\ n * tick < price + tick
  BY <1>1, Rounded
<1> HIDE DEF rounded
<1>3. rounded % tick = 0
  <2> HIDE DEF tick
  <2> QED
    BY <1>1, <1>2, OnGrid
<1>4. rounded \in Nat /\ rounded > 0
  <2> HIDE DEF tick
  <2>1. n * tick \in Nat /\ n * tick > 0
    BY <1>1, <1>2
  <2> QED
    BY <1>2, <2>1
<1>5. rounded % Grid(rounded, isEtf) = 0
  <2>1. CASE isEtf
    BY <1>3, <2>1 DEF Grid
  <2>2. CASE ~isEtf
    <3>1. tick = TickSize(price) /\ Grid(rounded, isEtf) = TickSize(rounded)
      BY <2>2 DEF Grid
    <3>2. CASE price < 2000
      <4>1. tick = 1
        BY <3>1, <3>2 DEF TickSize
      <4>2. rounded <= 2000
        BY <1>2, <3>2, <4>1
      <4> QED
        BY <1>4, <4>1, <4>2, <1>3, <3>1 DEF TickSize
    <3>3. CASE 2000 <= price /\ price < 5000
      <4>1. tick = 5
        BY <3>1, <3>3 DEF TickSize
      <4>2. rounded >= 2000 /\ rounded <= 5000
        BY <1>2, <3>3, <4>1
      <4> QED
        BY <1>4, <4>1, <4>2, <1>3, <3>1 DEF TickSize
    <3>4. CASE 5000 <= price /\ price < 20000
      <4>1. tick = 10
        BY <3>1, <3>4 DEF TickSize
      <4>2. rounded >= 5000 /\ rounded <= 20000
        BY <1>2, <3>4, <4>1
      <4> QED
        BY <1>4, <4>1, <4>2, <1>3, <3>1 DEF TickSize
    <3>5. CASE 20000 <= price /\ price < 50000
      <4>1. tick = 50
        BY <3>1, <3>5 DEF TickSize
      <4>2. rounded >= 20000 /\ rounded <= 50000
        BY <1>2, <3>5, <4>1
      <4> QED
        BY <1>4, <4>1, <4>2, <1>3, <3>1 DEF TickSize
    <3>6. CASE 50000 <= price /\ price < 200000
      <4>1. tick = 100
        BY <3>1, <3>6 DEF TickSize
      <4>2. rounded >= 50000 /\ rounded <= 200000
        BY <1>2, <3>6, <4>1
      <4> QED
        BY <1>4, <4>1, <4>2, <1>3, <3>1 DEF TickSize
    <3>7. CASE 200000 <= price /\ price < 500000
      <4>1. tick = 500
        BY <3>1, <3>7 DEF TickSize
      <4>2. rounded >= 200000 /\ rounded <= 500000
        BY <1>2, <3>7, <4>1
      <4> QED
        BY <1>4, <4>1, <4>2, <1>3, <3>1 DEF TickSize
    <3>8. CASE 500000 <= price
      <4>1. tick = 1000
        BY <3>1, <3>8 DEF TickSize
      <4>2. rounded >= 500000
        BY <1>2, <3>8, <4>1
      <4> QED
        BY <1>4, <4>1, <4>2, <1>3, <3>1 DEF TickSize
    <3> QED
      BY <3>2, <3>3, <3>4, <3>5, <3>6, <3>7, <3>8
  <2> QED
    BY <2>1, <2>2
<1>6. side = "SELL" => rounded >= price /\ rounded < price + tick
  BY <1>2
<1>7. side = "BUY" /\ price >= tick => rounded <= price /\ price < rounded + tick
  <2> HIDE DEF tick
  <2> QED
    BY <1>1, <1>2
<1> QED
  BY <1>4, <1>5, <1>6, <1>7 DEF rounded

LEMMA MaxOfPrice ==
    ASSUME NEW price \in Nat PROVE Max({price, 1}) = IF price = 0 THEN 1 ELSE price
<1> DEFINE m == IF price = 0 THEN 1 ELSE price
<1>1. m \in {price, 1} /\ \A y \in {price, 1} : m >= y
  OBVIOUS
<1>2. \A x \in {price, 1} : (\A y \in {price, 1} : x >= y) => x = m
  OBVIOUS
<1> QED
  BY <1>1, <1>2 DEF Max

LEMMA WorthIs ==
    ASSUME NEW o \in Orders, NEW q \in Nat, plan[o].price \in Nat
    PROVE  Worth(o, q) \in Nat /\ (plan[o].price > 0 => Worth(o, q) = q * plan[o].price)
<1>1. Max({plan[o].price, 1}) = IF plan[o].price = 0 THEN 1 ELSE plan[o].price
  BY MaxOfPrice
<1>2. CASE plan[o].price = 0
  BY <1>1, <1>2 DEF Worth
<1>3. CASE plan[o].price > 0
  BY <1>1, <1>3 DEF Worth
<1> QED
  BY <1>2, <1>3

-----------------------------------------------------------------------------
(* The invariant.                                                           *)

(* What has become of each order: what the broker took, what is left to     *)
(* send, what the history says.                                             *)
LedgerFits ==
    \A o \in Orders :
        /\ book[<<o, "short">>].qty = 0
        /\ o \in todo => /\ book[<<o, "rest">>].qty = 0
                         /\ row[<<o, "rest">>].qty = 0
                         /\ row[<<o, "short">>].qty = 0
        /\ o \in todo \ tried /\ stage \in {"start", "first"} =>
               book[<<o, "first">>].qty = 0 /\ row[<<o, "first">>].qty = 0
        /\ book[<<o, "first">>].qty + (IF o \in todo THEN wanted[o] ELSE book[<<o, "rest">>].qty)
               <= plan[o].qty

Seen ==
    \A l \in Lines : book[l].qty > 0 =>
        row[l].status \in {"SUCCESS", "FAILED"} /\ row[l].qty >= book[l].qty

(* Only the first stage of TWO_PHASE tries an order and leaves it.          *)
StagesFit ==
    /\ stage \in {"start"} \cup SellStages \cup {"buy"} => tried = {}
    /\ stage = "start" => todo = Orders

(* A request comes after the history is saved; it has its row while it asks *)
(* the broker; what the row says of a cancellation is known.                *)
CancelFits ==
    /\ saved => stage = "saved"
    /\ \A r \in Requests : request[r] # NoRequest => saved
    /\ \A l \in Lines : book[l].state = "canceled" => saved
    /\ \A r \in Requests : request[r].at = "locked" =>
           rowLock[request[r].line] = r /\ cancel[request[r].line] # "CANCELED"
    /\ \A l \in Lines : cancel[l] = "CANCELED" => book[l].state = "canceled"
    /\ \A l \in Lines : cancel[l] # "none" => saved
    /\ \A l \in Lines : book[l].state = "canceled" => cancel[l] = "CANCELED" \/ l \in uncertain

Inv == TypeOK /\ LedgerFits /\ Seen /\ StagesFit /\ CancelFits

LEMMA LineIs ==
    /\ \A o \in Orders : <<o, "first">> \in Lines /\ <<o, "rest">> \in Lines /\ <<o, "short">> \in Lines
    /\ \A l \in Lines : l = <<l[1], l[2]>> /\ l[1] \in Orders /\ l[2] \in Parts
  BY PlansAssumption DEF Parts

LEMMA PlanIs ==
    ASSUME TypeOK, NEW o \in Orders
    PROVE  /\ plan[o].qty \in Nat /\ plan[o].price \in Nat
           /\ plan[o].ticker \in Tickers
           /\ plan[o] \in OrderInputs
  BY PlansAssumption DEF TypeOK, OrderInputs

LEMMA InvInit == Init => Inv
<1> SUFFICES ASSUME Init PROVE Inv
  OBVIOUS
<1>1. \A o \in Orders : plan[o].qty \in Nat
  BY PlansAssumption DEF Init, OrderInputs
<1>2. CancelTypeOK
  BY DEF Init, CancelTypeOK, CancelInit, RequestStates
<1>3. TypeOK
  <2>1. /\ plan \in Plans /\ strategy \in {"FULL", "TWO_PHASE"} /\ blocked \subseteq Orders
        /\ stage \in Stages /\ todo \subseteq Orders /\ tried \subseteq Orders
    BY DEF Init, Stages
  <2>2. wanted \in [Orders -> Nat]
    BY <1>1 DEF Init
  <2>3. /\ budget \in Nat \cup {Unasked, NoLimit}
        /\ balance \in [Tickers -> Nat] \cup {Unasked, NoLimit}
    BY DEF Init
  <2>4. cash \in Nat /\ held \in [Tickers -> Nat]
    BY PlansAssumption DEF Init
  <2>5. attempts \in 0..Retries /\ outside \in 0..MaxOutside
    BY PlansAssumption DEF Init
  <2>6. failed \in BOOLEAN /\ surprises \subseteq Lines
    BY DEF Init
  <2> QED
    BY <1>2, <2>1, <2>2, <2>3, <2>4, <2>5, <2>6 DEF TypeOK
<1>4. LedgerFits
  <2>1. \A l \in Lines : book[l].qty = 0 /\ row[l].qty = 0
    BY DEF Init
  <2>2. \A o \in Orders : o \in todo /\ wanted[o] = plan[o].qty
    BY DEF Init
  <2> QED
    <3> SUFFICES ASSUME NEW o \in Orders
                 PROVE  /\ book[<<o, "short">>].qty = 0 /\ book[<<o, "rest">>].qty = 0
                        /\ row[<<o, "rest">>].qty = 0 /\ row[<<o, "short">>].qty = 0
                        /\ book[<<o, "first">>].qty = 0 /\ row[<<o, "first">>].qty = 0
                        /\ 0 + wanted[o] <= plan[o].qty
      BY <2>2 DEF LedgerFits
    <3>1. wanted[o] = plan[o].qty /\ plan[o].qty \in Nat
      BY <1>1, <2>2
    <3> QED
      BY <2>1, <3>1, LineIs
<1>5. Seen /\ StagesFit
  BY DEF Init, Seen, StagesFit
<1>6. CancelFits
  BY DEF Init, CancelInit, CancelFits, NoRequest
<1> QED
  BY <1>3, <1>4, <1>5, <1>6 DEF Inv

(* What a request changes.                                                  *)
LEMMA RequestIs ==
    ASSUME CancelTypeOK, NEW r \in Requests, request[r].at \in {"checked", "locked"}
    PROVE  request[r].line \in Lines /\ request[r] \in [at : {"checked", "locked"}, line : Lines]
                                     /\ request[r] # NoRequest
  BY DEF CancelTypeOK, RequestStates, NoRequest

CancelKeeps ==
    /\ CancelTypeOK'
    /\ CancelFits'
    /\ UNCHANGED <<row, saved>>
    /\ \A l \in Lines : book'[l].qty = book[l].qty
    /\ \A l \in Lines : cancel[l] = "CANCELED" => cancel'[l] = "CANCELED"

LEMMA AnsweredKeeps ==
    ASSUME CancelTypeOK, CancelFits, stage' = stage, NEW r \in Requests, request[r].at = "locked",
           Closes(r),
           NEW canceled \in BOOLEAN,
           book' = IF canceled THEN [book EXCEPT ![request[r].line].state = "canceled"] ELSE book,
           NEW said \in {"none", "CANCELED", "CANCEL_FAILED"},
           cancel' = IF said = "none" THEN cancel ELSE [cancel EXCEPT ![request[r].line] = said],
           uncertain \subseteq uncertain', uncertain' \subseteq Lines,
           said = "CANCELED" => canceled,
           canceled => said = "CANCELED" \/ request[r].line \in uncertain'
    PROVE  CancelKeeps
<1> DEFINE l == request[r].line
<1>1. l \in Lines /\ request[r] # NoRequest
  BY RequestIs
<1>2. saved /\ rowLock[l] = r /\ cancel[l] # "CANCELED"
  BY <1>1 DEF CancelFits
<1>3. \A m \in Lines : /\ book'[m].qty = book[m].qty
                       /\ book'[m].state = IF m = l /\ canceled THEN "canceled" ELSE book[m].state
  BY <1>1 DEF CancelTypeOK
<1>4. book' \in [Lines -> [state : {"none", "open", "filled", "canceled"}, qty : Nat]]
  BY <1>1 DEF CancelTypeOK
<1>5. \A m \in Lines : cancel'[m] = IF m = l /\ said # "none" THEN said ELSE cancel[m]
  BY <1>1 DEF CancelTypeOK
<1>6. cancel' \in [Lines -> {"none", "CANCELED", "CANCEL_FAILED"}]
  BY <1>1 DEF CancelTypeOK
<1>7. \A s \in Requests : /\ request'[s] = IF s = r THEN NoRequest ELSE request[s]
                          /\ NoRequest.at # "locked"
  BY DEF Closes, CancelTypeOK, NoRequest
<1>8. UNCHANGED <<row, saved>>
  BY DEF Closes
<1>9. CancelTypeOK'
  BY <1>4, <1>6, <1>8, RequestsAssumption DEF Closes, CancelTypeOK, RequestStates
<1>10. \A s \in Requests : request'[s].at = "locked" =>
           rowLock'[request'[s].line] = s /\ cancel'[request'[s].line] # "CANCELED"
  <2> SUFFICES ASSUME NEW s \in Requests, request'[s].at = "locked"
               PROVE  rowLock'[request'[s].line] = s /\ cancel'[request'[s].line] # "CANCELED"
    OBVIOUS
  <2>1. s # r /\ request'[s] = request[s]
    BY <1>7
  <2>2. request[s].line \in Lines
    BY <2>1, RequestIs
  <2>3. rowLock[request[s].line] = s /\ cancel[request[s].line] # "CANCELED"
    BY <2>1 DEF CancelFits
  <2>4. request[s].line # l
    BY <1>2, <2>1, <2>3
  <2> QED
    BY <1>5, <2>1, <2>2, <2>3, <2>4 DEF Closes, CancelTypeOK
<1> HIDE DEF l
<1>11. CancelFits'
  BY <1>2, <1>3, <1>5, <1>7, <1>8, <1>10 DEF CancelFits
<1>12. \A m \in Lines : cancel[m] = "CANCELED" => cancel'[m] = "CANCELED"
  BY <1>2, <1>5
<1> QED
  BY <1>3, <1>8, <1>9, <1>11, <1>12 DEF CancelKeeps

LEMMA PerhapsIs ==
    ASSUME CancelTypeOK, NEW l \in Lines, PerhapsCanceled(l)
    PROVE  \E canceled \in BOOLEAN :
               book' = IF canceled THEN [book EXCEPT ![l].state = "canceled"] ELSE book
<1>1. CASE book[l].state = "open"
  BY <1>1 DEF PerhapsCanceled, CancelTypeOK
<1>2. CASE book[l].state # "open"
  <2>1. [book EXCEPT ![l].state = IF @ = "open" THEN "canceled" ELSE @] = book
    BY <1>2 DEF CancelTypeOK
  <2> QED
    BY <2>1 DEF PerhapsCanceled
<1> QED
  BY <1>1, <1>2

LEMMA CancelStepKeeps ==
    ASSUME CancelTypeOK, CancelFits, stage' = stage, NEW r \in Requests, CancelStep(r)
    PROVE  CancelKeeps
<1>1. ASSUME NEW l \in Clicked, CheckRow(r, l) PROVE CancelKeeps
  <2>1. l \in Lines
    BY RequestsAssumption
  <2>2. request' = [request EXCEPT ![r] = [at |-> "checked", line |-> l]]
    BY <1>1 DEF CheckRow
  <2>3. request' \in [Requests -> RequestStates]
    BY <2>1, <2>2 DEF CancelTypeOK, RequestStates
  <2> QED
    BY <1>1, <2>2, <2>3 DEF CheckRow, CancelKeeps, CancelTypeOK, CancelFits
<1>2. CASE LockRow(r)
  <2>1. request[r].line \in Lines /\ request[r] # NoRequest /\ rowLock[request[r].line] = Free
    BY <1>2, RequestIs DEF LockRow
  <2>2. CASE Cancelable(request[r].line)
    <3>1. /\ request' = [request EXCEPT ![r].at = "locked"]
          /\ rowLock' = [rowLock EXCEPT ![request[r].line] = r]
          /\ UNCHANGED <<row, saved, book, cancel, uncertain>>
      BY <1>2, <2>2 DEF LockRow
    <3>2. request[r] \in [at : {"checked", "locked"}, line : Lines]
      BY <1>2, RequestIs DEF LockRow
    <3>3. request'[r] \in [at : {"checked", "locked"}, line : Lines]
            /\ request'[r].line = request[r].line /\ request'[r].at = "locked"
      BY <3>1, <3>2 DEF CancelTypeOK
    <3>4. \A s \in Requests : s # r => request'[s] = request[s]
      BY <3>1 DEF CancelTypeOK
    <3>5. request' \in [Requests -> RequestStates]
      BY <3>1, <3>3 DEF CancelTypeOK, RequestStates
    <3>6. \A s \in Requests : request'[s].at = "locked" =>
              rowLock'[request'[s].line] = s /\ cancel'[request'[s].line] # "CANCELED"
      <4> SUFFICES ASSUME NEW s \in Requests, request'[s].at = "locked"
                   PROVE  rowLock'[request'[s].line] = s /\ cancel'[request'[s].line] # "CANCELED"
        OBVIOUS
      <4>1. CASE s = r
        BY <2>1, <2>2, <3>1, <3>3, <4>1 DEF Cancelable, CancelTypeOK
      <4>2. CASE s # r
        <5>1. request'[s] = request[s] /\ request[s].at = "locked"
          BY <3>4, <4>2
        <5>2. request[s].line \in Lines /\ rowLock[request[s].line] = s
                /\ cancel[request[s].line] # "CANCELED"
          BY <5>1, RequestIs DEF CancelFits
        <5>3. request[s].line # request[r].line
          BY <2>1, <5>2, RequestsAssumption
        <5> QED
          BY <3>1, <5>1, <5>2, <5>3 DEF CancelTypeOK
      <4> QED
        BY <4>1, <4>2
    <3>7. CancelTypeOK'
      BY <2>1, <3>1, <3>5 DEF CancelTypeOK
    <3>8. \A s \in Requests : request'[s] # NoRequest => saved
      BY <2>1, <3>4 DEF CancelFits
    <3>9. CancelFits'
      BY <3>1, <3>6, <3>8 DEF CancelFits
    <3> QED
      BY <3>1, <3>7, <3>9 DEF CancelKeeps
  <2>3. CASE ~Cancelable(request[r].line)
    <3>1. request' = [request EXCEPT ![r] = NoRequest]
          /\ UNCHANGED <<row, saved, book, cancel, rowLock, uncertain>>
      BY <1>2, <2>3 DEF LockRow
    <3> QED
      BY <3>1 DEF CancelKeeps, CancelTypeOK, CancelFits, RequestStates, NoRequest
  <2> QED
    BY <2>2, <2>3
<1>3. CASE CancelTaken(r)
  <2>1. request[r].line \in Lines
    BY <1>3, RequestIs DEF CancelTaken
  <2> QED
    BY <1>3, <2>1, AnsweredKeeps DEF CancelTaken, CancelTypeOK
<1>4. CASE CancelRefused(r)
  BY <1>4, AnsweredKeeps DEF CancelRefused, CancelTypeOK
<1>5. CASE CancelDoubtful(r)
  <2>1. request[r].line \in Lines
    BY <1>5, RequestIs DEF CancelDoubtful
  <2>2. PICK canceled \in BOOLEAN :
            book' = IF canceled THEN [book EXCEPT ![request[r].line].state = "canceled"] ELSE book
    BY <1>5, <2>1, PerhapsIs DEF CancelDoubtful
  <2> QED
    BY <1>5, <2>1, <2>2, AnsweredKeeps DEF CancelDoubtful, PerhapsCanceled, CancelTypeOK
<1>6. CASE CancelUnanswered(r)
  <2>1. request[r].line \in Lines
    BY <1>6, RequestIs DEF CancelUnanswered
  <2>2. PICK canceled \in BOOLEAN :
            book' = IF canceled THEN [book EXCEPT ![request[r].line].state = "canceled"] ELSE book
    BY <1>6, <2>1, PerhapsIs DEF CancelUnanswered
  <2> QED
    BY <1>6, <2>1, <2>2, AnsweredKeeps DEF CancelUnanswered, PerhapsCanceled, CancelTypeOK
<1> QED
  BY <1>1, <1>2, <1>3, <1>4, <1>5, <1>6 DEF CancelStep

LEMMA CancelNextKeeps ==
    ASSUME CancelTypeOK, CancelFits, stage' = stage, CancelNext
    PROVE  CancelKeeps
<1>1. ASSUME NEW l \in Clicked, CancelOutside(l) PROVE CancelKeeps
  <2>1. l \in Lines
    BY RequestsAssumption
  <2>2. \A m \in Lines : /\ book'[m].qty = book[m].qty
                         /\ book'[m].state = IF m = l THEN "canceled" ELSE book[m].state
    BY <1>1, <2>1 DEF CancelOutside, CancelTypeOK
  <2>3. book' \in [Lines -> [state : {"none", "open", "filled", "canceled"}, qty : Nat]]
    BY <1>1, <2>1 DEF CancelOutside, CancelTypeOK
  <2>4. CancelTypeOK'
    BY <1>1, <2>1, <2>3 DEF CancelOutside, CancelTypeOK
  <2>5. CancelFits'
    BY <1>1, <2>1, <2>2 DEF CancelOutside, CancelFits
  <2> QED
    BY <1>1, <2>2, <2>4, <2>5 DEF CancelOutside, CancelKeeps
<1> QED
  BY <1>1, CancelStepKeeps DEF CancelNext

-----------------------------------------------------------------------------
(* One order.                                                               *)

LEMMA NextIs ==
    ASSUME Inv, NEW o \in Orders, IsNext(o)
    PROVE  /\ o \in todo \ tried
           /\ stage \in Working /\ ~saved
           /\ stage \in BuyStages <=> IsBuy(o)
           /\ Line(o) = <<o, IF stage = "first" THEN "first" ELSE "rest">>
           /\ Line(o) \in Lines
           /\ book[Line(o)].qty = 0
           /\ wanted[o] \in Nat
<1>1. o \in todo \ tried /\ Concerns(o)
  BY DEF IsNext, Pending
<1>2. stage \in Working /\ (stage \in BuyStages <=> IsBuy(o))
  BY <1>1 DEF Concerns, Working, BuyStages, SellStages
<1>3. ~saved
  BY <1>2 DEF Inv, CancelFits, Working, BuyStages, SellStages
<1>4. book[Line(o)].qty = 0
  BY <1>1, <1>2 DEF Inv, LedgerFits, Line
<1>5. wanted[o] \in Nat /\ Line(o) \in Lines
  BY LineIs DEF Inv, TypeOK, Line
<1> QED
  BY <1>1, <1>2, <1>3, <1>4, <1>5 DEF Line

(* The quantity that is sent fits what the broker answered.                 *)
LEMMA FittedFits ==
    ASSUME Inv, NEW o \in Orders, IsNext(o), Answered, NEW q \in Nat, q = Fitted(o), q > 0
    PROVE  /\ q <= wanted[o]
           /\ IsBuy(o) /\ budget # NoLimit =>
                  budget \in Nat /\ q * plan[o].price \in Nat /\ q * plan[o].price <= budget
           /\ ~IsBuy(o) /\ balance # NoLimit =>
                  balance \in [Tickers -> Nat] /\ q <= balance[plan[o].ticker]
<1>1. wanted[o] \in Nat /\ plan[o].price \in Nat /\ plan[o].ticker \in Tickers
  BY PlanIs, NextIs DEF Inv
<1>2. IsBuy(o) /\ budget # NoLimit => budget \in Nat
  BY NextIs DEF Inv, TypeOK, Answered
<1>3. ~IsBuy(o) /\ balance # NoLimit => balance \in [Tickers -> Nat]
  BY NextIs DEF Inv, TypeOK, Answered
<1>4. CASE IsBuy(o) /\ budget # NoLimit
  <2>1. q = FitBuy(wanted[o], plan[o].price, budget)
    <3>1. ~(stage = "first" /\ plan[o].price = 0)
      <4> SUFFICES ASSUME stage = "first" /\ plan[o].price = 0 PROVE FALSE
        OBVIOUS
      <4>1. Fitted(o) = 0
        BY <1>4 DEF Fitted
      <4> QED
        BY <4>1
    <3> QED
      BY <1>4, <3>1 DEF Fitted
  <2>2. q \in 0..wanted[o] /\ (plan[o].price > 0 => q * plan[o].price <= budget)
    BY <1>1, <1>2, <1>4, <2>1, FitBuyFits
  <2>3. CASE plan[o].price = 0
    BY <1>2, <1>4, <2>2, <2>3
  <2>4. CASE plan[o].price > 0
    BY <1>1, <1>2, <1>4, <2>2, <2>4
  <2> QED
    BY <1>1, <2>3, <2>4
<1>5. CASE ~IsBuy(o) /\ balance # NoLimit
  <2>1. stage # "first"
    BY <1>5, NextIs DEF BuyStages
  <2>2. q = ClampSell(wanted[o], balance[plan[o].ticker])
    BY <1>5, <2>1 DEF Fitted
  <2>3. balance[plan[o].ticker] \in Nat
    BY <1>1, <1>3, <1>5
  <2>4. q \in 0..wanted[o] /\ q <= balance[plan[o].ticker]
    BY <1>1, <2>2, <2>3, ClampSellFits
  <2> QED
    BY <1>1, <1>3, <1>5, <2>4
<1>6. CASE (IsBuy(o) /\ budget = NoLimit) \/ (~IsBuy(o) /\ balance = NoLimit)
  <2>1. q = wanted[o]
    <3>1. CASE IsBuy(o) /\ budget = NoLimit
      BY <3>1 DEF Fitted
    <3>2. CASE ~IsBuy(o) /\ balance = NoLimit
      <4>1. stage # "first"
        BY <3>2, NextIs DEF BuyStages
      <4> QED
        BY <3>2, <4>1 DEF Fitted
    <3> QED
      BY <1>6, <3>1, <3>2
  <2> QED
    BY <1>1, <1>6, <2>1
<1> QED
  BY <1>4, <1>5, <1>6

(* The lines and what is left, after an order that was sent.                *)
LEMMA RecordsKeep ==
    ASSUME Inv, NEW o \in Orders, IsNext(o), NEW q \in Nat, q > 0, q <= wanted[o],
           NEW status \in {"SUCCESS", "FAILED"}, Records(o, q, status),
           UNCHANGED <<input, stage>>,
           book'[Line(o)].qty \in {0, q},
           \A l \in Lines : l # Line(o) => book'[l].qty = book[l].qty
    PROVE  /\ row' \in [Lines -> [status : {"none", "SUCCESS", "FAILED", "SKIPPED"}, qty : Nat]]
           /\ todo' \subseteq Orders /\ tried' \subseteq Orders /\ wanted' \in [Orders -> Nat]
           /\ LedgerFits' /\ Seen' /\ StagesFit'
<1> DEFINE rowType == [status : {"none", "SUCCESS", "FAILED", "SKIPPED"}, qty : Nat]
<1>n. /\ o \in todo \ tried
      /\ stage \in Working
      /\ Line(o) = <<o, IF stage = "first" THEN "first" ELSE "rest">>
      /\ Line(o) \in Lines
      /\ book[Line(o)].qty = 0
      /\ wanted[o] \in Nat
  BY NextIs
<1>r. /\ row \in [Lines -> rowType] /\ todo \subseteq Orders /\ tried \subseteq Orders
      /\ wanted \in [Orders -> Nat]
      /\ book \in [Lines -> [state : {"none", "open", "filled", "canceled"}, qty : Nat]]
  BY DEF Inv, TypeOK, CancelTypeOK
<1>0. <<o, "short">> \in Lines /\ Line(o) # <<o, "short">>
  BY <1>n, LineIs
<1>1. /\ row'[Line(o)] = [status |-> status, qty |-> q]
      /\ row'[<<o, "short">>] = IF stage = "buy" /\ strategy = "TWO_PHASE" /\ q < wanted[o]
                                  THEN [status |-> "SKIPPED", qty |-> wanted[o] - q]
                                  ELSE row[<<o, "short">>]
      /\ \A l \in Lines : l # Line(o) /\ l # <<o, "short">> => row'[l] = row[l]
      /\ DOMAIN row' = Lines
  BY <1>r, <1>n, <1>0 DEF Records
<1>2. row' \in [Lines -> rowType]
  <2>1. [status |-> status, qty |-> q] \in rowType
    OBVIOUS
  <2>2. q < wanted[o] => [status |-> "SKIPPED", qty |-> wanted[o] - q] \in rowType
    BY <1>n
  <2> DEFINE sent == [row EXCEPT ![Line(o)] = [status |-> status, qty |-> q]]
             short == [sent EXCEPT ![<<o, "short">>] =
                           [status |-> "SKIPPED", qty |-> wanted[o] - q]]
  <2>3. sent \in [Lines -> rowType] /\ (q < wanted[o] => short \in [Lines -> rowType])
    BY <1>r, <1>n, <2>1, <2>2
  <2>4. row' = sent \/ (q < wanted[o] /\ row' = short)
    BY DEF Records
  <2> QED
    BY <2>3, <2>4
<1>3. IF stage = "first" /\ q < wanted[o]
        THEN /\ wanted' = [wanted EXCEPT ![o] = @ - q]
             /\ tried' = tried \cup {o} /\ todo' = todo
        ELSE todo' = todo \ {o} /\ wanted' = wanted /\ tried' = tried
  BY DEF Records
<1>4. todo' \subseteq Orders /\ tried' \subseteq Orders /\ wanted' \in [Orders -> Nat]
  BY <1>r, <1>n, <1>3
<1>5. plan' = plan /\ stage' = stage
  BY DEF input
<1>6. LedgerFits'
  <2> SUFFICES ASSUME NEW p \in Orders
               PROVE  /\ book'[<<p, "short">>].qty = 0
                      /\ p \in todo' => /\ book'[<<p, "rest">>].qty = 0
                                        /\ row'[<<p, "rest">>].qty = 0
                                        /\ row'[<<p, "short">>].qty = 0
                      /\ p \in todo' \ tried' /\ stage' \in {"start", "first"} =>
                             book'[<<p, "first">>].qty = 0 /\ row'[<<p, "first">>].qty = 0
                      /\ book'[<<p, "first">>].qty
                           + (IF p \in todo' THEN wanted'[p] ELSE book'[<<p, "rest">>].qty)
                             <= plan'[p].qty
    BY DEF LedgerFits
  <2>r. /\ book[<<p, "short">>].qty = 0
        /\ p \in todo => /\ book[<<p, "rest">>].qty = 0
                         /\ row[<<p, "rest">>].qty = 0
                         /\ row[<<p, "short">>].qty = 0
        /\ p \in todo \ tried /\ stage \in {"start", "first"} =>
               book[<<p, "first">>].qty = 0 /\ row[<<p, "first">>].qty = 0
        /\ book[<<p, "first">>].qty + (IF p \in todo THEN wanted[p] ELSE book[<<p, "rest">>].qty)
               <= plan[p].qty
    BY DEF Inv, LedgerFits
  <2>l. <<p, "first">> \in Lines /\ <<p, "rest">> \in Lines /\ <<p, "short">> \in Lines
    BY LineIs
  <2>1. CASE p # o
    <3>1. \A t \in Parts : <<p, t>> # Line(o) /\ <<p, t>> # <<o, "short">>
      BY <1>n, <2>1
    <3>2. \A t \in Parts : <<p, t>> \in Lines =>
              book'[<<p, t>>].qty = book[<<p, t>>].qty /\ row'[<<p, t>>] = row[<<p, t>>]
      BY <1>1, <3>1
    <3>3. wanted'[p] = wanted[p] /\ (p \in todo' <=> p \in todo) /\ (p \in tried' <=> p \in tried)
      BY <1>r, <1>3, <2>1
    <3> QED
      BY <1>5, <2>r, <2>l, <3>2, <3>3 DEF Parts
  <2>2. CASE p = o /\ stage = "first"
    <3>1. Line(o) = <<o, "first">>
      BY <1>n, <2>2
    <3>2. /\ book'[<<o, "rest">>].qty = 0 /\ row'[<<o, "rest">>] = row[<<o, "rest">>]
          /\ book'[<<o, "short">>].qty = 0 /\ row'[<<o, "short">>] = row[<<o, "short">>]
      BY <1>n, <1>1, <2>2, <2>r, <2>l, <3>1
    <3>3. CASE q < wanted[o]
      <4>1. wanted'[o] = wanted[o] - q /\ o \in todo' /\ o \in tried'
        BY <1>r, <1>n, <1>3, <2>2, <3>3
      <4>2. book'[<<o, "first">>].qty + wanted'[o] <= wanted[o] /\ wanted[o] <= plan[o].qty
        <5>1. plan[o].qty \in Nat /\ 0 + wanted[o] <= plan[o].qty
          BY <1>n, <2>2, <2>r, <3>1, PlanIs DEF Inv
        <5> QED
          BY <1>n, <3>1, <4>1, <5>1
      <4>3. book'[<<o, "first">>].qty \in Nat /\ wanted'[o] \in Nat /\ plan[o].qty \in Nat
        BY <1>4, <3>1, PlanIs DEF Inv
      <4> QED
        BY <1>n, <1>5, <2>2, <2>r, <3>2, <4>1, <4>2, <4>3
    <3>4. CASE ~(q < wanted[o])
      <4>1. o \notin todo' /\ q = wanted[o]
        BY <1>n, <1>3, <3>4
      <4>2. plan[o].qty \in Nat /\ wanted[o] <= plan[o].qty
        BY <1>n, <2>2, <2>r, <3>1, PlanIs DEF Inv
      <4> QED
        BY <1>n, <1>5, <2>2, <3>1, <3>2, <4>1, <4>2
    <3> QED
      BY <3>3, <3>4
  <2>3. CASE p = o /\ stage # "first"
    <3>1. Line(o) = <<o, "rest">> /\ o \notin todo'
      BY <1>n, <1>3, <2>3
    <3>2. book'[<<o, "first">>].qty = book[<<o, "first">>].qty /\ book'[<<o, "short">>].qty = 0
      BY <2>3, <2>r, <2>l, <3>1
    <3>3. book[<<o, "first">>].qty \in Nat /\ book[<<o, "first">>].qty + wanted[o] <= plan[o].qty
            /\ plan[o].qty \in Nat
      BY <1>n, <1>r, <2>3, <2>r, <2>l, PlanIs DEF Inv
    <3> QED
      BY <1>n, <1>5, <2>3, <3>1, <3>2, <3>3
  <2> QED
    BY <2>1, <2>2, <2>3
<1>7. Seen'
  <2> SUFFICES ASSUME NEW l \in Lines, book'[l].qty > 0
               PROVE  row'[l].status \in {"SUCCESS", "FAILED"} /\ row'[l].qty >= book'[l].qty
    BY DEF Seen
  <2>1. CASE l = Line(o)
    BY <1>1, <2>1
  <2>2. CASE l # Line(o)
    <3>1. book[l].qty > 0 /\ book'[l].qty = book[l].qty
      BY <2>2
    <3>2. l # <<o, "short">>
      <4>1. book[<<o, "short">>].qty = 0
        BY DEF Inv, LedgerFits
      <4> QED
        BY <3>1, <4>1
    <3> QED
      BY <1>1, <2>2, <3>1, <3>2 DEF Inv, Seen
  <2> QED
    BY <2>1, <2>2
<1>8. StagesFit'
  BY <1>n, <1>3, <1>5 DEF Inv, StagesFit, Working, BuyStages, SellStages
<1> QED
  BY <1>2, <1>4, <1>6, <1>7, <1>8

(* What the rest of an order's step leaves typed.                           *)
LEMMA EndsKeep ==
    ASSUME Inv, NEW o \in Orders, IsNext(o), Answered, NEW q \in Nat, q = Fitted(o), q > 0,
           NEW answer \in {"taken", "refused", "throttled", "lost"}, Ends(o, q, answer),
           UNCHANGED input,
           book'[Line(o)].qty \in {0, q},
           answer = "throttled" => book'[Line(o)].qty = 0,
           \A l \in Lines : l # Line(o) => book'[l].qty = book[l].qty
    PROVE  /\ row' \in [Lines -> [status : {"none", "SUCCESS", "FAILED", "SKIPPED"}, qty : Nat]]
           /\ stage' = stage
           /\ todo' \subseteq Orders /\ tried' \subseteq Orders /\ wanted' \in [Orders -> Nat]
           /\ attempts' \in 0..Retries /\ budget' \in Nat \cup {Unasked, NoLimit}
           /\ LedgerFits' /\ Seen' /\ StagesFit'
<1>1. CASE SentAgain(answer)
  <2>1. UNCHANGED <<row, budget, stage, todo, tried, wanted, plan>>
          /\ attempts' = attempts + 1 /\ attempts < Retries
    BY <1>1 DEF Ends, progress, input, SentAgain
  <2>2. \A l \in Lines : book'[l].qty = book[l].qty
    BY <1>1, NextIs DEF SentAgain
  <2>3. LedgerFits'
    BY <2>1, <2>2, LineIs DEF Inv, LedgerFits
  <2>4. Seen' /\ StagesFit'
    BY <2>1, <2>2 DEF Inv, Seen, StagesFit
  <2> QED
    BY <2>1, <2>3, <2>4, PlansAssumption DEF Inv, TypeOK, CancelTypeOK
<1>2. CASE ~SentAgain(answer)
  <2>1. PICK status \in {"SUCCESS", "FAILED"} : Records(o, q, status) /\ stage' = stage
    BY <1>2 DEF Ends
  <2>2. q <= wanted[o]
    BY FittedFits
  <2>3. /\ row' \in [Lines -> [status : {"none", "SUCCESS", "FAILED", "SKIPPED"}, qty : Nat]]
        /\ todo' \subseteq Orders /\ tried' \subseteq Orders /\ wanted' \in [Orders -> Nat]
        /\ LedgerFits' /\ Seen' /\ StagesFit'
    BY <2>1, <2>2, RecordsKeep
  <2>4. attempts' \in 0..Retries
    BY <2>1, PlansAssumption DEF Records
  <2>5. budget' \in Nat \cup {Unasked, NoLimit}
    <3>1. budget' = BudgetLeft(o, q, status)
      BY <2>1 DEF Records
    <3>2. CASE IsBuy(o) /\ budget # NoLimit
      <4>1. budget \in Nat /\ q * plan[o].price \in Nat /\ q * plan[o].price <= budget
        BY <3>2, FittedFits
      <4>2. budget - q * plan[o].price \in Nat
        BY <4>1
      <4> QED
        BY <3>1, <4>1, <4>2 DEF BudgetLeft
    <3>3. CASE ~(IsBuy(o) /\ budget # NoLimit)
      BY <3>1, <3>3 DEF BudgetLeft, Inv, TypeOK
    <3> QED
      BY <3>2, <3>3
  <2> QED
    BY <2>1, <2>3, <2>4, <2>5
<1> QED
  BY <1>1, <1>2

(* Nobody can ask to cancel while orders are sent.                          *)
LEMMA NobodyCancels ==
    ASSUME Inv, ~saved
    PROVE  /\ \A r \in Requests : request[r] = NoRequest
           /\ \A l \in Lines : cancel[l] = "none" /\ book[l].state # "canceled"
  BY DEF Inv, CancelFits

LEMMA SendTakenKeeps ==
    ASSUME Inv, NEW o \in Orders, NEW q \in 1..wanted[o], SendTaken(o, q) PROVE Inv'
<1>n. /\ Line(o) \in Lines /\ ~saved /\ IsNext(o) /\ wanted[o] \in Nat
      /\ book[Line(o)].qty = 0
  BY NextIs DEF SendTaken, Sending
<1>q. q \in Nat /\ q > 0 /\ q = Fitted(o) /\ Answered
  BY <1>n DEF SendTaken, Sending
<1>r. /\ book \in [Lines -> [state : {"none", "open", "filled", "canceled"}, qty : Nat]]
      /\ cash \in Nat /\ held \in [Tickers -> Nat]
  BY DEF Inv, TypeOK, CancelTypeOK
<1>1. book' = [book EXCEPT ![Line(o)] = [state |-> "open", qty |-> @.qty + q]]
  BY DEF SendTaken, Takes
<1>2. /\ book'[Line(o)] = [state |-> "open", qty |-> q]
      /\ \A l \in Lines : l # Line(o) => book'[l] = book[l]
      /\ book' \in [Lines -> [state : {"none", "open", "filled", "canceled"}, qty : Nat]]
  BY <1>n, <1>q, <1>r, <1>1
<1>3. PICK answer \in {"taken", "lost"} : Ends(o, q, answer)
  BY DEF SendTaken
<1>4. UNCHANGED <<input, balance, outside, history, saved, cancelVars>>
  BY DEF SendTaken
<1>5. /\ row' \in [Lines -> [status : {"none", "SUCCESS", "FAILED", "SKIPPED"}, qty : Nat]]
      /\ stage' = stage
      /\ todo' \subseteq Orders /\ tried' \subseteq Orders /\ wanted' \in [Orders -> Nat]
      /\ attempts' \in 0..Retries /\ budget' \in Nat \cup {Unasked, NoLimit}
      /\ LedgerFits' /\ Seen' /\ StagesFit'
  BY <1>n, <1>q, <1>2, <1>3, <1>4, EndsKeep
<1>6. cash' \in Nat
  <2>1. plan[o].price \in Nat
    BY PlanIs DEF Inv
  <2>2. Worth(o, q) \in Nat
    BY <1>q, <2>1, WorthIs
  <2>3. IsBuy(o) /\ ~IsOverseas(o) => Worth(o, q) <= cash /\ cash' = cash - Worth(o, q)
    BY DEF SendTaken, Takes, HasMeans
  <2>4. ~(IsBuy(o) /\ ~IsOverseas(o)) => cash' = cash
    BY DEF SendTaken, Takes
  <2> QED
    BY <1>r, <2>2, <2>3, <2>4
<1>7. held' \in [Tickers -> Nat]
  <2>1. plan[o].ticker \in Tickers
    BY PlanIs DEF Inv
  <2>2. CASE IsBuy(o)
    BY <1>r, <2>2 DEF SendTaken, Takes
  <2>3. CASE ~IsBuy(o)
    <3>1. q <= held[plan[o].ticker] /\ held' = [held EXCEPT ![plan[o].ticker] = @ - q]
      BY <2>3 DEF SendTaken, Takes, HasMeans
    <3>2. held[plan[o].ticker] - q \in Nat
      BY <1>q, <1>r, <2>1, <3>1
    <3> QED
      BY <1>r, <2>1, <3>1, <3>2
  <2> QED
    BY <2>2, <2>3
<1>8. TypeOK'
  BY <1>2, <1>4, <1>5, <1>6, <1>7
  DEF Inv, TypeOK, CancelTypeOK, input, history, cancelVars
<1>9. CancelFits'
  <2>1. \A r \in Requests : request'[r] = NoRequest
    BY <1>n, <1>4, NobodyCancels DEF cancelVars
  <2>2. \A l \in Lines : cancel'[l] = "none" /\ book'[l].state # "canceled"
    BY <1>n, <1>2, <1>4, NobodyCancels DEF cancelVars
  <2>3. ~saved'
    BY <1>n, <1>4
  <2> QED
    BY <2>1, <2>2, <2>3 DEF CancelFits, NoRequest
<1> QED
  BY <1>5, <1>8, <1>9 DEF Inv

LEMMA SendNotTakenKeeps ==
    ASSUME Inv, NEW o \in Orders, NEW q \in 1..wanted[o], SendNotTaken(o, q) PROVE Inv'
<1>n. /\ Line(o) \in Lines /\ IsNext(o) /\ wanted[o] \in Nat
      /\ book[Line(o)].qty = 0
  BY NextIs DEF SendNotTaken, Sending
<1>q. q \in Nat /\ q > 0 /\ q = Fitted(o) /\ Answered
  BY <1>n DEF SendNotTaken, Sending
<1>1. PICK answer \in {"refused", "throttled", "lost"} : Ends(o, q, answer)
  BY DEF SendNotTaken
<1>2. UNCHANGED <<input, balance, account, failed, saved, book, cancelVars>>
  BY DEF SendNotTaken
<1>3. /\ row' \in [Lines -> [status : {"none", "SUCCESS", "FAILED", "SKIPPED"}, qty : Nat]]
      /\ stage' = stage
      /\ todo' \subseteq Orders /\ tried' \subseteq Orders /\ wanted' \in [Orders -> Nat]
      /\ attempts' \in 0..Retries /\ budget' \in Nat \cup {Unasked, NoLimit}
      /\ LedgerFits' /\ Seen' /\ StagesFit'
  BY <1>n, <1>q, <1>1, <1>2, EndsKeep
<1>4. surprises' \subseteq Lines
  BY <1>n DEF SendNotTaken, Inv, TypeOK
<1>5. TypeOK'
  BY <1>2, <1>3, <1>4 DEF Inv, TypeOK, CancelTypeOK, input, account, cancelVars
<1>6. CancelFits'
  BY <1>2, <1>3 DEF Inv, CancelFits, cancelVars
<1> QED
  BY <1>3, <1>5, <1>6 DEF Inv

LEMMA PassOverKeeps == ASSUME Inv, NEW o \in Orders, PassOver(o) PROVE Inv'
<1>n. /\ o \in todo \ tried /\ stage \in Working /\ ~saved
      /\ Line(o) = <<o, IF stage = "first" THEN "first" ELSE "rest">>
      /\ Line(o) \in Lines /\ book[Line(o)].qty = 0 /\ wanted[o] \in Nat
  BY NextIs DEF PassOver
<1>1. UNCHANGED <<input, stage, wanted, answers, attempts, account, history, saved, book,
                  cancelVars>>
  BY DEF PassOver
<1>r. /\ row \in [Lines -> [status : {"none", "SUCCESS", "FAILED", "SKIPPED"}, qty : Nat]]
      /\ todo \subseteq Orders /\ tried \subseteq Orders
  BY DEF Inv, TypeOK, CancelTypeOK
<1>2. CASE stage = "first"
  <2>1. tried' = tried \cup {o} /\ UNCHANGED <<todo, row>>
    BY <1>2 DEF PassOver
  <2>2. LedgerFits'
    BY <1>1, <2>1 DEF Inv, LedgerFits, input
  <2>3. Seen' /\ StagesFit' /\ CancelFits'
    BY <1>1, <1>2, <2>1 DEF Inv, Seen, StagesFit, CancelFits, cancelVars, SellStages
  <2> QED
    BY <1>1, <1>r, <2>1, <2>2, <2>3
    DEF Inv, TypeOK, CancelTypeOK, input, answers, account, history, cancelVars
<1>3. CASE stage # "first"
  <2>1. /\ todo' = todo \ {o} /\ tried' = tried /\ Line(o) = <<o, "rest">>
        /\ row' = [row EXCEPT ![Line(o)] = [status |-> "SKIPPED", qty |-> wanted[o]]]
    BY <1>n, <1>3 DEF PassOver
  <2>2. \A l \in Lines : l # Line(o) => row'[l] = row[l]
    BY <1>r, <2>1
  <2>3. row' \in [Lines -> [status : {"none", "SUCCESS", "FAILED", "SKIPPED"}, qty : Nat]]
    BY <1>n, <1>r, <2>1
  <2>4. LedgerFits'
    <3> SUFFICES ASSUME NEW p \in Orders
                 PROVE  /\ book[<<p, "short">>].qty = 0
                        /\ p \in todo' => /\ book[<<p, "rest">>].qty = 0
                                          /\ row'[<<p, "rest">>].qty = 0
                                          /\ row'[<<p, "short">>].qty = 0
                        /\ p \in todo' \ tried /\ stage \in {"start", "first"} =>
                               book[<<p, "first">>].qty = 0 /\ row'[<<p, "first">>].qty = 0
                        /\ book[<<p, "first">>].qty
                             + (IF p \in todo' THEN wanted[p] ELSE book[<<p, "rest">>].qty)
                               <= plan[p].qty
      BY <1>1, <2>1 DEF LedgerFits, input
    <3>r. /\ book[<<p, "short">>].qty = 0
          /\ p \in todo => /\ book[<<p, "rest">>].qty = 0
                           /\ row[<<p, "rest">>].qty = 0
                           /\ row[<<p, "short">>].qty = 0
          /\ p \in todo \ tried /\ stage \in {"start", "first"} =>
                 book[<<p, "first">>].qty = 0 /\ row[<<p, "first">>].qty = 0
          /\ book[<<p, "first">>].qty + (IF p \in todo THEN wanted[p] ELSE book[<<p, "rest">>].qty)
                 <= plan[p].qty
      BY DEF Inv, LedgerFits
    <3>1. CASE p = o
      <4>1. book[<<o, "first">>].qty \in Nat /\ plan[o].qty \in Nat
        BY LineIs, PlanIs DEF Inv, TypeOK, CancelTypeOK
      <4> QED
        BY <1>n, <2>1, <3>r, <3>1, <4>1
    <3>2. CASE p # o
      <4>1. row'[<<p, "rest">>] = row[<<p, "rest">>] /\ row'[<<p, "short">>] = row[<<p, "short">>]
              /\ row'[<<p, "first">>] = row[<<p, "first">>]
        BY <2>1, <2>2, <3>2, LineIs
      <4> QED
        BY <1>3, <2>1, <3>r, <3>2, <4>1
    <3> QED
      BY <3>1, <3>2
  <2>5. Seen'
    BY <1>n, <1>1, <2>2 DEF Inv, Seen
  <2>6. StagesFit' /\ CancelFits'
    BY <1>n, <1>1, <2>1
    DEF Inv, StagesFit, CancelFits, cancelVars, Working, BuyStages, SellStages
  <2> QED
    BY <1>1, <1>r, <2>1, <2>3, <2>4, <2>5, <2>6
    DEF Inv, TypeOK, CancelTypeOK, input, answers, account, history, cancelVars
<1> QED
  BY <1>2, <1>3

-----------------------------------------------------------------------------
(* The other steps.                                                         *)

(* The group begins or fails: nothing was sent, and the lines written are   *)
(* those of orders that are not left.                                       *)
LEMMA BeginKeeps ==
    ASSUME Inv, stage = "start",
           NEW S \in SUBSET Orders, NEW status \in {"SKIPPED", "FAILED"},
           todo' = Orders \ S,
           row' = [l \in Lines |-> IF l[1] \in S /\ l[2] = "rest"
                                     THEN [status |-> status, qty |-> plan[l[1]].qty]
                                     ELSE row[l]],
           stage' \in {"first", "sellKR", "saving"},
           UNCHANGED <<plan, tried, wanted, saved, book, cancelVars>>
    PROVE  /\ row' \in [Lines -> [status : {"none", "SUCCESS", "FAILED", "SKIPPED"}, qty : Nat]]
           /\ LedgerFits' /\ Seen' /\ StagesFit' /\ CancelFits'
<1>r. row \in [Lines -> [status : {"none", "SUCCESS", "FAILED", "SKIPPED"}, qty : Nat]]
        /\ book \in [Lines -> [state : {"none", "open", "filled", "canceled"}, qty : Nat]]
  BY DEF Inv, TypeOK, CancelTypeOK
<1>1. \A l \in Lines : plan[l[1]].qty \in Nat
  BY LineIs, PlanIs DEF Inv
<1>2. row' \in [Lines -> [status : {"none", "SUCCESS", "FAILED", "SKIPPED"}, qty : Nat]]
  <2> SUFFICES ASSUME NEW l \in Lines
               PROVE  (IF l[1] \in S /\ l[2] = "rest"
                         THEN [status |-> status, qty |-> plan[l[1]].qty] ELSE row[l])
                        \in [status : {"none", "SUCCESS", "FAILED", "SKIPPED"}, qty : Nat]
    OBVIOUS
  <2> QED
    BY <1>r, <1>1
<1>3. todo = Orders /\ tried = {}
  BY DEF Inv, StagesFit
<1>4. \A o \in Orders : /\ book[<<o, "first">>].qty = 0 /\ book[<<o, "rest">>].qty = 0
                        /\ book[<<o, "short">>].qty = 0
                        /\ row[<<o, "rest">>].qty = 0 /\ row[<<o, "short">>].qty = 0
                        /\ row[<<o, "first">>].qty = 0 /\ wanted[o] <= plan[o].qty
  <2> SUFFICES ASSUME NEW o \in Orders
               PROVE  /\ book[<<o, "first">>].qty = 0 /\ book[<<o, "rest">>].qty = 0
                      /\ book[<<o, "short">>].qty = 0
                      /\ row[<<o, "rest">>].qty = 0 /\ row[<<o, "short">>].qty = 0
                      /\ row[<<o, "first">>].qty = 0 /\ wanted[o] <= plan[o].qty
    OBVIOUS
  <2>1. wanted[o] \in Nat
    BY DEF Inv, TypeOK
  <2> QED
    BY <1>3, <2>1 DEF Inv, LedgerFits
<1>5. \A l \in Lines : book[l].qty = 0
  <2> SUFFICES ASSUME NEW l \in Lines PROVE book[l].qty = 0
    OBVIOUS
  <2>1. l[1] \in Orders /\ (\/ l = <<l[1], "first">> \/ l = <<l[1], "rest">> \/ l = <<l[1], "short">>)
    BY LineIs DEF Parts
  <2> DEFINE o == l[1]
  <2>2. o \in Orders /\ (l = <<o, "first">> \/ l = <<o, "rest">> \/ l = <<o, "short">>)
    BY <2>1
  <2> HIDE DEF o
  <2> QED
    BY <1>4, <2>2
<1>6. \A o \in Orders : /\ o \notin S => row'[<<o, "rest">>] = row[<<o, "rest">>]
                        /\ row'[<<o, "short">>] = row[<<o, "short">>]
                        /\ row'[<<o, "first">>] = row[<<o, "first">>]
  BY LineIs
<1>7. LedgerFits'
  <2> SUFFICES ASSUME NEW o \in Orders
               PROVE  /\ o \in todo' => row'[<<o, "rest">>].qty = 0 /\ row'[<<o, "short">>].qty = 0
                      /\ row'[<<o, "first">>].qty = 0
                      /\ 0 + (IF o \in todo' THEN wanted[o] ELSE 0) <= plan[o].qty
    BY <1>4 DEF LedgerFits
  <2>1. plan[o].qty \in Nat /\ wanted[o] \in Nat
    BY PlanIs DEF Inv, TypeOK
  <2>2. /\ row[<<o, "rest">>].qty = 0 /\ row[<<o, "short">>].qty = 0
        /\ row[<<o, "first">>].qty = 0 /\ wanted[o] <= plan[o].qty
    BY <1>4
  <2>3. row'[<<o, "first">>].qty = 0
    BY <1>6, <2>2
  <2>4. o \in todo' => row'[<<o, "rest">>].qty = 0 /\ row'[<<o, "short">>].qty = 0
    BY <1>6, <2>2
  <2> QED
    BY <2>1, <2>2, <2>3, <2>4
<1>8. Seen'
  BY <1>5 DEF Seen
<1>9. StagesFit' /\ CancelFits'
  BY <1>3 DEF Inv, StagesFit, CancelFits, cancelVars
<1> QED
  BY <1>2, <1>7, <1>8, <1>9

LEMMA InvStep == ASSUME Inv, [Next]_vars PROVE Inv'
<1>r. TypeOK /\ CancelTypeOK /\ LedgerFits /\ Seen /\ StagesFit /\ CancelFits
  BY DEF Inv, TypeOK
<1> USE DEF Working, BuyStages, SellStages, Stages
<1>1. CASE BeginGroup
  <2>1. blocked \in SUBSET Orders
    BY <1>r DEF TypeOK
  <2>2. stage' \in {"first", "sellKR"} /\ strategy' \in {"FULL", "TWO_PHASE"} /\ stage = "start"
    BY <1>1 DEF BeginGroup
  <2>3. /\ todo' = Orders \ blocked
        /\ row' = [l \in Lines |-> IF l[1] \in blocked /\ l[2] = "rest"
                                     THEN [status |-> "SKIPPED", qty |-> plan[l[1]].qty]
                                     ELSE row[l]]
        /\ UNCHANGED <<plan, blocked, tried, wanted, answers, attempts, account,
                       history, saved, book, cancelVars>>
    BY <1>1 DEF BeginGroup
  <2>4. /\ row' \in [Lines -> [status : {"none", "SUCCESS", "FAILED", "SKIPPED"}, qty : Nat]]
        /\ LedgerFits' /\ Seen' /\ StagesFit' /\ CancelFits'
    BY <2>1, <2>2, <2>3, BeginKeeps
  <2> QED
    BY <1>r, <2>2, <2>3, <2>4 DEF Inv, TypeOK, CancelTypeOK, answers, account, history, cancelVars
<1>2. CASE GroupFails
  <2>1. /\ todo' = Orders \ Orders
        /\ row' = [l \in Lines |-> IF l[1] \in Orders /\ l[2] = "rest"
                                     THEN [status |-> "FAILED", qty |-> plan[l[1]].qty]
                                     ELSE row[l]]
    BY <1>2, LineIs DEF GroupFails
  <2>2. /\ stage = "start" /\ stage' = "saving" /\ failed' = TRUE
        /\ UNCHANGED <<input, tried, wanted, answers, attempts, account, surprises,
                       saved, book, cancelVars>>
    BY <1>2 DEF GroupFails
  <2>3. /\ row' \in [Lines -> [status : {"none", "SUCCESS", "FAILED", "SKIPPED"}, qty : Nat]]
        /\ LedgerFits' /\ Seen' /\ StagesFit' /\ CancelFits'
    BY <2>1, <2>2, BeginKeeps DEF input
  <2> QED
    BY <1>r, <2>1, <2>2, <2>3 DEF Inv, TypeOK, CancelTypeOK, input, answers, account, cancelVars
<1>3. CASE NextStage
  <2>1. stage' \in {"sellKR", "sellUS", "buy", "saving"} /\ tried' = {} /\ todo' = todo
    BY <1>3 DEF NextStage
  <2>2. UNCHANGED <<plan, wanted, row, book, saved, cancelVars>> /\ ~saved
    BY <1>3, <1>r DEF NextStage, CancelFits, input
  <2>3. LedgerFits' /\ Seen' /\ StagesFit' /\ CancelFits'
    BY <1>r, <2>1, <2>2 DEF LedgerFits, Seen, StagesFit, CancelFits, cancelVars
  <2> QED
    BY <1>3, <1>r, <2>1, <2>3
    DEF NextStage, Inv, TypeOK, CancelTypeOK, input, account, history, cancelVars
<1>4. CASE AskBalance
  BY <1>4, <1>r
  DEF AskBalance, Inv, TypeOK, CancelTypeOK, LedgerFits, Seen, StagesFit, CancelFits, input,
      progress, account, history, cancelVars
<1>5. CASE AskBudget
  <2>1. budget' \in Nat \cup {Unasked, NoLimit}
    BY <1>5, <1>r DEF AskBudget, Budgets, TypeOK
  <2> QED
    BY <1>5, <1>r, <2>1
    DEF AskBudget, Inv, TypeOK, CancelTypeOK, LedgerFits, Seen, StagesFit, CancelFits, input,
        progress, account, history, cancelVars
<1>6. ASSUME NEW o \in Orders, PassOver(o) PROVE Inv'
  BY <1>6, PassOverKeeps
<1>7. ASSUME NEW o \in Orders, NEW q \in 1..wanted[o], SendTaken(o, q) \/ SendNotTaken(o, q)
      PROVE  Inv'
  BY <1>7, SendTakenKeeps, SendNotTakenKeeps
<1>8. CASE SaveHistory
  BY <1>8, <1>r
  DEF SaveHistory, Inv, TypeOK, CancelTypeOK, LedgerFits, Seen, StagesFit, CancelFits, input,
      answers, account, history, cancelVars
<1>9. CASE LoseHistory
  BY <1>9, <1>r
  DEF LoseHistory, Inv, TypeOK, CancelTypeOK, LedgerFits, Seen, StagesFit, CancelFits, input,
      answers, account, history, cancelVars
<1>10. CASE DealOutside
  <2>1. cash' \in Nat /\ held' \in [Tickers -> Nat] /\ outside' \in 0..MaxOutside
    BY <1>10, <1>r, PlansAssumption DEF DealOutside, TypeOK
  <2> QED
    BY <1>10, <1>r, <2>1
    DEF DealOutside, Inv, TypeOK, CancelTypeOK, LedgerFits, Seen, StagesFit, CancelFits, input,
        progress, answers, history, cancelVars
<1>11. ASSUME NEW l \in Lines, Fill(l) PROVE Inv'
  <2>1. /\ book' = [book EXCEPT ![l].state = "filled"] /\ book[l].state = "open"
        /\ UNCHANGED <<input, progress, answers, attempts, held, outside, history, row,
                       saved, cancelVars>>
    BY <1>11 DEF Fill
  <2>2. /\ \A m \in Lines : book'[m].qty = book[m].qty
        /\ \A m \in Lines : book'[m].state = IF m = l THEN "filled" ELSE book[m].state
        /\ book' \in [Lines -> [state : {"none", "open", "filled", "canceled"}, qty : Nat]]
    BY <1>r, <2>1 DEF CancelTypeOK
  <2>3. cash' \in Nat
    <3>1. l[1] \in Orders /\ plan[l[1]].price \in Nat /\ book[l].qty \in Nat /\ cash \in Nat
      BY <1>r, LineIs, PlanIs DEF TypeOK, CancelTypeOK
    <3>2. Worth(l[1], book[l].qty) \in Nat
      BY <3>1, WorthIs
    <3> QED
      BY <1>11, <3>1, <3>2 DEF Fill
  <2>4. LedgerFits'
    BY <1>r, <2>1, <2>2, LineIs DEF LedgerFits, input, progress
  <2>5. Seen' /\ StagesFit'
    BY <1>r, <2>1, <2>2 DEF Seen, StagesFit, progress
  <2>6. CancelFits'
    BY <1>r, <2>1, <2>2 DEF CancelFits, progress, cancelVars
  <2> QED
    BY <1>r, <2>1, <2>2, <2>3, <2>4, <2>5, <2>6
    DEF Inv, TypeOK, CancelTypeOK, input, progress, answers, history, cancelVars
<1>12. CASE CancelNext /\ UNCHANGED <<input, progress, answers, attempts, account, history>>
  <2>1. CancelKeeps
    BY <1>12, <1>r, CancelNextKeeps DEF progress
  <2>2. LedgerFits'
    BY <1>12, <1>r, <2>1, LineIs DEF LedgerFits, CancelKeeps, input, progress
  <2>3. Seen' /\ StagesFit'
    BY <1>12, <1>r, <2>1 DEF Seen, StagesFit, CancelKeeps, progress
  <2> QED
    BY <1>12, <1>r, <2>1, <2>2, <2>3
    DEF Inv, TypeOK, CancelKeeps, input, progress, answers, account, history
<1>13. CASE UNCHANGED vars
  BY <1>13, <1>r
  DEF vars, Inv, TypeOK, CancelTypeOK, LedgerFits, Seen, StagesFit, CancelFits, input,
      progress, answers, account, history, cancelVars
<1> QED
  BY <1>1, <1>2, <1>3, <1>4, <1>5, <1>6, <1>7, <1>8, <1>9, <1>10, <1>11, <1>12, <1>13 DEF Next

LEMMA Invariance == Spec => []Inv
<1>1. Inv /\ [Next]_vars => Inv'
  BY InvStep
<1> QED
  BY InvInit, <1>1, PTL DEF Spec

\* The lines, the account and the requests keep their types; no stage spends
\* cash or sells shares that the broker does not have.
THEOREM ExecutionTyped == Spec => []TypeOK
  BY Invariance, PTL DEF Inv

\* However many orders a plan has and however often calls are repeated, the
\* broker never takes more of an order than the plan says.
THEOREM NothingSentTwice == Spec => []NeverMoreThanPlanned
<1>1. Inv => NeverMoreThanPlanned
  <2> SUFFICES ASSUME Inv, NEW o \in Orders PROVE Taken(o) <= plan[o].qty
    BY DEF NeverMoreThanPlanned
  <2>1. /\ book[<<o, "first">>].qty \in Nat /\ book[<<o, "rest">>].qty \in Nat
        /\ wanted[o] \in Nat /\ plan[o].qty \in Nat
    BY LineIs, PlanIs DEF Inv, TypeOK, CancelTypeOK
  <2>2. /\ o \in todo => book[<<o, "rest">>].qty = 0
        /\ book[<<o, "first">>].qty + (IF o \in todo THEN wanted[o] ELSE book[<<o, "rest">>].qty)
               <= plan[o].qty
    BY DEF Inv, LedgerFits
  <2> QED
    BY <2>1, <2>2 DEF Taken
<1> QED
  BY <1>1, Invariance, PTL

\* Whatever the broker took is in the saved history.
THEOREM HistoryComplete == Spec => []NothingTakenUnseen
<1>1. Inv => NothingTakenUnseen
  BY DEF Inv, Seen, NothingTakenUnseen
<1> QED
  BY <1>1, Invariance, PTL

\* No request, of however many, undoes a cancellation.
THEOREM CancelFinal == Spec => CanceledStays
<1>1. Inv /\ [Next]_vars => [\A l \in Lines : cancel[l] = "CANCELED" => cancel'[l] = "CANCELED"]_cancel
  <2> SUFFICES ASSUME Inv, [Next]_vars, cancel' # cancel
               PROVE  \A l \in Lines : cancel[l] = "CANCELED" => cancel'[l] = "CANCELED"
    OBVIOUS
  <2>1. CancelNext /\ UNCHANGED progress
    BY DEF Next, BeginGroup, GroupFails, NextStage, AskBalance, AskBudget, PassOver, SendTaken,
       SendNotTaken, SaveHistory, LoseHistory, DealOutside, Fill, vars, cancelVars
  <2>2. CancelKeeps
    BY <2>1, CancelNextKeeps DEF progress, Inv, TypeOK
  <2> QED
    BY <2>2 DEF CancelKeeps
<1> QED
  BY <1>1, Invariance, PTL DEF Spec, CanceledStays

\* What the history says of a cancellation is so at the broker, however many
\* requests there are, but for cancellations the app cannot know the outcome of.
THEOREM CancelHonest == Spec => []CancelTellsTheTruth
<1>1. Inv => CancelTellsTheTruth
  BY DEF Inv, CancelFits, CancelTellsTheTruth
<1> QED
  BY <1>1, Invariance, PTL

-----------------------------------------------------------------------------
(* Every share of a buy.                                                    *)

(* What was not yet recorded of an order is still wanted; what TWO_PHASE is *)
(* done with is recorded in full.                                           *)
SharesFit ==
    ~failed =>
        /\ \A o \in todo : IsBuy(o) => row[<<o, "first">>].qty + wanted[o] = plan[o].qty
        /\ strategy = "TWO_PHASE" => \A o \in Orders \ todo : IsBuy(o) =>
               row[<<o, "first">>].qty + row[<<o, "rest">>].qty + row[<<o, "short">>].qty
                   = plan[o].qty
        /\ stage \in {"saving", "saved"} => \A o \in todo : ~IsBuy(o)

LEMMA PlanKept == ASSUME [Next]_vars PROVE plan' = plan
  BY DEF Next, BeginGroup, GroupFails, NextStage, AskBalance, AskBudget, PassOver, SendTaken,
     SendNotTaken, SaveHistory, LoseHistory, DealOutside, Fill, vars, input

LEMMA RecordsShares ==
    ASSUME Inv, SharesFit, NEW o \in Orders, IsNext(o), NEW q \in Nat, q > 0, q <= wanted[o],
           NEW status \in {"SUCCESS", "FAILED"}, Records(o, q, status),
           UNCHANGED <<input, stage, failed>>
    PROVE  SharesFit'
<1>n. /\ o \in todo \ tried /\ stage \in Working /\ (stage \in BuyStages <=> IsBuy(o))
      /\ Line(o) = <<o, IF stage = "first" THEN "first" ELSE "rest">>
      /\ Line(o) \in Lines /\ wanted[o] \in Nat
  BY NextIs
<1>r. /\ row \in [Lines -> [status : {"none", "SUCCESS", "FAILED", "SKIPPED"}, qty : Nat]]
      /\ todo \subseteq Orders /\ wanted \in [Orders -> Nat]
  BY DEF Inv, TypeOK, CancelTypeOK
<1>l. \A p \in Orders : <<p, "first">> \in Lines /\ <<p, "rest">> \in Lines /\ <<p, "short">> \in Lines
  BY LineIs
<1>1. \A p \in Orders : p # o =>
          /\ row'[<<p, "first">>] = row[<<p, "first">>]
          /\ row'[<<p, "rest">>] = row[<<p, "rest">>]
          /\ row'[<<p, "short">>] = row[<<p, "short">>]
          /\ wanted'[p] = wanted[p] /\ (p \in todo' <=> p \in todo)
  BY <1>n, <1>r, <1>l DEF Records
<1>2. /\ plan' = plan /\ strategy' = strategy /\ stage' = stage /\ failed' = failed
      /\ stage \notin {"saving", "saved"}
  BY <1>n DEF input, Working, BuyStages, SellStages
<1>3. ASSUME IsBuy(o), ~failed
      PROVE  /\ o \in todo' => row'[<<o, "first">>].qty + wanted'[o] = plan[o].qty
             /\ strategy = "TWO_PHASE" /\ o \notin todo' =>
                    row'[<<o, "first">>].qty + row'[<<o, "rest">>].qty + row'[<<o, "short">>].qty
                        = plan[o].qty
  <2>1. /\ row[<<o, "rest">>].qty = 0 /\ row[<<o, "short">>].qty = 0
        /\ row[<<o, "first">>].qty + wanted[o] = plan[o].qty
        /\ row[<<o, "first">>].qty \in Nat
        /\ stage = "first" => row[<<o, "first">>].qty = 0
    BY <1>3, <1>n, <1>r, <1>l DEF Inv, LedgerFits, SharesFit
  <2>2. CASE stage = "first"
    <3>1. /\ row'[<<o, "first">>].qty = q
          /\ row'[<<o, "rest">>] = row[<<o, "rest">>] /\ row'[<<o, "short">>] = row[<<o, "short">>]
      BY <1>n, <1>r, <1>l, <2>2 DEF Records
    <3>2. IF q < wanted[o] THEN wanted'[o] = wanted[o] - q ELSE o \notin todo' /\ q = wanted[o]
      BY <1>n, <1>r, <2>2 DEF Records
    <3>3. q < wanted[o] => o \in todo'
      BY <1>n, <2>2 DEF Records
    <3> QED
      BY <1>n, <2>1, <2>2, <3>1, <3>2, <3>3
  <2>3. CASE stage = "buy"
    <3>1. o \notin todo' /\ row'[<<o, "rest">>].qty = q
            /\ row'[<<o, "first">>] = row[<<o, "first">>]
      BY <1>n, <1>r, <1>l, <2>3 DEF Records
    <3>2. strategy = "TWO_PHASE" =>
              row'[<<o, "short">>].qty = IF q < wanted[o] THEN wanted[o] - q ELSE 0
      BY <1>n, <1>r, <1>l, <2>1, <2>3 DEF Records
    <3> QED
      BY <1>n, <2>1, <3>1, <3>2
  <2> QED
    BY <1>3, <1>n, <2>2, <2>3 DEF BuyStages
<1>4. ASSUME ~failed, NEW p \in Orders, IsBuy(p)
      PROVE  /\ p \in todo' => row'[<<p, "first">>].qty + wanted'[p] = plan[p].qty
             /\ strategy = "TWO_PHASE" /\ p \notin todo' =>
                    row'[<<p, "first">>].qty + row'[<<p, "rest">>].qty
                        + row'[<<p, "short">>].qty = plan[p].qty
  <2>1. CASE p = o
    BY <1>3, <1>4, <2>1
  <2>2. CASE p # o
    BY <1>1, <1>4, <1>r, <2>2 DEF SharesFit
  <2> QED
    BY <2>1, <2>2
<1>5. todo' \subseteq Orders
  BY <1>r DEF Records
<1>6. \A p \in Orders : IsBuy(p)' <=> IsBuy(p)
  BY <1>2 DEF IsBuy
<1>7. (stage \in {"saving", "saved"})' <=> FALSE
  BY <1>2
<1>8. ASSUME ~failed, strategy = "TWO_PHASE"
      PROVE  \A p \in Orders \ todo' : IsBuy(p) =>
                 row'[<<p, "first">>].qty + row'[<<p, "rest">>].qty + row'[<<p, "short">>].qty
                     = plan[p].qty
  BY <1>4, <1>8
<1>9. ASSUME ~failed
      PROVE  \A p \in todo' : IsBuy(p) => row'[<<p, "first">>].qty + wanted'[p] = plan[p].qty
  BY <1>4, <1>5, <1>9
<1>10. ~failed' =>
          /\ \A p \in todo' : IsBuy(p) => row'[<<p, "first">>].qty + wanted'[p] = plan'[p].qty
          /\ strategy' = "TWO_PHASE" => \A p \in Orders \ todo' : IsBuy(p) =>
                 row'[<<p, "first">>].qty + row'[<<p, "rest">>].qty + row'[<<p, "short">>].qty
                     = plan'[p].qty
          /\ stage' \in {"saving", "saved"} => \A p \in todo' : ~IsBuy(p)
  BY <1>2, <1>7, <1>8, <1>9
<1> QED
  BY <1>5, <1>6, <1>10 DEF SharesFit

LEMMA SharesStep == ASSUME Inv, SharesFit, [Next]_vars PROVE SharesFit'
<1>p. plan' = plan
  BY PlanKept
<1>r. TypeOK /\ CancelTypeOK /\ StagesFit
  BY DEF Inv, TypeOK
<1>0. ASSUME UNCHANGED <<todo, wanted, row, strategy, failed>>,
             stage' \in {"saving", "saved"} => stage \in {"saving", "saved"}
      PROVE  SharesFit'
  BY <1>0, <1>p DEF SharesFit, IsBuy
<1>1. CASE BeginGroup
  <2>1. /\ todo = Orders /\ todo' = Orders \ blocked /\ UNCHANGED <<wanted, failed>>
        /\ stage = "start" /\ stage' \notin {"saving", "saved"}
    BY <1>1, <1>r DEF BeginGroup, StagesFit, history
  <2>2. \A l \in Lines : row'[l] = IF l[1] \in blocked /\ l[2] = "rest"
                                     THEN [status |-> "SKIPPED", qty |-> plan[l[1]].qty]
                                     ELSE row[l]
    BY <1>1 DEF BeginGroup
  <2>3. \A o \in Orders : /\ row'[<<o, "first">>] = row[<<o, "first">>]
                          /\ row'[<<o, "short">>] = row[<<o, "short">>]
                          /\ o \in blocked => row'[<<o, "rest">>].qty = plan[o].qty
    <3> SUFFICES ASSUME NEW o \in Orders
                 PROVE  /\ row'[<<o, "first">>] = row[<<o, "first">>]
                        /\ row'[<<o, "short">>] = row[<<o, "short">>]
                        /\ o \in blocked => row'[<<o, "rest">>].qty = plan[o].qty
      OBVIOUS
    <3>1. <<o, "first">> \in Lines /\ <<o, "rest">> \in Lines /\ <<o, "short">> \in Lines
      BY LineIs
    <3>2. /\ row'[<<o, "first">>] = row[<<o, "first">>]
          /\ row'[<<o, "short">>] = row[<<o, "short">>]
      BY <2>2, <3>1
    <3>3. o \in blocked => row'[<<o, "rest">>] = [status |-> "SKIPPED", qty |-> plan[o].qty]
      BY <2>2, <3>1
    <3> QED
      BY <3>2, <3>3
  <2>4. \A o \in Orders : /\ row[<<o, "first">>].qty = 0 /\ row[<<o, "short">>].qty = 0
                          /\ plan[o].qty \in Nat
    BY <1>r, <2>1, PlanIs DEF Inv, LedgerFits, StagesFit
  <2> SUFFICES ASSUME ~failed, NEW o \in Orders, plan[o].side = "BUY"
               PROVE  /\ o \in todo' => row'[<<o, "first">>].qty + wanted'[o] = plan[o].qty
                      /\ o \notin todo' => row'[<<o, "first">>].qty + row'[<<o, "rest">>].qty
                             + row'[<<o, "short">>].qty = plan[o].qty
    BY <1>p, <2>1 DEF SharesFit, IsBuy
  <2>5. row[<<o, "first">>].qty + wanted[o] = plan[o].qty
    BY <2>1 DEF SharesFit, IsBuy
  <2> QED
    BY <2>1, <2>3, <2>4, <2>5
<1>2. CASE GroupFails
  BY <1>2 DEF GroupFails, SharesFit
<1>3. CASE NextStage
  <2>1. UNCHANGED <<todo, wanted, row, strategy, failed>>
    BY <1>3 DEF NextStage, input, history
  <2>2. CASE stage' \notin {"saving", "saved"}
    BY <1>0, <2>1, <2>2
  <2>3. CASE stage' \in {"saving", "saved"}
    <3>1. stage = "buy" /\ Pending = {} /\ tried = {}
      BY <1>3, <1>r, <2>3 DEF NextStage, StagesFit, Working, BuyStages, SellStages
    <3>2. \A o \in todo : ~IsBuy(o)
      BY <3>1 DEF Pending, Concerns, BuyStages
    <3> QED
      BY <1>p, <2>1, <3>2 DEF SharesFit, IsBuy
  <2> QED
    BY <2>2, <2>3
<1>4. CASE AskBalance \/ AskBudget \/ DealOutside
  BY <1>0, <1>4 DEF AskBalance, AskBudget, DealOutside, input, progress, history
<1>5. ASSUME NEW o \in Orders, PassOver(o) PROVE SharesFit'
  <2>n. /\ o \in todo \ tried /\ stage \in Working /\ (stage \in BuyStages <=> IsBuy(o))
        /\ Line(o) = <<o, IF stage = "first" THEN "first" ELSE "rest">>
        /\ wanted[o] \in Nat
    BY <1>5, NextIs DEF PassOver
  <2>1. UNCHANGED <<strategy, failed, stage, wanted>>
    BY <1>5 DEF PassOver, input, history
  <2>2. CASE stage = "first"
    BY <1>0, <1>5, <2>1, <2>2 DEF PassOver
  <2>3. CASE stage # "first"
    <3>1. /\ todo' = todo \ {o}
          /\ row' = [row EXCEPT ![<<o, "rest">>] = [status |-> "SKIPPED", qty |-> wanted[o]]]
      BY <1>5, <2>n, <2>3 DEF PassOver
    <3>2. \A p \in Orders :
              /\ row'[<<p, "first">>] = row[<<p, "first">>] /\ row'[<<p, "short">>] = row[<<p, "short">>]
              /\ p # o => row'[<<p, "rest">>] = row[<<p, "rest">>]
              /\ row'[<<o, "rest">>].qty = wanted[o]
      BY <1>r, <3>1, LineIs DEF CancelTypeOK
    <3>3. row[<<o, "short">>].qty = 0 /\ row[<<o, "first">>].qty \in Nat
      BY <1>r, <2>n, LineIs DEF Inv, LedgerFits, CancelTypeOK
    <3>4. IsBuy(o) /\ ~failed =>
              row'[<<o, "first">>].qty + row'[<<o, "rest">>].qty + row'[<<o, "short">>].qty
                  = plan[o].qty
      BY <2>n, <3>2, <3>3 DEF SharesFit
    <3>5. stage \notin {"saving", "saved"} /\ todo \subseteq Orders
      BY <1>r, <2>n DEF Working, BuyStages, SellStages, TypeOK
    <3> QED
      BY <1>p, <2>1, <3>1, <3>2, <3>4, <3>5 DEF SharesFit, IsBuy
  <2> QED
    BY <2>2, <2>3
<1>6. ASSUME NEW o \in Orders, NEW q \in 1..wanted[o], SendTaken(o, q) \/ SendNotTaken(o, q)
      PROVE  SharesFit'
  <2>1. IsNext(o) /\ Answered /\ q = Fitted(o) /\ q > 0 /\ q \in Nat
    BY <1>6, NextIs DEF SendTaken, SendNotTaken, Sending
  <2>2. q <= wanted[o]
    BY <2>1, FittedFits
  <2>3. PICK answer \in {"taken", "refused", "throttled", "lost"} : Ends(o, q, answer)
    BY <1>6 DEF SendTaken, SendNotTaken
  <2>4. UNCHANGED <<input, failed>>
    BY <1>6 DEF SendTaken, SendNotTaken, history
  <2>5. CASE SentAgain(answer)
    BY <1>0, <2>3, <2>4, <2>5 DEF Ends, progress, input
  <2>6. CASE ~SentAgain(answer)
    <3>1. PICK status \in {"SUCCESS", "FAILED"} : Records(o, q, status) /\ stage' = stage
      BY <2>3, <2>6 DEF Ends
    <3> QED
      BY <2>1, <2>2, <2>4, <3>1, RecordsShares
  <2> QED
    BY <2>5, <2>6
<1>7. CASE SaveHistory
  BY <1>0, <1>7 DEF SaveHistory, input, history
<1>8. CASE LoseHistory
  BY <1>0, <1>8 DEF LoseHistory, input, history
<1>9. ASSUME NEW l \in Lines, Fill(l) PROVE SharesFit'
  BY <1>0, <1>9 DEF Fill, input, progress, history
<1>10. CASE CancelNext /\ UNCHANGED <<input, progress, answers, attempts, account, history>>
  <2>1. row' = row
    BY <1>10, <1>r, CancelNextKeeps DEF Inv, CancelKeeps, progress
  <2> QED
    BY <1>0, <1>10, <2>1 DEF input, progress, history
<1>11. CASE UNCHANGED vars
  BY <1>0, <1>11 DEF vars, input, progress, history
<1> QED
  BY <1>1, <1>2, <1>3, <1>4, <1>5, <1>6, <1>7, <1>8, <1>9, <1>10, <1>11 DEF Next

\* Every share of a buy of TWO_PHASE is in the saved history, in one of three
\* lines at most, whatever was sent, refused, lost or could not be afforded.
THEOREM NoShareForgotten == Spec => []EveryShareAccounted
<1>1. Init => SharesFit
  <2> SUFFICES ASSUME Init PROVE SharesFit
    OBVIOUS
  <2>1. \A o \in Orders : plan[o].qty \in Nat /\ wanted[o] = plan[o].qty /\ row[<<o, "first">>].qty = 0
    BY InvInit, LineIs, PlanIs DEF Init, Inv
  <2> QED
    BY <2>1 DEF Init, SharesFit
<1>2. Inv /\ SharesFit /\ [Next]_vars => SharesFit'
  BY SharesStep
<1>3. Inv /\ SharesFit => EveryShareAccounted
  BY DEF Inv, CancelFits, SharesFit, EveryShareAccounted
<1> QED
  BY <1>1, <1>2, <1>3, Invariance, PTL DEF Spec
-----------------------------------------------------------------------------
(* Refusals for want of means.                                              *)

\* The causes of SurpriseHasCause that are not about one sale.
Priceless == \E o \in Orders : IsBuy(o) /\ plan[o].price = 0
Uncounted ==
    strategy = "TWO_PHASE"
      /\ \E m \in Lines : IsBuy(m[1]) /\ row[m].status = "FAILED" /\ book[m].qty > 0
Shared(o) == \E p \in Orders \ {o} : ~IsBuy(p) /\ plan[p].ticker = plan[o].ticker

(* Without a cause, the broker still has what it named for what is to come. *)
BudgetFits ==
    outside > 0 \/ Priceless \/ Uncounted \/ budget \in {Unasked, NoLimit} \/ budget <= cash

BalanceFits ==
    outside > 0 \/ balance \in {Unasked, NoLimit}
      \/ \A o \in todo : ~IsBuy(o) /\ ~Shared(o) =>
             balance[plan[o].ticker] <= held[plan[o].ticker]

MeansFit == BudgetFits /\ BalanceFits /\ SurpriseHasCause

LEMMA CauseIs ==
    ASSUME TypeOK
    PROVE  SurpriseHasCause <=>
             \A l \in surprises : \/ outside > 0
                                  \/ ~IsBuy(l[1]) /\ Shared(l[1])
                                  \/ IsBuy(l[1]) /\ (Priceless \/ Uncounted)
  BY DEF SurpriseHasCause, Shared, Priceless, Uncounted

\* No line the broker took is written again, so a cause stays one.
LEMMA CausesStay ==
    ASSUME Inv, plan' = plan, strategy' = strategy,
           \A l \in Lines : book[l].qty > 0 => row'[l] = row[l] /\ book'[l].qty > 0
    PROVE  Uncounted => Uncounted'
  BY DEF Uncounted, IsBuy

LEMMA CausesSame ==
    ASSUME plan' = plan
    PROVE  /\ Priceless' <=> Priceless
           /\ \A o \in Orders : (IsBuy(o)' <=> IsBuy(o)) /\ (Shared(o)' <=> Shared(o))
  BY DEF Priceless, Shared, IsBuy

\* Nothing is asked anew but from the broker, and what it has does not shrink.
LEMMA BudgetKept ==
    ASSUME Inv, Inv', BudgetFits, plan' = plan, Uncounted => Uncounted',
           outside' = outside \/ outside' > 0,
           \/ outside' > 0 \/ budget' \in {Unasked, NoLimit}
           \/ budget' <= cash'
           \/ budget' = budget /\ cash <= cash'
    PROVE  BudgetFits'
<1>1. budget \in Nat \cup {Unasked, NoLimit} /\ cash \in Nat /\ cash' \in Nat
  BY DEF Inv, TypeOK
<1> SUFFICES ASSUME outside' = outside, ~(outside > 0), ~Priceless, ~Uncounted,
                    budget' = budget, cash <= cash', budget \notin {Unasked, NoLimit}
             PROVE  budget' <= cash'
  BY CausesSame DEF BudgetFits
<1>2. budget <= cash /\ budget \in Nat
  BY <1>1 DEF BudgetFits
<1> QED
  BY <1>1, <1>2

LEMMA BalanceKept ==
    ASSUME Inv, Inv', BalanceFits, plan' = plan,
           outside' = outside \/ outside' > 0,
           \/ outside' > 0 \/ balance' \in {Unasked, NoLimit} \/ balance' = held'
           \/ balance' = balance /\ held' = held /\ todo' \subseteq todo
    PROVE  BalanceFits'
<1>1. /\ held' \in [Tickers -> Nat] /\ todo \subseteq Orders /\ todo' \subseteq Orders
      /\ \A o \in Orders : plan[o].ticker \in Tickers
  BY PlanIs DEF Inv, TypeOK
<1>2. CASE outside' > 0 \/ balance' \in {Unasked, NoLimit} \/ balance' = held'
  BY <1>1, <1>2 DEF BalanceFits
<1>3. CASE outside' = outside /\ balance' = balance /\ held' = held /\ todo' \subseteq todo
  BY <1>1, <1>3, CausesSame DEF BalanceFits
<1> QED
  BY <1>2, <1>3

LEMMA CauseKept ==
    ASSUME Inv, Inv', SurpriseHasCause, plan' = plan, Uncounted => Uncounted',
           outside' = outside \/ outside' > 0,
           \A l \in surprises' \ surprises : \/ outside' > 0
                                             \/ ~IsBuy(l[1]) /\ Shared(l[1])
                                             \/ IsBuy(l[1]) /\ (Priceless \/ Uncounted)
    PROVE  SurpriseHasCause'
<1>t. TypeOK /\ surprises' \subseteq Lines
  BY DEF Inv, TypeOK
<1>1. \A l \in surprises' : \/ outside' > 0
                            \/ ~IsBuy(l[1])' /\ Shared(l[1])'
                            \/ IsBuy(l[1])' /\ (Priceless' \/ Uncounted')
  <2> SUFFICES ASSUME NEW l \in surprises', ~(outside' > 0)
               PROVE  \/ ~IsBuy(l[1])' /\ Shared(l[1])'
                      \/ IsBuy(l[1])' /\ (Priceless' \/ Uncounted')
    OBVIOUS
  <2>1. l[1] \in Orders
    BY <1>t, LineIs
  <2>2. \/ ~IsBuy(l[1]) /\ Shared(l[1])
        \/ IsBuy(l[1]) /\ (Priceless \/ Uncounted)
    BY <1>t, CauseIs
  <2> QED
    BY CausesSame, <2>1, <2>2
<1> QED
  BY <1>1 DEF SurpriseHasCause, Shared, Priceless, Uncounted

\* The line of an order that goes out is new; the others stay.
LEMMA WritesNew ==
    ASSUME Inv, NEW o \in Orders, IsNext(o), NEW q \in Nat, NEW status, Records(o, q, status)
    PROVE  \A l \in Lines : book[l].qty > 0 => l # Line(o) /\ row'[l] = row[l]
<1>n. Line(o) \in Lines /\ book[Line(o)].qty = 0 /\ o \in todo
  BY NextIs
<1>s. <<o, "short">> \in Lines /\ book[<<o, "short">>].qty = 0
  BY LineIs DEF Inv, LedgerFits
<1>r. row \in [Lines -> [status : {"none", "SUCCESS", "FAILED", "SKIPPED"}, qty : Nat]]
  BY DEF Inv, TypeOK, CancelTypeOK
<1> SUFFICES ASSUME NEW l \in Lines, book[l].qty > 0 PROVE l # Line(o) /\ row'[l] = row[l]
  OBVIOUS
<1>1. l # Line(o) /\ l # <<o, "short">>
  BY <1>n, <1>s
<1> QED
  BY <1>n, <1>s, <1>r, <1>1 DEF Records

LEMMA SentIs ==
    ASSUME Inv, NEW o \in Orders, NEW q \in Nat, Sending(o, q)
    PROVE  /\ q > 0 /\ q <= wanted[o]
           /\ IsBuy(o) /\ budget # NoLimit =>
                  budget \in Nat /\ q * plan[o].price \in Nat /\ q * plan[o].price <= budget
           /\ ~IsBuy(o) /\ balance # NoLimit =>
                  balance \in [Tickers -> Nat] /\ q <= balance[plan[o].ticker]
  BY FittedFits DEF Sending

LEMMA TakenMeans ==
    ASSUME Inv, Inv', MeansFit, NEW o \in Orders, NEW q \in Nat, SendTaken(o, q)
    PROVE  MeansFit'
<1>n. /\ Line(o) \in Lines /\ Line(o)[1] = o /\ book[Line(o)].qty = 0
      /\ o \in todo /\ (stage \in BuyStages <=> IsBuy(o)) /\ IsNext(o) /\ q > 0
  BY NextIs DEF SendTaken, Sending
<1>t. /\ cash \in Nat /\ cash' \in Nat /\ held \in [Tickers -> Nat] /\ todo \subseteq Orders
      /\ plan[o].price \in Nat /\ plan[o].ticker \in Tickers
      /\ book \in [Lines -> [state : {"none", "open", "filled", "canceled"}, qty : Nat]]
      /\ row \in [Lines -> [status : {"none", "SUCCESS", "FAILED", "SKIPPED"}, qty : Nat]]
  BY PlanIs DEF Inv, TypeOK, CancelTypeOK
<1>u. UNCHANGED <<plan, strategy, outside, balance, surprises>>
  BY DEF SendTaken, input, history
<1>k. Takes(o, q)
  BY DEF SendTaken
<1>s. PICK status \in {"SUCCESS", "FAILED"} : Records(o, q, status)
  BY DEF SendTaken, Ends, SentAgain
<1>b. book'[Line(o)].qty = q /\ \A l \in Lines : l # Line(o) => book'[l] = book[l]
  BY <1>k, <1>n, <1>t DEF Takes
<1>1. Uncounted => Uncounted'
  BY <1>b, <1>n, <1>s, <1>u, WritesNew, CausesStay
<1>2. BudgetFits'
  <2>1. CASE ~IsBuy(o)
    <3>1. cash' = cash /\ budget' = budget
      BY <1>k, <1>s, <2>1 DEF Takes, Records, BudgetLeft
    <3> QED
      BY <1>1, <1>t, <1>u, <3>1, BudgetKept DEF MeansFit
  <2>2. CASE IsBuy(o) /\ budget = NoLimit
    BY <1>s, <2>2 DEF Records, BudgetLeft, BudgetFits
  <2>3. CASE Priceless
    BY <1>u, <2>3, CausesSame DEF BudgetFits
  <2>4. CASE IsBuy(o) /\ budget # NoLimit /\ ~Priceless
    <3>1. plan[o].price > 0
      BY <1>t, <2>4 DEF Priceless
    <3>2. budget \in Nat /\ q * plan[o].price \in Nat /\ q * plan[o].price <= budget
      BY <2>4, SentIs DEF SendTaken
    <3>3. Worth(o, q) = q * plan[o].price
      BY <1>t, <3>1, WorthIs
    <3>4. cash' = cash \/ cash' = cash - q * plan[o].price
      BY <1>k, <3>3 DEF Takes
    <3>5. CASE strategy = "FULL" \/ status = "SUCCESS"
      <4>1. budget' = budget - q * plan[o].price
        BY <1>s, <2>4, <3>5 DEF Records, BudgetLeft
      <4> HIDE DEF Worth
      <4> DEFINE cost == q * plan[o].price
      <4>2. cost \in Nat /\ budget' = budget - cash + cash - cost /\ (cash' = cash \/ cash' = cash - cost)
        BY <1>t, <3>2, <3>4, <4>1
      <4> HIDE DEF cost
      <4>3. budget <= cash => budget' <= cash'
        BY <1>t, <3>2, <4>2
      <4>4. budget \notin {Unasked, NoLimit}
        BY <3>2, PlansAssumption
      <4> QED
        BY <1>1, <1>u, <4>3, <4>4, CausesSame DEF MeansFit, BudgetFits
    <3>6. CASE ~(strategy = "FULL" \/ status = "SUCCESS")
      <4>1. strategy = "TWO_PHASE" /\ status = "FAILED"
        BY <3>6 DEF Inv, TypeOK
      <4>2. row'[Line(o)].status = "FAILED"
        <5>1. Line(o) # <<o, "short">> /\ <<o, "short">> \in Lines
          BY LineIs DEF Line
        <5> QED
          BY <1>s, <1>n, <1>t, <4>1, <5>1 DEF Records
      <4>3. IsBuy(o)'
        BY <1>u, <2>4 DEF IsBuy
      <4>4. Uncounted'
        BY <1>n, <1>b, <1>u, <4>1, <4>2, <4>3 DEF Uncounted
      <4> QED
        BY <4>4 DEF BudgetFits
    <3> QED
      BY <3>5, <3>6
  <2> QED
    BY <2>1, <2>2, <2>3, <2>4
<1>3. BalanceFits'
  <2>1. todo' \subseteq todo
    BY <1>s DEF Records
  <2>2. CASE IsBuy(o)
    <3>1. held' = held
      BY <1>k, <2>2 DEF Takes
    <3> QED
      BY <1>u, <2>1, <3>1, BalanceKept DEF MeansFit
  <2>3. CASE ~IsBuy(o)
    <3>1. o \notin todo' /\ held' = [held EXCEPT ![plan[o].ticker] = @ - q]
      BY <1>k, <1>n, <1>s, <2>3 DEF Takes, Records, BuyStages
    <3>2. \A p \in todo' : ~IsBuy(p) /\ ~Shared(p) =>
              p \in todo /\ held'[plan[p].ticker] = held[plan[p].ticker]
      <4> SUFFICES ASSUME NEW p \in todo', ~IsBuy(p), ~Shared(p)
                   PROVE  p \in todo /\ held'[plan[p].ticker] = held[plan[p].ticker]
        OBVIOUS
      <4>1. p \in Orders /\ p # o
        BY <1>t, <2>1, <3>1
      <4>2. plan[p].ticker # plan[o].ticker /\ plan[p].ticker \in Tickers
        BY <2>3, <4>1, PlanIs DEF Shared, Inv
      <4> QED
        BY <1>t, <2>1, <3>1, <4>2
    <3>3. \A p \in todo' : p \in Orders
      BY <1>t, <2>1
    <3> QED
      BY <1>u, <3>2, <3>3, CausesSame DEF MeansFit, BalanceFits
  <2> QED
    BY <2>2, <2>3
<1>4. SurpriseHasCause'
  BY <1>1, <1>u, CauseKept DEF MeansFit
<1> QED
  BY <1>2, <1>3, <1>4 DEF MeansFit

LEMMA NotTakenMeans ==
    ASSUME Inv, Inv', MeansFit, NEW o \in Orders, NEW q \in Nat, SendNotTaken(o, q)
    PROVE  MeansFit'
<1>n. /\ Line(o) \in Lines /\ Line(o)[1] = o /\ o \in todo /\ IsNext(o) /\ q > 0
  BY NextIs DEF SendNotTaken, Sending
<1>t. /\ cash \in Nat /\ held \in [Tickers -> Nat]
      /\ plan[o].price \in Nat /\ plan[o].ticker \in Tickers
  BY PlanIs DEF Inv, TypeOK
<1>u. UNCHANGED <<plan, strategy, outside, balance, cash, held, book>>
  BY DEF SendNotTaken, input, account
<1>e. PICK answer \in {"refused", "throttled", "lost"} : Ends(o, q, answer)
  BY DEF SendNotTaken
<1>1. Uncounted => Uncounted'
  <2>1. CASE SentAgain(answer)
    BY <1>e, <1>u, <2>1, CausesStay DEF Ends
  <2>2. CASE ~SentAgain(answer)
    BY <1>e, <1>n, <1>u, <2>2, WritesNew, CausesStay DEF Ends
  <2> QED
    BY <2>1, <2>2
<1>2. BudgetFits'
  <2>1. CASE budget' = budget
    BY <1>1, <1>t, <1>u, <2>1, BudgetKept DEF MeansFit
  <2>2. CASE budget' # budget
    <3>1. IsBuy(o) /\ budget # NoLimit /\ budget' = budget - q * plan[o].price
      BY <1>e, <2>2 DEF Ends, Records, BudgetLeft
    <3>2. budget \in Nat /\ q * plan[o].price \in Nat /\ budget' <= budget
      BY <3>1, SentIs DEF SendNotTaken
    <3>3. budget' \in Nat /\ budget \notin {Unasked, NoLimit}
      BY <3>1, <3>2, SentIs, PlansAssumption DEF SendNotTaken
    <3>4. budget <= cash => budget' <= cash'
      BY <1>t, <1>u, <3>2, <3>3
    <3> QED
      BY <1>1, <1>u, <3>3, <3>4, CausesSame DEF MeansFit, BudgetFits
  <2> QED
    BY <2>1, <2>2
<1>3. BalanceFits'
  <2>1. todo' \subseteq todo
    BY <1>e DEF Ends, Records, progress
  <2> QED
    BY <1>u, <2>1, BalanceKept DEF MeansFit
<1>4. SurpriseHasCause'
  <2>1. CASE ~Surprising(o, q)
    BY <1>1, <1>u, <2>1, CauseKept DEF MeansFit, SendNotTaken
  <2>2. CASE Surprising(o, q) /\ IsBuy(o)
    <3>1. budget # NoLimit /\ ~IsOverseas(o) /\ ~(Worth(o, q) <= cash)
      BY <2>2 DEF Surprising, HasMeans
    <3>2. budget \in Nat /\ q * plan[o].price \in Nat /\ q * plan[o].price <= budget
      BY <2>2, <3>1, SentIs DEF SendNotTaken
    <3>3. ASSUME ~Priceless PROVE ~(budget <= cash)
      <4>1. plan[o].price > 0
        BY <1>t, <2>2, <3>3 DEF Priceless
      <4>2. Worth(o, q) = q * plan[o].price
        BY <1>t, <4>1, WorthIs
      <4> DEFINE cost == q * plan[o].price
      <4>3. cost \in Nat /\ cost <= budget /\ ~(cost <= cash)
        BY <3>1, <3>2, <4>2
      <4> HIDE DEF cost
      <4> QED
        BY <1>t, <3>2, <4>3
    <3>4. outside > 0 \/ Priceless \/ Uncounted
      BY <3>2, <3>3, PlansAssumption DEF MeansFit, BudgetFits
    <3>5. \A l \in surprises' \ surprises : l[1] = o
      BY <1>n DEF SendNotTaken
    <3> QED
      BY <1>1, <1>n, <1>u, <2>2, <3>4, <3>5, CauseKept DEF MeansFit
  <2>3. CASE Surprising(o, q) /\ ~IsBuy(o)
    <3>1. balance # NoLimit /\ ~(q <= held[plan[o].ticker])
      BY <2>3 DEF Surprising, HasMeans
    <3>2. balance \in [Tickers -> Nat] /\ q <= balance[plan[o].ticker]
      BY <2>3, <3>1, SentIs DEF SendNotTaken
    <3>3. ~(balance[plan[o].ticker] <= held[plan[o].ticker])
      BY <1>t, <3>1, <3>2
    <3>4. outside > 0 \/ Shared(o)
      BY <1>n, <2>3, <3>2, <3>3, PlansAssumption DEF MeansFit, BalanceFits
    <3>5. \A l \in surprises' \ surprises : l[1] = o
      BY <1>n DEF SendNotTaken
    <3> QED
      BY <1>1, <1>n, <1>u, <2>3, <3>4, <3>5, CauseKept DEF MeansFit
  <2> QED
    BY <2>1, <2>2, <2>3
<1> QED
  BY <1>2, <1>3, <1>4 DEF MeansFit

LEMMA MeansStep == ASSUME Inv, Inv', MeansFit, [Next]_vars PROVE MeansFit'
<1>p. plan' = plan
  BY PlanKept
<1>t. /\ cash \in Nat /\ outside \in Nat
      /\ book \in [Lines -> [state : {"none", "open", "filled", "canceled"}, qty : Nat]]
      /\ row \in [Lines -> [status : {"none", "SUCCESS", "FAILED", "SKIPPED"}, qty : Nat]]
  BY DEF Inv, TypeOK, CancelTypeOK
<1>0. ASSUME Uncounted => Uncounted', UNCHANGED <<outside, surprises>>,
             \/ UNCHANGED budget /\ cash <= cash'
             \/ budget' \in {Unasked, NoLimit} \/ budget' <= cash',
             \/ UNCHANGED <<balance, held>> /\ todo' \subseteq todo
             \/ balance' \in {Unasked, NoLimit} \/ balance' = held'
      PROVE  MeansFit'
  <2>1. BudgetFits'
    BY <1>0, <1>p, BudgetKept DEF MeansFit
  <2>2. BalanceFits'
    BY <1>0, <1>p, BalanceKept DEF MeansFit
  <2>3. SurpriseHasCause'
    BY <1>0, <1>p, CauseKept DEF MeansFit
  <2> QED
    BY <2>1, <2>2, <2>3 DEF MeansFit
<1>1. CASE BeginGroup \/ GroupFails
  <2>1. \A l \in Lines : book[l].qty = 0
    <3>1. stage = "start" /\ todo = Orders /\ tried = {}
      BY <1>1 DEF BeginGroup, GroupFails, Inv, StagesFit
    <3>2. \A o \in Orders : \A part \in Parts : book[<<o, part>>].qty = 0
      BY <3>1 DEF Inv, LedgerFits, Parts
    <3> QED
      BY <3>2, LineIs
  <2>2. ~Uncounted
    BY <2>1, <1>t DEF Uncounted
  <2>3. UNCHANGED <<outside, surprises, cash, budget, balance, held>>
    BY <1>1 DEF BeginGroup, GroupFails, account, answers, history
  <2>4. todo' \subseteq todo
    BY <1>1 DEF BeginGroup, GroupFails, Inv, StagesFit
  <2> QED
    BY <1>0, <1>t, <2>2, <2>3, <2>4
<1>2. CASE NextStage
  BY <1>0, <1>2, <1>t DEF NextStage, input, account, history, Uncounted, IsBuy
<1>3. CASE AskBalance
  BY <1>0, <1>3, <1>t DEF AskBalance, input, account, history, Uncounted, IsBuy
<1>4. CASE AskBudget
  <2>1. budget' = NoLimit \/ budget' <= cash'
    BY <1>4, <1>t DEF AskBudget, Budgets, account
  <2>2. UNCHANGED <<outside, surprises, balance, held, todo>>
    BY <1>4 DEF AskBudget, account, history, progress
  <2>3. Uncounted => Uncounted'
    BY <1>4 DEF AskBudget, input, Uncounted, IsBuy
  <2> QED
    BY <1>0, <2>1, <2>2, <2>3
<1>5. ASSUME NEW o \in Orders, PassOver(o) PROVE MeansFit'
  <2>1. Line(o) \in Lines /\ book[Line(o)].qty = 0
    BY <1>5, NextIs DEF PassOver
  <2>2. \A l \in Lines : book[l].qty > 0 => row'[l] = row[l] /\ book'[l].qty > 0
    BY <1>5, <1>t, <2>1 DEF PassOver
  <2>3. Uncounted => Uncounted'
    BY <1>5, <1>p, <2>2, CausesStay DEF PassOver, input
  <2> QED
    BY <1>0, <1>5, <1>t, <2>3 DEF PassOver, answers, account, history
<1>6. ASSUME NEW o \in Orders, NEW q \in 1..wanted[o], SendTaken(o, q) \/ SendNotTaken(o, q)
      PROVE  MeansFit'
  <2>1. q \in Nat
    BY <1>6 DEF Inv, TypeOK
  <2> QED
    BY <1>6, <2>1, TakenMeans, NotTakenMeans
<1>7. CASE SaveHistory \/ LoseHistory
  BY <1>0, <1>7, <1>t DEF SaveHistory, LoseHistory, input, answers, account, history, Uncounted, IsBuy
<1>8. CASE DealOutside
  <2>1. outside' > 0
    BY <1>8, <1>t DEF DealOutside
  <2>2. surprises' = surprises /\ (Uncounted => Uncounted')
    BY <1>8 DEF DealOutside, input, history, Uncounted, IsBuy
  <2> QED
    BY <1>p, <2>1, <2>2, BudgetKept, BalanceKept, CauseKept DEF MeansFit
<1>9. ASSUME NEW l \in Lines, Fill(l) PROVE MeansFit'
  <2>1. \A m \in Lines : book'[m].qty = book[m].qty
    BY <1>9, <1>t DEF Fill
  <2>2. Uncounted => Uncounted'
    BY <1>9, <1>p, <2>1, CausesStay DEF Fill, input
  <2>3. cash <= cash'
    <3>1. l[1] \in Orders /\ book[l].qty \in Nat
      BY <1>t, LineIs
    <3>2. Worth(l[1], book[l].qty) \in Nat
      BY <3>1, WorthIs, PlanIs DEF Inv
    <3> QED
      BY <1>9, <1>t, <3>2 DEF Fill
  <2> QED
    BY <1>0, <1>9, <2>2, <2>3 DEF Fill, answers, progress, history
<1>10. CASE CancelNext /\ UNCHANGED <<input, progress, answers, attempts, account, history>>
  <2>1. row' = row /\ \A l \in Lines : book'[l].qty = book[l].qty
    BY <1>10, CancelNextKeeps DEF Inv, TypeOK, CancelKeeps, progress
  <2>2. Uncounted => Uncounted'
    BY <1>10, <2>1, CausesStay DEF input
  <2> QED
    BY <1>0, <1>10, <1>t, <2>2 DEF progress, answers, account, history
<1>11. CASE UNCHANGED vars
  BY <1>0, <1>11, <1>t DEF vars, input, progress, answers, account, history, Uncounted, IsBuy
<1> QED
  BY <1>1, <1>2, <1>3, <1>4, <1>5, <1>6, <1>7, <1>8, <1>9, <1>10, <1>11 DEF Next

\* An order within what the broker has just named is refused for want of means
\* only for one of the causes, however many orders share the account.
THEOREM RefusalsExplained == Spec => []SurpriseHasCause
<1>1. Init => MeansFit
  BY DEF Init, MeansFit, BudgetFits, BalanceFits, SurpriseHasCause
<1>2. Inv /\ Inv' /\ MeansFit /\ [Next]_vars => MeansFit'
  BY MeansStep
<1>3. MeansFit => SurpriseHasCause
  BY DEF MeansFit
<1> QED
  BY <1>1, <1>2, <1>3, Invariance, PTL DEF Spec
=============================================================================
