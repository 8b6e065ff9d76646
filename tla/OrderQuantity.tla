--------------------------- MODULE OrderQuantity ---------------------------
(***************************************************************************)
(* Quantities and prices of one order, as they are right before it is sent: *)
(*   services/rebalancing/_order_quantity_guard.py and krx_tick.py.         *)
(* A price of 0 is one nobody knows: a market order without reference.      *)
(***************************************************************************)
EXTENDS Integers

\* clamp_sell_orders, for one order: what the account holds is the most.
\* 0 stands for the order being skipped.
ClampSell(qty, held) ==
    IF held <= 0 THEN 0 ELSE IF held < qty THEN held ELSE qty

\* The shares a budget buys at a price.
Affordable(budget, price) == IF budget > 0 THEN budget \div price ELSE 0

\* fit_buy_to_budget: the quantity to send, 0 if none is affordable.  An order
\* without a price passes as it is.
FitBuy(qty, price, budget) ==
    IF price = 0 \/ Affordable(budget, price) >= qty
      THEN qty
      ELSE Affordable(budget, price)

-----------------------------------------------------------------------------
\* stock_tick_size
TickSize(price) ==
    CASE price < 2000   -> 1
      [] price >= 2000 /\ price < 5000      -> 5
      [] price >= 5000 /\ price < 20000     -> 10
      [] price >= 20000 /\ price < 50000    -> 50
      [] price >= 50000 /\ price < 200000   -> 100
      [] price >= 200000 /\ price < 500000  -> 500
      [] price >= 500000                    -> 1000

\* The grid a limit price must lie on; five won for an ETF or ETN.
Grid(price, isEtf) == IF isEtf THEN 5 ELSE TickSize(price)

\* round_to_tick: a buy is rounded down, a sell up, at least one tick.
RoundToTick(price, side, isEtf) ==
    LET tick  == Grid(price, isEtf)
        units == IF side = "BUY" THEN price \div tick ELSE (price + tick - 1) \div tick
    IN  IF units >= 1 THEN units * tick ELSE tick
=============================================================================
