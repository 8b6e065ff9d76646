-------------------------- MODULE MCOrderExecution --------------------------
(* Plans of three orders on one account, two requests to cancel.            *)
EXTENDS OrderExecution, TLC

CONSTANTS a, u, r1, r2

Order(side, market, ticker, qty, price) ==
    [side |-> side, market |-> market, ticker |-> ticker, qty |-> qty, price |-> price]

MCLines == (1..3) \X {"first", "rest", "short"}

\* A sale that pays for a buy in two parts and one without a price; two buys
\* that share the cash; two sales of one holding; overseas orders.
MCPlans ==
    { <<Order("SELL", "KR", a, 2, 1), Order("BUY", "KR", u, 2, 1), Order("BUY", "KR", u, 1, 0)>>,
      <<Order("SELL", "KR", a, 1, 2), Order("BUY", "KR", u, 3, 1), Order("BUY", "KR", a, 1, 1)>>,
      <<Order("SELL", "KR", a, 1, 1), Order("SELL", "KR", a, 1, 1), Order("BUY", "KR", u, 1, 2)>>,
      <<Order("SELL", "US", u, 2, 1), Order("BUY", "US", a, 1, 1), Order("BUY", "KR", a, 1, 1)>> }

MCHeld == {[t \in {a, u} |-> 1]}
MCCash == {1, 2}
MCClicked == {2} \X {"first", "rest"}

Symmetry == Permutations({r1, r2})

\* The tick table, over every price up to the last band, against the rule it
\* stands for: on the grid, and never worse than the user's price.
ASSUME \A price \in 1..60000 \cup 199000..201000 \cup 499000..501000 :
    \A isEtf \in BOOLEAN :
        LET buy  == RoundToTick(price, "BUY", isEtf)
            sell == RoundToTick(price, "SELL", isEtf)
        IN  /\ buy % Grid(buy, isEtf) = 0 /\ sell % Grid(sell, isEtf) = 0
            /\ sell >= price /\ (price >= 5 => buy <= price)
=============================================================================
