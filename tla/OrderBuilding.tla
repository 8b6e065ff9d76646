--------------------------- MODULE OrderBuilding ---------------------------
(***************************************************************************)
(* From what an analysis reads to the orders of a plan:                     *)
(*   services/rebalancing/service.py          base, cash, a row per ticker  *)
(*   services/rebalancing/group_expansion.py  rows of an index group        *)
(*   services/rebalancing/order_builder.py    live prices, orders, the cap  *)
(*   services/rebalancing/plan_generation.py  overseas orders get a limit   *)
(*                                                                          *)
(* A share divides into Parts parts, which holdings are counted in; orders  *)
(* are counted in whole shares.  Money is exact and counted so finely       *)
(* that the price of a part is whole: rounding to the won and the epsilon   *)
(* of floor_shares are left out.  A ticker trades on one market.            *)
(***************************************************************************)
EXTENDS Integers, FiniteSetsExt

CONSTANTS
    Parts,          \* what a share divides into
    Executable,     \* accounts whose broker takes orders from the app
    Deferred        \* accounts of a tax-deferred type: ISA, pension

ASSUME PartsAssumption == Parts \in Nat \ {0}

Whole(parts) == parts \div Parts

\* What is left for one of a queue in which `before` is served first and it
\* can take `most`.
Portion(wanted, before, most) ==
    IF before >= wanted THEN 0
    ELSE IF wanted - before < most THEN wanted - before ELSE most

-----------------------------------------------------------------------------
\* Prices: `money` buys `for` parts.
NoPrice == [money |-> 0, for |-> 1]
PerPart(price) == [money |-> price, for |-> 1]
Known(price) == price.money > 0

\* _effective_price: without a price, what the holding is worth.
EffectivePrice(h) ==
    IF h.price > 0 THEN PerPart(h.price)
    ELSE IF h.qty > 0 /\ h.value > 0 THEN [money |-> h.value, for |-> h.qty]
    ELSE NoPrice

\* The current_price of a row: 0 is no price.
StoredPrice(h) == IF h.price > 0 THEN PerPart(h.price) ELSE NoPrice

\* floor_shares(money / price), in parts.  `lev` divides money that is exposure.
FloorParts(money, lev, price) ==
    Parts * ((money * price.for) \div (lev * price.money * Parts))

-----------------------------------------------------------------------------
\* compute_base_value_krw.  STOCK_ONLY has a floor of its own.
Claimed(o, hasProperty) == IF hasProperty THEN 0 ELSE o.realEstate
BaseValue(o, stockOnly, hasProperty) ==
    LET base == o.assets - Claimed(o, hasProperty)
    IN  IF stockOnly /\ base < 0 THEN 0 ELSE base

\* The current value of a CASH item of the portfolio.
CashItem(o, hasEquivalent) ==
    o.assets - o.stock - o.realEstate - (IF hasEquivalent THEN o.equivalent ELSE 0)

\* _build_implicit_cash_item: the cash of a portfolio without a CASH item; 0 is
\* no row.  Only what items of the portfolio claim is taken off.
ImplicitCash(o, hasProperty, hasEquivalent) ==
    LET cash == o.assets - o.stock - (IF hasProperty THEN o.realEstate ELSE 0)
                                   - (IF hasEquivalent THEN o.equivalent ELSE 0)
    IN  IF cash > 0 THEN cash ELSE 0

-----------------------------------------------------------------------------
\* _build_current_map: the positions of a ticker in all accounts.  The first
\* one gives the price, known or not.
Holding(positions) ==
    [value |-> MapThenSumSet(LAMBDA p : p.value, positions),
     qty   |-> MapThenSumSet(LAMBDA p : p.qty, positions),
     price |-> IF positions = {} THEN 0
               ELSE (CHOOSE p \in positions : \A q \in positions : p.at <= q.at).price]

\* A row: `target` is lev times the money wanted, `diff` lev times diff_krw;
\* `shares` means nothing unless the row is sized.
Row(target, lev, diff, qty, price, sized, goal) ==
    [target |-> target, lev |-> lev, diff |-> diff, qty |-> qty, price |-> price,
     sized |-> sized, shares |-> IF sized THEN goal - qty ELSE 0]

\* _build_target_items, for a ticker that trades.
TargetRow(target, h) ==
    LET price == EffectivePrice(h)
    IN  Row(target, 1, target - h.value, h.qty, StoredPrice(h), Known(price),
            IF Known(price) THEN FloorParts(target, 1, price) ELSE 0)

\* _build_untracked_items: all of it is for sale, with or without a price.
UntrackedRow(h) == Row(0, 1, -h.value, h.qty, StoredPrice(h), h.qty # 0, 0)

-----------------------------------------------------------------------------
\* Members of an index group: [role, overseas, at, value, qty, price, lev].
Exposure(m) == m.lev * m.value
IsPrimary(m) == m.role = "PRIMARY"

\* _buy_target.  The first member is the primary.
BuyTarget(members, buyDeferred) ==
    LET primary == CHOOSE m \in members : IsPrimary(m)
        alts    == {m \in members : m.role = "DOMESTIC_ALT"}
    IN  IF buyDeferred /\ primary.overseas /\ alts # {}
          THEN CHOOSE m \in alts : \A n \in alts : m.at <= n.at
          ELSE primary

\* The order of sale: the primary last, the smaller holding first.
SoldBefore(m, n) ==
    \/ ~IsPrimary(m) /\ IsPrimary(n)
    \/ IsPrimary(m) = IsPrimary(n) /\ m.value < n.value
    \/ IsPrimary(m) = IsPrimary(n) /\ m.value = n.value /\ m.at < n.at

\* allocate_group_trades: the exposure a member is to have.
MemberTarget(members, m, target, buyDeferred) ==
    LET surplus == MapThenSumSet(Exposure, members) - target
        before  == MapThenSumSet(Exposure, {n \in members : SoldBefore(n, m)})
    IN  IF surplus >= 0
          THEN Exposure(m) - Portion(surplus, before, Exposure(m))
          ELSE IF m = BuyTarget(members, buyDeferred) THEN Exposure(m) - surplus ELSE Exposure(m)

\* _set_trade.  The price of a member is its effective one.
MemberRow(m, target) ==
    LET price == EffectivePrice(m)
    IN  IF target <= 0
          THEN Row(target, m.lev, target - Exposure(m), m.qty, price, m.qty # 0, 0)
          ELSE Row(target, m.lev, target - Exposure(m), m.qty, price, Known(price),
                   IF Known(price) THEN FloorParts(target, m.lev, price) ELSE 0)

\* expand_group_items: the members of a group that trade.
Trades(members, target, buyDeferred) ==
    {m \in members : MemberTarget(members, m, target, buyDeferred) # Exposure(m)}

\* refresh_live_prices, for one row; 0 is a price that was not found.
AtLivePrice(row, price) ==
    IF price = 0 THEN row
    ELSE Row(row.target, row.lev, row.target - row.lev * row.qty * price, row.qty,
             PerPart(price), TRUE, FloorParts(row.target, row.lev, PerPart(price)))

-----------------------------------------------------------------------------
Size(row) == Whole(IF row.shares < 0 THEN -row.shares ELSE row.shares)
IsBuyRow(row) == row.shares > 0

\* The rows build_rebalancing_orders passes on.  Cash and property are never
\* sized.
Orderable(row, buyOnly) ==
    /\ row.sized
    /\ Size(row) > 0
    /\ (row.diff > 0) = IsBuyRow(row)
    /\ IsBuyRow(row) \/ ~buyOnly

\* _flatten_account_tax_types: an account without positions counts as GENERAL.
BuyDeferred(buyAccount, held) == buyAccount \in Deferred /\ buyAccount \in held

\* _build_ticker_account_map: holders are [account, at, qty], one per account.
\* Taxable accounts sell first, then the larger holding.
Holders(holders) == {h \in holders : h.account \in Executable /\ h.qty > 0}
SellsBefore(g, h) ==
    \/ g.account \notin Deferred /\ h.account \in Deferred
    \/ /\ (g.account \in Deferred) = (h.account \in Deferred)
       /\ g.qty > h.qty \/ (g.qty = h.qty /\ g.at < h.at)

\* _build_sell_orders: what a holder sells of a quantity.
Take(holders, h, qty) ==
    Portion(qty,
            MapThenSumSet(LAMBDA g : Whole(g.qty), {g \in Holders(holders) : SellsBefore(g, h)}),
            Whole(h.qty))

\* A ticker is a record that says whether it is listed overseas.
Order(ticker, account, side, qty, row, limit) ==
    [ticker |-> ticker, account |-> account, side |-> side, qty |-> qty, price |-> row.price,
     type |-> IF limit /\ Known(row.price) THEN "LIMIT" ELSE "MARKET"]

SellOrders(ticker, row, holders, limit) ==
    {Order(ticker, h.account, "SELL", Take(holders, h, Size(row)), row, limit) :
        h \in {g \in Holders(holders) : Take(holders, g, Size(row)) > 0}}

\* A tax-deferred account buys nothing overseas.
BuyOrders(ticker, row, buyAccount, held, limit) ==
    IF ticker.overseas /\ BuyDeferred(buyAccount, held) THEN {}
    ELSE {Order(ticker, buyAccount, "BUY", Size(row), row, limit)}

\* build_rebalancing_orders, for one row.
OrdersOf(ticker, row, holders, buyAccount, held, buyOnly, limit) ==
    IF ~Orderable(row, buyOnly) THEN {}
    ELSE IF IsBuyRow(row) THEN BuyOrders(ticker, row, buyAccount, held, limit)
    ELSE SellOrders(ticker, row, holders, limit)

\* clamp_orders_to_max_value: 0 shares is no order.
Capped(order, cap) ==
    IF ~Known(order.price) THEN order
    ELSE LET most == (cap * order.price.for) \div (order.price.money * Parts)
         IN  IF order.qty <= most THEN order ELSE [order EXCEPT !.qty = most]

\* _coerce_overseas_market_orders_to_limit: no price, no order.
Unlimited(order) == order.ticker.overseas /\ order.type = "MARKET"
Limited(order) == IF Unlimited(order) THEN [order EXCEPT !.type = "LIMIT"] ELSE order

\* _build_plan_orders
PlanOrders(orders, cap) ==
    {Limited(o) : o \in {p \in {Capped(q, cap) : q \in orders} :
                            p.qty > 0 /\ (Unlimited(p) => Known(p.price))}}
=============================================================================
