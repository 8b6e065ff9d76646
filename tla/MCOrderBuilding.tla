-------------------------- MODULE MCOrderBuilding --------------------------
(* The operators of OrderBuilding against what they stand for, over every   *)
(* small input: half shares, three accounts of which one takes no orders    *)
(* and one is tax-deferred, index groups of three with a leveraged member.  *)
EXTENDS OrderBuilding

Least(x, y) == IF x <= y THEN x ELSE y
MCHolders(f) == {[account |-> x[1], at |-> x[2], qty |-> f[x[1]]] :
                     x \in {<<"general", 1>>, <<"isa", 2>>, <<"toss", 3>>, <<"other", 4>>}}
MCAccounts == {"general", "isa", "toss", "other"}

\* _build_sell_orders sells what is asked as far as the executable accounts
\* hold it in whole shares, and a tax-deferred share only after every taxable
\* one.
ASSUME SalesAreShared ==
    \A f \in [MCAccounts -> 0..3], wanted \in 0..4 :
        LET all  == MCHolders(f)
            able == Holders(all)
            sold(h)  == Take(all, h, wanted)
            whole(h) == Whole(h.qty)
        IN  /\ MapThenSumSet(sold, able) = Least(wanted, MapThenSumSet(whole, able))
            /\ \A h \in able : sold(h) \in 0..whole(h)
            /\ \A g, h \in able :
                   g.account \notin Deferred /\ h.account \in Deferred /\ sold(h) > 0
                       => sold(g) = whole(g)

MCMember(role, overseas, at, value, lev) ==
    [role |-> role, overseas |-> overseas, at |-> at, value |-> value, lev |-> lev,
     qty |-> value, price |-> 1]
MCGroups == {{MCMember("PRIMARY", TRUE, 1, v[1], 1), MCMember("MEMBER", TRUE, 2, v[2], 2),
              MCMember("DOMESTIC_ALT", FALSE, 3, v[3], 1)} : v \in [1..3 -> 0..3]}

\* allocate_group_trades brings the exposure of the group to its target, never
\* buys one member while it sells another, and sells the primary only when
\* nothing else is left.
ASSUME GroupsReachTheirTarget ==
    \A members \in MCGroups, target \in 0..14, buyDeferred \in BOOLEAN :
        LET to(m) == MemberTarget(members, m, target, buyDeferred)
            rises == {m \in members : to(m) > Exposure(m)}
            falls == {m \in members : to(m) < Exposure(m)}
        IN  /\ MapThenSumSet(to, members) = target
            /\ rises = {} \/ falls = {}
            /\ rises \cup falls = Trades(members, target, buyDeferred)
            /\ \A m \in rises : m.lev = 1 /\ (buyDeferred => ~m.overseas)
            /\ \A m \in falls : IsPrimary(m) => \A n \in members \ {m} : to(n) = 0

MCPositions == {{[at |-> 1, value |-> x[1], qty |-> x[2], price |-> x[3]],
                 [at |-> 2, value |-> x[4], qty |-> x[5], price |-> x[6]]} :
                    x \in (0..2) \X (0..2) \X (0..1) \X (0..2) \X (0..2) \X (0..1)}

\* What the account statement and the price feed say at different moments:
\* any row of a plan, refreshed or not.
MCRows(held, target, live) ==
    {AtLivePrice(TargetRow(target, held), live), AtLivePrice(UntrackedRow(held), live)}

\* A plan built from positions: no sale goes past a holding, no order past the
\* cap, no overseas order goes out without a limit, nothing is bought overseas
\* for a tax-deferred account that holds something.  (One that holds nothing is
\* taken for a general one; the execution passes such an order over.)
ASSUME PlansAreBounded ==
    \A positions \in MCPositions, target \in {0, 3, 8}, live \in {0, 2}, cap \in {3, 9},
       overseas, limit, buyOnly \in BOOLEAN, buyer, second \in {"general", "isa", "toss"} :
        \A row \in MCRows(Holding(positions), target, live) :
            LET holders == {[account |-> IF p.at = 1 THEN "other" ELSE second,
                             at |-> p.at, qty |-> p.qty] : p \in positions}
                held    == {h.account : h \in holders}
                ticker  == [overseas |-> overseas]
                orders  == PlanOrders(OrdersOf(ticker, row, holders, buyer, held, buyOnly, limit), cap)
            IN  \A o \in orders :
                    /\ Known(o.price) => o.qty * Parts * o.price.money <= cap * o.price.for
                    /\ o.side = "SELL" =>
                           /\ ~buyOnly
                           /\ \E h \in holders : h.account = o.account /\ o.qty * Parts <= h.qty
                           /\ o.account \in Executable
                    /\ overseas => o.type = "LIMIT"
                    /\ overseas /\ o.side = "BUY" => o.account \notin Deferred \cap held

\* A row that moves a share at a live price moves it towards its target and
\* not past it: the sign test of build_rebalancing_orders stops nothing there.
ASSUME LiveRowsAgree ==
    \A qty \in 0..7, target \in 0..12, price \in 1..3, lev \in 1..2 :
        LET row  == AtLivePrice(Row(target, lev, 0, qty, NoPrice, FALSE, 0), price)
            left == IF IsBuyRow(row) THEN qty + Parts * Size(row) ELSE qty - Parts * Size(row)
        IN  /\ Size(row) > 0 => Orderable(row, FALSE)
            /\ IsBuyRow(row) => left * price * lev <= target
            /\ row.diff < 0 => left >= 0 /\ (left + Parts) * price * lev > target

\* The implicit cash row is the CASH item's value and the property no item
\* claims: a portfolio without a KR_PROPERTY item counts property as cash, which
\* its base leaves out.
ASSUME ImplicitCashCountsProperty ==
    \A assets \in 0..6, stock, realEstate, equivalent \in 0..3, hasProperty, hasEquivalent \in BOOLEAN :
        LET o    == [assets |-> assets, stock |-> stock, realEstate |-> realEstate, equivalent |-> equivalent]
            cash == CashItem(o, hasEquivalent) + Claimed(o, hasProperty)
        IN  ImplicitCash(o, hasProperty, hasEquivalent) = (IF cash > 0 THEN cash ELSE 0)
=============================================================================
