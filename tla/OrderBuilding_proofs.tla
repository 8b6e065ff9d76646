------------------------ MODULE OrderBuilding_proofs ------------------------
(***************************************************************************)
(* What TLC finds for small numbers, for all of them: the cap of an order,  *)
(* the limit of an overseas one, the size and direction of a row at a live  *)
(* price, what the implicit cash row counts, how sales and index groups are *)
(* shared out.  The lemmas on sums serve plan generation too.               *)
(***************************************************************************)
EXTENDS OrderBuilding, FiniteSetTheorems, WellFoundedInduction, TLAPS

\* Floor division, by what it leaves.
LEMMA DivBounds ==
    ASSUME NEW a \in Int, NEW b \in Nat, b > 0
    PROVE  /\ a \div b \in Int
           /\ b * (a \div b) <= a
           /\ a < b * (a \div b) + b
  OBVIOUS

\* A factor that is positive keeps an order.
LEMMA Scaled ==
    ASSUME NEW a \in Int, NEW b \in Int, NEW c \in Nat, a <= b
    PROVE  c * a <= c * b
  OBVIOUS
LEMMA ProductPositive ==
    ASSUME NEW a \in Nat, NEW b \in Nat, a > 0, b > 0
    PROVE  a * b \in Nat /\ a * b > 0
  OBVIOUS
LEMMA Quotient ==
    ASSUME NEW a \in Nat, NEW b \in Nat, b > 0
    PROVE  a \div b \in Nat
  OBVIOUS
-----------------------------------------------------------------------------
\* A plan's orders as build_rebalancing_orders makes them.
OrderRows ==
    [ticker : [overseas : BOOLEAN], account : STRING, side : {"BUY", "SELL"}, qty : Nat,
     price : [money : Nat, for : Nat \ {0}], type : {"MARKET", "LIMIT"}]

\* clamp_orders_to_max_value keeps the kind of a record.
LEMMA CappedTyped ==
    ASSUME NEW q \in OrderRows, NEW cap \in Nat
    PROVE  /\ Capped(q, cap) \in OrderRows
           /\ Capped(q, cap).price = q.price
           /\ Known(q.price) =>
                  Capped(q, cap).qty * Parts * q.price.money <= cap * q.price.for
<1> DEFINE cost == q.price.money * Parts
           room == cap * q.price.for
           most == room \div cost
<1>1. Parts \in Nat /\ Parts > 0 /\ q.price.money \in Nat /\ q.price.for \in Nat /\ q.qty \in Nat
  BY PartsAssumption DEF OrderRows
<1>2. CASE ~Known(q.price)
  BY <1>2 DEF Capped
<1>3. CASE Known(q.price)
  <2>1. cost \in Nat /\ cost > 0
    BY <1>1, <1>3, ProductPositive DEF Known
  <2>2. room \in Nat
    BY <1>1
  <2> HIDE DEF cost, room
  <2>3. most \in Nat /\ cost * most <= room
    BY <2>1, <2>2, DivBounds, Quotient
  <2> HIDE DEF most
  <2>4. \A n \in Nat : n <= most => n * Parts * q.price.money <= room
    <3> SUFFICES ASSUME NEW n \in Nat, n <= most PROVE n * Parts * q.price.money <= room
      OBVIOUS
    <3>1. cost * n <= cost * most
      BY <2>1, <2>3, Scaled
    <3>2. cost * n = n * Parts * q.price.money
      BY <1>1 DEF cost
    <3>3. cost * n \in Nat /\ cost * most \in Nat
      BY <2>1, <2>3
    <3> QED  BY <3>1, <3>2, <3>3, <2>2, <2>3
  <2>5. Capped(q, cap) = IF q.qty <= most THEN q ELSE [q EXCEPT !.qty = most]
    BY <1>3 DEF Capped, most, room, cost
  <2>6. CASE q.qty <= most
    BY <2>4, <2>5, <2>6, <1>1 DEF room
  <2>7. CASE ~(q.qty <= most)
    <3>1. Capped(q, cap) = [q EXCEPT !.qty = most]
      BY <2>5, <2>7
    <3>2. Capped(q, cap).qty = most /\ Capped(q, cap).price = q.price
      BY <3>1 DEF OrderRows
    <3>3. Capped(q, cap) \in OrderRows
      BY <3>1, <2>3 DEF OrderRows
    <3>4. most * Parts * q.price.money <= room
      BY <2>3, <2>4
    <3> QED  BY <3>2, <3>3, <3>4 DEF room
  <2> QED  BY <2>6, <2>7
<1> QED  BY <1>2, <1>3

\* No order of a plan whose price is known is worth more than
\* auto_rebalancing_max_order_value_krw, and none is empty.
THEOREM NoOrderPastTheCap ==
    ASSUME NEW orders \in SUBSET OrderRows, NEW cap \in Nat, NEW o \in PlanOrders(orders, cap)
    PROVE  /\ o.qty > 0
           /\ Known(o.price) => o.qty * Parts * o.price.money <= cap * o.price.for
<1>1. PICK q \in orders : Capped(q, cap).qty > 0 /\ o = Limited(Capped(q, cap))
  BY DEF PlanOrders
<1>2. /\ Capped(q, cap) \in OrderRows
      /\ Capped(q, cap).price = q.price
      /\ Known(q.price) =>
             Capped(q, cap).qty * Parts * q.price.money <= cap * q.price.for
  BY <1>1, CappedTyped
<1>3. o.qty = Capped(q, cap).qty /\ o.price = q.price
  BY <1>1, <1>2 DEF Limited, OrderRows
<1> QED  BY <1>1, <1>2, <1>3

\* No overseas order of a plan is a market order: those without a price are
\* left out, the others go to it.
THEOREM OverseasIsLimited ==
    ASSUME NEW orders \in SUBSET OrderRows, NEW cap \in Nat, NEW o \in PlanOrders(orders, cap),
           o.ticker.overseas
    PROVE  o.type = "LIMIT"
<1>1. PICK q \in orders : o = Limited(Capped(q, cap))
  BY DEF PlanOrders
<1>2. Capped(q, cap) \in OrderRows
  BY <1>1, CappedTyped
<1>3. CASE Unlimited(Capped(q, cap))
  BY <1>1, <1>2, <1>3 DEF Limited, OrderRows
<1>4. CASE ~Unlimited(Capped(q, cap))
  <2>1. o = Capped(q, cap)
    BY <1>1, <1>4 DEF Limited
  <2> QED  BY <1>2, <1>4, <2>1 DEF Unlimited, OrderRows
<1> QED  BY <1>3, <1>4

-----------------------------------------------------------------------------
\* refresh_live_prices and the sign test of build_rebalancing_orders: a row
\* that trades a share at a live price is never one whose quantity and money
\* disagree, a buy ends within the target, a sale less than a share above it
\* and never below the shares the target buys.
THEOREM LiveRowsTrade ==
    ASSUME NEW target \in Int, NEW lev \in Nat, lev > 0, NEW price \in Nat, price > 0,
           NEW row, row.target = target, row.lev = lev, row.qty \in Nat,
           NEW new, new = AtLivePrice(row, price), Size(new) > 0
    PROVE  /\ Orderable(new, FALSE)
           /\ IsBuyRow(new) => lev * price * (row.qty + Parts * Size(new)) <= target
           /\ ~IsBuyRow(new) => lev * price * (row.qty - Parts * Size(new) + Parts) > target
<1> DEFINE unit == lev * price
           cost == unit * Parts
           goal == target \div cost
           qty == row.qty
<1>1. Parts \in Nat /\ Parts > 0 /\ unit \in Nat /\ unit > 0 /\ qty \in Nat
  BY PartsAssumption, ProductPositive
<1>2. cost \in Nat /\ cost > 0
  BY <1>1, ProductPositive
<1>3. /\ new.shares = Parts * goal - qty
      /\ new.diff = target - unit * qty
      /\ new.sized
  <2>1. FloorParts(target, lev, PerPart(price)) = Parts * goal
    <3>1. FloorParts(target, lev, PerPart(price))
              = Parts * ((target * PerPart(price).for) \div (lev * PerPart(price).money * Parts))
      BY DEF FloorParts
    <3>2. PerPart(price).money = price /\ target * PerPart(price).for = target
      BY DEF PerPart
    <3>3. FloorParts(target, lev, PerPart(price)) = Parts * (target \div (lev * price * Parts))
      BY <3>1, <3>2, Zenon
    <3> QED  BY <3>3, Zenon
  <2>2. new = Row(target, lev, target - unit * qty, qty, PerPart(price), TRUE, Parts * goal)
    <3>1. lev * qty * price = unit * qty
      BY <1>1
    <3>2. price # 0 /\ row.lev * row.qty * price = unit * qty
      BY <3>1
    <3>3. new = Row(row.target, row.lev, row.target - row.lev * row.qty * price, row.qty,
                    PerPart(price), TRUE, FloorParts(row.target, row.lev, PerPart(price)))
      BY <3>2, Zenon DEF AtLivePrice
    <3> HIDE DEF unit, goal
    <3> QED  BY <2>1, <3>2, <3>3
  <2> HIDE DEF goal, unit, qty
  <2> QED  BY <2>2 DEF Row
<1> HIDE DEF unit
<1>4. goal \in Int /\ cost * goal <= target /\ target < cost * goal + cost
  <2> HIDE DEF cost
  <2> QED  BY <1>2, DivBounds
<1> HIDE DEF goal, qty
<1>5. cost * goal = unit * (Parts * goal) /\ Parts * goal \in Int
  BY <1>1, <1>4
<1> DEFINE end == Parts * goal
           size == Size(new)
           moved == Parts * size
<1>6. CASE IsBuyRow(new)
  <2>1. size = (end - qty) \div Parts /\ end - qty > 0
    BY <1>1, <1>3, <1>5, <1>6 DEF IsBuyRow, Size, Whole
  <2>2. size \in Int /\ moved <= end - qty
    BY <2>1, <1>1, <1>5, DivBounds
  <2>3. moved \in Int /\ moved > 0
    BY <1>1, <2>2, ProductPositive
  <2> HIDE DEF moved, end, size
  <2>4. unit * (qty + moved) <= unit * end
    BY <1>1, <1>5, <2>2, <2>3, Scaled DEF end
  <2>5. unit * (qty + 1) <= unit * (qty + moved)
    BY <1>1, <2>3, Scaled
  <2>6. unit * (qty + 1) = unit * qty + unit /\ unit * qty \in Int
        /\ unit * (qty + moved) \in Int /\ unit * end \in Int
    BY <1>1, <1>5, <2>3 DEF end
  <2>7. unit * (qty + moved) <= target
    BY <1>4, <1>5, <2>4, <2>6 DEF end
  <2>8. new.diff > 0
    BY <1>1, <1>3, <2>5, <2>6, <2>7
  <2> QED  BY <1>3, <1>6, <2>7, <2>8 DEF Orderable, unit, qty, moved, size
<1>7. CASE ~IsBuyRow(new)
  <2>1. size = (qty - end) \div Parts /\ qty - end >= 0
    BY <1>1, <1>3, <1>5, <1>7 DEF IsBuyRow, Size, Whole
  <2>2. size \in Int /\ moved <= qty - end
    <3>1. qty - end \in Int
      BY <1>1, <1>5
    <3> HIDE DEF end
    <3> QED  BY <2>1, <3>1, <1>1, DivBounds
  <2>3. moved \in Int /\ moved >= Parts
    <3>1. Parts * 1 <= Parts * size
      BY <1>1, <2>2, Scaled
    <3> QED  BY <1>1, <2>2, <3>1
  <2> HIDE DEF moved, end, size
  <2>4. unit * (end + Parts) <= unit * (qty - moved + Parts)
    BY <1>1, <1>5, <2>2, <2>3, Scaled DEF end
  <2>5. unit * (end + Parts) <= unit * qty
    BY <1>1, <1>5, <2>2, <2>3, Scaled DEF end
  <2>6. unit * (end + Parts) = cost * goal + cost /\ unit * (end + Parts) \in Int
        /\ unit * (qty - moved + Parts) \in Int /\ unit * qty \in Int
    BY <1>1, <1>4, <1>5, <2>3 DEF end
  <2>7. unit * (qty - moved + Parts) > target /\ unit * qty > target
    BY <1>4, <2>4, <2>5, <2>6
  <2>8. ~(new.diff > 0)
    BY <1>3, <2>6, <2>7
  <2>9. Orderable(new, FALSE)
    BY <1>3, <1>7, <2>8 DEF Orderable, IsBuyRow
  <2> QED  BY <1>7, <2>7, <2>9 DEF unit, qty, moved, size
<1> QED  BY <1>6, <1>7

-----------------------------------------------------------------------------
\* The implicit cash row is what the CASH item of the same portfolio would
\* show and the property no item claims, which the base leaves out.
THEOREM ImplicitCashIs ==
    ASSUME NEW o, o.assets \in Int, o.stock \in Int, o.realEstate \in Nat, o.equivalent \in Nat,
           NEW hasProperty \in BOOLEAN, NEW hasEquivalent \in BOOLEAN,
           CashItem(o, hasEquivalent) + Claimed(o, hasProperty) > 0
    PROVE  ImplicitCash(o, hasProperty, hasEquivalent)
               = CashItem(o, hasEquivalent) + Claimed(o, hasProperty)
  BY DEF ImplicitCash, CashItem, Claimed

-----------------------------------------------------------------------------
(* Sums over finite sets; f says what an element counts.                    *)

Sum(f, S) == MapThenSumSet(LAMBDA x : f[x], S)

(* Induction over finite sets: among some of them there is a smallest one.  *)
LEMMA Smallest ==
    ASSUME NEW S, NEW F, F \subseteq FiniteSubsetsOf(S), F # {}
    PROVE  \E T \in F : \A U \in F : U \subseteq T => U = T
<1>1. PICK T \in F : \A U \in F : <<U, T>> \notin StrictSubsetOrdering(S)
  BY FS_StrictSubsetOrderingWellFounded, WFMin
<1> QED
  BY <1>1 DEF StrictSubsetOrdering, FiniteSubsetsOf

(* The fold takes one element after the other, each chosen from what is     *)
(* left; g is the recursive function that does so on the subsets of S.      *)
One(s) == CHOOSE x \in s : TRUE

Unrolls(f, S, g) ==
    g = [s \in SUBSET S |-> IF s = {} THEN 0 ELSE f[One(s)] + g[s \ {One(s)}]]

LEMMA OneIsIn == ASSUME NEW s, s # {} PROVE One(s) \in s
  BY DEF One

LEMMA SumUnfolded == ASSUME NEW f, NEW S PROVE Sum(f, S) = (CHOOSE g : Unrolls(f, S, g))[S]
  BY DEF Sum, MapThenSumSet, MapThenFoldSet, Unrolls, One

LEMMA UnrollsOnce ==
    ASSUME NEW f, NEW S, NEW T, NEW g, NEW h, Unrolls(f, S, g), Unrolls(f, T, h),
           NEW R, R \subseteq S, R \subseteq T, IsFiniteSet(R)
    PROVE  g[R] = h[R]
<1> DEFINE F == {r \in FiniteSubsetsOf(R) : g[r] # h[r]}
<1>1. SUFFICES ASSUME F # {} PROVE FALSE
  BY DEF FiniteSubsetsOf
<1>0. F # {} /\ F \subseteq FiniteSubsetsOf(R)
  BY <1>1
<1>2. PICK r \in F : \A u \in F : u \subseteq r => u = r
  <2> HIDE DEF F
  <2> QED
    BY <1>0, Smallest
<1>3. r \subseteq R /\ IsFiniteSet(r) /\ g[r] # h[r]
  BY DEF FiniteSubsetsOf
<1>4. /\ g[r] = IF r = {} THEN 0 ELSE f[One(r)] + g[r \ {One(r)}]
      /\ h[r] = IF r = {} THEN 0 ELSE f[One(r)] + h[r \ {One(r)}]
  BY <1>3 DEF Unrolls
<1>5. r # {} /\ One(r) \in r
  BY <1>3, <1>4, OneIsIn
<1>6. r \ {One(r)} \in FiniteSubsetsOf(R)
  BY <1>3, FS_RemoveElement DEF FiniteSubsetsOf
<1>7. g[r \ {One(r)}] = h[r \ {One(r)}]
  BY <1>2, <1>5, <1>6
<1> QED
  BY <1>3, <1>4, <1>5, <1>7

LEMMA SumStep ==
    ASSUME NEW f, NEW S, IsFiniteSet(S), \E g : Unrolls(f, S, g),
           \A T \in SUBSET S : \E g : Unrolls(f, T, g)
    PROVE  Sum(f, S) = IF S = {} THEN 0 ELSE f[One(S)] + Sum(f, S \ {One(S)})
<1> DEFINE T == S \ {One(S)}
           g == CHOOSE x : Unrolls(f, S, x)
           h == CHOOSE x : Unrolls(f, T, x)
<1>1. Unrolls(f, S, g) /\ Unrolls(f, T, h) /\ IsFiniteSet(T)
  BY FS_RemoveElement
<1>2. Sum(f, S) = g[S] /\ Sum(f, T) = h[T]
  BY SumUnfolded
<1> HIDE DEF g, h
<1>3. g[S] = IF S = {} THEN 0 ELSE f[One(S)] + g[T]
  BY <1>1 DEF Unrolls
<1>4. g[T] = h[T]
  BY <1>1, UnrollsOnce
<1> QED
  BY <1>2, <1>3, <1>4

LEMMA FoldExists == ASSUME NEW f, NEW S, IsFiniteSet(S) PROVE \E g : Unrolls(f, S, g)
<1> DEFINE F == {s \in FiniteSubsetsOf(S) : ~\E g : Unrolls(f, s, g)}
<1>1. SUFFICES ASSUME F # {} PROVE FALSE
  BY DEF FiniteSubsetsOf
<1>0. F # {} /\ F \subseteq FiniteSubsetsOf(S)
  BY <1>1
<1>2. PICK T \in F : \A u \in F : u \subseteq T => u = T
  <2> HIDE DEF F
  <2> QED
    BY <1>0, Smallest
<1>3. T \subseteq S /\ IsFiniteSet(T) /\ ~\E g : Unrolls(f, T, g)
  BY DEF FiniteSubsetsOf
<1>4. ASSUME NEW u, u \subseteq T, u # T PROVE IsFiniteSet(u) /\ \E g : Unrolls(f, u, g)
  <2>1. IsFiniteSet(u) /\ u \in FiniteSubsetsOf(S)
    BY <1>3, <1>4, FS_Subset DEF FiniteSubsetsOf
  <2> QED
    BY <1>2, <1>4, <2>1
<1>5. ASSUME NEW u, u \subseteq T, u # T
      PROVE  Sum(f, u) = IF u = {} THEN 0 ELSE f[One(u)] + Sum(f, u \ {One(u)})
  <2>1. \A v \in SUBSET u : \E g : Unrolls(f, v, g)
    BY <1>4, <1>5
  <2> QED
    BY <1>4, <1>5, <2>1, SumStep
<1> DEFINE g == [s \in SUBSET T |-> IF s = {} THEN 0 ELSE f[One(s)] + Sum(f, s \ {One(s)})]
<1>6. ASSUME NEW s \in SUBSET T, s # {}
      PROVE  g[s \ {One(s)}] = Sum(f, s \ {One(s)})
  <2>1. s \ {One(s)} \subseteq T /\ s \ {One(s)} # T
    BY <1>6, OneIsIn
  <2> QED
    BY <1>5, <2>1
<1>7. g = [s \in SUBSET T |-> IF s = {} THEN 0 ELSE f[One(s)] + g[s \ {One(s)}]]
  BY <1>6
<1>8. Unrolls(f, T, g)
  BY <1>7 DEF Unrolls
<1> QED
  BY <1>3, <1>8

LEMMA SumUnrolled ==
    ASSUME NEW f, NEW S, IsFiniteSet(S)
    PROVE  Sum(f, S) = IF S = {} THEN 0 ELSE f[One(S)] + Sum(f, S \ {One(S)})
<1>1. \A T \in SUBSET S : \E g : Unrolls(f, T, g)
  BY FS_Subset, FoldExists
<1> QED
  BY <1>1, SumStep

(* What a sum does, whichever elements were chosen first.                   *)
Valued(f, S) == IsFiniteSet(S) /\ \A i \in S : f[i] \in Nat

LEMMA SumTyped == ASSUME NEW f, NEW S, Valued(f, S) PROVE Sum(f, S) \in Nat
<1> DEFINE F == {s \in FiniteSubsetsOf(S) : Sum(f, s) \notin Nat}
<1>1. SUFFICES ASSUME F # {} PROVE FALSE
  BY DEF FiniteSubsetsOf, Valued
<1>0. F # {} /\ F \subseteq FiniteSubsetsOf(S)
  BY <1>1
<1>2. PICK T \in F : \A u \in F : u \subseteq T => u = T
  <2> HIDE DEF F
  <2> QED
    BY <1>0, Smallest
<1>3. T \subseteq S /\ IsFiniteSet(T) /\ Sum(f, T) \notin Nat
  BY DEF FiniteSubsetsOf
<1>u. Sum(f, T) = IF T = {} THEN 0 ELSE f[One(T)] + Sum(f, T \ {One(T)})
  BY <1>3, SumUnrolled
<1>v. T # {}
  BY <1>3, <1>u
<1>4. T # {} /\ One(T) \in T /\ Sum(f, T) = f[One(T)] + Sum(f, T \ {One(T)})
  BY <1>u, <1>v, OneIsIn
<1>5. T \ {One(T)} \in FiniteSubsetsOf(S)
  BY <1>3, FS_RemoveElement DEF FiniteSubsetsOf
<1>6. Sum(f, T \ {One(T)}) \in Nat
  BY <1>2, <1>4, <1>5
<1>7. f[One(T)] \in Nat
  BY <1>3, <1>4 DEF Valued
<1> QED
  BY <1>3, <1>4, <1>6, <1>7

LEMMA SumSplits ==
    ASSUME NEW f, NEW S, Valued(f, S), NEW x \in S
    PROVE  Sum(f, S) = f[x] + Sum(f, S \ {x})
<1> DEFINE F == {s \in FiniteSubsetsOf(S) :
                    \E y \in s : Sum(f, s) # f[y] + Sum(f, s \ {y})}
<1>1. SUFFICES ASSUME F # {} PROVE FALSE
  BY DEF FiniteSubsetsOf, Valued
<1>0. F # {} /\ F \subseteq FiniteSubsetsOf(S)
  BY <1>1
<1>2. PICK T \in F : \A u \in F : u \subseteq T => u = T
  <2> HIDE DEF F
  <2> QED
    BY <1>0, Smallest
<1>3. T \subseteq S /\ IsFiniteSet(T)
  BY DEF FiniteSubsetsOf
<1>4. PICK y \in T : Sum(f, T) # f[y] + Sum(f, T \ {y})
  OBVIOUS
<1> DEFINE z == One(T)
           Y == T \ {y}
           Z == T \ {z}
           YZ == T \ {y, z}
<1>5. z \in T /\ Sum(f, T) = f[z] + Sum(f, Z)
  BY <1>3, SumUnrolled, OneIsIn
<1>6. y # z
  BY <1>4, <1>5
<1>7. Y \in FiniteSubsetsOf(S) /\ Z \in FiniteSubsetsOf(S) /\ Y # T /\ Z # T
  BY <1>3, <1>5, FS_RemoveElement DEF FiniteSubsetsOf
<1>8. Sum(f, Y) = f[z] + Sum(f, Y \ {z}) /\ Sum(f, Z) = f[y] + Sum(f, Z \ {y})
  BY <1>2, <1>5, <1>6, <1>7
<1>9. Y \ {z} = YZ /\ Z \ {y} = YZ /\ Valued(f, YZ)
  BY <1>3, FS_Subset DEF Valued
<1>10. Sum(f, YZ) \in Nat /\ f[y] \in Nat /\ f[z] \in Nat
  BY <1>3, <1>5, <1>9, SumTyped DEF Valued
<1> HIDE DEF z, Y, Z, YZ
<1>11. Sum(f, Y) = f[z] + Sum(f, YZ) /\ Sum(f, Z) = f[y] + Sum(f, YZ)
  BY <1>8, <1>9, Zenon
<1> HIDE DEF F
<1>12. Sum(f, T) = f[y] + Sum(f, Y)
  BY <1>5, <1>10, <1>11
<1> QED
  BY <1>4, <1>12 DEF Y

LEMMA SumGrows ==
    ASSUME NEW f, NEW S, Valued(f, S), NEW T, T \subseteq S
    PROVE  Sum(f, T) <= Sum(f, S)
<1> DEFINE F == {s \in FiniteSubsetsOf(S) : T \subseteq s /\ ~(Sum(f, T) <= Sum(f, s))}
<1>1. SUFFICES ASSUME F # {} PROVE FALSE
  BY DEF FiniteSubsetsOf, Valued
<1>0. F # {} /\ F \subseteq FiniteSubsetsOf(S)
  BY <1>1
<1>2. PICK U \in F : \A u \in F : u \subseteq U => u = U
  <2> HIDE DEF F
  <2> QED
    BY <1>0, Smallest
<1>3. /\ U \subseteq S /\ T \subseteq U /\ Valued(f, U) /\ Valued(f, T)
      /\ ~(Sum(f, T) <= Sum(f, U))
  BY FS_Subset DEF FiniteSubsetsOf, Valued
<1>4. Sum(f, T) \in Nat /\ Sum(f, U) \in Nat
  BY <1>3, SumTyped
<1>u. U # T
  BY <1>3, <1>4
<1>5. PICK x \in U : x \notin T
  BY <1>3, <1>u
<1>6. Sum(f, U) = f[x] + Sum(f, U \ {x})
  BY <1>3, SumSplits
<1>7. U \ {x} \in FiniteSubsetsOf(S) /\ Valued(f, U \ {x})
  BY <1>3, FS_RemoveElement DEF FiniteSubsetsOf, Valued
<1>8. Sum(f, T) <= Sum(f, U \ {x})
  BY <1>2, <1>3, <1>5, <1>7
<1>9. Sum(f, U \ {x}) \in Nat /\ f[x] \in Nat
  BY <1>3, <1>7, SumTyped DEF Valued
<1> QED
  BY <1>3, <1>4, <1>6, <1>8, <1>9

LEMMA SumJoins ==
    ASSUME NEW f, NEW S, NEW T, Valued(f, S \cup T), S \cap T = {}
    PROVE  Sum(f, S \cup T) = Sum(f, S) + Sum(f, T)
<1> DEFINE F == {s \in FiniteSubsetsOf(S) : Sum(f, s \cup T) # Sum(f, s) + Sum(f, T)}
<1>t. IsFiniteSet(S) /\ Valued(f, T)
  BY FS_Subset DEF Valued
<1>1. SUFFICES ASSUME F # {} PROVE FALSE
  BY <1>t DEF FiniteSubsetsOf
<1>0. F # {} /\ F \subseteq FiniteSubsetsOf(S)
  BY <1>1
<1>2. PICK A \in F : \A u \in F : u \subseteq A => u = A
  <2> HIDE DEF F
  <2> QED
    BY <1>0, Smallest
<1>3. A \subseteq S /\ IsFiniteSet(A) /\ Sum(f, A \cup T) # Sum(f, A) + Sum(f, T)
  BY DEF FiniteSubsetsOf
<1>4. Sum(f, T) \in Nat
  BY <1>t, SumTyped
<1>5. PICK x \in A : TRUE
  <2>1. ASSUME A = {} PROVE FALSE
    <3>1. A \cup T = T /\ Sum(f, A) = 0
      BY <2>1, SumUnrolled, FS_EmptySet
    <3> HIDE DEF F
    <3> QED
      BY <1>3, <1>4, <3>1
  <2> QED
    BY <2>1
<1> DEFINE U == A \ {x}
<1>6. U \in FiniteSubsetsOf(S) /\ U # A
  BY <1>3, <1>5, FS_RemoveElement DEF FiniteSubsetsOf
<1>7. Sum(f, U \cup T) = Sum(f, U) + Sum(f, T)
  BY <1>2, <1>6
<1>8. Valued(f, A) /\ Valued(f, U) /\ Valued(f, A \cup T) /\ (A \cup T) \ {x} = U \cup T
  <2>1. IsFiniteSet(A) /\ IsFiniteSet(U) /\ IsFiniteSet(A \cup T)
    BY <1>3, FS_RemoveElement, FS_Subset DEF Valued
  <2>2. x \notin T
    BY <1>3, <1>5
  <2> QED
    BY <1>3, <2>1, <2>2 DEF Valued
<1>9. Sum(f, A) = f[x] + Sum(f, U) /\ Sum(f, A \cup T) = f[x] + Sum(f, U \cup T)
  BY <1>5, <1>8, SumSplits
<1>10. Sum(f, U) \in Nat /\ f[x] \in Nat
  BY <1>5, <1>8, SumTyped DEF Valued
<1> HIDE DEF U, F
<1> QED
  BY <1>3, <1>4, <1>7, <1>9, <1>10

LEMMA SumAgrees ==
    ASSUME NEW f, NEW q, NEW S, IsFiniteSet(S), \A i \in S : f[i] = q[i]
    PROVE  Sum(f, S) = Sum(q, S)
<1> DEFINE F == {s \in FiniteSubsetsOf(S) : Sum(f, s) # Sum(q, s)}
<1>1. SUFFICES ASSUME F # {} PROVE FALSE
  BY DEF FiniteSubsetsOf
<1>0. F # {} /\ F \subseteq FiniteSubsetsOf(S)
  BY <1>1
<1>2. PICK T \in F : \A u \in F : u \subseteq T => u = T
  <2> HIDE DEF F
  <2> QED
    BY <1>0, Smallest
<1>3. T \subseteq S /\ IsFiniteSet(T) /\ Sum(f, T) # Sum(q, T)
  BY DEF FiniteSubsetsOf
<1>4. /\ Sum(f, T) = IF T = {} THEN 0 ELSE f[One(T)] + Sum(f, T \ {One(T)})
      /\ Sum(q, T) = IF T = {} THEN 0 ELSE q[One(T)] + Sum(q, T \ {One(T)})
  BY <1>3, SumUnrolled
<1>5. T # {} /\ One(T) \in T
  BY <1>3, <1>4, OneIsIn
<1>6. T \ {One(T)} \in FiniteSubsetsOf(S)
  BY <1>3, FS_RemoveElement DEF FiniteSubsetsOf
<1>7. Sum(f, T \ {One(T)}) = Sum(q, T \ {One(T)})
  BY <1>2, <1>5, <1>6
<1> QED
  BY <1>3, <1>4, <1>5, <1>7

LEMMA SumAdds ==
    ASSUME NEW f, NEW g, NEW h, NEW S, IsFiniteSet(S),
           \A x \in S : f[x] = g[x] + h[x] /\ g[x] \in Nat /\ h[x] \in Nat
    PROVE  Sum(f, S) = Sum(g, S) + Sum(h, S)
<1> DEFINE F == {s \in FiniteSubsetsOf(S) : Sum(f, s) # Sum(g, s) + Sum(h, s)}
<1>1. SUFFICES ASSUME F # {} PROVE FALSE
  BY DEF FiniteSubsetsOf
<1>0. F # {} /\ F \subseteq FiniteSubsetsOf(S)
  BY <1>1
<1>2. PICK T \in F : \A u \in F : u \subseteq T => u = T
  <2> HIDE DEF F
  <2> QED
    BY <1>0, Smallest
<1>3. T \subseteq S /\ IsFiniteSet(T) /\ Sum(f, T) # Sum(g, T) + Sum(h, T)
  BY DEF FiniteSubsetsOf
<1> DEFINE z == One(T)
           U == T \ {z}
<1>4. T # {}
  <2>1. Sum(f, {}) = 0 /\ Sum(g, {}) = 0 /\ Sum(h, {}) = 0
    BY SumUnrolled, FS_EmptySet
  <2>2. ASSUME T = {} PROVE FALSE
    <3>1. Sum(f, T) = 0 /\ Sum(g, T) = 0 /\ Sum(h, T) = 0
      BY <2>1, <2>2
    <3> HIDE DEF F
    <3> QED
      BY <1>3, <3>1
  <2> QED
    BY <2>2
<1>5. z \in T /\ U \in FiniteSubsetsOf(S) /\ U # T
  BY <1>3, <1>4, OneIsIn, FS_RemoveElement DEF FiniteSubsetsOf
<1>6. Sum(f, U) = Sum(g, U) + Sum(h, U)
  BY <1>2, <1>5
<1>7. Sum(f, T) = f[z] + Sum(f, U) /\ Sum(g, T) = g[z] + Sum(g, U) /\ Sum(h, T) = h[z] + Sum(h, U)
  BY <1>3, <1>4, SumUnrolled
<1>8. Sum(g, U) \in Nat /\ Sum(h, U) \in Nat
  BY <1>3, FS_RemoveElement, SumTyped DEF Valued
<1>9. f[z] = g[z] + h[z] /\ g[z] \in Nat /\ h[z] \in Nat
  BY <1>3, <1>5
<1> HIDE DEF z, U, F
<1> QED
  BY <1>3, <1>6, <1>7, <1>8, <1>9

-----------------------------------------------------------------------------
(* A queue: its members take from what is wanted one after the other.       *)
Lesser(x, y) == IF x <= y THEN x ELSE y

(* R is a strict order of all of Q.                                         *)
Ordered(Q, R) ==
    /\ \A x \in Q : <<x, x>> \notin R
    /\ \A x, y \in Q : x # y => <<x, y>> \in R \/ <<y, x>> \in R
    /\ \A x, y, z \in Q : <<x, y>> \in R /\ <<y, z>> \in R => <<x, z>> \in R

Before(Q, R, x) == {y \in Q : <<y, x>> \in R}

LEMMA HasLast ==
    ASSUME NEW Q, IsFiniteSet(Q), Q # {}, NEW R, Ordered(Q, R)
    PROVE  \E x \in Q : \A y \in Q \ {x} : <<y, x>> \in R
<1> DEFINE F == {s \in FiniteSubsetsOf(Q) :
                    s # {} /\ ~\E x \in s : \A y \in s \ {x} : <<y, x>> \in R}
<1>1. SUFFICES ASSUME F # {} PROVE FALSE
  BY DEF FiniteSubsetsOf
<1>0. F # {} /\ F \subseteq FiniteSubsetsOf(Q)
  BY <1>1
<1>2. PICK T \in F : \A u \in F : u \subseteq T => u = T
  <2> HIDE DEF F
  <2> QED
    BY <1>0, Smallest
<1>3. T \subseteq Q /\ IsFiniteSet(T) /\ T # {}
  BY DEF FiniteSubsetsOf
<1>4. PICK x \in T : TRUE
  BY <1>3
<1>5. T \ {x} \in FiniteSubsetsOf(Q)
  BY <1>3, FS_RemoveElement DEF FiniteSubsetsOf
<1>6. T \ {x} # {}
  BY <1>4
<1>7. PICK y \in T \ {x} : \A z \in (T \ {x}) \ {y} : <<z, y>> \in R
  <2>1. T \ {x} \notin F
    <3> HIDE DEF F
    <3> QED
      BY <1>2, <1>4
  <2> QED
    BY <1>5, <1>6, <2>1
<1>8. CASE <<x, y>> \in R
  BY <1>7, <1>8
<1>9. CASE <<y, x>> \in R
  <2>1. \A z \in T \ {x} : <<z, x>> \in R
    BY <1>3, <1>7, <1>9 DEF Ordered
  <2> QED
    BY <2>1
<1> QED
  BY <1>3, <1>7, <1>8, <1>9 DEF Ordered

(* What the members take is what is wanted, as far as they have it.         *)
LEMMA QueueServed ==
    ASSUME NEW Q, IsFiniteSet(Q), NEW R, Ordered(Q, R), NEW wanted \in Nat,
           NEW most, \A x \in Q : most[x] \in Nat,
           NEW take, \A x \in Q : take[x] = Portion(wanted, Sum(most, Before(Q, R, x)), most[x])
    PROVE  Sum(take, Q) = Lesser(wanted, Sum(most, Q))
<1> DEFINE Closed(s) == \A x \in s : Before(Q, R, x) \subseteq s
           F == {s \in FiniteSubsetsOf(Q) :
                    Closed(s) /\ Sum(take, s) # Lesser(wanted, Sum(most, s))}
<1>1. SUFFICES ASSUME F # {} PROVE FALSE
  BY DEF FiniteSubsetsOf, Before
<1>0. F # {} /\ F \subseteq FiniteSubsetsOf(Q)
  BY <1>1
<1>2. PICK T \in F : \A u \in F : u \subseteq T => u = T
  <2> HIDE DEF F
  <2> QED
    BY <1>0, Smallest
<1>3. T \subseteq Q /\ IsFiniteSet(T) /\ Closed(T) /\ Sum(take, T) # Lesser(wanted, Sum(most, T))
  BY DEF FiniteSubsetsOf
<1>4. T # {}
  <2>1. Sum(take, {}) = 0 /\ Sum(most, {}) = 0
    BY SumUnrolled, FS_EmptySet
  <2>2. Lesser(wanted, 0) = 0
    BY DEF Lesser
  <2> QED
    BY <1>3, <2>1, <2>2
<1>5. PICK x \in T : \A y \in T \ {x} : <<y, x>> \in R
  BY <1>3, <1>4, HasLast DEF Ordered
<1> DEFINE U == T \ {x}
           had == Sum(most, U)
<1>6. Before(Q, R, x) = U
  BY <1>3, <1>5 DEF Before, Ordered
<1>7. U \in FiniteSubsetsOf(Q) /\ Closed(U)
  <2>1. \A y \in U : x \notin Before(Q, R, y)
    BY <1>3, <1>5 DEF Before, Ordered
  <2> QED
    BY <1>3, <2>1, FS_RemoveElement DEF FiniteSubsetsOf
<1>8. Sum(take, U) = Lesser(wanted, had)
  BY <1>2, <1>7
<1>9. Valued(most, T) /\ Valued(most, U)
  BY <1>3, FS_RemoveElement DEF Valued
<1>10. had \in Nat /\ most[x] \in Nat
  BY <1>3, <1>9, SumTyped
<1>11. take[x] = Portion(wanted, had, most[x])
  BY <1>3, <1>6
<1>12. \A y \in T : take[y] \in Nat
  <2> SUFFICES ASSUME NEW y \in T PROVE take[y] \in Nat
    OBVIOUS
  <2>1. Valued(most, Before(Q, R, y))
    BY <1>3, FS_Subset DEF Valued, Before
  <2>2. Sum(most, Before(Q, R, y)) \in Nat /\ most[y] \in Nat
    BY <1>3, <2>1, SumTyped
  <2> QED
    BY <1>3, <2>2 DEF Portion
<1>13. Sum(take, T) = take[x] + Sum(take, U)
  BY <1>3, <1>12, SumSplits DEF Valued
<1>14. Sum(most, T) = most[x] + had
  BY <1>9, SumSplits
<1> HIDE DEF U, had, F
<1> QED
  BY <1>3, <1>8, <1>10, <1>11, <1>13, <1>14 DEF Lesser, Portion

(* Nobody takes more than it has, or less while a later one takes.          *)
LEMMA QueueInTurn ==
    ASSUME NEW Q, IsFiniteSet(Q), NEW R, Ordered(Q, R), NEW wanted \in Nat,
           NEW most, \A x \in Q : most[x] \in Nat,
           NEW take, \A x \in Q : take[x] = Portion(wanted, Sum(most, Before(Q, R, x)), most[x])
    PROVE  /\ \A x \in Q : take[x] \in 0..most[x]
           /\ \A x, y \in Q : <<x, y>> \in R /\ take[y] > 0 => take[x] = most[x]
<1>1. ASSUME NEW x \in Q
      PROVE  Valued(most, Before(Q, R, x)) /\ Sum(most, Before(Q, R, x)) \in Nat
  <2>1. Valued(most, Before(Q, R, x))
    BY FS_Subset DEF Valued, Before
  <2> QED
    BY <2>1, SumTyped
<1>2. ASSUME NEW x \in Q PROVE take[x] \in 0..most[x]
  BY <1>1 DEF Portion
<1>3. ASSUME NEW x \in Q, NEW y \in Q, <<x, y>> \in R, take[y] > 0 PROVE take[x] = most[x]
  <2> DEFINE X == Before(Q, R, x)
             Y == Before(Q, R, y)
  <2>1. X \cup {x} \subseteq Y /\ x \notin X
    BY <1>3 DEF Before, Ordered
  <2>2. Valued(most, X \cup {x}) /\ (X \cup {x}) \ {x} = X
    BY <1>1, <2>1, FS_AddElement DEF Valued
  <2>3. Sum(most, X \cup {x}) = most[x] + Sum(most, X)
    BY <2>2, SumSplits
  <2>4. Sum(most, X \cup {x}) <= Sum(most, Y)
    BY <1>1, <2>1, SumGrows
  <2>5. Sum(most, X) \in Nat /\ Sum(most, Y) \in Nat /\ most[x] \in Nat /\ most[y] \in Nat
    BY <1>1
  <2>6. take[x] = Portion(wanted, Sum(most, X), most[x]) /\ take[y] = Portion(wanted, Sum(most, Y), most[y])
    OBVIOUS
  <2> HIDE DEF X, Y
  <2>7. Sum(most, Y) < wanted
    BY <1>3, <2>5, <2>6 DEF Portion
  <2> QED
    BY <2>3, <2>4, <2>5, <2>6, <2>7 DEF Portion
<1> QED
  BY <1>2, <1>3

-----------------------------------------------------------------------------
(* The two queues of the code.                                              *)
LEMMA WholeSum ==
    ASSUME NEW S, NEW f, \A h \in S : f[h] = Whole(h.qty)
    PROVE  MapThenSumSet(LAMBDA h : Whole(h.qty), S) = Sum(f, S)
<1> DEFINE G(g) == g = [s \in SUBSET S |-> IF s = {} THEN 0 ELSE Whole(One(s).qty) + g[s \ {One(s)}]]
<1>1. MapThenSumSet(LAMBDA h : Whole(h.qty), S) = (CHOOSE g : G(g))[S]
  BY DEF MapThenSumSet, MapThenFoldSet, One
<1>2. ASSUME NEW s \in SUBSET S, s # {} PROVE f[One(s)] = Whole(One(s).qty)
  BY <1>2, OneIsIn
<1>3. \A g : G(g) <=> Unrolls(f, S, g)
  BY <1>2 DEF Unrolls
<1> HIDE DEF G
<1>4. (CHOOSE g : G(g)) = (CHOOSE g : Unrolls(f, S, g))
  BY <1>3, Zenon
<1> QED
  BY <1>1, <1>4, SumUnfolded

LEMMA ExposureSum ==
    ASSUME NEW S, NEW f, \A m \in S : f[m] = Exposure(m)
    PROVE  MapThenSumSet(Exposure, S) = Sum(f, S)
<1> DEFINE G(g) == g = [s \in SUBSET S |-> IF s = {} THEN 0 ELSE Exposure(One(s)) + g[s \ {One(s)}]]
<1>1. MapThenSumSet(Exposure, S) = (CHOOSE g : G(g))[S]
  BY DEF MapThenSumSet, MapThenFoldSet, One
<1>2. ASSUME NEW s \in SUBSET S, s # {} PROVE f[One(s)] = Exposure(One(s))
  BY <1>2, OneIsIn
<1>3. \A g : G(g) <=> Unrolls(f, S, g)
  BY <1>2 DEF Unrolls
<1> HIDE DEF G
<1>4. (CHOOSE g : G(g)) = (CHOOSE g : Unrolls(f, S, g))
  BY <1>3, Zenon
<1> QED
  BY <1>1, <1>4, SumUnfolded

\* _build_sell_orders sells what is asked as far as the executable accounts
\* hold it in whole shares, from nobody more than it holds, and a tax-deferred
\* share only after every taxable one.
THEOREM SalesShared ==
    ASSUME NEW holders, IsFiniteSet(holders), \A h \in holders : h.qty \in Nat /\ h.at \in Nat,
           \A g, h \in holders : g.at = h.at => g = h,
           NEW wanted \in Nat
    PROVE  LET able  == Holders(holders)
               sold  == [h \in able |-> Take(holders, h, wanted)]
               whole == [h \in able |-> Whole(h.qty)]
           IN  /\ Sum(sold, able) = Lesser(wanted, Sum(whole, able))
               /\ \A h \in able : sold[h] \in 0..whole[h]
               /\ \A g, h \in able :
                      g.account \notin Deferred /\ h.account \in Deferred /\ sold[h] > 0
                          => sold[g] = whole[g]
<1> DEFINE able  == Holders(holders)
           sold  == [h \in able |-> Take(holders, h, wanted)]
           whole == [h \in able |-> Whole(h.qty)]
           R == {x \in able \X able : SellsBefore(x[1], x[2])}
<1>1. IsFiniteSet(able) /\ able \subseteq holders
  BY FS_Subset DEF Holders
<1>2. \A g, h \in able : <<g, h>> \in R <=> SellsBefore(g, h)
  OBVIOUS
<1>3. Ordered(able, R)
  <2>1. \A g \in able : ~SellsBefore(g, g)
    BY <1>1 DEF SellsBefore
  <2>2. \A g, h \in able : g # h => SellsBefore(g, h) \/ SellsBefore(h, g)
    BY <1>1 DEF SellsBefore
  <2>3. \A f, g, h \in able : SellsBefore(f, g) /\ SellsBefore(g, h) => SellsBefore(f, h)
    BY <1>1 DEF SellsBefore
  <2> HIDE DEF able, R
  <2> QED
    BY <1>2, <2>1, <2>2, <2>3 DEF Ordered
<1>4. \A h \in able : whole[h] \in Nat
  BY <1>1, PartsAssumption DEF Whole
<1>5. ASSUME NEW h \in able PROVE sold[h] = Portion(wanted, Sum(whole, Before(able, R, h)), whole[h])
  <2> DEFINE B == Before(able, R, h)
  <2>1. B = {g \in Holders(holders) : SellsBefore(g, h)}
    BY <1>2 DEF Before
  <2>2. \A g \in B : whole[g] = Whole(g.qty)
    BY DEF Before
  <2> HIDE DEF B, whole
  <2>3. MapThenSumSet(LAMBDA g : Whole(g.qty), B) = Sum(whole, B)
    BY <2>2, WholeSum
  <2>4. Take(holders, h, wanted) = Portion(wanted, Sum(whole, B), Whole(h.qty))
    BY <2>1, <2>3 DEF Take
  <2> QED
    BY <2>4 DEF whole, B
<1> HIDE DEF able, sold, whole, R
<1>6. Sum(sold, able) = Lesser(wanted, Sum(whole, able))
  BY <1>1, <1>3, <1>4, <1>5, QueueServed
<1>7. /\ \A h \in able : sold[h] \in 0..whole[h]
      /\ \A g, h \in able : <<g, h>> \in R /\ sold[h] > 0 => sold[g] = whole[g]
  BY <1>1, <1>3, <1>4, <1>5, QueueInTurn
<1>8. \A g, h \in able : g.account \notin Deferred /\ h.account \in Deferred => <<g, h>> \in R
  BY <1>2 DEF SellsBefore
<1> QED
  BY <1>6, <1>7, <1>8 DEF able, sold, whole

(* The first alternative and the primary are members of the group.          *)
Group(members) ==
    /\ IsFiniteSet(members)
    /\ \A m \in members : m.value \in Nat /\ m.lev \in Nat /\ m.at \in Nat
    /\ \A m, n \in members : m.at = n.at => m = n
    /\ \E m \in members : IsPrimary(m)
    /\ \A m, n \in members : IsPrimary(m) /\ IsPrimary(n) => m = n

LEMMA BuyTargetIs ==
    ASSUME NEW members, Group(members), NEW buyDeferred
    PROVE  /\ BuyTarget(members, buyDeferred) \in members
           /\ \/ IsPrimary(BuyTarget(members, buyDeferred))
              \/ BuyTarget(members, buyDeferred).role = "DOMESTIC_ALT"
           /\ buyDeferred /\ (\E m \in members : m.role = "DOMESTIC_ALT") =>
                  LET b == BuyTarget(members, buyDeferred) IN b.role = "DOMESTIC_ALT" \/ ~b.overseas
<1> DEFINE primary == CHOOSE m \in members : IsPrimary(m)
           alts == {m \in members : m.role = "DOMESTIC_ALT"}
           first == CHOOSE m \in alts : \A n \in alts : m.at <= n.at
           R == {x \in alts \X alts : x[2].at < x[1].at}
<1>1. primary \in members /\ IsPrimary(primary)
  BY DEF Group
<1>2. ASSUME alts # {} PROVE first \in alts
  <2>1. IsFiniteSet(alts)
    BY FS_Subset DEF Group
  <2>2. Ordered(alts, R)
    <3>1. \A x, y \in alts : <<x, y>> \in R <=> y.at < x.at
      OBVIOUS
    <3>2. \A x, y \in alts : x.at \in Nat /\ (x # y => x.at # y.at)
      BY DEF Group
    <3> HIDE DEF R, alts
    <3> QED
      BY <3>1, <3>2 DEF Ordered
  <2>3. PICK m \in alts : \A n \in alts \ {m} : <<n, m>> \in R
    BY <1>2, <2>1, <2>2, HasLast
  <2>4. \A n \in alts : n.at \in Nat
    BY DEF Group
  <2>5. \A n \in alts \ {m} : m.at < n.at
    BY <2>3
  <2>6. \A n \in alts : m.at <= n.at
    <3> HIDE DEF alts
    <3> QED
      BY <2>4, <2>5
  <2> QED
    BY <2>6
<1>3. BuyTarget(members, buyDeferred) =
          IF buyDeferred /\ primary.overseas /\ alts # {} THEN first ELSE primary
  BY DEF BuyTarget
<1> QED
  BY <1>1, <1>2, <1>3

\* allocate_group_trades brings the exposure of a group to its target; no
\* member is bought while another is sold, what is bought is the primary or the
\* domestic alternative, and the primary is sold only when nothing else is left.
THEOREM GroupsBalance ==
    ASSUME NEW members, Group(members), NEW target \in Nat, NEW buyDeferred
    PROVE  LET to == [m \in members |-> MemberTarget(members, m, target, buyDeferred)]
               rises == {m \in members : to[m] > Exposure(m)}
               falls == {m \in members : to[m] < Exposure(m)}
           IN  /\ Sum(to, members) = target
               /\ rises = {} \/ falls = {}
               /\ rises \cup falls = Trades(members, target, buyDeferred)
               /\ \A m \in rises : m = BuyTarget(members, buyDeferred)
               /\ \A m \in falls : IsPrimary(m) => \A n \in members \ {m} : to[n] = 0
<1> DEFINE to == [m \in members |-> MemberTarget(members, m, target, buyDeferred)]
           has == [m \in members |-> Exposure(m)]
           all == Sum(has, members)
           buyer == BuyTarget(members, buyDeferred)
           R == {x \in members \X members : SoldBefore(x[1], x[2])}
<1> DEFINE surplus == all - target
<1>1. IsFiniteSet(members) /\ \A m \in members : Exposure(m) \in Nat /\ has[m] = Exposure(m)
  BY DEF Group, Exposure
<1>2. all \in Nat /\ surplus \in Int
  BY <1>1, SumTyped DEF Valued
<1>3. MapThenSumSet(Exposure, members) = all
  BY <1>1, ExposureSum
<1>4. \A m, n \in members : <<m, n>> \in R <=> SoldBefore(m, n)
  OBVIOUS
<1>5. Ordered(members, R)
  <2>1. \A m \in members : ~SoldBefore(m, m)
    BY DEF SoldBefore, Group
  <2>2. \A m, n \in members : m # n => SoldBefore(m, n) \/ SoldBefore(n, m)
    BY DEF SoldBefore, Group, IsPrimary
  <2>3. \A l, m, n \in members : SoldBefore(l, m) /\ SoldBefore(m, n) => SoldBefore(l, n)
    BY DEF SoldBefore, Group, IsPrimary
  <2> HIDE DEF R
  <2> QED
    BY <1>4, <2>1, <2>2, <2>3 DEF Ordered
<1> HIDE DEF has, all, R
<1>6. ASSUME NEW m \in members
      PROVE  to[m] = IF surplus >= 0
                     THEN has[m] - Portion(surplus, Sum(has, Before(members, R, m)), has[m])
                     ELSE IF m = buyer THEN has[m] - surplus ELSE has[m]
  <2> DEFINE B == Before(members, R, m)
  <2>1. B = {n \in members : SoldBefore(n, m)}
    BY <1>4 DEF Before
  <2>2. MapThenSumSet(Exposure, B) = Sum(has, B)
    BY <1>1, ExposureSum DEF Before
  <2>3. MemberTarget(members, m, target, buyDeferred) =
            LET spare  == MapThenSumSet(Exposure, members) - target
                before == MapThenSumSet(Exposure, {n \in members : SoldBefore(n, m)})
            IN  IF spare >= 0
                  THEN Exposure(m) - Portion(spare, before, Exposure(m))
                  ELSE IF m = buyer THEN Exposure(m) - spare ELSE Exposure(m)
    BY Zenon DEF MemberTarget
  <2>4. to[m] = MemberTarget(members, m, target, buyDeferred) /\ has[m] = Exposure(m)
    BY <1>1
  <2> HIDE DEF B, to, buyer
  <2> QED
    BY <1>3, <2>1, <2>2, <2>3, <2>4 DEF B
<1>7. \A m \in members : has[m] \in Nat
  BY <1>1
<1>8. Trades(members, target, buyDeferred) = {m \in members : to[m] # has[m]}
  BY <1>1 DEF Trades
<1> DEFINE rises == {m \in members : to[m] > has[m]}
           falls == {m \in members : to[m] < has[m]}
           Goal == /\ Sum(to, members) = target
                   /\ rises = {} \/ falls = {}
                   /\ rises \cup falls = {m \in members : to[m] # has[m]}
                   /\ \A m \in rises : m = buyer
                   /\ \A m \in falls : IsPrimary(m) => \A n \in members \ {m} : to[n] = 0
<1>9. ASSUME surplus >= 0 PROVE Goal
  <2> DEFINE take == [m \in members |-> Portion(surplus, Sum(has, Before(members, R, m)), has[m])]
  <2>1. surplus \in Nat /\ IsFiniteSet(members)
    BY <1>1, <1>2, <1>9
  <2>t. \A m \in members : take[m] = Portion(surplus, Sum(has, Before(members, R, m)), has[m])
    OBVIOUS
  <2>u. \A m \in members : to[m] = has[m] - take[m]
    BY <1>6, <1>9
  <2> HIDE DEF take, surplus, to
  <2>2. /\ \A m \in members : take[m] \in 0..has[m]
        /\ \A m, n \in members : <<m, n>> \in R /\ take[n] > 0 => take[m] = has[m]
    BY <2>1, <2>t, <1>5, <1>7, QueueInTurn
  <2>3. Sum(take, members) = Lesser(surplus, all)
    BY <2>1, <2>t, <1>5, <1>7, QueueServed DEF all
  <2>5. \A m \in members : has[m] = to[m] + take[m] /\ to[m] \in Nat /\ take[m] \in Nat
    BY <1>7, <2>2, <2>u
  <2>6. all = Sum(to, members) + Sum(take, members) /\ Sum(to, members) \in Nat
    BY <2>1, <2>5, SumAdds, SumTyped DEF all, Valued
  <2>7. Sum(to, members) = target
    BY <1>2, <1>9, <2>3, <2>6 DEF Lesser, surplus
  <2>8. rises = {} /\ falls = {m \in members : take[m] > 0}
    BY <2>5
  <2>9. falls = {m \in members : to[m] # has[m]}
    BY <2>5
  <2>10. ASSUME NEW m \in members, take[m] > 0, IsPrimary(m), NEW n \in members \ {m}
         PROVE  to[n] = 0
    <3>1. SoldBefore(n, m)
      BY <2>10 DEF SoldBefore, Group
    <3>2. take[n] = has[n]
      BY <1>4, <2>2, <2>10, <3>1
    <3>3. has[n] = to[n] + take[n] /\ to[n] \in Nat /\ take[n] \in Nat
      BY <2>5
    <3> QED
      BY <3>2, <3>3
  <2> HIDE DEF rises, falls
  <2> QED
    BY <2>7, <2>8, <2>9, <2>10
<1>10. ASSUME ~(surplus >= 0) PROVE Goal
  <2> DEFINE gap == target - all
  <2>1. gap \in Nat /\ gap > 0 /\ buyer \in members
    BY <1>2, <1>10, BuyTargetIs
  <2>2. \A m \in members : to[m] = IF m = buyer THEN has[m] + gap ELSE has[m]
    BY <1>2, <1>6, <1>7, <1>10
  <2> HIDE DEF gap, buyer, to
  <2>3. Sum(to, members) = has[buyer] + gap + Sum(has, members \ {buyer})
    <3>1. Sum(to, members) = to[buyer] + Sum(to, members \ {buyer})
      BY <1>1, <1>7, <2>1, <2>2, SumSplits DEF Valued
    <3>2. Sum(to, members \ {buyer}) = Sum(has, members \ {buyer})
      BY <1>1, <2>2, FS_RemoveElement, SumAgrees
    <3> QED
      BY <2>1, <2>2, <3>1, <3>2
  <2>4. all = has[buyer] + Sum(has, members \ {buyer})
    BY <1>1, <1>7, <2>1, SumSplits DEF Valued, all
  <2>5. Sum(has, members \ {buyer}) \in Nat /\ has[buyer] \in Nat
    BY <1>1, <1>7, <2>1, FS_RemoveElement, SumTyped DEF Valued
  <2>6. Sum(to, members) = target
    BY <1>2, <2>1, <2>3, <2>4, <2>5 DEF gap
  <2>7. rises = {buyer} /\ falls = {} /\ {m \in members : to[m] # has[m]} = {buyer}
    BY <1>7, <2>1, <2>2
  <2> HIDE DEF rises, falls
  <2> QED
    BY <2>6, <2>7
<1>11. Goal
  BY <1>9, <1>10
<1>12. /\ rises = {m \in members : to[m] > Exposure(m)}
       /\ falls = {m \in members : to[m] < Exposure(m)}
  BY <1>1
<1> HIDE DEF rises, falls, to, buyer
<1> QED
  BY <1>8, <1>11, <1>12 DEF to, buyer

-----------------------------------------------------------------------------
(* An order keeps its side and its account on the way into the plan, and    *)
(* only becomes smaller.                                                    *)
LEMMA PlannedOrder ==
    ASSUME NEW ticker, NEW account, NEW side, NEW qty \in Nat, NEW limit,
           NEW row, row.price.money \in Nat, row.price.for \in Nat, NEW cap \in Nat,
           NEW q, q = Order(ticker, account, side, qty, row, limit),
           NEW o, o = Limited(Capped(q, cap))
    PROVE  o.side = side /\ o.account = account /\ o.qty \in Nat /\ o.qty <= qty
<1> DEFINE most == (cap * row.price.for) \div (row.price.money * Parts)
           Fields(r) == r.side = side /\ r.account = account /\ r.qty \in Nat /\ r.qty <= qty
<1>1. /\ q = [ticker |-> ticker, account |-> account, side |-> side, qty |-> qty,
              price |-> row.price, type |-> q.type]
      /\ q.price = row.price
  BY DEF Order
<1>2. Fields(Capped(q, cap)) /\ Capped(q, cap).ticker = ticker
  <2>1. CASE ~Known(q.price)
    BY <1>1, <2>1 DEF Capped
  <2>2. CASE Known(q.price)
    <3>1. most \in Nat
      <4>1. row.price.money * Parts \in Nat /\ row.price.money * Parts > 0
        BY <1>1, <2>2, PartsAssumption, ProductPositive DEF Known
      <4>2. cap * row.price.for \in Nat
        OBVIOUS
      <4> QED
        BY <4>1, <4>2, Quotient
    <3>2. Capped(q, cap) = IF qty <= most THEN q ELSE [q EXCEPT !.qty = most]
      BY <1>1, <2>2 DEF Capped
    <3> HIDE DEF most
    <3> QED
      BY <1>1, <3>1, <3>2
  <2> QED
    BY <2>1, <2>2
<1>3. Capped(q, cap) = [ticker |-> ticker, account |-> account, side |-> side,
                        qty |-> Capped(q, cap).qty, price |-> row.price, type |-> q.type]
  <2>1. \E n : Capped(q, cap) = q \/ Capped(q, cap) = [q EXCEPT !.qty = n]
    BY DEF Capped
  <2>2. ASSUME NEW n, Capped(q, cap) = [q EXCEPT !.qty = n]
        PROVE  Capped(q, cap) = [ticker |-> ticker, account |-> account, side |-> side,
                                 qty |-> n, price |-> row.price, type |-> q.type]
    BY <1>1, <2>2
  <2> QED
    BY <1>1, <2>1, <2>2
<1> QED
  BY <1>2, <1>3 DEF Limited

\* From a row to the orders of the plan: nothing is sold when the plan may only
\* buy, and no account is asked for more whole shares than it holds.
THEOREM SalesWithinHoldings ==
    ASSUME NEW holders, IsFiniteSet(holders), \A h \in holders : h.qty \in Nat /\ h.at \in Nat,
           \A g, h \in holders : g.at = h.at => g = h,
           NEW row, row.shares \in Int, row.price.money \in Nat, row.price.for \in Nat,
           NEW ticker, NEW buyAccount, NEW held, NEW buyOnly, NEW limit, NEW cap \in Nat,
           NEW o \in PlanOrders(OrdersOf(ticker, row, holders, buyAccount, held, buyOnly, limit), cap),
           o.side = "SELL"
    PROVE  /\ ~buyOnly
           /\ \E h \in holders : /\ o.account = h.account /\ h.account \in Executable
                                 /\ Parts * o.qty <= h.qty
<1> DEFINE orders == OrdersOf(ticker, row, holders, buyAccount, held, buyOnly, limit)
           size == Size(row)
<1>1. PICK q \in orders : o = Limited(Capped(q, cap))
  BY DEF PlanOrders
<1>2. size \in Nat
  BY PartsAssumption DEF Size, Whole
<1>3. ASSUME NEW h \in Holders(holders)
      PROVE  Take(holders, h, size) \in 0..Whole(h.qty)
  <2> DEFINE able  == Holders(holders)
             sold  == [g \in able |-> Take(holders, g, size)]
             whole == [g \in able |-> Whole(g.qty)]
  <2>1. \A g \in able : sold[g] \in 0..whole[g]
    <3> HIDE DEF size
    <3> QED
      BY <1>2, SalesShared
  <2> QED
    BY <2>1
<1>4. Orderable(row, buyOnly)
  BY <1>1 DEF OrdersOf
<1>5. q \in BuyOrders(ticker, row, buyAccount, held, limit) => o.side = "BUY"
  <2> SUFFICES ASSUME q = Order(ticker, buyAccount, "BUY", size, row, limit) PROVE o.side = "BUY"
    BY DEF BuyOrders
  <2> HIDE DEF size
  <2> QED
    BY <1>1, <1>2, PlannedOrder
<1>6. ~IsBuyRow(row) /\ q \in SellOrders(ticker, row, holders, limit)
  BY <1>1, <1>4, <1>5 DEF OrdersOf
<1>7. PICK h \in Holders(holders) :
          q = Order(ticker, h.account, "SELL", Take(holders, h, size), row, limit)
  BY <1>6 DEF SellOrders
<1>8. Whole(h.qty) \in Int /\ Parts * Whole(h.qty) <= h.qty /\ h.qty \in Nat
  BY <1>7, PartsAssumption, DivBounds DEF Whole, Holders
<1>9. o.account = h.account /\ o.qty \in Nat /\ o.qty <= Whole(h.qty)
  <2> DEFINE sold == Take(holders, h, size)
  <2>1. sold \in Nat /\ sold <= Whole(h.qty)
    BY <1>3, <1>8
  <2>2. q = Order(ticker, h.account, "SELL", sold, row, limit)
    BY <1>7
  <2> HIDE DEF sold
  <2>3. o.account = h.account /\ o.qty \in Nat /\ o.qty <= sold
    BY <1>1, <2>1, <2>2, PlannedOrder
  <2> QED
    BY <1>8, <2>1, <2>3
<1>10. Parts * o.qty <= h.qty
  <2>1. Parts * o.qty <= Parts * Whole(h.qty)
    BY <1>8, <1>9, PartsAssumption, Scaled
  <2>2. Parts * o.qty \in Int /\ Parts * Whole(h.qty) \in Int
    BY <1>8, <1>9, PartsAssumption
  <2> QED
    BY <1>8, <2>1, <2>2
<1> QED
  BY <1>4, <1>6, <1>9, <1>10 DEF Orderable, Holders
=============================================================================
