CONSTANTS
    b1 = b1  b2 = b2  s1 = s1
    u1 = u1  u2 = u2  t1 = t1  t2 = t2  w1 = w1  p1 = p1
    BuyLegs = {b1}
    SellLegs = {s1}
    Users = {u1, u2}
    Ticks = {t1}
    Sweeps = {w1}
    Planners = {p1}
    Free = Free
    NoLeg = NoLeg
    MaxLegs = 1
    MaxFaults = 1
    SlowExecution = TRUE
    PlanOverlapsOff = FALSE
SPECIFICATION FairSpec
INVARIANTS TypeOK OrdersAtMostOnce DeclinedNeverOrdered FillsAreAccounted
PROPERTIES TerminalIsFinal ImplementsPromise LegIsDecided
\* Without an alert or a leg left to decide nothing has to happen any more.
CHECK_DEADLOCK FALSE
