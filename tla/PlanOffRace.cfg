CONSTANTS
    b1 = b1  b2 = b2  s1 = s1
    u1 = u1  u2 = u2  t1 = t1  t2 = t2  w1 = w1  p1 = p1
    BuyLegs = {b1}
    SellLegs = {}
    Users = {u1}
    Ticks = {t1}
    Sweeps = {}
    Planners = {p1}
    Free = Free
    NoLeg = NoLeg
    MaxLegs = 1
    MaxFaults = 0
    SlowExecution = FALSE
    PlanOverlapsOff = TRUE
SPECIFICATION Spec
INVARIANTS OffStopsBuys
\* Without an alert or a leg left to decide nothing has to happen any more.
CHECK_DEADLOCK FALSE
