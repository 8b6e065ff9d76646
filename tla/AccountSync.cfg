\* Two runs, one order, and one of: a lock outlived, a half left running, keys or account deleted.
CONSTANTS
    s1 = s1  s2 = s2
    Syncs = {s1, s2}
    MaxOrders = 1
    MaxSets = 3
    MaxRare = 1
    Late = {s2}
    Free = Free
SPECIFICATION FairSpec
INVARIANTS GateMissesForAReason
PROPERTIES OneSetOfPositions HoldingsNeverGoBack HoldingsCatchUp
CHECK_DEADLOCK FALSE
