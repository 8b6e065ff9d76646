\* One run and the deletion of its account.
CONSTANTS
    s1 = s1  s2 = s2
    Syncs = {s1}
    MaxOrders = 1
    MaxSets = 3
    MaxRare = 1
    Late = {}
    Free = Free
SPECIFICATION Spec
PROPERTIES DeletedStaysDeleted
CHECK_DEADLOCK FALSE
