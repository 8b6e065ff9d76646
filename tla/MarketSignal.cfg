\* The job and one gate; a subscriber; three observations of two levels.
CONSTANTS
    job = job  g1 = g1  u1 = u1  green = green  red = red
    Readers = {job, g1}
    Job = job
    Users = {u1}
    Levels = {green, red}
    Green = green
    MaxObs = 3
    Required = 2
    MaxAttempts = 2
    MaxFaults = 1
    Free = Free  None = None
SPECIFICATION FairSpec
INVARIANTS LockHolderExclusive ToldAgainForAReason
PROPERTIES ConfirmedSeenTwice NoticeCatchesUp
CHECK_DEADLOCK FALSE
