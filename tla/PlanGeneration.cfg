\* Two alerts, one evaluated once a day and one at its time.
CONSTANTS
    old = old  new = new  j1 = j1  j2 = j2  k1 = k1  a1 = a1  a2 = a2
    x1 = x1  x2 = x2  x3 = x3
    Processes = {old, new}
    Jobs = {j1, j2}
    Clicks = {k1}
    Home <- MCHome
    Alerts = {a1, a2}
    OncePerDay = {a2}
    Plans = {x1, x2}
    Values <- MCValues
    Cap = 2
    MaxFaults = 1
    Free = Free
    None = None
    Parts = 2
    Executable = {"general", "isa", "other"}
    Deferred = {"isa"}
SPECIFICATION Spec
INVARIANTS OpenPlanPerProcess AutoPlanOncePerDay CapPerProcess ClaimHasCause
SYMMETRY PlanNames
\* Plans and days run out.
CHECK_DEADLOCK FALSE
