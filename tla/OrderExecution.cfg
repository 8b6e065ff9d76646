\* Three orders, one repeated call, one dealing outside the app.
CONSTANTS
    a = a  u = u  r1 = r1  r2 = r2
    Tickers = {a, u}
    Requests = {r1, r2}
    N = 3
    Lines <- MCLines
    Clicked <- MCClicked
    Plans <- MCPlans
    Cash <- MCCash
    Held <- MCHeld
    Retries = 1
    MaxOutside = 1
    Free = Free  Unasked = Unasked  NoLimit = NoLimit
SPECIFICATION Spec
SYMMETRY Symmetry
INVARIANTS NeverMoreThanPlanned NothingTakenUnseen EveryShareAccounted SurpriseHasCause CancelTellsTheTruth
PROPERTIES CanceledStays
CHECK_DEADLOCK FALSE
