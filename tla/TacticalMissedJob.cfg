CONSTANTS
    c1 = c1
    c2 = c2
    Views = {c1}
    Saves = {c1, c2}
    Markets <- MCMarkets
    Settings <- MCSettings
    MaxRequests = 2
SPECIFICATION Spec
PROPERTIES
    SeenTwiceIsConfirmed
