CONSTANTS
    c1 = c1
    c2 = c2
    Views = {c1}
    Saves = {c1, c2}
    Markets <- MCMarkets
    Settings <- MCSettings
    MaxRequests = 2
SPECIFICATION FairSpec
INVARIANTS
    TypeOK
    RowIsSound
    HalfOnce
PROPERTIES
    ConfirmedOnTwoDays
    DipRatchets
    RegimeIsTold
    RegimeCatchesUp
