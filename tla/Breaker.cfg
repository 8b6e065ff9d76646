\* Circuits like those of KIS and of FRED: syncs that outlast the timeout, or
\* calls far shorter than it, and a price fallback that uses the same circuit
\* without claiming the probe slot.
CONSTANTS
    c1 = c1  c2 = c2  c3 = c3  c4 = c4  v1 = v1
    Callers = {c1, c2, c3, c4}
    Previewers = {v1}
    BadCredentials = {c4}
    FailMax = 3
    Stragglers = {TRUE, FALSE}
SPECIFICATION FairSpec
INVARIANTS TypeOK StateMatchesCount SlotHasProbe OneProbe
PROPERTIES OnlyTrialDecides Recovers
