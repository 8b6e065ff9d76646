\* Only callers, as in the circuits of Kiwoom and Toss, with syncs that outlast
\* the timeout.
CONSTANTS
    c1 = c1  c2 = c2  c3 = c3  c4 = c4  v1 = v1
    Callers = {c1, c2, c3}
    Previewers = {}
    BadCredentials = {}
    FailMax = 2
    Stragglers = {TRUE}
SPECIFICATION Spec
PROPERTIES OnlyProbeDecides
