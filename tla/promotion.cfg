SPECIFICATION Spec
CONSTANTS
    c1 = c1
    c2 = c2
    t1 = t1
    t2 = t2
    Initial = Initial
    NoChange = NoChange
    Changes = {c1, c2}
    Tools = {t1, t2}
    Required = 1
    RestartCount = 1
    MaxCalls = 4
    MaxCrashes = 1
    MaxFaults = 1
SYMMETRY Alike
INVARIANTS TypeOK OnlyApprovedRuns FallbackIsKnownGood
CHECK_DEADLOCK FALSE
