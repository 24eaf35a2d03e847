SPECIFICATION Spec
CONSTANTS
    c1 = c1
    c2 = c2
    t1 = t1
    t2 = t2
    Initial = Initial
    NoChange = NoChange
    Changes = {c1}
    Tools = {t1}
    Required = 1
    RestartCount = 1
    MaxCalls = 2
    MaxCrashes = 1
    MaxFaults = 0
PROPERTIES StagedIsResumed
CHECK_DEADLOCK FALSE
