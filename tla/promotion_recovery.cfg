SPECIFICATION Spec
CONSTANTS
    c1 = c1
    c2 = c2
    t1 = t1
    t2 = t2
    Initial = Initial
    NoChange = NoChange
    Changes = {c1}
    Tools = {t1, t2}
    Required = 2
    RestartCount = 2
    MaxCalls = 3
    MaxCrashes = 2
    MaxFaults = 2
PROPERTIES DeploymentEnds
CHECK_DEADLOCK FALSE
