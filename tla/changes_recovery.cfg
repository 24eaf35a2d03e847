SPECIFICATION Spec
CONSTANTS
    MaxPlans = 1
    MaxCommands = 2
    MaxCrashes = 1
PROPERTIES ApprovedIsBuilt StartupRepairs
CHECK_DEADLOCK FALSE
