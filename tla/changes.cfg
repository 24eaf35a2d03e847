SPECIFICATION Spec
CONSTANTS
    MaxPlans = 2
    MaxCommands = 1
    MaxCrashes = 0
INVARIANTS TypeOK AcceptedIsCurrent OneStagePerPlan
CHECK_DEADLOCK FALSE
