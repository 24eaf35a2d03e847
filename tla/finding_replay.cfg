SPECIFICATION Spec
CONSTANTS
    w1 = w1
    w2 = w2
    Works = {w1}
    Owner = Owner
    Free = Free
    GlobalConcurrency = 2
    NoMessage = NoMessage
    Answers = {yes}
    MaxRetries = 0
    Deps <- Alone
    MaxFailures = 2
    MaxCycles = 1
    StepAttempts = 3
    Outcomes = {"act"}
    Results = {"ok"}
    Commands = {"start"}
    Fuel <- Owner2Crash2
PROPERTIES NoReplayBeforeReview
CHECK_DEADLOCK FALSE
