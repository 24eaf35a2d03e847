SPECIFICATION FairSpec
CONSTANTS
    w1 = w1
    w2 = w2
    Works = {w1, w2}
    Owner = Owner
    Free = Free
    GlobalConcurrency = 2
    NoMessage = NoMessage
    Answers = {yes}
    MaxRetries = 0
    Deps <- Chained
    MaxFailures = 2
    MaxCycles = 2
    StepAttempts = 3
    Outcomes = {"complete", "act", "ask"}
    Results = {"fail"}
    Commands = {"start", "cancel", "answer"}
    Fuel <- Owner3Crash1
INVARIANTS DependenciesFirst ActiveWorkIsDriven
PROPERTIES EveryItemRests CompletionIsReported EveryQuestionIsAsked
CHECK_DEADLOCK FALSE
