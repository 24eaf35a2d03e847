SPECIFICATION Spec
CONSTANTS
    w1 = w1
    w2 = w2
    Works = {w1}
    Owner = Owner
    Free = Free
    GlobalConcurrency = 2
    NoMessage = NoMessage
    Answers = {yes}
    MaxRetries = 0
    Deps <- Alone
    MaxFailures = 2
    MaxCycles = 2
    StepAttempts = 3
    Outcomes = {"refused", "unsupported", "complete", "error", "act", "ask"}
    Results = {"ok", "fail", "ask_secret"}
    Commands = {"start", "answer", "pause", "resume", "cancel", "reprioritize"}
    Fuel <- Owner3Crash1
INVARIANTS TypeOK HeldIsTrueOrStale StartupNeverAborts
PROPERTIES KeepsLifecycle StartsOnlyRunningWork OnlyTheOwnerUnpauses SealedAnswerIsCurrent NoReplayBeforeReview
CHECK_DEADLOCK FALSE
