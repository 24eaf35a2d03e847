SPECIFICATION Spec
CONSTANTS
    w1 = w1
    w2 = w2
    Works = {w1, w2}
    Owner = Owner
    Free = Free
    GlobalConcurrency = 2
    NoMessage = NoMessage
    Answers = {yes}
    MaxRetries = 1
    Deps <- Alone
    MaxFailures = 1
    MaxCycles = 2
    StepAttempts = 3
    Outcomes = {"preempt", "pressure", "blocked", "closed", "error", "act"}
    Results = {"ok", "fail"}
    Commands = {"start", "retry", "cancel"}
    Fuel <- Owner3Fault1Press1
SYMMETRY Alike
INVARIANTS ExecutorsAreOnRecord OneDriver WaitingIsFree
CHECK_DEADLOCK FALSE
