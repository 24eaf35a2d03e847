SPECIFICATION FairSpec
CONSTANTS
    a = a
    b = b
    c = c
    NoItem = NoItem
    Items = {a, b, c}
    Priority <- Priorities
    Capacity <- Capacities
    Rank <- Ranks
    Base <- BaseKeys
    Declared <- Declarations
INVARIANTS TypeOK OneReasoner LeaseIsHeldOnce ConversationComesFirst PreemptionIsNoFailure UnitsAreConserved
PROPERTIES UrgentReasoningReturns EveryLeaseIsServed
CHECK_DEADLOCK FALSE
