SPECIFICATION Spec
CONSTANTS
    w1 = w1
    w2 = w2
    hands = hands
    voice = voice
    p = p
    q = q
    Procs = {p, q}
    NoProc = NoProc
    NoRequest = NoRequest
    Work = {w1}
    Scoped = {}
    Hands = {}
    Lives = {voice}
    Item <- OneItem
    Cost <- Costs
    Kinds = {"pressure", "transient", "contract", "unavailable", "rejected"}
    Ceiling = 2
    SoftStop = 1
    MaxBill = 2
    MaxTools = 1
SYMMETRY Alike
INVARIANTS TypeOK LedgerBalances UnknownBlocks SentIsHeld
CHECK_DEADLOCK FALSE
