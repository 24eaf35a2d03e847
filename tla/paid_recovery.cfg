SPECIFICATION Spec
CONSTANTS
    w1 = w1
    w2 = w2
    hands = hands
    voice = voice
    p = p
    q = q
    Procs = {p, q}
    NoProc = NoProc
    NoRequest = NoRequest
    Work = {w1, w2}
    Scoped = {hands}
    Hands = {hands}
    Lives = {}
    Item <- OneItem
    Cost <- Costs
    Kinds = {"pressure", "503"}
    Ceiling = 1
    SoftStop = 1
    MaxBill = 0
    MaxTools = 1
SYMMETRY Alike
INVARIANTS WithinCeiling
PROPERTIES NoRepurchase PressureEndsByCalls
CHECK_DEADLOCK FALSE
