SPECIFICATION Spec
CONSTANTS
    Sessions = {s1}
    Turns = {t1, t2, t3}
    Clients = {c1, c2}
    Executors = {}
    NoSession = NoSession
    NoTurn = NoTurn
    StaleAfter = 1
    UnpickedFactor = 2
    MaxFaults = 2
SYMMETRY Symmetry
INVARIANTS OnePendingPerSession
CHECK_DEADLOCK FALSE
