SPECIFICATION FairSpec
CONSTANTS
    Sessions = {s1}
    Turns = {t1}
    Clients = {c1}
    Executors = {e1, e2}
    NoSession = NoSession
    NoTurn = NoTurn
    StaleAfter = 1
    UnpickedFactor = 2
    MaxFaults = 2
INVARIANTS AckedIsClosed
PROPERTIES LedgerSpec EveryTurnCloses
CHECK_DEADLOCK FALSE
