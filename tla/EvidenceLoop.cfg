SPECIFICATION LoopFairSpec
CONSTANTS
    search = search
    extract = extract
    fetch = fetch
    Tools <- ToolsDef
    StanceTools <- StanceDef
    EvidenceTools <- EvidenceDef
    Cap <- CapDef
    MaxToolCalls = 3
    MaxIterations = 4
    CostLimit = 3
    MaxCallCost = 2
    MaxItems = 1
    HasAnswer = TRUE
INVARIANTS NeverRecursionError CostOvershoot HonestReason CounterFloor EvidenceIsAnswered
PROPERTIES Terminates
CHECK_DEADLOCK FALSE
