SPECIFICATION QuotaFairSpec
CONSTANTS
    Requests = {q1, q2, q3}
    Limit = 2
    MaxFaults = 2
INVARIANTS NeverOvercharged
PROPERTIES WindowEnds
CHECK_DEADLOCK FALSE
