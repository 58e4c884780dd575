SPECIFICATION FairSpec
CONSTANTS
    Accounts = {a1, a2}
    Requests = {q1, q2}
    MaxAttempts = 2
    MaxRequests = 4
    MaxFaults = 1
INVARIANTS PurgeIsWhole DeactivatedIsTracked
PROPERTIES DueSettles
CHECK_DEADLOCK FALSE
