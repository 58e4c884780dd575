SPECIFICATION FairSpec
CONSTANTS
    Users = {u1}
    Workers = {w1, w2}
    Routes <- MCRoutes
    Signatures = {0, 1}
    MaxAsks = 1
    MaxEdits = 1
    MaxQueued = 1
    MaxFaults = 1
INVARIANTS NoStaleServed TermsAreOwn OneRunPerClaim
PROPERTIES PollAnswered
CHECK_DEADLOCK FALSE
