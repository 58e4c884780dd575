SPECIFICATION FairSpec
CONSTANTS
    Papers = {1, 2, 3, 4, 5}
    MaxStamp = 3
    MaxTie = 2
    Minute = 2
    PageSize = 2
    MaxPages = 2
    Rebuilders = {}
    MaxFaults = 1
    MaxManual = 0
    Revised = FALSE
INVARIANTS NoGap
PROPERTIES KeepsUp
