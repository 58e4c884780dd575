SPECIFICATION Spec
CONSTANTS
    Papers = {1, 2}
    MaxStamp = 3
    MaxTie = 1
    Minute = 2
    PageSize = 1
    MaxPages = 2
    Rebuilders = {r1, r2}
    MaxFaults = 1
    MaxManual = 1
    Revised = TRUE
SYMMETRY Symmetry
INVARIANTS RebuildRecovers
PROPERTIES BackOnlyUnderLock
CHECK_DEADLOCK FALSE
