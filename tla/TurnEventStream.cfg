SPECIFICATION FairSpec
CONSTANTS
    Runs = {r1}
    SlowRuns = FALSE
    MaxSeq = 3
    MaxConnects = 3
INVARIANTS Complete
PROPERTIES FramesInOrder ResultArrives
CHECK_DEADLOCK FALSE
