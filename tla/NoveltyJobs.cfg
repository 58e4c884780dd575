SPECIFICATION FairSpec
CONSTANTS
    Workers = {w1, w2}
    Chats = {c1}
    Kinds = {"works"}
    Inputs = {"language", "manuscript"}
    MaxIter = 1
    MaxSteps = 1
    MaxFaults = 1
INVARIANTS TypeOK EndIsHonest NoSilentLoss
PROPERTIES EndStays JobEnds 
CHECK_DEADLOCK FALSE
