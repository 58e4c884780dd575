SPECIFICATION Spec
CONSTANTS
    Jobs <- JobsOfWork
    Keys = {"doi", "arxiv", "title"}
    PaperOf <- PaperOfWork
    PriorityOf <- PriorityOfWork
    KeysOf <- KeysOfWork
    SizeOf <- SizeOfWork
    MaxVersion = 3
    MaxChunks = 2
    MaxSends = 4
    MaxFaults = 2
INVARIANTS TypeOK NoMixedDocument LedgerMatchesIndex NewestDelivered CanonicalMatchesIndex
CHECK_DEADLOCK FALSE
