SPECIFICATION Spec
CONSTANTS
    w1 = w1
    d1 = d1
    d2 = d2
    Web = {w1}
    Downloads = {d1}
    Chunks = 2
    QueueLen = 1
    None = None
INVARIANTS
    TypeOK
    FlagHasOwner
    AloneMeansWhole
    StreamsReturn
    SuccessPending
PROPERTY DownloadSettles
CHECK_DEADLOCK FALSE
