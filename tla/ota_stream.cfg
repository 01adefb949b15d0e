SPECIFICATION Spec
CONSTANTS
    w1 = w1
    d1 = d1
    d2 = d2
    Web = {w1}
    Downloads = {d1}
    Chunks = 2
    QueueLen = 2
    None = None
INVARIANT FailedUpgradeRestartsStream
CHECK_DEADLOCK FALSE
