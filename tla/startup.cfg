SPECIFICATION Spec
CONSTANTS
    ipcam = ipcam
    other = other
    Loggers = {ipcam, other}
    MaxSocket = 2
    Edges = 2
    QueueLen = 2
    Changes = 3
    Restarts = 1
INVARIANTS
    TypeOK
    LastLevelReported
    HookFollowsSocket
PROPERTIES
    StaysUp
CHECK_DEADLOCK FALSE
