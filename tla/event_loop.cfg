SPECIFICATION Spec
CONSTANTS
    ota = ota
    capture = capture
    None = None
    Topics <- MCTopics
    QueueLen = 2
    Readings = 1
    Happenings = 5
INVARIANTS
    TypeOK
    SubscribedWhenSettled
    AtMostOnce
PROPERTIES
    StuckOnlyWhenJammed
CHECK_DEADLOCK FALSE
