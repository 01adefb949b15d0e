SPECIFICATION Spec
CONSTANTS
    ota = ota
    capture = capture
    None = None
    Topics <- MCTopics
    QueueLen = 2
    Readings = 2
    Happenings = 5
INVARIANT NewestReadingLast
CHECK_DEADLOCK FALSE
