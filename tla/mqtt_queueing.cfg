SPECIFICATION Spec
CONSTANTS
    ota = ota
    capture = capture
    None = None
    Topics <- MCTopics
    QueueLen = 2
    Readings = 1
    Happenings = 5
PROPERTY NotConnectedQueues
CHECK_DEADLOCK FALSE
