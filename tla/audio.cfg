SPECIFICATION Spec
CONSTANTS
    QueueLen = 2
    Combined = 3
    Heap = 4
    Reads = 6
INVARIANTS
    TypeOK
    GateBalance
    BufferHeld
    FrameInOnePlace
    CountersAgree
PROPERTIES
    OrderedStream
    QueuedIsFreed
