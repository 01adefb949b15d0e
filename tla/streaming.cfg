SPECIFICATION Spec
CONSTANTS
    f1 = f1
    f2 = f2
    p1 = p1
    p2 = p2
    Fbs = {f1, f2}
    Packets = {p1, p2}
    VideoLen = 2
    AudioLen = 1
    None = None
INVARIANTS
    TypeOK
    TokenPerFrame
    WokenForFrame
    SignalSucceeds
    GateBalance
    OneHolder
    VideoNeverRefused
PROPERTIES
    VideoDrains
    StartIsEffective
