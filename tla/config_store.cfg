SPECIFICATION Spec
CONSTANTS
    v1 = v1
    v2 = v2
    junk = junk
    short = short
    long = long
    Images = {v1, v2, junk, short, long}
    Valid = {v1, v2}
    Size <- MCSize
    Chunks = 2
    NoImage = NoImage
    Scrap = Scrap
    Cut = Cut
    Edited = Edited
INVARIANTS
    TypeOK
    TargetIsInactive
PROPERTIES
    AtomicUpdate
    CommitIsWhole
