SPECIFICATION Spec
CONSTANTS
    PacketSize = 8
    HdrLen = 2
    TablesLen = 3
    OpusLimit = 4
    SeqNumbers = 4
    Offsets = 32
    Blocks = 256
    Pictures <- MCPictures
    OpusPackets <- MCOpusPackets
    Jobs = 3
INVARIANTS
    TypeOK
    SentAsFragments
    VideoContinues
    AudioGapsAreDrops
CHECK_DEADLOCK FALSE
