\* The number of pieces fills the bytes of the bit field, and nothing goes wrong.
SPECIFICATION Spec
CONSTANTS
    TotalPieces = 2
    PieceLength = 3
    Length = 5
    BlockSize = 2
    ByteBits = 2
    PeerCount = 1
    ReplySizes = {1}
    InitialHas <- Seeds
    BadPeers = {}
    ForeignPeers = {}
    ForeignPieces = 1
    FdLimit = 2
    MaxFlight = 0
    Events = {}
INVARIANTS NoUncaughtException
