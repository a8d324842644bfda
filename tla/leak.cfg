\* Peers are slow to answer the handshake.
SPECIFICATION Spec
CONSTANTS
    TotalPieces = 3
    PieceLength = 3
    Length = 8
    BlockSize = 2
    ByteBits = 2
    PeerCount = 2
    ReplySizes = {2}
    InitialHas <- Seeds
    BadPeers = {}
    ForeignPeers = {}
    ForeignPieces = 1
    FdLimit = 3
    MaxFlight = 0
    Events = {"slow"}
INVARIANTS FileHoldsCounted
