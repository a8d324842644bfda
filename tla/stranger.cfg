\* Peer 0 answers the handshake with the hash of another torrent.
SPECIFICATION Spec
CONSTANTS
    TotalPieces = 3
    PieceLength = 3
    Length = 8
    BlockSize = 2
    ByteBits = 2
    PeerCount = 2
    ReplySizes = {2}
    InitialHas <- Seeds
    BadPeers = {}
    ForeignPeers = {0}
    ForeignPieces = 5
    FdLimit = 2
    MaxFlight = 0
    Events = {}
INVARIANTS HandshakeVerified
