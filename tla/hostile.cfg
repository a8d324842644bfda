\* Peer 0 serves wrong bytes, peer 2 skips its bit field, and peer 3 shares a longer
\* torrent and still passes the handshake; peers send blocks nobody asked for, choke
\* and are slow; the disk and the descriptors run out.
SPECIFICATION Spec
CONSTANTS
    TotalPieces = 2
    PieceLength = 3
    Length = 5
    BlockSize = 2
    ByteBits = 3
    PeerCount = 4
    ReplySizes = {4}
    InitialHas <- SeedsNewcomerStranger
    BadPeers = {0}
    ForeignPeers = {3}
    ForeignPieces = 5
    FdLimit = 3
    MaxFlight = 2
    Events = {"nobitfield", "disk", "slow", "close", "have", "dup", "choke"}
INVARIANTS StoredInOrder HonestPieceVerifies RequestsInBounds
