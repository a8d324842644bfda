\* Two peers that between them have the torrent, and a bad one before them, which
\* may send wrong bytes, useless messages or nothing; pieces arrive at all of them
\* while the client downloads, and they choke it at any moment.
SPECIFICATION FairSpec
CONSTANTS
    TotalPieces = 3
    PieceLength = 3
    Length = 8
    BlockSize = 2
    ByteBits = 2
    PeerCount = 3
    ReplySizes = {3}
    InitialHas <- Split
    BadPeers = {0}
    ForeignPeers = {}
    ForeignPieces = 1
    FdLimit = 2
    MaxFlight = 3
    Events = {"have", "choke", "other", "keepalive"}
INVARIANTS TypeOK BitFieldTracksPeer OneRequestUnderWay
PROPERTIES Completes ThrowsOnlyAtTracker ImplementsAssembly
