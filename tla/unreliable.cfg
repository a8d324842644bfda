\* Announces fail and bring few peers, connections are refused, reset and
\* slow, lists expire; four sockets may leak before the file cannot be opened.
SPECIFICATION Spec
CONSTANTS
    TotalPieces = 3
    PieceLength = 3
    Length = 8
    BlockSize = 2
    ByteBits = 2
    PeerCount = 2
    ReplySizes = {0, 2}
    InitialHas <- SeedAndNewcomer
    BadPeers = {}
    ForeignPeers = {}
    ForeignPieces = 1
    FdLimit = 5
    MaxFlight = 1
    Events = {"tracker", "expire", "refuse", "close", "slow", "have", "other", "keepalive"}
INVARIANTS NoIdleWait OneRequestUnderWay FileMatchesCount
PROPERTIES AssemblesWhileWritesSucceed
