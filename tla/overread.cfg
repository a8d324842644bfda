\* Bytes arrive as TCP may deliver them.
SPECIFICATION Spec
CONSTANTS
    Base = 256
    LengthSize = 2
    IntLimit = 32768
    MaxReceiveSize = 7
    Pieces = 8
    Protocol <- ProtocolBytes
    Reserved = 1
    Digest <- DigestBytes
    PeerId <- OwnId
    Reply <- PeerHandshake
    Conversations <- SomeConversations
    Requests <- Blocks
INVARIANTS FramingKept
