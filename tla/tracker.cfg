\* Replies of both forms, and malformed ones; a list may expire.
SPECIFICATION Spec
CONSTANTS
    Base = 256
    LengthSize = 3
    IntLimit = 131072
    Digest <- TwoBytes
    Swarms <- ManySwarms
    Malformed <- BadReplies
    Durations = {0, 999, 1000}
    MaxAnnounces = 2
INVARIANTS TypeOK VisitsAsAnnounced ThrowsOnlyOnBadReply
PROPERTIES SkipsOnlyExpired
CHECK_DEADLOCK FALSE
