SPECIFICATION Spec
CONSTANTS
    ChunkSize = 4
    HeadersMax = 13
    BodyMax = 14
    Requests <- MCShortHeads
INVARIANT OnlyLongHeadsAreRefused
CHECK_DEADLOCK FALSE
