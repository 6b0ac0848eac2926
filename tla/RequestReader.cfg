SPECIFICATION Spec
CONSTANTS
    ChunkSize = 4
    HeadersMax = 13
    BodyMax = 14
    Requests <- MCRequests
INVARIANTS
    TypeOK
    ReadsAreSound
    BufferBounded
    BodyCopyIsSound
    BodyIndependentOfSegments
PROPERTIES
    PromptHeadIsRead
    ReadingEnds
    ImplementsIntake
CHECK_DEADLOCK FALSE
