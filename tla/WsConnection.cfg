SPECIFICATION ConnectionFairSpec
CONSTANTS
    Byte <- Bytes
    Frames <- ThreeFrames
    MaxPosted = 3
    RequestSizes = {5, 7}
    ResponseSize = 3
    HeaderLimit = 6
    BufferSize = 3
    Reassign = FALSE
INVARIANTS
    WireIsWhole
    AnswerIsExact
    HeaderBounded
    AnswerIsWhole
    AnswerIsDeserved
    RequestIsKept
    FramesFollowAnswer
PROPERTIES
    PendingIsFlushed
    Served
