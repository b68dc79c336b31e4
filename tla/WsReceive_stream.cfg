SPECIFICATION FairSpec
CONSTANTS
    Stream <- MixedStream
    Start <- MixedStart
    BufferSize = 50
    Limits = {15, 1000}
    Segments = {7, 40}
INVARIANTS
    TypeOK
    Aligned
    WithinStash
    CompleteIsDelivered
    NeedIsLowerBound
PROPERTIES
    EverythingIsDelivered
CHECK_DEADLOCK FALSE
