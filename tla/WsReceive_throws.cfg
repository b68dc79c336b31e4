SPECIFICATION Spec
CONSTANTS
    Stream <- MixedStream
    Start <- MixedStart
    BufferSize = 50
    Limits = {15, 1000}
    Segments = {7, 40}
INVARIANTS
    OnlyDeclaredExceptions
CHECK_DEADLOCK FALSE
