SPECIFICATION EchoSpec
CONSTANTS
    Stream <- FiveFrames
    Start <- FiveStarts
    BufferSize = 6
    Limit = 100
    Segments = {1, 2, 3, 5, 8}
    RequestSizes = {4, 6, 9}
    ResponseSize = 3
    HeaderLimit = 7
    Echoes <- EchoesOf
    Closings = {0, 3}
INVARIANTS
    EchoesInOrder
    LeavesForAReason
PROPERTIES
    PatientClientIsServed
    WholeRequestIsAnswered
CHECK_DEADLOCK FALSE
