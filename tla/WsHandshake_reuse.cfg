SPECIFICATION HsSpec
CONSTANTS
    RequestSizes = {2}
    ResponseSize = 2
    HeaderLimit = 4
    BufferSize = 2
    Reassign = TRUE
INVARIANTS
    AlreadyMeansDone
