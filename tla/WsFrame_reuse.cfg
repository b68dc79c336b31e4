SPECIFICATION FrameSpec
CONSTANTS
    PayloadSizes = {0, 1, 2, 5, 124, 125, 126, 127, 300, 65535, 65536, 70000}
    MaxSets = 3
INVARIANTS
    LengthIsRight
