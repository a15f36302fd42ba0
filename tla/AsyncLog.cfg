SPECIFICATION Spec
CONSTANTS
    BufferSize = 4
    LineLens = {1, 3}
    MaxBuffers = 3
    MaxLines = 6
INVARIANTS
    LoopAssertionsHold
    NothingLost
PROPERTY
    LineReachesFile
CHECK_DEADLOCK FALSE
