SPECIFICATION Spec
CONSTANTS
    KCheapPrepend = 1
    KInitialSize = 2
    ExtraSize = 2
    Byte = {0, 1}
    Chunks <- MCChunks
    MaxReadable = 3
PROPERTIES
    IsByteQueue
    GrowsOnlyWhenFull
