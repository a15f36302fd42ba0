SPECIFICATION Spec
CONSTANTS
    RollSize = 3
    FlushInterval = 1
    CheckEveryN = 3
    KRollPerSeconds = 4
    LineLens = {1, 2}
    MaxTime = 9
    MaxLines = 8
    MaxJumps = 2
INVARIANTS
    NewDayNewFile
    OverdueFlushBounded
PROPERTIES
    OversizeOnlyInRollSecond
CHECK_DEADLOCK FALSE
