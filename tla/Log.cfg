SPECIFICATION LogSpec
CONSTANTS
    Threads = {t1, t2}
    Zones <- MCZones
    Seconds = {0, 1}
    Macros = {"LOG_DEBUG", "LOG_SYSFATAL"}
    Messages <- MCMessages
    Levels = {"DEBUG", "INFO"}
    SIZE = 4000
SYMMETRY MCSymmetry
INVARIANTS
    DateIsOfTheSecond
    RecordWhole
CHECK_DEADLOCK FALSE
