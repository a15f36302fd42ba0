SPECIFICATION Spec
CONSTANTS
    TIME_SLOTS = 3
    Timers = {1, 2, 3}
    Delays = {0, 2, 3, 6}
    MaxTime = 4
INVARIANTS
    LinksSound
    ShortTimersOnTime
PROPERTY
    ListLateBounded
CHECK_DEADLOCK FALSE
