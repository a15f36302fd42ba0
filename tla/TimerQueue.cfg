SPECIFICATION Spec
CONSTANTS
    Addrs = {1, 2}
    Clients = {c1}
    Delays = {0, 1}
    Intervals = {0, 1}
    MaxTime = 2
    MaxTimers = 2
    MaxCalls = 2
    MaxJumps = 1
INVARIANTS
    ListsAgree
    NoTimerVanishes
    ArmedInTime
    EndedStaysOut
PROPERTIES
    DueTimerExpires
    ReturnedIdIsTheTimers
CHECK_DEADLOCK FALSE
