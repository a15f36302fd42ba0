SPECIFICATION Spec
CONSTANTS
    MaxThreads = 3
    MaxPicks = 2
    MaxQuits = 2
INVARIANTS
    StartedLoopsUsable
    BalancedPicks
PROPERTIES
    StartLoopReturns
CHECK_DEADLOCK FALSE
