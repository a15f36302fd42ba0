SPECIFICATION Spec
CONSTANTS
    Conns = {c1}
    Listen = listen
    Base = base
    IoLoops = {io}
    Clients = {t1}
    MsgLen = 2
    MaxSends = 2
    MaxCalls = 1
INVARIANTS
    AssertionsExplained
    PollerConsistent
    StreamInOrder
    RemovalUnderWay
    OutputWatched
CHECK_DEADLOCK FALSE
