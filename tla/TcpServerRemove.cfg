SPECIFICATION Spec
CONSTANTS
    Conns = {c1}
    Listen = listen
    Base = base
    IoLoops = {}
    Clients = {}
    MsgLen = 2
    MaxSends = 0
    MaxCalls = 0
INVARIANT
    RemovedChannelIsIdle
CHECK_DEADLOCK FALSE
