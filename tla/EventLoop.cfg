SPECIFICATION Spec
CONSTANTS
    Owner = owner
    Threads = {t1, t2}
    IoChannels = {c1, c2}
    WakeChannel = wake
    KInitEventSize = 1
    MaxTasks = 3
INVARIANTS
    NoLostWakeup
PROPERTIES
    IsSerialExecutor
    QueuedFunctorRuns
    ReadyChannelReported
    QuitEndsLoop
    EveryFunctorRuns
