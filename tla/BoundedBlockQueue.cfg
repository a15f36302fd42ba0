SPECIFICATION Spec
CONSTANTS
    Producers = {p1, p2, p3}
    Consumers = {c1, c2, c3}
    N = 3
    MaxItems = 7
INVARIANTS
    NoSleeperForgotten
PROPERTIES
    IsBlockQueue
    WaitingConsumerServed
CHECK_DEADLOCK FALSE
