SPECIFICATION Spec
CONSTANTS
    LastYear = 2500
    SecondsOfDay = {0, 59, 3600, 86399}
    TransTimes <- MCTransTimes
    Offsets <- MCOffsets
    Horizon = 40
    Numbers32 <- MCNumbers
INVARIANTS
    DatesAreCivil
    LocalTimeInverse
    NumbersReadable
CHECK_DEADLOCK FALSE
