SPECIFICATION FairSpec
CONSTANTS
    p1 = p1
    p2 = p2
    p3 = p3
    Process = {p1, p2, p3}
    InitProcess = p1
    NoProcess = NoProcess
    LowDelay = 7
    SpawnPriorities = {"inherited", "low", "high", "max"}
INVARIANTS
    InOnePlace
    StatusMatchesPlace
    NothingUnreachable
PROPERTIES
    ExitIsFinal
    EventuallyDequeued
    ExitIsPropagated
