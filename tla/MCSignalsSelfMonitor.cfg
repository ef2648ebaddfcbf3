SPECIFICATION SignalsSpec
CONSTANTS
    p1 = p1
    p2 = p2
    p3 = p3
    Process = {p1, p2, p3}
    InitProcess = p1
    NoProcess = NoProcess
    LowDelay = 1
    SpawnPriorities = {"inherited"}
    MaxReferences = 1
    MonitorSelf = TRUE
INVARIANTS
    PropagationNeverBlocks
