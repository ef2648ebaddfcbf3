SPECIFICATION SignalsSpec
CONSTANTS
    p1 = p1
    p2 = p2
    p3 = p3
    Process = {p1, p2, p3}
    InitProcess = p1
    NoProcess = NoProcess
    LowDelay = 1
    SpawnPriorities = {"inherited"}
    MaxReferences = 2
    MonitorSelf = FALSE
SYMMETRY Others
INVARIANTS
    LinksAgree
    OneDownForEachMonitor
    FlushedIsGone
PROPERTIES
    ExitReachesLinked
    ExitComesFromLinked
    AbnormalExitStays
