SPECIFICATION RegistrySpec
CONSTANTS
    p1 = p1
    p2 = p2
    p3 = p3
    m = m
    n = n
    undefined = undefined
    Process = {p1, p2, p3}
    InitProcess = p1
    NoProcess = NoProcess
    LowDelay = 1
    SpawnPriorities = {"inherited"}
    Name = {m, n, undefined}
    Undefined = undefined
    NoName = NoName
SYMMETRY Interchangeable
INVARIANTS
    NamesAgree
PROPERTIES
    OnlyTheHolderReceives
    NamesAreNotTaken
