CONSTANTS
    m1 = m1
    m2 = m2
    m3 = m3
    infinity = infinity
    Message <- Messages3
    Null = Null
    Infinity = infinity
    Timeouts <- TimeoutValues
    U64Max = 100
    MaxClock = 4
SPECIFICATION FairSpec
INVARIANTS
    NoLostWakeup
    NoStrayTimer
PROPERTIES
    ImplementsSelectiveReceive
    ReceiveEnds
CHECK_DEADLOCK FALSE
