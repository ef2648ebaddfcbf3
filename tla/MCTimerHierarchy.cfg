SPECIFICATION FairTimerSpec
CONSTANTS
    SLOTS = 4
    MaxTimers = 2
    MaxTime = 13
    InitialTimes = {0, 3}
    Deadlines = {3, 4, 5, 12}
INVARIANTS
    NoAssertionFails
    PositionIsExact
    CancelledNeverFires
    NeverEarly
PROPERTIES
    FiresInDeadlineOrder
    NothingOverdue
    EventuallyTimesOut
