CONSTANTS
    InitProcess = init
    Root = root
    NoProcess = none
SPECIFICATION Spec
PROPERTIES
    YieldingIsRescheduled
CHECK_DEADLOCK FALSE
