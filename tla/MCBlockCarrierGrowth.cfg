CONSTANTS
    Word = 2
    Head = 20
    Size = 120
    MaxLive = 3
    Outgrows = TRUE
    Layouts <- MixedLayouts
SPECIFICATION CarrierSpec
INVARIANT DataFitsItsBlock
CHECK_DEADLOCK FALSE
