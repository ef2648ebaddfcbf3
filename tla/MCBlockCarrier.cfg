CONSTANTS
    Word = 2
    Head = 20
    Size = 120
    MaxLive = 3
    Outgrows = FALSE
    Layouts <- MixedLayouts
SPECIFICATION CarrierSpec
INVARIANTS
    HeadersAgree
PROPERTIES
    KeepsDataApart
CHECK_DEADLOCK FALSE
