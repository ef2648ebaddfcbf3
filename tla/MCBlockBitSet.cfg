CONSTANTS
    Thread = {t1, t2}
    Bits = 2
    WordSize = 1
    CarrierHeader = 1
    Slabs = {9, 13, 17}
    Blocks = {2}
SPECIFICATION FairSpec
INVARIANTS
    ErrIsJustified
PROPERTIES
    KeepsBlocksApart
    AllocReturns
