CONSTANTS
    c1 = c1
    c2 = c2
    c3 = c3
    Thread = {t1, t2}
    Carrier <- ThreeCarriers
    First <- FirstSlabs
    Region = {r1, r2}
    Classes <- TwoClasses
    Sizes = {2, 3, 4, 5}
    Blocks = 2
    MaxHeld = 3
SPECIFICATION SpecSegmented
SYMMETRY Symmetric
CHECK_DEADLOCK FALSE
INVARIANTS
    EachHasOneOwner
    BlocksAreLargeEnough
    MappedAreListed
    ListIsStable
    LocksAreReleased
