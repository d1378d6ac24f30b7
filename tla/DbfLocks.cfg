SPECIFICATION Spec
CONSTANTS
    Areas = {a1, a2}
    Loads <- MCLoads
SYMMETRY AreaSymmetry
INVARIANTS
    LocksAreKept
    BuffersAreProtected
    NoLostUpdate
    AppendsAreDistinct
    HeaderCounts
