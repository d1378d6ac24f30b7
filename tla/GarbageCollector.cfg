SPECIFICATION Spec
CONSTANTS
    t1 = t1
    t2 = t2
    b1 = b1
    b2 = b2
    b3 = b3
    Threads = {t1, t2}
    Blocks = {b1, b2, b3}
    NoBlock = NoBlock
    Programs <- MCPrograms
SYMMETRY BlockSymmetry
INVARIANTS
    NoDanglingReference
    RefCountExact
    NoUseAfterFree
PROPERTIES
    CollectionIsComplete
