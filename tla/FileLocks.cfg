SPECIFICATION Spec
CONSTANTS
    Clients = {c1, c2}
    Nobody = Nobody
    Limit = 5
    Programs <- MCPrograms
SYMMETRY ClientSymmetry
INVARIANTS
    ListIsASet
    HeldCanBeUnlocked
    PromisesHold
PROPERTIES
    DropNeedsRace
