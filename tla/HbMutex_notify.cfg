SPECIFICATION Spec
CONSTANTS
    Threads = {t1, t2, t3}
    NoThread = NoThread
    NULL = NULL
    Bounds <- MCNotifyBounds
SYMMETRY ThreadSymmetry
INVARIANTS
    NotifyHasArray
