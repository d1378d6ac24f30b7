SPECIFICATION Spec
CONSTANTS
    Threads = {t1, t2, t3}
    NoThread = NoThread
    NULL = NULL
    Bounds <- MCBounds
SYMMETRY ThreadSymmetry
INVARIANTS
    LockMatchesBelief
    QueueCountsExact
    NobodyIsStranded
    SubscribeNowIsFresh
PROPERTIES
    ImplementsReentrantLock
