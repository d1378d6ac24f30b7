SPECIFICATION FairSpec
CONSTANTS
    Main = Main
    w1 = w1
    w2 = w2
    x1 = x1
    c1 = c1
    Workers = {w1, w2}
    Foreign = {x1}
    Controls = {c1, c2}
    NoThread = NoThread
    Programs <- MCPrograms
INVARIANTS
    NoLostWakeup
    JoinFindsResult
    OnceIsKept
PROPERTIES
    SuspensionEnds
    TerminateReturns
    OnceInitIsFinal
CHECK_DEADLOCK FALSE
