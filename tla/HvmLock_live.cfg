SPECIFICATION FairSpec
CONSTANTS
    Main = Main
    Workers = {w1, w2}
    Foreign = {}
    NoThread = NoThread
    MaxUnlock = 1
    MaxReenter = 0
PROPERTIES
    ForcedSuspendEnds
    TerminateReturns
