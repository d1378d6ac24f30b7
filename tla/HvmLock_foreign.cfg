SPECIFICATION FairSpec
CONSTANTS
    Main = Main
    Workers = {}
    Foreign = {x1}
    NoThread = NoThread
    MaxUnlock = 1
    MaxReenter = 0
PROPERTIES
    ForcedSuspendEnds
