SPECIFICATION FairSpec
CONSTANTS
    Main = Main
    Workers = {w1, w2}
    NoThread = NoThread
    Ops = {"lock", "notify", "subscribe"}
    MaxEvents = 2
INVARIANTS
    AloneAtEnd
PROPERTIES
    OnlyKnownHangs
CHECK_DEADLOCK FALSE
