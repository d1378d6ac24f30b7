SPECIFICATION Spec
CONSTANTS
    Main = Main
    Workers = {w1}
    Foreign = {x1}
    NoThread = NoThread
    MaxUnlock = 2
    MaxReenter = 1
INVARIANTS
    TypeOK
    StopTheWorld
    RunningCountExact
    StackCountExact
    StopHasOneOwner
    NoLostWakeup
    OneCollector
    QuitOnlyOnLiveStack
