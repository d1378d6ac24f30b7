SPECIFICATION FairSpec
CONSTANTS
    Main = Main
    Threads = {Main, t1}
    x = x
    y = y
    z = z
    Areas = {x, y, z}
    NULL = NULL
    Programs <- MCPrograms
INVARIANTS
    AreasAreOwned
    TablesAndAliasesAgree
    NoStrandedRequest
PROPERTIES
    QuitEndsThread
CHECK_DEADLOCK FALSE
