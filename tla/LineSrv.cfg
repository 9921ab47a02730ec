SPECIFICATION FairSpec
CONSTANTS
    Slots = {1, 2}
    Conns = {1, 2, 3}
    LineMax = 3
    LongSize = 5
    OutqSize = 4
    SockSize = 2
    Scenarios <- MCScenarios
INVARIANTS ScanInBounds
PROPERTIES KeepsPromise Drains
CHECK_DEADLOCK FALSE
