SPECIFICATION FairSpec
CONSTANTS
    MaxRows = 4
    LogMax = 2
    PendingMax = 2
    MaxFaults = 2
    MaxKills = 2
    MaxUpsets = 2
INVARIANTS RowsKept StopKeepsRows
PROPERTIES ShutdownRowIsSafe RowsReachTheLog
CHECK_DEADLOCK FALSE
