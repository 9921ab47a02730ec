SPECIFICATION FairSpec
CONSTANTS
    MaxAsks = 4
    MaxExits = 2
    MaxCrashes = 1
INVARIANT SwitchIsKept
PROPERTIES NewestWins
CHECK_DEADLOCK FALSE
