SPECIFICATION FairSpec
CONSTANTS
    Cids = {1}
    MaxGen = 1
    MaxHeld = 1
    MaxFast = 2
    LeakCap = 0
    MaxCrashes = 1
    Drops <- MCNoDrops
    NoForkSets <- MCForksWork
PROPERTIES ComesToRest LeaseKeepsTrying
CHECK_DEADLOCK FALSE
