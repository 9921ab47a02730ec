SPECIFICATION Spec
CONSTANTS
    Cids = {1}
    MaxGen = 1
    MaxHeld = 1
    MaxFast = 2
    LeakCap = 1
    MaxCrashes = 0
    Drops <- MCSwitchDrops
    NoForkSets <- MCForksWork
INVARIANT LeaseIsServed
CHECK_DEADLOCK FALSE
