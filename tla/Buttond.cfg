SPECIFICATION FairSpec
CONSTANTS
    Volumes = {"volup"}
    Clients = {c1}
    Claimable <- MCClaimable
    Long = 2
    Double = 1
    Hold = 2
    Stall = 1
    MaxQueued = 2
    MaxPresses = 3
    MaxRequests = 2
    MaxRestarts = 1
INVARIANTS KeysReleased OneGesturePerPress PowerOffIsHeld
PROPERTIES ArmedOnlyUnclaimed DeadlinesFire
CHECK_DEADLOCK FALSE
