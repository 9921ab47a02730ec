SPECIFICATION FairSpec
CONSTANTS
    Samples <- MCSamples
    N = 3
    Gap = 2
    LowPoll = 3
    Poll = 4
    Levels = 3
    MaxFaults = 1
    MaxRuns = 2
INVARIANTS ShutdownIsPrompt ThrottleFollowsSupply
PROPERTIES ShutdownIsConfirmed EmptyShutsDown CoolIsReleased
CHECK_DEADLOCK FALSE
