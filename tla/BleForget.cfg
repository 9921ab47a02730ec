SPECIFICATION FairSpec
CONSTANTS
    MaxPairs = 1
    MaxForgets = 1
    MaxEvents = 0
    MaxFaults = 0
    MaxRestarts = 1
    MaxUpsets = 2
    MaxUnread = 1
PROPERTIES ForgetSurvivesRestart
CHECK_DEADLOCK FALSE
