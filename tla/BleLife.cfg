SPECIFICATION FairSpec
CONSTANTS
    MaxPairs = 2
    MaxForgets = 1
    MaxEvents = 1
    MaxFaults = 1
    MaxRestarts = 1
    MaxUpsets = 2
    MaxUnread = 1
INVARIANT BondsAreKnown
PROPERTIES ForgottenIsGone SavedIsProven Settles
CHECK_DEADLOCK FALSE
