SPECIFICATION FairSpec
CONSTANTS
    Clients = {1, 2}
    Scenarios <- MCScenarios
    MaxUnread = 1
INVARIANTS WatcherIsCurrent QuietUnlessWanted
PROPERTY Follows
CHECK_DEADLOCK FALSE
