SPECIFICATION FairSpec
CONSTANTS
    MaxClients = 2
    BlkSize = 2
    Wrap = 4
    FileMax = 9
    Firmware <- MCFirmware
    Seed <- MCSeed
    Scenarios <- MCScenarios
INVARIANTS Exact OkIsEarned
PROPERTIES EndsWell
CHECK_DEADLOCK FALSE
