SPECIFICATION Spec
CONSTANTS
    Cids = {1}
    MaxGen = 2
    MaxHeld = 1
    MaxFast = 1
    LeakCap = 1
    MaxCrashes = 1
    Drops <- MCDrops
    NoForkSets <- MCNoForkSets
INVARIANTS TypeOK StepMatchesPhase NothingOwnedAtRest RecordCoversCid NothingLeftBehind LeaseIsServed EngagedForAReason
PROPERTIES ParkedUntilAsked KeepsLedger
CHECK_DEADLOCK FALSE
