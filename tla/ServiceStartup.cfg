SPECIFICATION StartupFairSpec
CONSTANTS
    MaxEvents = 4
INVARIANTS
    StartupTypeOK
    RefusedOnlyEarly
    RunningHasRole
PROPERTIES
    ReadyStartsAll
