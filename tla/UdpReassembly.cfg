CONSTANTS
    MaxFrames = 3
    MaxFragments = 3
    MaxPackets = 6
    MaxFrameLag = 1
    MaxPendingFrames = 2
    MaxRestarts = 1
    MaxDuplicates = 2

SPECIFICATION Spec

CHECK_DEADLOCK FALSE

INVARIANTS
    PendingBounded
    BuffersConsistent
    EmittedFromArrivals
    InWindowComplete
