CONSTANTS
    MaxPackets = 3
    FrameSizes = {1, 2}
    TickSizes = {0, 1, 2}

SPECIFICATION FairSpec

CHECK_DEADLOCK FALSE

INVARIANTS
    MediaNotLost
    ControlInOrder

PROPERTIES
    MediaDrains
