CONSTANTS
    InitialBitrates = {1, 9, 14}
    BitrateMin = 4
    BitrateMax = 12
    UpNum = 3
    UpDen = 2
    DownNum = 7
    DownDen = 10
    Pace = 1
    PacketSize = 3
    Width = 16
    InitialPacketsPerTick = 4
    CoolPeriod = 1
    IdlePeriod = 2
    LossLow = 30
    LossHigh = 40
    CountWidth = 1000
    MaxLate = 2
    MaxAhead = 2
    MaxFrames = 3

SPECIFICATION FairSpec

CHECK_DEADLOCK FALSE

INVARIANTS
    BitrateInRange
    LossIsReal

PROPERTIES
    NoRaiseWhileHot
    QualityReturns
