CONSTANTS
    MaxEvents = 3
    CheckPerTick = 1
    Devices = {"keyboard"}
SPECIFICATION FairSpec
CHECK_DEADLOCK FALSE
PROPERTIES
    LossIsRecovered
