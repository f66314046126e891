CONSTANTS
    MaxEvents = 3
    CheckPerTick = 1
    Devices = {"keyboard", "mouse"}
SPECIFICATION FairSpec
CHECK_DEADLOCK FALSE
INVARIANTS
    UnreceivedIsKept
    KeyboardInjected
PROPERTIES
    PromiseKept
    DeliveredOnceStarted
    QueueDrains
