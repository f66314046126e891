CONSTANTS
    MaxEvents = 3
    CheckPerTick = 1
    Devices = {"keyboard", "mouse"}
SPECIFICATION Spec
CHECK_DEADLOCK FALSE
INVARIANTS
    ReliableInjected
