CONSTANTS
    NatPorts = {4, 5, 8}
    ToldPort = 5
    PunchPortRange = 2

SPECIFICATION FairSpec

CHECK_DEADLOCK FALSE

INVARIANTS
    LockIsPeer

PROPERTIES
    HandshakeCompletes
    ReadyIsMutual
    PunchingStops
