SPECIFICATION FairSpec
CONSTANTS
    Streams = {"desktop"}
    MaxBuffered = 2
    MaxQueued = 2
    MaxSeq = 3
    MaxInTransit = 2
    MaxEpoch = 2
INVARIANTS
    TypeOK
    GapsAreBridged
    OffIsOff
PROPERTIES
    HeardInOrder
    EmittedIsHeard
