CONSTANTS
    SeqModulus = 5
    Interval = 1
    MaxInAir = 2
    MaxRequests = 1

SPECIFICATION FairSpec

PROPERTIES
    FedInStream
    PictureResumes
