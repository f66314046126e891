SPECIFICATION CaptureFairSpec
CONSTANTS
    Keys = {a, esc}
    Esc = esc
    Button = button
    MaxPosted = 4
    MaxInFlight = 2
INVARIANTS
    CaptureTypeOK
    HeldHasCause
    LocalHeldHasCause
    CaptureAgreesWithUser
PROPERTIES
    LettingGoLetsGo
