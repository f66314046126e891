CONSTANTS
    Hosts = {h1}
    Guests = {g1, g2}
    Names = {n1, n2, n3}
    RoomIds = {r1}
    None = None

SPECIFICATION FairSpec

CHECK_DEADLOCK FALSE

INVARIANTS
    MembershipAgrees
    PartiesAreDistinct
    IntroducedInPairs

PROPERTIES
    PairIsIntroduced
