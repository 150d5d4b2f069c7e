SPECIFICATION Spec
CONSTANTS
    Calls = {c1, c2}
    NumSlots = 2
    MaxMarker = 2
    ReqSizes = {"inline", "spill", "oversize"}
    RspSizes = {"inline", "spill", "oversize"}
    Orphans = {1}
    LongIds = {}
    AutoReset = FALSE
    Timeouts = TRUE
    None = None
    Mixed = Mixed
SYMMETRY CallSymmetry
INVARIANTS
    TypeOK
    SlotAccessExclusive
    NoAbandonedSlot
    RequestIntact
    ResponseMatches
    AtMostOnceDelivery
    WatcherCasSucceeds
    EveryRegionHeldOnce
    OrphansLeftAlone
    OnlyLateRegistrationLosesAnswer
    IInv
CHECK_DEADLOCK FALSE
