SPECIFICATION FairSpec
CONSTANTS
    Calls = {c1, c2}
    NumSlots = 2
    MaxMarker = 1
    ReqSizes = {"inline"}
    RspSizes = {"inline"}
    Orphans = {}
    LongIds = {}
    AutoReset = TRUE
    Timeouts = FALSE
    None = None
    Mixed = Mixed
PROPERTIES
    ReceiverResolves
CHECK_DEADLOCK FALSE
