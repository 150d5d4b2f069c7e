SPECIFICATION FairSpec
CONSTANTS
    Calls = {c1, c2, c3}
    NumSlots = 2
    MaxMarker = 2
    ReqSizes = {"inline", "oversize"}
    RspSizes = {"inline"}
    Orphans = {}
    LongIds = {c2}
    AutoReset = TRUE
    Timeouts = FALSE
    None = None
    Mixed = Mixed
INVARIANT
    NoLostWakeup
PROPERTIES
    SlotRecycled
    RefusedOnlyUnderLoad
    ImplementsRequestReply
CHECK_DEADLOCK FALSE
