SPECIFICATION LifeFairSpec
CONSTANTS
    Calls = {c1, c2}
    NumSlots = 1
    MaxMarker = 2
    ReqSizes = {"spill"}
    RspSizes = {"spill", "oversize"}
    Orphans = {}
    LongIds = {c2}
    AutoReset = TRUE
    Timeouts = FALSE
    None = None
    Mixed = Mixed
    MaxSessions = 1
PROPERTIES
    WatcherStops
    ReceiversSettled
    ReceiveLoopStops
CHECK_DEADLOCK FALSE
