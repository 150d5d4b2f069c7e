SPECIFICATION Spec
CONSTANTS
    Calls = {c1, c2}
    NumSlots = 1
    MaxMarker = 2
    ReqSizes = {"spill"}
    RspSizes = {"inline"}
    Orphans = {}
    LongIds = {}
    AutoReset = TRUE
    Timeouts = TRUE
    None = None
    Mixed = Mixed
INVARIANTS
    RequestOverflowAlive
CHECK_DEADLOCK FALSE
