SPECIFICATION Spec
CONSTANTS
    Calls = {c1, c2}
    NumSlots = 1
    MaxMarker = 2
    ReqSizes = {"inline"}
    RspSizes = {"spill"}
    Orphans = {}
    LongIds = {}
    AutoReset = TRUE
    Timeouts = TRUE
    None = None
    Mixed = Mixed
INVARIANTS
    ResponseOverflowAlive
CHECK_DEADLOCK FALSE
