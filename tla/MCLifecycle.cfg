SPECIFICATION LifeSpec
CONSTANTS
    Calls = {c1, c2}
    NumSlots = 1
    MaxMarker = 2
    ReqSizes = {"spill"}
    RspSizes = {"spill"}
    Orphans = {}
    LongIds = {}
    AutoReset = TRUE
    Timeouts = FALSE
    None = None
    Mixed = Mixed
    MaxSessions = 2
SYMMETRY CallSymmetry
INVARIANTS
    LifeTypeOK
    StuckOnlyByKill
    RegionsAccountedFor
    LifeInv
    StopNoticed
PROPERTIES
    OnlyKillLosesWakeup
    ImplementsSlotProtocol
CHECK_DEADLOCK FALSE
