SPECIFICATION AttachSpec
CONSTANTS
    Names = {"control"}
    Hubs = {h1, h2}
    Workers = {w1}
    Procs = {h1, h2, w1}
    MaxRegions = 2
    NoProc = NoProc
    SlotCounts = {1, 2}
    RegionSizes = {200, 400}
SYMMETRY HubSymmetry
INVARIANTS
    AttachTypeOK
    HeaderHonest
    WorkerAccessInMapping
    HubReachable
    AttachedToHubThatWasUp
PROPERTIES
    LiveRegionKeepsName
CHECK_DEADLOCK FALSE
