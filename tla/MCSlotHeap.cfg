SPECIFICATION Spec
CONSTANTS
    NumSlots = 2
    RegionSize = 405
    MetaLens = {0, 3, 16, 17}
    BodyLens = {0, 8, 13}
INVARIANTS
    HeapInv
    PayloadsDisjoint
    BodyClearOfMeta
    PointersReadable
    CapacityHonest
