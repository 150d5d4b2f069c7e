SPECIFICATION Spec
CONSTANTS
    NumSlots = 4
    RegionSize = 1048576
    MetaLens = {512, 65536}
    BodyLens = {0}
INVARIANTS
    MetaLengthRecorded
