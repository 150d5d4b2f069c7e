\* One creating process, restarted, and one reader.
SPECIFICATION OverflowSpec
CONSTANTS
    Writers = {w1}
    Readers = {r1}
    Procs = {w1, r1}
    NoProc = NoProc
    Names = {0, 1}
    MaxGeneration = 1
    MaxRegions = 2
    Lengths = {4000}
CHECK_DEADLOCK FALSE
INVARIANT NewRegionNeverHanded
