\* Two creators and one reader over two generations; bodies of one page and of
\* two.
SPECIFICATION OverflowSpec
CONSTANTS
    Writers = {w1, w2}
    Readers = {r1}
    Procs = {w1, w2, r1}
    NoProc = NoProc
    Names = {0, 1}
    MaxGeneration = 1
    MaxRegions = 4
    Lengths = {4000, 5000}
SYMMETRY WriterSymmetry
CHECK_DEADLOCK FALSE
INVARIANTS
    OverflowTypeOK
    NoWildWrite
    SlowReaderServed
    KillsCostNoNames
