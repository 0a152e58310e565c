CONSTANTS
    Threads = {t1, t2, t3}
    Nodes = {n1, n2}
    MaxThreads = 2
SPECIFICATION Spec
SYMMETRY Symmetry
INVARIANTS
    TypeOK
    NoUseAfterFree
    SlotOwnership
    EpochLag
    NothingLost
    FreedOnce
