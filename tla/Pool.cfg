CONSTANTS
    Threads = {t1, t2, t3}
    HeapNodes = {h1}
    Capacity = 3
    CursorLimit = 4
SPECIFICATION Spec
SYMMETRY Symmetry
INVARIANTS
    TypeOK
    SlabKept
    Ownership
    Zeroed
    NullJustified
