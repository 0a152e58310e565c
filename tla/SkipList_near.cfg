CONSTANTS
    t1 = t1
    t2 = t2
    t3 = t3
    n1 = n1
    n2 = n2
    n3 = n3
    n4 = n4
    n5 = n5
    Threads = {t1, t2}
    Nodes = {n1, n2, n3}
    KeyOf <- KeysApart
    MaxHeight = 3
    Built <- BuiltHigh
    Calls <- CallsNear
    Head = Head
    Tail = Tail
    Nil = Nil
SPECIFICATION CursorSpec
INVARIANTS
    Sorted
    RetiredUnreachable
    Towers
    LiveReachable
    Protected
PROPERTIES
    Frozen
    Traverses
