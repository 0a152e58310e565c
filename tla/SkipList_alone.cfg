CONSTANTS
    t1 = t1
    t2 = t2
    t3 = t3
    n1 = n1
    n2 = n2
    n3 = n3
    n4 = n4
    n5 = n5
    Threads = {t1}
    Nodes = {n1, n2, n4}
    KeyOf <- KeysSame
    MaxHeight = 4
    Built <- BuiltNone
    Calls <- CallsAlone
    Head = Head
    Tail = Tail
    Nil = Nil
SPECIFICATION SplaySpec
INVARIANTS
    SplayTypeOK
    Healthy
    Detects
    Towers
PROPERTIES
    FirstDuplicate
    Positions
    MeetsAll
