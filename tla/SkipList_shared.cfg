CONSTANTS
    t1 = t1
    t2 = t2
    t3 = t3
    n1 = n1
    n2 = n2
    n3 = n3
    n4 = n4
    n5 = n5
    Threads = {t1, t2}
    Nodes = {n1, n2, n4, n5}
    KeyOf <- KeysSame
    MaxHeight = 2
    Built <- BuiltTwo
    Calls <- CallsShared
    Head = Head
    Tail = Tail
    Nil = Nil
SPECIFICATION FairSpec
INVARIANTS
    UniqueKeys
    Accounted
PROPERTIES
    Linearizable
    CallsReturn
    Reclaimed
