CONSTANTS
    Threads = {t1, t2}
    Nodes = {n1, n2}
    MaxThreads = 2
SPECIFICATION FairSpec
PROPERTIES
    CallsReturn
    Reclamation
