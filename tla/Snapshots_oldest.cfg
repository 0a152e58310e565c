CONSTANTS
    Keys = {1, 2}
    Vals = {1, 2}
    MaxLen = 3
    MaxEra = 8
    Contract = {"oldest", "keep", "memory"}
SPECIFICATION Spec
CHECK_DEADLOCK FALSE
INVARIANTS
    TypeOK
    NewestFirst
    RoundTrip
    LoadStops
PROPERTIES
    Exact
