SPECIFICATION Spec
CONSTANTS
    Apps = {a1, a2}
    Kinds = {"signed"}
    MaxSends = 2
    MaxReceives = 1
    MaxKeys = 1
    MaxStale = 0
INVARIANTS
    RefAccounting
    FreeIffUnreferenced
    CallerOrder
PROPERTIES
    NoDoubleClose
SYMMETRY AppSymmetry
CHECK_DEADLOCK FALSE
