SPECIFICATION Spec
CONSTANTS
    Apps = {a1}
    Kinds = {"plain", "signed", "forged", "sealed", "short", "truncated"}
    MaxSends = 1
    MaxReceives = 2
    MaxKeys = 1
    MaxStale = 2
INVARIANTS
    TypeOK
    CheckedAndOnce
    FaultCauses
CHECK_DEADLOCK FALSE
