SPECIFICATION Spec
CONSTANTS
    Rounds = 3
    Items = 2
INVARIANTS
    OwnedByCaller
    FailuresReported
CHECK_DEADLOCK FALSE
