SPECIFICATION FairSpec
CONSTANTS
    SyncOps = {o1, o2}
    AsyncOps = {o3}
    Flushers = {f1}
    Closers = {c1, c2}
INVARIANTS
    NoLostWakeup
    FlushCovers
    OpsCounted
PROPERTIES
    ImplementsService
    OpsAnswered
    CreatorServed
CHECK_DEADLOCK FALSE
