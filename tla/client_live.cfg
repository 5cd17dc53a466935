SPECIFICATION FairSpec
CONSTANTS
    Apps = {a1}
    Kinds = {"forged", "truncated"}
    MaxSends = 2
    MaxReceives = 1
    MaxKeys = 0
    MaxStale = 0
PROPERTIES
    QueueDrains
    FreeReturns
CHECK_DEADLOCK FALSE
