SPECIFICATION FairSpec
CONSTANTS
    Apps = {a1}
    MaxStarts = 2
    MaxStops = 2
INVARIANTS
    TypeOK
    StoppedIsQuiet
    OwnCallback
    ReadersCounted
    FaultCauses
PROPERTIES
    StopReturns
CHECK_DEADLOCK FALSE
