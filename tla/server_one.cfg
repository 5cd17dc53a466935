SPECIFICATION FairSpec
CONSTANTS
    MaxConnections = 2
    ThreadCount = 1
    FirstIndex = 0
    MaxPeers = 2
    MaxMessages = 2
    MaxStale = 1
INVARIANTS
    ReferencesCounted
    CountExact
PROPERTIES
    HangUpJustified
    PeersServed
    HangUpsNoticed
CHECK_DEADLOCK FALSE
