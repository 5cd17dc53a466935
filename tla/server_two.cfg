SPECIFICATION Spec
CONSTANTS
    MaxConnections = 2
    ThreadCount = 2
    FirstIndex = 1
    MaxPeers = 2
    MaxMessages = 0
    MaxStale = 0
INVARIANTS
    TypeOK
    ReferencesCounted
    SocketsClosed
CHECK_DEADLOCK FALSE
