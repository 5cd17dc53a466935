SPECIFICATION Spec
CONSTANTS
    Users = {u1, u2}
    Server = s
    Paddings = {FALSE, TRUE}
INVARIANTS
    TypeOK
    DataOpens
PROPERTIES
    PeerSignature
CHECK_DEADLOCK FALSE
