SPECIFICATION Spec
CONSTANTS
    Users = {u1, u2}
    Server = s
    Paddings = {FALSE}
INVARIANTS
    HeaderOpens
CHECK_DEADLOCK FALSE
