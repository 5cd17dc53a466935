SPECIFICATION Spec
CONSTANTS
    Entries = {e1, e2, e3}
    ListHead = h
    Nil = nil
    NoOne = none
    CLEARER = clearer
INVARIANTS
    RingIsList
PROPERTIES
    EmptyJustified
