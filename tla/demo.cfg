SPECIFICATION Spec
CONSTANTS
    Cameras = {c}
    Microphones = {m}
    Speakers = {s}
    Hidden = {}
    Fixed = {m, s}
    Lists = {"video", "output", "input"}
    MaxBoxes = 2
    MaxSessions = 1
INVARIANTS
    TypeOK
    ViewMatches
    RecordRollback
PROPERTIES
    SelectionSurvives
CHECK_DEADLOCK FALSE
