SPECIFICATION Spec
CONSTANTS
    Areas = {"src"}
    Procs = {p1}
    Projects = {a, b}
    BadId = badid
    NoProject = NoProject
    NoRecord = NoRecord
    Contexts <- MCContexts
    MaxSessions = 3
INVARIANTS
    TypeOK
    ResumableIsUnfinished
    GateFirst
PROPERTIES
    MonotonicCounter
CHECK_DEADLOCK FALSE
