SPECIFICATION Spec
CONSTANTS
    Areas = {"src"}
    Procs = {p1}
    Projects = {"a", "b"}
    BadId = badid
    NoProject = NoProject
    NoRecord = NoRecord
    NoDetail = NoDetail
    Contexts <- MCContexts
    MaxSessions = 2
    Findings = {f1}
    ProjectOf <- MCProjectOf
    MaxLog = 3
INVARIANTS
    TypeOK
    RestsOnReproduction
PROPERTIES
    AuditTrailGrows
    KeepsLifecycle
CHECK_DEADLOCK FALSE
