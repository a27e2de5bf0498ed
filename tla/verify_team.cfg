SPECIFICATION Spec
CONSTANTS
    Areas = {"src"}
    Procs = {p1, p2}
    Projects = {"a"}
    BadId = badid
    NoProject = NoProject
    NoRecord = NoRecord
    NoDetail = NoDetail
    Contexts <- MCContexts
    MaxSessions = 1
    Findings = {f1}
    ProjectOf <- MCProjectOf
    MaxLog = 2
SYMMETRY ProcSymmetry
INVARIANTS
    LogExplainsStatus
    AdvancedIsReferenced
CHECK_DEADLOCK FALSE
