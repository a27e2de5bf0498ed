SPECIFICATION Spec
CONSTANTS
    Areas = {"src"}
    Procs = {p1, p2}
    Projects = {"a"}
    BadId = badid
    NoProject = NoProject
    NoRecord = NoRecord
    NoDetail = NoDetail
    Contexts <- MCContexts
    MaxSessions = 2
    Findings = {f1}
    ProjectOf <- MCProjectOf
    MaxLog = 1
PROPERTY VerifyNeverDemotes
CHECK_DEADLOCK FALSE
