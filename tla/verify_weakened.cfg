SPECIFICATION Spec
CONSTANTS
    Areas = {"src"}
    Procs = {p1}
    Projects = {"a"}
    BadId = badid
    NoProject = NoProject
    NoRecord = NoRecord
    NoDetail = NoDetail
    Contexts <- MCContexts
    MaxSessions = 2
    Findings = {f1}
    ProjectOf <- MCProjectOf
    MaxLog = 3
PROPERTY FailedReproPromotesNothing
CHECK_DEADLOCK FALSE
