SPECIFICATION Spec
CONSTANTS
    Areas = {"src"}
    Procs = {p1, p2}
    Projects = {"a"}
    BadId = badid
    NoProject = NoProject
    NoRecord = NoRecord
    NoDetail = NoDetail
    Contexts <- MCContexts
    MaxSessions = 2
    Findings = {f1}
    ProjectOf <- MCProjectOf
    MaxLog = 2
CONSTRAINT Unreferenced
SYMMETRY ProcSymmetry
INVARIANT VerifiedHasEvidence
CHECK_DEADLOCK FALSE
