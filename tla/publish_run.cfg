SPECIFICATION Spec
CONSTANTS
    Projects = {a}
    Identities = {u1}
    Findings <- MCFindings
    Writers = {w1, w2}
    Citations <- MCCitations
    DraftFormats = {"csaf"}
    MaxRecords = 1
    MaxRuns = 1
    None = None
    Torn = Torn
SYMMETRY PublishSymmetry
CONSTRAINTS
    StillClaimed
    WritersOverlap
INVARIANTS
    SessionsKeepGreen
    DraftsRestOnEvidence
CHECK_DEADLOCK FALSE
