SPECIFICATION Spec
CONSTANTS
    Areas = {"src"}
    Procs = {r1, r2}
    Ids = {i1, i2}
    BadId = badid
    Identities = {url, path}
    GitUrls = {url}
    NoIdentity = NoIdentity
    Contexts <- MCContexts
    NoProject = NoProject
    TornProject = TornProject
SYMMETRY RegisterSymmetry
INVARIANT TypeOK
PROPERTIES
    RecordsKept
    DuplicatesAreRaced
CHECK_DEADLOCK FALSE
