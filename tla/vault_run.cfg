SPECIFICATION Spec
CONSTANTS
    Procs = {p1, p2}
    Notes = {n1, n2}
    Keep = 2
    Keeps = {1}
    MaxAge = 0
    MaxNow = 2
    MaxSame = 1
    MaxCommands = 4
    MaxDeaths = 1
    NoDir = NoDir
    NoName = NoName
INVARIANTS
    GoodCopyRemains
    NothingDestroyed
    FreshBeforeWrite
    IndexIsCurrent
SYMMETRY VaultSymmetry
CHECK_DEADLOCK FALSE
