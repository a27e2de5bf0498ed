SPECIFICATION Spec
CONSTANTS
    Images = {"build", "other", "binary", "bare"}
    NoImage = NoImage
    Texts = {"trigger", "benign"}
    Binaries = {"blob"}
    Lossy = Lossy
    NoInput = NoInput
    Baked <- MCBaked
    Requests <- MCRequests
    MaxNow = 1
INVARIANTS
    TypeOK
    RunsWhatWasSignedOff
    VerdictIsObserved
    NeverForgotten
    Ephemeral
PROPERTIES
    KeepsIsolation
    EveryRunEnds
CHECK_DEADLOCK FALSE
