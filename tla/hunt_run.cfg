SPECIFICATION Spec
CONSTANTS
    Areas = {"x", "y", "z"}
    Lines = {1, 2}
    Classes = {"c", "d"}
    NoClass = NoClass
    NoPlace = NoPlace
    MaxPrimitives = 2
    Projects = {"src", "a", "b"}
    NoProject = NoProject
    TornProject = TornProject
    Docs <- MCDocs
    NoDoc = NoDoc
    Escaping <- MCEscaping
    LongAreas = {"z"}
    MaxId = 14
    NoFinding = NoFinding
    Source = "src"
    SourceFinding = 2
    Siblings <- MCSiblings
    Worlds <- MCWorlds
    HuntDocs <- MCHuntDocs
    RoguePlaces <- MCRoguePlaces
    Edits <- MCEdits
    Rogue = {"b"}
    NoOutcome = NoOutcome
INVARIANTS
    TypeOK
    GatedOnly
    LedgerIsBacked
    AccountedFor
    OutcomesTellAll
    VariantsFiled
PROPERTIES
    RecordsKept
CHECK_DEADLOCK FALSE
