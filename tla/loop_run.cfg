SPECIFICATION Spec
CONSTANTS
    Areas = {"src", "lib", " "}
    Blank = " "
    Escaping = {}
    Findings = {f1}
    Contexts <- MCContexts
    Budgets <- MCBudgets
    MaxLoops = 2
    MaxEvents = 2
    NoLimit = NoLimit
    NoFinding = NoFinding
    NoAction = NoAction
INVARIANTS
    TypeOK
    BudgetIsExact
    RepeatRunsConverge
PROPERTIES
    NothingLeftUnsaid
    WithdrawalHolds
    EveryLoopEnds
CHECK_DEADLOCK FALSE
