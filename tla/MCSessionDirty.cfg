SPECIFICATION Spec
CONSTANTS
    NWorkers = 2
    NScenarios = 2
    NSessions = 2
    MayRaise = TRUE
INVARIANTS
    NoCaseOnDirtyLab
