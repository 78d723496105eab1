\* MCCampaign
CONSTANTS
    LabWorkers = {w1, w2}
    Identities = {b1, b2}
    NoBackend = NoBackend
    Foreign = Foreign
    NoRuntime = NoRuntime
    NoList = NoList
    NWorkers = 2
    NScenarios = 4
    NSessions = 2
    RaiseScenarios = 3
    RaiseSessions = 1
    NScales = 2
    NBackends = 2
    NCases = 2
    NProcesses = 3
    ScoredEpisodes <- CaseEpisodes
    ScoredDiagnoses <- CaseDiagnoses
    JudgeAnswers <- CaseAnswers
    ScoredLinks <- Ends
    SupportedTypes <- Types
    MaxScored = 1
SPECIFICATION Spec
SYMMETRY Symmetry
INVARIANTS
    TypeOK
    TeardownIsComplete
    NothingOffTheRecord
    CleanLabPerCase
    EveryCaseIsAccountedFor
    ScoreIsEarned
    ReportAddsUp
PROPERTIES
    OthersAreSpared
CHECK_DEADLOCK FALSE
