SPECIFICATION Spec
CONSTANTS
    Workers = {w1, w2}
    Backends = {b1, b2}
    NoBackend = NoBackend
    Foreign = Foreign
    NoRuntime = NoRuntime
    NoList = NoList
    Crashes = TRUE
    LostReplies = FALSE
    ResumeQuarantined = FALSE
    ForeignLabs = FALSE
INVARIANT
    ReservedHasNoLab
CHECK_DEADLOCK FALSE
