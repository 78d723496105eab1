\* MCLab
CONSTANTS
    Devices = {"d1", "d2"}
    Clients = {"c1", "c2"}
    Checks = {"k1"}
    Senders = {"c1", "c2", "c3"}
    MaxGeneration = 2
    MaxLinkFaults = 2
    MaxRouteFaults = 3
    Retries = 2
    PoolSize = 1
    FaultKinds = {"filter", "address", "acl", "flapping", "route", "netem"}
    MaxInjections = 2
    MaxToggles = 3
    MaxTries = 2
    MaxFaults = 2
    MaxCases = 2
    MaxDisturb = 1
    Window = 1
    MaxAge = 1
    Recalibrate = 2
    Budget = 2
    Routers <- TwoRouters
    BgpSessions = {"fewer", "gone"}
    MaxBytes = 4
    SegmentBytes = 2
    EventBytes = 3
    MarkerBytes = 1
    MaxCrashes = 1
SPECIFICATION Spec
INVARIANTS
    TrafficIsOwned
    FaultsAreUndone
    FaultsStayRecoverable
    CleanIsProven
    BaselineIsSound
PROPERTIES
    StepsAreSound
    EvidenceIsKept
    SingleConsumer
CHECK_DEADLOCK FALSE
