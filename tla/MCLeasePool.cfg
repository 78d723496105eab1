\* Two slots, three incidents of two scales, three runtimes ever provisioned.
CONSTANTS
    Holders = {h1, h2, h3}
    Records = {r1, r2, r3}
    Scales = {xs, small}
    NoRecord = NoRecord
    MaxActive = 2
    TTL = 2
    Grace = 1
    SessionSeconds = {1}
    LeaseWait = 2
    MaxTime = 4
SPECIFICATION Spec
SYMMETRY Symmetry
INVARIANTS
    TypeOK
    ExclusiveLease
    WithinCapacity
    LeaseCoversSession
    NoLostWakeup
CHECK_DEADLOCK FALSE
