\* Three request threads race on two environments and a table of one tombstone.
CONSTANTS
    Threads = {t1, t2, t3}
    Envs = {e1, e2}
    NoThread = NoThread
    NoEnv = NoEnv
    MaxToolCalls = 1
    MaxTombstones = 1
SPECIFICATION Spec
SYMMETRY Symmetry
INVARIANTS
    TypeOK
    RecoveryOnce
    OneOutcome
    ToolsSeeTheIncident
    NoIncidentForgotten
    TombstonesBounded
