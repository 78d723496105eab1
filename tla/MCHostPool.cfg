\* A pool of two labs beside the other deployment; no process dies.
CONSTANTS
    Procs = {"a", "b"}
    Labs = {"l1", "l2", "l3"}
    LabsOf <- TwoAndOne
    Pools = {"a"}
    Stride <- Strides
    Start <- Starts
    LastOctet = 4
    Jobs = 2
    Foreign = {1}
    Pids = {1}
    Crashes = FALSE
SPECIFICATION Spec
INVARIANTS
    AllocatedIsFree
    TornDownIsClean
CHECK_DEADLOCK FALSE
