\* One lab each, with process identifiers that are used again, where a process
\* may be killed at any moment.
CONSTANTS
    Procs = {"a", "b"}
    Labs = {"l1", "l3"}
    LabsOf <- OneEach
    Pools = {"a"}
    Stride <- Strides
    Start <- Starts
    LastOctet = 3
    Jobs = 1
    Foreign = {1}
    Pids = {1, 2}
    Crashes = TRUE
SPECIFICATION Spec
INVARIANTS
    TypeOK
    
PROPERTIES
    UnrelatedSpared
CHECK_DEADLOCK FALSE
