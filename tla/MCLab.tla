------------------------------- MODULE MCLab -------------------------------
(****************************************************************************)
(* What works on one deployed lab, for TLC: background traffic, the three    *)
(* kinds of fault handlers, the health check, the executor of cases and the  *)
(* BGP collector. A behaviour is about one of them, which part names; what   *)
(* it needs of the others is in its own module.                              *)
(****************************************************************************)
EXTENDS Naturals, Sequences

CONSTANTS
    Devices, Clients, Checks,   \* of the lab: devices, clients, observability checks
    Senders, MaxGeneration,     \* of the traffic: clients, starts of the matrix
    MaxLinkFaults, MaxRouteFaults,   \* of the link faults
    Retries, PoolSize,          \* of the health check
    FaultKinds, MaxInjections, MaxToggles,   \* of the configuration faults
    MaxTries, MaxFaults,        \* of the device_down fault
    MaxCases, MaxDisturb, Window, MaxAge, Recalibrate, Budget,   \* of the executor
    Routers, BgpSessions, MaxBytes, SegmentBytes, EventBytes, MarkerBytes,
    MaxCrashes                  \* of the BGP collector

\* Devices, clients and checks have names of their own, a stage that polls
\* tries at least once, and times and bounds are natural numbers.
ASSUME LabAssumption ==
    /\ Devices \cap (Clients \cup Checks \cup {"telegraf", "containers", "ping"}) = {}
    /\ Retries \in Nat \ {0} /\ PoolSize \in Nat
    /\ {MaxGeneration, MaxLinkFaults, MaxRouteFaults} \subseteq Nat
    /\ {MaxInjections, MaxToggles, MaxTries, MaxFaults} \subseteq Nat
    /\ {MaxCases, MaxDisturb, Window, MaxAge, Recalibrate, Budget} \subseteq Nat

\* Sizes are natural numbers, and the routers are polled in their order, each
\* once; a session is in a state that a router can show.
ASSUME CollectorAssumption ==
    /\ {MaxBytes, SegmentBytes, EventBytes, MarkerBytes, MaxCrashes} \subseteq Nat
    /\ Len(Routers) \in Nat /\ DOMAIN Routers = 1 .. Len(Routers)
    /\ \A j, k \in DOMAIN Routers : Routers[j] = Routers[k] => j = k
    /\ BgpSessions \subseteq {"up", "fewer", "down", "gone"}

\* The routers of a small lab, in launch order.
TwoRouters == <<"leaf1", "leaf2">>

VARIABLES
    part,   \* the component that a behaviour is about
    \* its variables, in the order of its own declaration
    s1, s2, s3, s4, s5, s6, s7, s8, s9, s10, s11, s12

vars == <<part, s1, s2, s3, s4, s5, s6, s7, s8, s9, s10, s11, s12>>

T == INSTANCE TrafficControl WITH
    Clients <- Senders, MaxLate <- 0, phase <- s1,
    call <- s2, up <- s3, agent <- s4, deployed <- s5, reported <- s6,
    controller <- s7, generation <- s8, issued <- s9, late <- s10, delays <- s11,
    rollback <- s12
TL == INSTANCE TrafficControl WITH
    MaxLate <- 1, phase <- s1,
    call <- s2, up <- s3, agent <- s4, deployed <- s5, reported <- s6,
    controller <- s7, generation <- s8, issued <- s9, late <- s10, delays <- s11,
    rollback <- s12
L == INSTANCE LinkFaults WITH
    Types <- {"link_down", "link_flapping"}, ClientEnds <- {"peer"},
    MaxFaults <- MaxLinkFaults, MayExpire <- FALSE, admin <- s1, routes <- s2, job <- s3,
    main <- s4, ctl <- s5, stop <- s6, tracked <- s7, injected <- s8
LR == INSTANCE LinkFaults WITH
    Types <- {"link_down"}, ClientEnds <- {"target", "peer"},
    MaxFaults <- MaxRouteFaults, MayExpire <- FALSE, admin <- s1, routes <- s2, job <- s3, main <- s4,
    ctl <- s5, stop <- s6, tracked <- s7, injected <- s8
C == INSTANCE ConfigFaults WITH
    Kinds <- FaultKinds, inforce <- s1, foreign <- s2, kind <- s3, journal <- s4, pc <- s5, undo <- s6,
    errors <- s7, tracked <- s8, ctl <- s9, injections <- s10, toggles <- s11
D == INSTANCE DeviceLifecycle WITH
    MayExpire <- FALSE, box <- s1, step <- s2, tries <- s3, main <- s4,
    target <- s5, tracked <- s6, verdict <- s7, faults <- s8
H == INSTANCE HealthCheck WITH
    good <- s1, stage <- s2, pending <- s3, tries <- s4, job <- s5,
    snapshot <- s6, expired <- s7, answer <- s8
S == INSTANCE ScenarioExecution WITH
    lab <- s1, pc <- s2, case <- s3, win <- s4, wait <- s5, cl <- s6,
    handoff <- s7, taken <- s8, result <- s9
BC == INSTANCE BgpCollector WITH
    Devices <- Routers, Sessions <- BgpSessions, sess <- s1, prev <- s2, round <- s3,
    batch <- s4, active <- s5, sealed <- s6, tail <- s7, marked <- s8, last <- s9,
    crashes <- s10

Init ==
    \/ part = "traffic" /\ T!Init
    \/ part = "delayed" /\ TL!Init
    \/ part = "link" /\ L!Init /\ s9 = 0 /\ s10 = 0 /\ s11 = 0 /\ s12 = 0
    \/ part = "routes" /\ LR!Init /\ s9 = 0 /\ s10 = 0 /\ s11 = 0 /\ s12 = 0
    \/ part = "config" /\ C!Init /\ s12 = 0
    \/ part = "device" /\ D!Init /\ s9 = 0 /\ s10 = 0 /\ s11 = 0 /\ s12 = 0
    \/ part = "health" /\ H!Init /\ s9 = 0 /\ s10 = 0 /\ s11 = 0 /\ s12 = 0
    \/ part = "scenario" /\ S!Init /\ s10 = 0 /\ s11 = 0 /\ s12 = 0
    \/ part = "collector" /\ BC!Init /\ s11 = 0 /\ s12 = 0

TrafficWorks == part = "traffic" /\ T!Next /\ UNCHANGED <<part>>
DelayedWorks == part = "delayed" /\ TL!Next /\ UNCHANGED <<part>>
LinkWorks == part = "link" /\ L!Next /\ UNCHANGED <<part, s9, s10, s11, s12>>
RoutesWorks == part = "routes" /\ LR!Next /\ UNCHANGED <<part, s9, s10, s11, s12>>
ConfigWorks == part = "config" /\ C!Next /\ UNCHANGED <<part, s12>>
DeviceWorks == part = "device" /\ D!Next /\ UNCHANGED <<part, s9, s10, s11, s12>>
HealthWorks == part = "health" /\ H!Next /\ UNCHANGED <<part, s9, s10, s11, s12>>
ScenarioWorks == part = "scenario" /\ S!Next /\ UNCHANGED <<part, s10, s11, s12>>
CollectorWorks == part = "collector" /\ BC!Next /\ UNCHANGED <<part, s11, s12>>

Next ==
    \/ TrafficWorks \/ DelayedWorks \/ LinkWorks \/ RoutesWorks
    \/ ConfigWorks \/ DeviceWorks \/ HealthWorks \/ ScenarioWorks
    \/ CollectorWorks

Spec == Init /\ [][Next]_vars
-----------------------------------------------------------------------------

\* Clients never run plans of two generations, whatever requests fail half way
\* and although a given-up request is applied later; a released controller
\* leaves nobody sending that its errors do not name, and a deployment that
\* raised leaves no agent except the ones its error names (start_matrix, stop,
\* deploy_client_agents).
TrafficIsOwned ==
    /\ part = "traffic" => T!OnePlan /\ T!StoppedIsSilent /\ T!FailedDeployReports
    /\ part = "delayed" => TL!OneSender

\* When no fault is tracked and no call runs, nothing of any fault is left: the
\* link is up on both sides with the routes of its clients, the device has its
\* own configuration, its container runs with its interfaces and it is
\* activated; a failed injection was undone as a whole, and no controller is
\* left to break it again.
FaultsAreUndone ==
    /\ part = "link" => L!LinkBack
    /\ part = "routes" => LR!RoutesBack
    /\ part = "config" => C!ConfigBack
    /\ part = "device" => D!DeviceBack /\ D!ReadyIsActive

\* What a recovery needs is there as long as the fault is: a controller touches
\* the link only while its fault is tracked, every change in force belongs to
\* an operation of the journal, also while it is being written, a policy is
\* never removed while it is attached, and a stopped device has its interfaces
\* kept.
FaultsStayRecoverable ==
    /\ part = "link" => L!ControllerIsTracked
    /\ part = "config" => C!JournalCovers /\ C!NoDanglingPolicy
    /\ part = "device" => D!ActiveIsRestartable

\* A worker is called healthy only by the probes of this very check, which all
\* have ended when it answers; a case that ends clean rests on a window that
\* began after the fault was gone and saw no sick path and no restart, and a
\* fault that is still in the lab is reported, whichever step of the case
\* failed.
CleanIsProven ==
    /\ part = "health" => H!SnapshotIsOfTheGoodProbe /\ H!QuietAfterAnswer
    /\ part = "scenario" => S!LeftFaultIsReported /\ S!CleanIsProven

\* No fault is injected against a baseline that saw a sick lab, whether it was
\* captured for the case or taken over from the one before; a window on offer
\* or in use is of the very runtime the case runs on, with no restart since it
\* was captured.
BaselineIsSound ==
    part = "scenario" => S!BaselineIsClean /\ S!ReusedIsCurrent /\ S!OfferIsSound

\* No step removes a static route or qdisc that the fault does not own, reports
\* a device as recovered before its sessions are up, or reuses a baseline older
\* than the limit or of an epoch that is due for recalibration.
StepsAreSound ==
    [][/\ part = "config" => C!ForeignKeptStep
       /\ part = "device" => D!RecoveredHasSessionsStep
       /\ part = "scenario" => S!ReusedIsYoungStep]_vars

\* A sealed segment is removed only when each batch in it is in InfluxDB, also
\* when a crash left a marker in its middle (_delete_ingested_segments); as
\* long as the process runs and no poll was dropped, each change between two
\* good polls in the spool comes with exactly its event, and a new process
\* invents none; and the spool outgrows max_bytes by one marker at most,
\* whatever is sealed, crashes or is retried.
EvidenceIsKept ==
    /\ [][part = "collector" => BC!DeletedWasDeliveredStep /\ BC!TransitionsCompleteStep]_vars
    /\ [](part = "collector" => BC!SpoolNearlyBounded)

Handoff == INSTANCE BaselineHandoff WITH
    Windows <- S!AllWindows, slot <- IF part = "scenario" THEN S!Slot ELSE {},
    taken <- IF part = "scenario" THEN s8 ELSE {}

\* The executor's handoff is a single-consumer handoff (scenario/baseline.py):
\* a window is offered once, taken at most once, and what was taken or dropped
\* never comes back, whatever cases and cleanups come in between.
SingleConsumer == Handoff!Spec
=============================================================================
