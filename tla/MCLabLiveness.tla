--------------------------- MODULE MCLabLiveness ---------------------------
(****************************************************************************)
(* What must end on a deployed lab, for TLC: the calls of the traffic        *)
(* controller and of the fault handlers, the health check, a case, a         *)
(* session, an acceptance process, a round of the BGP collector and a        *)
(* window of probes.                                                         *)
(****************************************************************************)
EXTENDS Naturals

VARIABLES
    part,   \* the component that a behaviour is about
    \* its variables, in the order of its own declaration
    s1, s2, s3, s4, s5, s6, s7, s8, s9, s10, s11, s12

vars == <<part, s1, s2, s3, s4, s5, s6, s7, s8, s9, s10, s11, s12>>

Traffic == INSTANCE TrafficControl WITH
    Clients <- {"c1", "c2"}, MaxGeneration <- 1, MaxLate <- 0, phase <- s1,
    call <- s2, up <- s3, agent <- s4, deployed <- s5, reported <- s6,
    controller <- s7, generation <- s8, issued <- s9, late <- s10, delays <- s11,
    rollback <- s12
Link == INSTANCE LinkFaults WITH
    Types <- {"link_down", "link_flapping"}, ClientEnds <- {}, MaxFaults <- 2,
    MayExpire <- TRUE, admin <- s1, routes <- s2, job <- s3, main <- s4, ctl <- s5,
    stop <- s6, tracked <- s7, injected <- s8
Config == INSTANCE ConfigFaults WITH
    Kinds <- {"filter", "address", "acl", "flapping", "route", "netem"},
    MaxInjections <- 2, MaxToggles <- 3, inforce <- s1, foreign <- s2, kind <- s3,
    journal <- s4, pc <- s5, undo <- s6, errors <- s7, tracked <- s8, ctl <- s9,
    injections <- s10, toggles <- s11
Device == INSTANCE DeviceLifecycle WITH
    Devices <- {"d1", "d2"}, MaxTries <- 2, MaxFaults <- 1, MayExpire <- TRUE,
    box <- s1, step <- s2, tries <- s3, main <- s4, target <- s5, tracked <- s6,
    verdict <- s7, faults <- s8
Health == INSTANCE HealthCheck WITH
    Devices <- {"d1"}, Clients <- {"c1"}, Checks <- {"k1"}, Retries <- 2,
    PoolSize <- 1, good <- s1, stage <- s2, pending <- s3, tries <- s4, job <- s5,
    snapshot <- s6, expired <- s7, answer <- s8
Case == INSTANCE ScenarioExecution WITH
    MaxCases <- 1, MaxDisturb <- 1, Window <- 1, MaxAge <- 1, Recalibrate <- 1,
    Budget <- 2, lab <- s1, pc <- s2, case <- s3, win <- s4, wait <- s5, cl <- s6,
    handoff <- s7, taken <- s8, result <- s9
Session == INSTANCE SessionDispatch WITH
    NWorkers <- 2, NScenarios <- 2, NSessions <- 1, MayRaise <- TRUE, rt <- s1,
    lab <- s2, sn <- s3, wk <- s4, run <- s5, cancel <- s6
Accept == INSTANCE Acceptance WITH
    NScales <- 2, NBackends <- 1, NCases <- 1, NProcesses <- 2, disk <- s1,
    result <- s2, lab <- s3, dirty <- s4, p <- s5, started <- s6
Bgp == INSTANCE BgpCollector WITH
    Devices <- <<"leaf1">>, MaxBytes <- 4, SegmentBytes <- 2, EventBytes <- 1,
    MarkerBytes <- 1, Sessions <- {"up", "down"}, MaxCrashes <- 1, sess <- s1,
    prev <- s2, round <- s3, batch <- s4, active <- s5, sealed <- s6, tail <- s7,
    marked <- s8, last <- s9, crashes <- s10
Window == INSTANCE PingmeshIngestion WITH
    Frames <- <<{"x"}, {"y"}>>, Logs <- {<<0, 1, 0, 1, 2, 3>>}, Interval <- 2,
    WindowSize <- 4, MaxTime <- 11, HistoryBy <- 4, InOrder <- TRUE,
    MaxErrors <- 0, log <- s1, offset <- s2, now <- s3, seen <- s4, d <- s5,
    errors <- s6
Gap == INSTANCE PingmeshIngestion WITH
    Frames <- <<{"x", "y"}, {}>>, Logs <- {<<0, 1, 2, 3, 4>>}, Interval <- 2,
    WindowSize <- 3, MaxTime <- 12, HistoryBy <- 4, InOrder <- TRUE,
    MaxErrors <- 0, log <- s1, offset <- s2, now <- s3, seen <- s4, d <- s5,
    errors <- s6

Init ==
    \/ part = "traffic" /\ Traffic!Init
    \/ part = "link" /\ Link!Init /\ s9 = 0 /\ s10 = 0 /\ s11 = 0 /\ s12 = 0
    \/ part = "config" /\ Config!Init /\ s12 = 0
    \/ part = "device" /\ Device!Init /\ s9 = 0 /\ s10 = 0 /\ s11 = 0 /\ s12 = 0
    \/ part = "health" /\ Health!Init /\ s9 = 0 /\ s10 = 0 /\ s11 = 0 /\ s12 = 0
    \/ part = "scenario" /\ Case!Init /\ s10 = 0 /\ s11 = 0 /\ s12 = 0
    \/ part = "session" /\ Session!Init /\ s7 = 0 /\ s8 = 0 /\ s9 = 0 /\ s10 = 0 /\ s11 = 0 /\ s12 = 0
    \/ part = "acceptance" /\ Accept!Init /\ s7 = 0 /\ s8 = 0 /\ s9 = 0 /\ s10 = 0 /\ s11 = 0 /\ s12 = 0
    \/ part = "bgp" /\ Bgp!Init /\ s11 = 0 /\ s12 = 0
    \/ part = "window" /\ Window!Init /\ s7 = 0 /\ s8 = 0 /\ s9 = 0 /\ s10 = 0 /\ s11 = 0 /\ s12 = 0
    \/ part = "gap" /\ Gap!Init /\ s7 = 0 /\ s8 = 0 /\ s9 = 0 /\ s10 = 0 /\ s11 = 0 /\ s12 = 0

TrafficWorks == part = "traffic" /\ Traffic!Next /\ UNCHANGED <<part>>
LinkWorks == part = "link" /\ Link!Next /\ UNCHANGED <<part, s9, s10, s11, s12>>
ConfigWorks == part = "config" /\ Config!Next /\ UNCHANGED <<part, s12>>
DeviceWorks == part = "device" /\ Device!Next /\ UNCHANGED <<part, s9, s10, s11, s12>>
HealthWorks == part = "health" /\ Health!Next /\ UNCHANGED <<part, s9, s10, s11, s12>>
ScenarioWorks == part = "scenario" /\ Case!Next /\ UNCHANGED <<part, s10, s11, s12>>
SessionWorks == part = "session" /\ Session!Next /\ UNCHANGED <<part, s7, s8, s9, s10, s11, s12>>
AcceptanceWorks == part = "acceptance" /\ Accept!Next /\ UNCHANGED <<part, s7, s8, s9, s10, s11, s12>>
BgpWorks == part = "bgp" /\ Bgp!Next /\ UNCHANGED <<part, s11, s12>>
WindowWorks == part = "window" /\ Window!Next /\ UNCHANGED <<part, s7, s8, s9, s10, s11, s12>>
GapWorks == part = "gap" /\ Gap!Next /\ UNCHANGED <<part, s7, s8, s9, s10, s11, s12>>

Next ==
    \/ TrafficWorks \/ LinkWorks \/ ConfigWorks \/ DeviceWorks
    \/ HealthWorks \/ ScenarioWorks \/ SessionWorks \/ AcceptanceWorks
    \/ BgpWorks \/ WindowWorks \/ GapWorks

Spec == Init /\ [][Next]_vars

(***************************************************************************)
(* Threads and processes run on and the clock does.  The status loop of a  *)
(* traffic call does not turn for ever (READY_TIMEOUT_SECONDS), InfluxDB   *)
(* answers again and again, rows arrive.  Nobody owes a fault, a recovery, *)
(* a start, a resume or a crash, and the lab need not converge.            *)
(***************************************************************************)
InTraffic(A) == part = "traffic" /\ A /\ UNCHANGED <<part>>
InLink(A) == part = "link" /\ A /\ UNCHANGED <<part, s9, s10, s11, s12>>
InConfig(A) == part = "config" /\ A /\ UNCHANGED <<part, s12>>
InDevice(A) == part = "device" /\ A /\ UNCHANGED <<part, s9, s10, s11, s12>>
InHealth(A) == part = "health" /\ A /\ UNCHANGED <<part, s9, s10, s11, s12>>
InScenario(A) == part = "scenario" /\ A /\ UNCHANGED <<part, s10, s11, s12>>
InSession(A) == part = "session" /\ A /\ UNCHANGED <<part, s7, s8, s9, s10, s11, s12>>
InAcceptance(A) == part = "acceptance" /\ A /\ UNCHANGED <<part, s7, s8, s9, s10, s11, s12>>
InBgp(A) == part = "bgp" /\ A /\ UNCHANGED <<part, s11, s12>>
InWindow(A) == part = "window" /\ A /\ UNCHANGED <<part, s7, s8, s9, s10, s11, s12>>
InGap(A) == part = "gap" /\ A /\ UNCHANGED <<part, s7, s8, s9, s10, s11, s12>>

FairSpec ==
    /\ Spec
    /\ \A c \in {"c1", "c2"} : WF_vars(InTraffic(Traffic!Step(c)))
    /\ WF_vars(InTraffic(Traffic!Ends))
    /\ SF_vars(InTraffic(Traffic!StatusLoopEnds) \/ InBgp(Bgp!DeleteIngested))
    /\ \A p \in Link!Procs : WF_vars(InLink(Link!Step(p)))
    /\ \A i \in Link!Ids : WF_vars(InLink(Link!Toggled(i) \/ Link!Cancelled(i)))
    /\ WF_vars(InLink(Link!InjectEnds)) /\ WF_vars(InLink(Link!Recovering))
    /\ WF_vars(InConfig(Config!FlapStops)) /\ WF_vars(InConfig(Config!Work))
    /\ WF_vars(InDevice(Device!ApplyEnds)) /\ WF_vars(InDevice(Device!Handler))
    /\ \A d \in {"d1", "d2"} : WF_vars(InDevice(Device!Activate(d)))
    /\ WF_vars(InHealth(Health!Expire)) /\ WF_vars(InHealth(Health!RoundEnds))
    /\ WF_vars(InHealth(Health!DeadlineExceeded))
    /\ \A i \in Health!All : WF_vars(InHealth(Health!EndProbe(i)))
    /\ WF_vars(InScenario(Case!Tick)) /\ WF_vars(InScenario(Case!Prepare \/ Case!Breaks))
    /\ WF_vars(InScenario(Case!Diagnosed)) /\ WF_vars(InScenario(Case!Cleanup))
    /\ WF_vars(InSession(Session!SessionStep))
    /\ \A w \in 0..1 : WF_vars(InSession(Session!WorkerStep(w)))
    /\ WF_vars(InAcceptance(Accept!Step))
    /\ WF_vars(InBgp(Bgp!Collector)) /\ WF_vars(InBgp(Bgp!CollectDevice("leaf1")))
    /\ WF_vars(InBgp(Bgp!DeleteIngested \/ Bgp!QueryFails))
    /\ WF_vars(InBgp(Bgp!Start)) /\ WF_vars(InBgp(Bgp!IngestActive)) /\ WF_vars(InBgp(Bgp!IngestSealed))
    /\ WF_vars(InWindow(Window!Tick)) /\ WF_vars(InWindow(\E r \in Window!Rows : Window!Deliver(r)))
    /\ WF_vars(InWindow(Window!Detector))
    /\ WF_vars(InGap(Gap!Tick)) /\ WF_vars(InGap(\E r \in Gap!Rows : Gap!Deliver(r))) /\ WF_vars(InGap(Gap!Detector))
-----------------------------------------------------------------------------

\* Every variable holds a value the code can put there.
TypeOK ==
    /\ part = "traffic" => Traffic!TypeOK
    /\ part = "link" => Link!TypeOK
    /\ part = "config" => Config!TypeOK
    /\ part = "device" => Device!TypeOK
    /\ part = "health" => Health!TypeOK
    /\ part = "scenario" => Case!TypeOK
    /\ part = "bgp" => Bgp!TypeOK
    /\ part = "window" => Window!TypeOK

\* Something has begun that must end.
Busy ==
    \/ part = "traffic" /\ ~Traffic!Idle
    \/ part = "link" /\ ~Link!CallerIdle
    \/ part = "config" /\ ~Config!Idle
    \/ part = "device" /\ Device!InCall
    \/ part = "health" /\ ~Health!Answered
    \/ part = "scenario" /\ ~Case!BetweenCases
    \/ part = "session" /\ ~Session!NoSession
    \/ part = "acceptance" /\ ~Accept!Off
    \/ part = "bgp" /\ ~Bgp!BetweenRounds
    \/ part = "window" /\ ~Window!Closed
    \/ part = "gap" /\ ~Gap!Closed
Done ==
    CASE part = "traffic" -> Traffic!Idle
      [] part = "link" -> Link!CallerIdle
      [] part = "config" -> Config!Idle
      [] part = "device" -> Device!Returned
      [] part = "health" -> Health!Answered
      [] part = "scenario" -> Case!BetweenCases
      [] part = "session" -> Session!NoSession
      [] part = "acceptance" -> Accept!Off
      [] part = "bgp" -> Bgp!BetweenRounds
      [] part = "window" -> Window!Closed
      [] part = "gap" -> Gap!Closed

\* What has begun ends, whatever the lab does: a call of the traffic
\* controller, an injection or a recovery, a health check (each has a timeout,
\* a deadline or a bounded number of tries); a case, also when the lab never
\* converges and every step fails; a session, although agents may never answer;
\* an acceptance process; a round of the BGP collector, also when the spool is
\* full; and the wait for a window of probes, which closes as the padding of
\* its query grows and is invalid, not awaited for ever, when a client
\* restarted in it. A controller of a flapping link that was told to stop ends.
WorkEnds ==
    /\ Busy ~> Done
    /\ (part = "link" /\ ~Link!AllHeard) ~> (part = "link" => Link!AllHeard)
=============================================================================
