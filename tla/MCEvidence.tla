----------------------------- MODULE MCEvidence -----------------------------
(****************************************************************************)
(* The evidence of a diagnosis for TLC: the ingestion of probe rows into a   *)
(* window, the analysis of a window and the gate on its baseline, what the   *)
(* rows say of a flapping link, and the questions a tool asks of what the    *)
(* BGP collector stored, over all histories of five polls.                   *)
(****************************************************************************)
EXTENDS Naturals

VARIABLES
    part,   \* the component that a behaviour is about
    \* its variables, in the order of its own declaration
    s1, s2, s3, s4, s5, s6, s7, s8, s9, s10, s11, s12

vars == <<part, s1, s2, s3, s4, s5, s6, s7, s8, s9, s10, s11, s12>>

\* The sequence numbers of a client agent that is never restarted.
Count(n) == [k \in 1..n |-> k - 1]

\* What one poll of a BGP session may find.
AllPolls == {"up", "down", "gone", "failed", "dead"}

Ingest == INSTANCE PingmeshIngestion WITH
    Frames <- <<{"x", "y"}, {}>>, Logs <- {Count(5)}, Interval <- 2,
    WindowSize <- 3, MaxTime <- 10, HistoryBy <- 3, InOrder <- FALSE,
    MaxErrors <- 1, log <- s1, offset <- s2, now <- s3, seen <- s4, d <- s5,
    errors <- s6
Cover == INSTANCE PingmeshIngestion WITH
    Frames <- <<{"x"}, {"y"}>>, Logs <- {Count(7)}, Interval <- 2, WindowSize <- 8,
    MaxTime <- 14, HistoryBy <- 3, InOrder <- TRUE, MaxErrors <- 0, log <- s1,
    offset <- s2, now <- s3, seen <- s4, d <- s5, errors <- s6
Paths == INSTANCE PingmeshAnalysis WITH
    Tasks <- {<<"a", 0>>, <<"b", 0>>}, Kinds <- {"OK", "L1", "DEAD", "SLOW"},
    MaxBaseline <- 2, MaxRows <- 5, rows <- s1, phase <- s2, mark <- s3, cut <- s4,
    report <- s5
Ports == INSTANCE PingmeshAnalysis WITH
    Tasks <- {<<"a", 0>>, <<"a", 1>>},
    Kinds <- {"OK", "L3", "DF", "DFERR", "DEAD"}, MaxBaseline <- 2, MaxRows <- 5,
    rows <- s1, phase <- s2, mark <- s3, cut <- s4, report <- s5
Gate == INSTANCE PingmeshAnalysis WITH
    Tasks <- {<<"a", 0>>, <<"a", 1>>},
    Kinds <- {"OK", "L1", "L3", "DEAD", "DF", "BOTH"}, MaxBaseline <- 4,
    MaxRows <- 4, rows <- s1, phase <- s2, mark <- s3, cut <- s4, report <- s5
Flap == INSTANCE FlapEvidence WITH
    Pairs <- {<<1, 2>>, <<2, 3>>}, Access <- 1, Cycle <- 2, Batches <- 2,
    Start <- 2, End <- 7, MaxTime <- 8, HistoryLimit <- 50, Foreign <- {},
    kind <- s1, now <- s2, link <- s3, ctl <- s4, startedAt <- s5, since <- s6,
    history <- s7, cause <- s8, rows <- s9, stage <- s10, unsettled <- s11,
    downs <- s12
Others == INSTANCE FlapEvidence WITH
    Pairs <- {<<1, 2>>, <<2, 3>>}, Access <- 1, Cycle <- 1, Batches <- 1,
    Start <- 1, End <- 4, MaxTime <- 4, HistoryLimit <- 50, Foreign <- {1, 2},
    kind <- s1, now <- s2, link <- s3, ctl <- s4, startedAt <- s5, since <- s6,
    history <- s7, cause <- s8, rows <- s9, stage <- s10, unsettled <- s11,
    downs <- s12
Query == INSTANCE BgpEvents WITH
    Histories <- [1..5 -> AllPolls], FullPolls <- {1..5, {1, 4}, {3}},
    Scopes <- {"absolute", "relative"}, Tolerance <- 1, q <- s1, ans <- s2

Init ==
    \/ part = "ingest" /\ Ingest!Init /\ s7 = 0 /\ s8 = 0 /\ s9 = 0 /\ s10 = 0 /\ s11 = 0 /\ s12 = 0
    \/ part = "cover" /\ Cover!Init /\ s7 = 0 /\ s8 = 0 /\ s9 = 0 /\ s10 = 0 /\ s11 = 0 /\ s12 = 0
    \/ part = "paths" /\ Paths!Init /\ s6 = 0 /\ s7 = 0 /\ s8 = 0 /\ s9 = 0 /\ s10 = 0 /\ s11 = 0 /\ s12 = 0
    \/ part = "ports" /\ Ports!Init /\ s6 = 0 /\ s7 = 0 /\ s8 = 0 /\ s9 = 0 /\ s10 = 0 /\ s11 = 0 /\ s12 = 0
    \/ part = "gate" /\ Gate!Init /\ s6 = 0 /\ s7 = 0 /\ s8 = 0 /\ s9 = 0 /\ s10 = 0 /\ s11 = 0 /\ s12 = 0
    \/ part = "flap" /\ Flap!Init
    \/ part = "others" /\ Others!Init
    \/ part = "query" /\ Query!Init /\ s3 = 0 /\ s4 = 0 /\ s5 = 0 /\ s6 = 0 /\ s7 = 0 /\ s8 = 0 /\ s9 = 0 /\ s10 = 0 /\ s11 = 0 /\ s12 = 0

IngestWorks == part = "ingest" /\ Ingest!Next /\ UNCHANGED <<part, s7, s8, s9, s10, s11, s12>>
CoverWorks == part = "cover" /\ Cover!Next /\ UNCHANGED <<part, s7, s8, s9, s10, s11, s12>>
PathsWorks == part = "paths" /\ Paths!Next /\ UNCHANGED <<part, s6, s7, s8, s9, s10, s11, s12>>
PortsWorks == part = "ports" /\ Ports!Next /\ UNCHANGED <<part, s6, s7, s8, s9, s10, s11, s12>>
GateWorks == part = "gate" /\ Gate!Next /\ UNCHANGED <<part, s6, s7, s8, s9, s10, s11, s12>>
FlapWorks == part = "flap" /\ Flap!Next /\ UNCHANGED <<part>>
OthersWorks == part = "others" /\ Others!Next /\ UNCHANGED <<part>>
QueryWorks == part = "query" /\ Query!Next /\ UNCHANGED <<part, s3, s4, s5, s6, s7, s8, s9, s10, s11, s12>>

Next ==
    \/ IngestWorks \/ CoverWorks \/ PathsWorks \/ PortsWorks
    \/ GateWorks \/ FlapWorks \/ OthersWorks \/ QueryWorks

Spec == Init /\ [][Next]_vars
-----------------------------------------------------------------------------

\* A window reported ready has every row the client sent in it, in whatever
\* order they arrived, and covers every combination of the plan. A path that is
\* lossy or slow in both slices is reported as persistent, one that answered
\* nothing as unreachable and as nothing else; a path suspected of a black hole
\* answers regular probes; and a baseline that the gate accepts, held against a
\* lossless one, shows no anomaly. A BGP session that was lost in the window is
\* reported as lost, with sparse snapshots too, and a device that is silent at
\* the end of the window never passes for a healthy one.
NothingIsMissed ==
    /\ part = "ingest" => Ingest!ReadyIsComplete
    /\ part = "cover" => Cover!ReadyCovers
    /\ part = "paths" => Paths!PersistentIsSeen /\ Paths!DeadPathIsReported
    /\ part = "ports" => Ports!SuspectIsReachable
    /\ part = "gate" => Gate!AcceptedIsHealthy
    /\ part = "query" => Query!DownIsReported /\ Query!SilenceIsNotHealth

\* A client that never restarted is never taken for one that did; a path that
\* lost no larger share than in the accepted baseline is not reported as lossy;
\* the observation of a flapping link is refused only for a reason that is
\* there, and one that is offered did flap, down twice within the window; and
\* no failure is excused that the fault does not account for. With full
\* snapshots of a neighbour that is never missing the fast and the slow path of
\* query_bgp_events agree, and no transition is reported that was not made.
NothingIsInvented ==
    /\ part = "ingest" => Ingest!NoFalseAlarm
    /\ part = "paths" => Paths!NoFalseLoss
    /\ part = "flap" => Flap!NoFalseRefusal /\ Flap!FlapIsReal
    /\ part = "others" => Others!OnlyTheOutageIsExcused
    /\ part = "query" => Query!PathsAgree /\ Query!NoInventedTransitionFull
=============================================================================
