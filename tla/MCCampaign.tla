----------------------------- MODULE MCCampaign -----------------------------
(****************************************************************************)
(* A runtime and the campaigns that run on it, for TLC: the lifecycle of a   *)
(* runtime, with processes that live until they are told to stop and with    *)
(* processes that may die between any two steps; the dispatch of sessions    *)
(* over the workers of a runtime, the acceptance campaign and its journal,   *)
(* and the scoring of what an agent answered.                                *)
(****************************************************************************)
EXTENDS Naturals, TLC

CONSTANTS
    LabWorkers, Identities, NoBackend, Foreign, NoRuntime, NoList,   \* RuntimeLifecycle
    NWorkers, NScenarios, NSessions,                                \* SessionDispatch
    RaiseScenarios, RaiseSessions,      \* the same, where results raise
    NScales, NBackends, NCases, NProcesses,                         \* Acceptance
    ScoredEpisodes, ScoredDiagnoses, JudgeAnswers,                  \* Scoring, case by case
    ScoredLinks, SupportedTypes, MaxScored

VARIABLES
    part,   \* the component that a behaviour is about
    \* its variables, in the order of its own declaration
    s1, s2, s3, s4, s5, s6, s7, s8, s9, s10, s11, s12, s13

vars == <<part, s1, s2, s3, s4, s5, s6, s7, s8, s9, s10, s11, s12, s13>>

\* Scoring names these values so.
NoName == <<0, "plain">>
NoDiagnosis == [verdict |-> "missing", label |-> "", device |-> NoName, interface |-> NoName]
Error == [agent |-> "error", truth |-> "error", match |-> FALSE]

\* Two links between devices whose ends share port numbers, so that the
\* interface of one end may be mistaken for that of the other.
Ends == {<<<<1, 1>>, <<2, 1>>>>, <<<<1, 2>>, <<3, 1>>>>, <<<<2, 2>>, <<3, 2>>>>}

Ep(fault, d, i) == [fault |-> fault, device |-> d, interface |-> i]
Diag(v, l, d, i) == [verdict |-> v, label |-> l, device |-> d, interface |-> i]
Dev(n) == <<n, "plain">>

Types == {"link_down", "packet_loss", "bgp_process_down"}

\* Cases one by one: every spelling, label and answer of a judge.
CaseEpisodes ==
    {Ep("none", NoName, NoName), Ep("bgp_process_down", Dev(1), NoName)}
    \cup {Ep(f, Dev(d), <<p, "sonic">>) : f \in {"link_down", "packet_loss"}, d \in 1 .. 2, p \in 1 .. 2}

CaseDiagnoses ==
    {Diag(v, l, d, i) :
        v \in {"fault_detected", "network_healthy", "inconclusive"},
        l \in {"", "link_failure", "packet_loss", "prose"},
        d \in {NoName, Dev(1), <<2, "dashed">>, Dev(3)},
        i \in {NoName, <<1, "linux">>, <<2, "vendor">>, <<1, "odd">>}}
    \cup {NoDiagnosis}

CaseAnswers ==
    {Error} \cup {[agent |-> a, truth |-> t, match |-> m] :
        a \in {"link_down", "packet_loss", "unknown", "outside"}, t \in {"link_down", "outside"}, m \in BOOLEAN}

\* Sessions of up to four cases.
SessionEpisodes == {Ep("none", NoName, NoName), Ep("link_down", Dev(1), <<1, "sonic">>), Ep("bgp_process_down", Dev(1), NoName)}
SessionDiagnoses ==
    {NoDiagnosis, Diag("network_healthy", "", NoName, NoName), Diag("network_healthy", "link_failure", Dev(1), <<1, "linux">>),
     Diag("fault_detected", "link_down", <<2, "dashed">>, <<1, "linux">>),
     Diag("fault_detected", "prose", Dev(1), <<2, "linux">>)}

\* The workers and the backends of a runtime are interchangeable.
Symmetry == Permutations(LabWorkers) \cup Permutations(Identities)

Plain == INSTANCE RuntimeLifecycle WITH
    Workers <- LabWorkers, Backends <- Identities, Crashes <- FALSE,
    LostReplies <- FALSE, ResumeQuarantined <- FALSE, ForeignLabs <- FALSE,
    pc <- s1, job <- s2, stage <- s3, todo <- s4, at <- s5, failed <- s6,
    mem <- s7, identity <- s8, dir <- s9, disk <- s10, labs <- s11, buckets <- s12,
    owned <- s13
Crash == INSTANCE RuntimeLifecycle WITH
    Workers <- LabWorkers, Backends <- Identities, Crashes <- TRUE,
    LostReplies <- TRUE, ResumeQuarantined <- FALSE, ForeignLabs <- FALSE,
    pc <- s1, job <- s2, stage <- s3, todo <- s4, at <- s5, failed <- s6,
    mem <- s7, identity <- s8, dir <- s9, disk <- s10, labs <- s11, buckets <- s12,
    owned <- s13
S == INSTANCE SessionDispatch WITH
    MayRaise <- FALSE, rt <- s1, lab <- s2, sn <- s3, wk <- s4, run <- s5, cancel <- s6
SR == INSTANCE SessionDispatch WITH
    NScenarios <- RaiseScenarios, NSessions <- RaiseSessions, MayRaise <- TRUE, rt <- s1,
    lab <- s2, sn <- s3, wk <- s4, run <- s5, cancel <- s6
A == INSTANCE Acceptance WITH
    disk <- s1, result <- s2, lab <- s3, dirty <- s4, p <- s5, started <- s6
G == INSTANCE Scoring WITH
    Episodes <- ScoredEpisodes, Diagnoses <- ScoredDiagnoses, Answers <- JudgeAnswers,
    Links <- ScoredLinks, FaultTypes <- SupportedTypes, MaxCases <- MaxScored, judge <- s1, cases <- s2,
    results <- s3, sdk <- s4, report <- s5
GR == INSTANCE Scoring WITH
    Episodes <- SessionEpisodes, Diagnoses <- SessionDiagnoses, Answers <- {Error},
    Links <- Ends, FaultTypes <- Types, MaxCases <- 3, judge <- s1, cases <- s2,
    results <- s3, sdk <- s4, report <- s5

ASSUME CampaignAssumption ==
    \* The names for the absence of something are no values of their own.
    /\ NoBackend \notin Identities /\ Foreign \notin Identities
    /\ NoRuntime \notin Plain!Runtimes /\ \A ws \in SUBSET LabWorkers : NoList # ws
    \* assign_scenarios_to_workers raises without a worker.
    /\ NWorkers \in Nat \ {0} /\ NScenarios \in Nat /\ RaiseScenarios \in Nat
    /\ NSessions \in Nat /\ RaiseSessions \in Nat
    \* "link_failure" is another name of a fault, and no fault is injected under it.
    /\ \A e \in ScoredEpisodes : e.fault # "link_failure"
    /\ NScales \in Nat \ {0} /\ NBackends \in Nat \ {0} /\ NCases \in Nat /\ NProcesses \in Nat

Init ==
    \/ part = "plain" /\ Plain!Init
    \/ part = "crash" /\ Crash!Init
    \/ part = "session" /\ S!Init /\ s7 = 0 /\ s8 = 0 /\ s9 = 0 /\ s10 = 0 /\ s11 = 0 /\ s12 = 0 /\ s13 = 0
    \/ part = "raise" /\ SR!Init /\ s7 = 0 /\ s8 = 0 /\ s9 = 0 /\ s10 = 0 /\ s11 = 0 /\ s12 = 0 /\ s13 = 0
    \/ part = "acceptance" /\ A!Init /\ s7 = 0 /\ s8 = 0 /\ s9 = 0 /\ s10 = 0 /\ s11 = 0 /\ s12 = 0 /\ s13 = 0
    \/ part = "score" /\ G!Init /\ s6 = 0 /\ s7 = 0 /\ s8 = 0 /\ s9 = 0 /\ s10 = 0 /\ s11 = 0 /\ s12 = 0 /\ s13 = 0
    \/ part = "report" /\ GR!Init /\ s6 = 0 /\ s7 = 0 /\ s8 = 0 /\ s9 = 0 /\ s10 = 0 /\ s11 = 0 /\ s12 = 0 /\ s13 = 0

PlainWorks == part = "plain" /\ Plain!Next /\ UNCHANGED <<part>>
CrashWorks == part = "crash" /\ Crash!Next /\ UNCHANGED <<part>>
SessionWorks == part = "session" /\ S!Next /\ UNCHANGED <<part, s7, s8, s9, s10, s11, s12, s13>>
RaiseWorks == part = "raise" /\ SR!Next /\ UNCHANGED <<part, s7, s8, s9, s10, s11, s12, s13>>
AcceptanceWorks == part = "acceptance" /\ A!Next /\ UNCHANGED <<part, s7, s8, s9, s10, s11, s12, s13>>
ScoreWorks == part = "score" /\ G!Next /\ UNCHANGED <<part, s6, s7, s8, s9, s10, s11, s12, s13>>
ReportWorks == part = "report" /\ GR!Next /\ UNCHANGED <<part, s6, s7, s8, s9, s10, s11, s12, s13>>

Next ==
    \/ PlainWorks \/ CrashWorks \/ SessionWorks \/ RaiseWorks
    \/ AcceptanceWorks \/ ScoreWorks \/ ReportWorks

Spec == Init /\ [][Next]_vars
-----------------------------------------------------------------------------

\* Every variable holds a value the code can put there.
TypeOK ==
    /\ part = "plain" => Plain!TypeOK
    /\ part = "crash" => Crash!TypeOK
    /\ part = "session" => S!TypeOK
    /\ part = "acceptance" => A!TypeOK

\* A teardown that reports success has removed every lab and every bucket the
\* runtime made, whatever failures, retries and restarts came before, and a
\* warm runtime reads no bucket that an earlier runtime of its name filled
\* (RuntimePool.teardown). After a resource emergency an acceptance process
\* does not end with a lab in place that it attached or deployed, wherever
\* between its checkpoints the emergency came, unless the teardown itself
\* failed (release_runtime). A retained lab that it had not attached yet stays.
TeardownIsComplete ==
    /\ part = "plain" => Plain!TeardownIsExact /\ Plain!FreshTelemetry
    /\ part = "acceptance" => A!EmergencyFrees

\* What exists on the host can be found by a later process. Between calls a
\* lab, and a bucket of the ownership manifest, belongs to a runtime whose
\* teardown() will remove it; a retry after a failed cleanup misses no bucket
\* that the manifest still holds; no stage works on a lab that another backend
\* deployed, across restarts that change the backend; and a lab of a campaign
\* is named in acceptance.json whenever a process dies. Labs are left out where
\* a process may die inside deploy: ReservedHasNoLab has a run of its own.
NothingOffTheRecord ==
    /\ part = "plain" => Plain!LabsOnRecord /\ Plain!RetryCoversOwned
    /\ part = "crash" =>
           /\ Crash!OwnedOnRecord
           /\ Crash!RetryCoversOwned
           /\ Crash!OneBackend
    /\ part = "acceptance" => A!LabIsOnRecord

\* No case starts on a worker whose lab still holds the fault of an earlier
\* case, of this session or of one before, and a worker that has reported a
\* failed cleanup stays among the quarantined ones of the runtime, whatever the
\* other workers report meanwhile and even when one of them raises
\* (mark_quarantined, execute_on_runtime_pool). The first part is about
\* sessions in which saving and scoring raise nothing.
CleanLabPerCase ==
    /\ part = "session" => S!NoCaseOnDirtyLab
    /\ part = "raise" => SR!FailedCleanupIsQuarantined

\* The report of a session that was not cancelled has one summary for each of
\* its scenarios, also when workers stopped early, and says "completed" only of
\* a session that raised nothing, skipped nothing and tore its runtime down
\* (_run_worker). A campaign that dies and is resumed never completes a case
\* twice, and has a scale on record as passed only with every case of every
\* backend, and the plan they were measured with, on record (run_cases,
\* completed_case_ids).
EveryCaseIsAccountedFor ==
    /\ part = "session" => S!ReportCoversTheSession
    /\ part = "raise" => SR!RunIsAccountedFor
    /\ part = "acceptance" => A!RecordedOnce /\ A!PassedIsComplete

\* A case counted correct names one accepted place, not the device of one end
\* of a link with the interface of the other, and no accepted location would
\* score it higher than the one the loop settles for; whatever a judge answers,
\* a fault type is correct only if the label or its reading is the injected
\* type (_match_location, judge_fault_type_match).
ScoreIsEarned ==
    part = "score" =>
        /\ G!CorrectIsOnePlace
        /\ G!ScoredByBestLocation
        /\ G!JudgeCannotInvent

\* In a report, overall accuracy never exceeds the figures it is made of, F1
\* lies between precision and recall although computed from rounded figures,
\* and the breakdown by type covers exactly the fault cases.
ReportAddsUp == part = "report" => GR!OverallIsTheLeast /\ GR!FiguresAddUp

\* A bucket that was there before is neither adopted nor deleted, however often
\* stages, compensation and teardown are retried after deaths and lost replies
\* of InfluxDB; and outside an emergency or an explicit rebuild a lab is torn
\* down only when the file already says that all cases of its scale are
\* complete (release_runtime).
OthersAreSpared ==
    [][/\ part = "plain" => Plain!UserBucketsKeptStep
       /\ part = "crash" => Crash!UserBucketsKeptStep
       /\ part = "acceptance" => A!OnlyFinishedReleasedStep]_vars
=============================================================================
