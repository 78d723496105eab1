-------------------------- MODULE PingmeshAnalysis --------------------------
(***************************************************************************)
(* From probe rows to the anomaly report of a scenario                     *)
(* (platform/pingmesh/_detector_analysis.py, detector.py,                  *)
(* _detector_coverage.py and platform/scenario/observation.py).            *)
(*                                                                         *)
(* A window of rows is captured while the network is healthy and becomes   *)
(* the baseline if baseline_gate_errors finds no fault in it.  The rows of *)
(* the fault window are then compared with it three times: all of them,    *)
(* the early ones and the steady ones, with a stabilization gap between    *)
(* the two.  Only what the whole window shows is reported; the slices say  *)
(* how long it lasted.                                                     *)
(*                                                                         *)
(* A row is the task it probed (a directed path and the ECMP port batch it *)
(* used) and the kind of outcome it had; Outcome gives the fields of each  *)
(* kind.  Time is the position of a row in the sequence `rows'.  Loss      *)
(* percentages are compared as cross products, where the code divides.     *)
(***************************************************************************)
EXTENDS Integers, Sequences, FiniteSets, FiniteSetsExt, SequencesExt

CONSTANTS
    Tasks,         \* tasks of the probe plan, pairs of a path and a port batch
    Kinds,         \* kinds of outcome a row can have, a subset of DOMAIN Outcome
    MaxBaseline,   \* bound: rows of the baseline window
    MaxRows        \* bound: rows of both windows

VARIABLES
    rows,      \* the rows in the order of their timestamps
    phase,     \* "baseline", "fault", "reported" or "rejected"
    mark,      \* rows 1..mark are the accepted baseline
    cut,       \* where the early slice ends and the steady one starts
    report     \* the report of the fault window

vars == <<rows, phase, mark, cut, report>>

\* The fields of a row of ten regular and eight DF probes.  A probe the client
\* itself refuses is an error of its own and counts as neither sent nor lost.
Fields(lost, rtt, df, local) ==
    [sent |-> 10, lost |-> lost, rtt |-> rtt, dfSent |-> 8 - local, dfLost |-> df, mtuDrops |-> local,
     errors |-> local]

\* OK; one or three probes lost; all lost; slow; DF probes lost in the network;
\* DF probes refused by the client itself, alone or beside real loss.
Outcome ==
    [OK    |-> Fields(0, 10, 0, 0),
     L1    |-> Fields(1, 10, 0, 0),
     L3    |-> Fields(3, 10, 0, 0),
     DEAD  |-> Fields(10, 0, 8, 0),
     SLOW  |-> Fields(0, 35, 0, 0),
     DF    |-> Fields(0, 10, 8, 0),
     DFERR |-> Fields(0, 10, 0, 8),
     BOTH  |-> Fields(3, 10, 0, 8)]

PathOf(t) == t[1]
Paths == {PathOf(t) : t \in Tasks}
\* AnomalyDetector's loss_pct_threshold and loss_pct_delta, and the constants of the analysis
LossPct == 5
LossDelta == 5
MinLost == 3
MinDf == 16
MinDfDelta == 15
MinLatencyDelta == 20

At(i, f) == Outcome[rows[i].kind][f]
Total(S, f) == MapThenSumSet(LAMBDA i : At(i, f), S)
OnPath(S, p) == {i \in S : PathOf(rows[i].task) = p}
OnTask(S, t) == {i \in S : rows[i].task = t}

(***************************************************************************)
(* The three detectors: S are the rows of the window, B the baseline.      *)
(***************************************************************************)

\* lost / sent >= LossPct, and at least LossDelta points above lostB / sentB
Exceeds(sent, lost, sentB, lostB) ==
    /\ 100 * lost >= LossPct * sent
    /\ 100 * lost * sentB >= 100 * lostB * sent + LossDelta * sent * sentB

LossVerdict_Absolute(sent, lost, sentB, lostB) ==
    IF lost >= sent THEN {"path_unreachable"}
    ELSE IF 100 * lost >= LossPct * sent /\ lost >= MinLost THEN {"packet_loss"}
    ELSE {}

LossVerdict(sent, lost, sentB, lostB) ==
    IF lost >= sent THEN {"path_unreachable"}
    ELSE IF Exceeds(sent, lost, sentB, lostB) /\ lost >= MinLost THEN {"packet_loss"}
    ELSE {}

LossOn(B, S, p) ==
    IF OnPath(S, p) = {} \/ OnPath(B, p) = {} THEN {}
    ELSE LossVerdict(Total(OnPath(S, p), "sent"), Total(OnPath(S, p), "lost"),
                     Total(OnPath(B, p), "sent"), Total(OnPath(B, p), "lost"))

Median2(S) ==   \* twice the median of the answered round trip times
    LET answered == {i \in S : At(i, "rtt") > 0}
        n == Cardinality(answered)
        inOrder == SelectSeq([i \in DOMAIN rows |-> i], LAMBDA i : i \in answered)
        sorted == SortSeq(inOrder, LAMBDA i, j : At(i, "rtt") < At(j, "rtt"))
    IN  IF n = 0 THEN 0
        ELSE IF n % 2 = 1 THEN 2 * At(sorted[(n + 1) \div 2], "rtt")
        ELSE At(sorted[n \div 2], "rtt") + At(sorted[n \div 2 + 1], "rtt")

LatencyOn(B, S, p) ==
    LET before == Median2(OnPath(B, p))
        now == Median2(OnPath(S, p))
    IN  IF before > 0 /\ now >= before + 2 * MinLatencyDelta THEN {"latency_spike"} ELSE {}

Blackholes_AnyLoss(S) ==
    /\ Total(S, "dfSent") >= MinDf
    /\ Total(S, "dfLost") >= Total(S, "dfSent")
    /\ Total(S, "mtuDrops") = 0

\* A batch whose DF probes all fail while its regular probes all return.
Blackholes(S) ==
    /\ Total(S, "lost") = 0
    /\ Total(S, "dfSent") >= MinDf
    /\ Total(S, "dfLost") >= Total(S, "dfSent")
    /\ Total(S, "mtuDrops") = 0

DfRises(B, S) ==
    100 * Total(S, "dfLost") * Total(B, "dfSent") - 100 * Total(B, "dfLost") * Total(S, "dfSent")
        >= MinDfDelta * Total(S, "dfSent") * Total(B, "dfSent")

DfOn(B, S, p) ==
    IF \E t \in Tasks : /\ PathOf(t) = p
                        /\ Total(OnTask(B, t), "dfSent") > 0
                        /\ Blackholes(OnTask(S, t))
                        /\ DfRises(OnTask(B, t), OnTask(S, t))
    THEN {"mtu_or_fragmentation_suspect"} ELSE {}

\* The anomalies of analyze_snapshot_rows, as pairs of a type and a path.
Anomalies(B, S) ==
    UNION {(LossOn(B, S, p) \cup LatencyOn(B, S, p) \cup DfOn(B, S, p)) \X {p} : p \in Paths}

\* A local DF error that the loss of its own socket batch accounts for.
Explained(S, i) ==
    /\ At(i, "errors") > 0 /\ At(i, "errors") = At(i, "mtuDrops")
    /\ Total(OnTask(S, rows[i].task), "lost") >= 3

\* The health of a window by itself, without a baseline.
Quality(S) ==
    [unreachable |-> Cardinality({p \in Paths : /\ OnPath(S, p) # {}
                                                /\ Total(OnPath(S, p), "lost") >= Total(OnPath(S, p), "sent")}),
     lossy |-> Cardinality({p \in Paths : "packet_loss" \in
                   IF OnPath(S, p) = {} THEN {}
                   ELSE LossVerdict(Total(OnPath(S, p), "sent"), Total(OnPath(S, p), "lost"), 1, 0)}),
     blackholes |-> Cardinality({PathOf(t) : t \in {u \in Tasks : OnTask(S, u) # {} /\ Blackholes(OnTask(S, u))}}),
     localErrors |-> Total({i \in S : ~Explained(S, i)}, "errors")]

(***************************************************************************)
(* Coverage, the merge of the slices and the gate.                         *)
(***************************************************************************)

ValidRow(i) == At(i, "errors") = 0

\* summarize_coverage: every task has a valid row and no row is invalid.
Complete(S) == (\A i \in S : ValidRow(i)) /\ (\A t \in Tasks : OnTask(S, t) # {})

Family_Type(ty) == ty
Family(ty) == IF ty \in {"packet_loss", "path_unreachable"} THEN "loss" ELSE ty

\* The slices an anomaly of the whole window was also seen in, by its family.
SeenIn(a, slices) ==
    {n \in DOMAIN slices : \E x \in slices[n] : Family(x[1]) = Family(a[1]) /\ x[2] = a[2]}

Persistence(names) ==
    CASE {"early", "steady"} \subseteq names -> "persistent"
      [] "early" \in names /\ "steady" \notin names -> "early_only"
      [] "steady" \in names /\ "early" \notin names -> "steady_only"
      [] OTHER -> "full_window"

Merge(full, slices) ==
    {LET names == SeenIn(a, slices) IN
     [type |-> a[1], path |-> a[2], windows |-> names \cup {"full"},
      persistence |-> Persistence(names)] : a \in full}

NoReport == [ok |-> FALSE, coverage |-> "error", anomalies |-> {}]

\* generate_windowed_anomaly_report, for a query that succeeded.
Report(B, S, slices) ==
    [ok |-> TRUE,
     coverage |-> IF Complete(S) THEN "complete" ELSE "incomplete",
     anomalies |-> Merge(Anomalies(B, S), [n \in DOMAIN slices |-> Anomalies(B, slices[n])])]

IntegrityErrors(B, S) ==
    \/ ~Complete(S) \/ ~Complete(B)
    \/ S = {}
    \/ Quality(S).localErrors > 0

GateErrors_Relative(S) ==
    \/ IntegrityErrors(S, S)
    \/ \E a \in Report(S, S, <<>>).anomalies : a.type # "path_unreachable"
    \/ Quality(S).unreachable > 0

GateErrors(S) ==
    LET quality == Quality(S) IN
    \/ IntegrityErrors(S, S)
    \/ quality.unreachable > 0
    \/ quality.blackholes > 0
    \/ \E a \in Report(S, S, <<>>).anomalies : a.type = "latency_spike"
    \/ 1000 * quality.lossy > Cardinality({p \in Paths : OnPath(S, p) # {}})

Init ==
    /\ rows = <<>> /\ phase = "baseline" /\ mark = 0 /\ cut = <<0, 0>> /\ report = NoReport

\* The next row of the probing clients reaches the database.
Observe(t, k) ==
    /\ phase \in {"baseline", "fault"}
    /\ Len(rows) < IF phase = "baseline" THEN MaxBaseline ELSE MaxRows
    /\ rows' = Append(rows, [task |-> t, kind |-> k])
    /\ UNCHANGED <<phase, mark, cut, report>>

\* capture_baseline_window and the gate on the window compared with itself.
CaptureBaseline ==
    /\ phase = "baseline" /\ rows # <<>>
    /\ LET refused == GateErrors(DOMAIN rows) IN
       /\ phase' = IF refused THEN "rejected" ELSE "fault"
       /\ mark' = IF refused THEN 0 ELSE Len(rows)
    /\ UNCHANGED <<rows, cut, report>>

Current == {i \in DOMAIN rows : i > mark}
Baseline == 1 .. mark
Early(c) == {i \in Current : i <= c[1]}
Steady(c) == {i \in Current : i > c[2]}
Slices_Overlap(c) == [early |-> Early(c), steady |-> {i \in Current : i >= c[1]}]

\* A slice is analysed again unless it holds all the rows; with no early
\* seconds there is no early slice.
Slices(c) == [early |-> Early(c), steady |-> Steady(c)]

\* analyze_observation_windows; the query of either window may fail.
Analyze(ok, c) ==
    /\ phase = "fault"
    /\ phase' = "reported"
    /\ cut' = c
    /\ report' = IF ok THEN Report(Baseline, Current, Slices(c)) ELSE NoReport
    /\ UNCHANGED <<rows, mark>>

\* The run of one scenario is over.
Finished == phase \in {"reported", "rejected"} /\ UNCHANGED vars

Next ==
    \/ \E t \in Tasks, k \in Kinds : Observe(t, k)
    \/ CaptureBaseline
    \/ \E ok \in BOOLEAN, c \in (mark .. Len(rows)) \X (mark .. Len(rows)) : c[1] <= c[2] /\ Analyze(ok, c)
    \/ Finished

Spec == Init /\ [][Next]_vars
-----------------------------------------------------------------------------

Analysed == phase = "reported" /\ report.ok
Reported(ty) == {a.path : a \in {x \in report.anomalies : x.type = ty}}

(***************************************************************************)
(* What the slices agree on is not lost in the whole: when the steady      *)
(* slice starts where the early one ends, a path that loses packets in     *)
(* both, or is slow in both, is reported and reported as persistent.       *)
(* _merge_window_anomalies drops what only the slices show.                *)
(***************************************************************************)
PersistentIsSeen ==
    (Analysed /\ cut[1] = cut[2]) =>
        LET slices == {Anomalies(Baseline, S) : S \in {Early(cut), Steady(cut)}} IN
        \A p \in Paths, kin \in {{"packet_loss", "path_unreachable"}, {"latency_spike"}} :
            (\A slice \in slices : \E a \in slice : a[2] = p /\ a[1] \in kin)
            => \E a \in report.anomalies : a.path = p /\ a.type \in kin /\ a.persistence = "persistent"

(***************************************************************************)
(* A path that answered nothing in the whole window is reported as         *)
(* unreachable, in every slice that probed it, whatever baseline the gate  *)
(* let through; and it is not reported as anything else.                   *)
(***************************************************************************)
DeadPathIsReported ==
    Analysed => \A p \in Paths :
        LET own == OnPath(Current, p)
        IN  (own # {} /\ \A i \in own : rows[i].kind = "DEAD") =>
                {<<a.type, a.windows>> : a \in {x \in report.anomalies : x.path = p}}
                    = {<<"path_unreachable",
                         {"full"} \cup {n \in {"early", "steady"} :
                             own \cap (IF n = "early" THEN Early(cut) ELSE Steady(cut)) # {}}>>}

(***************************************************************************)
(* No false loss: a path that lost no larger share of its probes than in   *)
(* the accepted baseline is not reported as lossy or unreachable.          *)
(***************************************************************************)
NoFalseLoss ==
    Analysed => \A p \in Reported("packet_loss") \cup Reported("path_unreachable") :
        LET now == OnPath(Current, p)
            before == OnPath(Baseline, p)
        IN  Total(now, "lost") * Total(before, "sent") > Total(before, "lost") * Total(now, "sent")

(***************************************************************************)
(* The fragmentation verdict rests on regular probes that returned: a path *)
(* with it is never also unreachable, and for it to be both lossy and a    *)
(* suspect it must have two port batches, a lossy one and a lossless one.  *)
(***************************************************************************)
SuspectIsReachable ==
    Analysed =>
        /\ Reported("mtu_or_fragmentation_suspect") \cap Reported("path_unreachable") = {}
        /\ \A p \in Reported("mtu_or_fragmentation_suspect") \cap Reported("packet_loss") :
              \E t, u \in Tasks : /\ {PathOf(t), PathOf(u)} = {p}
                                  /\ Total(OnTask(Current, t), "lost") > 0
                                  /\ OnTask(Current, u) # {} /\ Total(OnTask(Current, u), "lost") = 0

(***************************************************************************)
(* An accepted baseline is healthy in itself.  The gate compares a window  *)
(* with itself, where a relative rule can see nothing; yet an accepted     *)
(* window, held against a lossless one, shows no loss, no dead path and no *)
(* black hole, and every task of the plan is in it.                        *)
(***************************************************************************)
AcceptedIsHealthy ==
    phase = "fault" =>
        /\ \A t \in Tasks : OnTask(Baseline, t) # {}
        /\ \A p \in Paths :
              LossVerdict(Total(OnPath(Baseline, p), "sent"), Total(OnPath(Baseline, p), "lost"), 10, 0) = {}
        /\ \A t \in Tasks :
              Total(OnTask(Baseline, t), "dfLost") < Total(OnTask(Baseline, t), "dfSent")
              \/ Total(OnTask(Baseline, t), "dfSent") < MinDf
              \/ Total(OnTask(Baseline, t), "lost") > 0
=============================================================================
