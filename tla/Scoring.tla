------------------------------- MODULE Scoring -------------------------------
(***************************************************************************)
(* From a diagnosis to a report: the ground truth of an episode            *)
(* (platform/incident/scoring.py, sdk/evaluators.py), the score of a case  *)
(* (evaluator/scorer.py), the judge of fault types                         *)
(* (evaluator/fault_type_judge.py) and the summary of a session            *)
(* (Evaluator.generate_report).                                            *)
(*                                                                         *)
(* Every case is scored twice, as the session does and as the public       *)
(* evaluator of the SDK does.  A name is a pair of what it names and a     *)
(* spelling; a score is 0, 500 or 1000 thousandths.                        *)
(***************************************************************************)
EXTENDS Integers, Sequences, SequencesExt, FiniteSetsExt

CONSTANTS
    Episodes,     \* [fault, device, interface] as the scenario declares them
    Diagnoses,    \* [verdict, label, device, interface], or NoDiagnosis
    Answers,      \* what a judge may answer: [agent, truth, match], or Error
    Links,        \* pairs of ends, an end being a device and a port
    FaultTypes,   \* supported_fault_types()
    MaxCases

VARIABLES
    judge,     \* whether a fault type judge is configured
    cases,     \* [episode, diagnosis, answer] in the order they were scored
    results,   \* their EvaluationResults in the session
    sdk,       \* their EvaluationResults in the SDK
    report     \* generate_report of the session's results, once it is made: a set

vars == <<judge, cases, results, sdk, report>>

NoName == <<0, "plain">>
NoDiagnosis == [verdict |-> "missing", label |-> "", device |-> NoName, interface |-> NoName]
Error == [agent |-> "error", truth |-> "error", match |-> FALSE]   \* the judge raised

(***************************************************************************)
(* Names                                                                   *)
(***************************************************************************)
\* _normalize_name: case, blanks, dashes and underscores do not count.
Device(name) == name[1]

\* normalize_interface_name: the SONiC, Linux and vendor spellings of a port
\* are one; a SONiC name that is no multiple of four stays as it is.
Interface(name) == <<name[1], IF name[2] = "odd" THEN "odd" ELSE "eth">>

\* canonicalize_fault_type
Canonical(label) == IF label = "link_failure" THEN "link_down" ELSE label

(***************************************************************************)
(* Ground truth                                                            *)
(***************************************************************************)
\* _find_link_peer_locations
PeerLocations(device, interface) ==
    IF device = NoName \/ interface = NoName THEN <<>>
    ELSE LET ends == {x \in Links \X (1 .. 2) :
                          x[1][x[2]][1] = Device(device) /\ <<x[1][x[2]][2], "eth">> = Interface(interface)}
         IN  IF ends = {} THEN <<>>
             ELSE LET x == CHOOSE y \in ends : TRUE
                      peer == x[1][3 - x[2]]
                  IN  <<[device |-> <<peer[1], "plain">>, interface |-> <<peer[2], "sonic">>]>>

Symmetric == {"link_down", "link_flapping"}

Location(e) == [device |-> e.device, interface |-> e.interface]

\* build_episode_ground_truth; {} is a healthy episode
SessionTruth(e) ==
    IF e.fault = "none" THEN {}
    ELSE {[fault |-> e.fault,
           locations |-> <<Location(e)>> \o
               (IF e.fault \in Symmetric THEN PeerLocations(e.device, e.interface) ELSE <<>>)]}

\* _build_ground_truth
SdkTruth(e) == {[fault |-> e.fault, locations |-> <<Location(e)>>]}

(***************************************************************************)
(* The case                                                                *)
(***************************************************************************)
\* diagnosis_to_agent_output
Output(d) ==
    IF d = NoDiagnosis THEN [verdict |-> "inconclusive", label |-> "", device |-> NoName, interface |-> NoName]
    ELSE d

Applicable(truth) == truth.locations[1].interface # NoName

Rank(out, location, applicable, first) ==
    [device |-> Device(out.device) = Device(location.device),
     interface |-> applicable => Interface(out.interface) = Interface(location.interface),
     first |-> first]

\* _is_better_location_rank
Better_DeviceOnly(r, best) == r.device /\ ~best.device

Better(r, best) ==
    \/ r.device /\ ~best.device
    \/ r.device = best.device /\ r.interface /\ ~best.interface
    \/ r.device = best.device /\ r.interface = best.interface /\ r.first /\ ~best.first

\* _match_location: the loop over the accepted locations keeps the best
MatchLocation_Apart(out, truth) ==
    LET ranks == {Rank(out, truth.locations[i], Applicable(truth), i = 1) : i \in DOMAIN truth.locations}
    IN  [device |-> \E r \in ranks : r.device, interface |-> \E r \in ranks : r.interface, first |-> TRUE]

MatchLocation(out, truth) ==
    LET rank(i) == Rank(out, truth.locations[i], Applicable(truth), i = 1)
    IN  FoldLeftDomain(LAMBDA best, i : IF i > 1 /\ Better(rank(i), best) THEN rank(i) ELSE best,
                       rank(1), truth.locations)

\* FaultTypeJudgeResult: an answer outside the taxonomy is no match
InTaxonomy(answer) == {answer.agent, answer.truth} \subseteq FaultTypes \cup {"unknown"}

\* judge_fault_type_match
FaultTypeMatches_Trusting(label, fault, answer) ==
    \/ label # "" /\ Canonical(label) = Canonical(fault)
    \/ judge /\ answer # Error /\ answer.match /\ InTaxonomy(answer)

FaultTypeMatches(label, fault, answer) ==
    \/ label # "" /\ Canonical(label) = Canonical(fault)
    \/ /\ judge /\ answer # Error
       /\ answer.match /\ InTaxonomy(answer)
       /\ answer.truth = Canonical(fault)
       /\ answer.agent = Canonical(fault)

\* Evaluator.evaluate
Evaluate(out, truths, answer) ==
    IF truths = {}
    THEN [negative |-> TRUE, verdict |-> out.verdict = "network_healthy",
          device |-> TRUE, interface |-> TRUE, type |-> TRUE, applicable |-> FALSE, fault |-> "none",
          said |-> out.verdict, score |-> IF out.verdict = "network_healthy" THEN 1000 ELSE 0]
    ELSE LET truth == CHOOSE t \in truths : TRUE
             at == MatchLocation(out, truth)
             verdict == out.verdict = "fault_detected"
         IN  [negative |-> FALSE, verdict |-> verdict, device |-> at.device, interface |-> at.interface,
              type |-> FaultTypeMatches(out.label, truth.fault, answer),
              applicable |-> Applicable(truth), fault |-> truth.fault, said |-> out.verdict,
              score |-> CASE ~verdict -> 0
                          [] Applicable(truth) -> (IF at.device THEN 500 ELSE 0) + (IF at.interface THEN 500 ELSE 0)
                          [] OTHER -> IF at.device THEN 1000 ELSE 0]

(***************************************************************************)
(* The report, in thousandths                                              *)
(***************************************************************************)
\* round(n / d, 3), halves to even
Rate(n, d) ==
    LET q == (1000 * n) \div d
        r == 2 * ((1000 * n) % d)
    IN  IF d = 0 THEN 0 ELSE IF r > d \/ (r = d /\ q % 2 = 1) THEN q + 1 ELSE q

Count(rs, P(_)) == Len(SelectSeq(rs, P))

\* _is_fully_correct_case
FullyCorrect_AnyVerdict(r) ==
    IF r.negative THEN r.verdict ELSE r.device /\ r.type /\ (r.applicable => r.interface)

FullyCorrect(r) ==
    IF r.negative THEN r.verdict
    ELSE r.verdict /\ r.device /\ r.type /\ (r.applicable => r.interface)

\* breakdown_by_fault_type
ByFaultType(positive) ==
    [f \in {positive[i].fault : i \in DOMAIN positive} |->
        LET of == SelectSeq(positive, LAMBDA r : r.fault = f)
        IN  [total |-> Len(of), correct |-> Count(of, LAMBDA r : r.type)]]

\* detection precision, recall and their F1; the F1 is taken of the rounded ones
Detection_Swapped(tp, fp, fn) ==
    LET p == IF tp + fp = 0 THEN 0 ELSE Rate(tp, tp + fp)
        r == IF tp + fn = 0 THEN 0 ELSE Rate(tp, tp + fn)
    IN  [precision |-> p, recall |-> r, f1 |-> IF p + r = 0 THEN 0 ELSE Rate(2 * p * r, p + r)]

Detection(tp, fp, fn) ==
    LET p == IF tp + fp = 0 THEN 0 ELSE Rate(tp, tp + fp)
        r == IF tp + fn = 0 THEN 0 ELSE Rate(tp, tp + fn)
    IN  [precision |-> p, recall |-> r,
         f1 |-> IF p + r = 0 THEN 0 ELSE Rate(2 * p * r, 1000 * (p + r))]

\* generate_report
GenerateReport(rs) ==
    LET total == Len(rs)
        negative == SelectSeq(rs, LAMBDA r : r.negative)
        positive == SelectSeq(rs, LAMBDA r : ~r.negative)
        applicable == SelectSeq(positive, LAMBDA r : r.applicable)
        tp == Count(positive, LAMBDA r : r.verdict)
        fp == Count(negative, LAMBDA r : ~r.verdict)
        share(n, of) == IF of = <<>> THEN 0 ELSE Rate(n, Len(of))
    IN  [total |-> total, positive |-> Len(positive), negative |-> Len(negative),
         overall |-> Rate(Count(rs, FullyCorrect), total),
         detection |-> Rate(Count(rs, LAMBDA r : r.verdict), total),
         device |-> share(Count(positive, LAMBDA r : r.verdict /\ r.device), positive),
         interface |-> share(Count(applicable, LAMBDA r : r.verdict /\ r.interface), applicable),
         types |-> share(Count(positive, LAMBDA r : r.type), positive),
         average |-> Rate(FoldLeft(LAMBDA sum, r : sum + r.score, 0, rs), 1000 * total),
         falsePositives |-> share(fp, negative),
         falseNegatives |-> share(Count(positive, LAMBDA r : r.said = "network_healthy"), positive),
         f1 |-> Detection(tp, fp, Len(positive) - tp),
         byType |-> ByFaultType(positive)]

(***************************************************************************)
(* Actions                                                                 *)
(***************************************************************************)
Init == judge \in BOOLEAN /\ cases = <<>> /\ results = <<>> /\ sdk = <<>> /\ report = {}

\* score_scenario_episode, and the same case given to the SDK's evaluator.
\* The score recorded by the simulator is reused where there is one: it was
\* computed by the same evaluation.  An episode whose execution failed is
\* not scored at all.
Score(e, d, a) ==
    /\ cases' = Append(cases, [episode |-> e, diagnosis |-> d, answer |-> a])
    /\ results' = Append(results, Evaluate(Output(d), SessionTruth(e), a))
    /\ sdk' = Append(sdk, Evaluate(Output(d), SdkTruth(e), a))
    /\ UNCHANGED <<judge, report>>

Report ==
    /\ report = {} /\ results # <<>>
    /\ report' = {GenerateReport(results)}
    /\ UNCHANGED <<judge, cases, results, sdk>>

Finished == report # {} /\ UNCHANGED vars

Next ==
    \/ /\ report = {} /\ Len(results) < MaxCases
       /\ \E e \in Episodes, d \in Diagnoses, a \in IF judge THEN Answers ELSE {Error} : Score(e, d, a)
    \/ Report
    \/ Finished

Spec == Init /\ [][Next]_vars

-----------------------------------------------------------------------------
(***************************************************************************)
(* Properties                                                              *)
(***************************************************************************)
Accepted(c) ==
    {Location(c.episode)} \cup
    (IF c.episode.fault \in Symmetric
     THEN {PeerLocations(c.episode.device, c.episode.interface)[i] :
               i \in DOMAIN PeerLocations(c.episode.device, c.episode.interface)}
     ELSE {})

SameDevice(c, l) == Device(Output(c.diagnosis).device) = Device(l.device)
SameInterface(c, l) == Interface(Output(c.diagnosis).interface) = Interface(l.interface)

\* A case counted correct in device and interface names one accepted place,
\* not the device of one end of the link with the interface of the other.
CorrectIsOnePlace ==
    \A i \in DOMAIN results :
        results[i].applicable /\ results[i].device /\ results[i].interface =>
            \E l \in Accepted(cases[i]) : SameDevice(cases[i], l) /\ SameInterface(cases[i], l)

\* No accepted location would score the diagnosis higher than the one the
\* loop over candidates settles for: the order of the candidates is no matter.
ScoredByBestLocation ==
    \A i \in DOMAIN results :
        results[i].verdict /\ results[i].applicable =>
            results[i].score =
                Max({(IF SameDevice(cases[i], l) THEN 500 ELSE 0) + (IF SameInterface(cases[i], l) THEN 500 ELSE 0) :
                         l \in Accepted(cases[i])})

\* Whatever a judge answers, a fault type counts as correct only if the
\* label, or the judge's reading of it, is the injected type.
JudgeCannotInvent ==
    \A i \in DOMAIN results :
        ~results[i].negative /\ results[i].type =>
            \/ Canonical(Output(cases[i].diagnosis).label) = cases[i].episode.fault
            \/ judge /\ cases[i].answer # Error /\ cases[i].answer.agent = cases[i].episode.fault

\* The figures of one report agree: a case solved end to end was detected,
\* localized and scored in full, so overall accuracy never exceeds the
\* figures it is made of.
OverallIsTheLeast ==
    \A r \in report :
        /\ r.overall <= r.detection
        /\ r.overall <= r.average
        /\ r.negative = 0 => r.overall <= Min({r.device, r.types})

\* F1 lies between precision and recall although it is computed from rounded
\* figures, and the breakdown by fault type covers exactly the fault cases.
FiguresAddUp ==
    \A r \in report :
        /\ r.f1.f1 \in Min({r.f1.precision, r.f1.recall}) ..
                            Max({r.f1.precision, r.f1.recall})
        /\ r.falseNegatives <= 1000 - r.f1.recall + 1
        /\ MapThenSumSet(LAMBDA f : r.byType[f].total, DOMAIN r.byType) = r.positive

\* What docs/content/docs/build-your-agent/custom-agents.mdx says of healthy
\* cases, of the public evaluator of the SDK: credit for network_healthy only.
SdkHealthyByVerdict ==
    \A i \in DOMAIN sdk :
        cases[i].episode.fault = "none" =>
            (sdk[i].score = 1000 <=> Output(cases[i].diagnosis).verdict = "network_healthy")

\* What docs/content/docs/run-benchmarks/methodology.mdx says of symmetric
\* locations: the other end of an impaired link is accepted.
PeerIsAccepted ==
    \A i \in DOMAIN results :
        LET c == cases[i]
            peers == PeerLocations(c.episode.device, c.episode.interface)
        IN  c.episode.fault \in {"link_down", "packet_loss"} /\ results[i].verdict /\ peers # <<>>
            /\ SameDevice(c, peers[1]) /\ SameInterface(c, peers[1]) => results[i].score = 1000
=============================================================================
