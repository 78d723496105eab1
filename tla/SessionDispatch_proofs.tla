----------------------- MODULE SessionDispatch_proofs -----------------------
(***************************************************************************)
(* Theorems about SessionDispatch and their proofs, for any number of      *)
(* workers, scenarios and sessions.                                        *)
(*                                                                         *)
(* The argument: a worker's thread runs only while the session does, a lab *)
(* that holds a fault belongs to a worker whose case is not over or whose  *)
(* runtime is quarantined already, and nothing but a new runtime takes a   *)
(* worker off the list of quarantined ones.  The summaries of a worker     *)
(* follow its share of the scenarios from the first on, and the shares are *)
(* the classes of the scenarios modulo the number of workers.  The rows of  *)
(* the report are the summaries of all workers, appended.                  *)
(***************************************************************************)
EXTENDS Integers, SessionDispatch, WellFoundedInduction, TLAPS

\* assign_scenarios_to_workers raises without a worker.
SessionAssumption ==
    /\ NWorkers \in Nat \ {0} /\ NScenarios \in Nat /\ NSessions \in Nat
    /\ MayRaise \in BOOLEAN

RuntimeStates == {"none", "warm", "quarantined", "torn_down", "failed"}
SessionPcs == {"idle", "provision", "check", "running", "report", "metadata", "teardown", "finalize"}
WorkerPcs == {"off", "next", "prepare", "diagnose", "cleanup", "save", "summary", "done", "raised"}
Statuses == {"invalid", "completed", "failed", "skipped_execution_failure", "skipped_infrastructure_failure"}
Controls == [on : BOOLEAN, stop : BOOLEAN, effects : BOOLEAN]
Sessions == [n : 0 .. NSessions, owner : {"user", "platform"}, keep : BOOLEAN, failed : BOOLEAN,
             dirty : BOOLEAN, control : Controls, pc : SessionPcs]
CaseStates == [valid : BOOLEAN, success : BOOLEAN, clean : BOOLEAN]
Summaries == Scenarios \X Statuses \X BOOLEAN
Threads == [pc : WorkerPcs, todo : Seq(Scenarios), case : CaseStates, executed : Nat,
            sums : Seq(Summaries), ok : BOOLEAN]
Outcomes == {"none", "completed", "failed"}

Types ==
    /\ rt \in [state : RuntimeStates, workers : SUBSET Workers]
    /\ lab \subseteq Workers /\ cancel \in BOOLEAN /\ sn \in Sessions
    /\ wk \in [Workers -> Threads]
    /\ run.report \in Outcomes /\ run.meta \in Outcomes
    /\ run = [report |-> run.report, meta |-> run.meta, teardown |-> run.teardown, rows |-> run.rows]

\* A thread runs only in a running session, works on the head of its
\* assignment, and has executed no more cases than it has put behind it.
ThreadInv ==
    \A w \in Workers :
        /\ sn.pc = "running" => wk[w].pc # "off"
        /\ sn.pc # "running" => wk[w].pc \in {"off", "done", "raised"}
        /\ sn.pc \in {"provision", "check"} => wk[w].pc = "off" /\ wk[w].sums = <<>>
        /\ wk[w].pc \in {"prepare", "diagnose", "cleanup", "save", "summary"} => wk[w].todo # <<>>
        /\ wk[w].pc \in {"off", "next", "prepare", "diagnose", "cleanup"} =>
             wk[w].executed + Len(wk[w].todo) <= NScenarios
        /\ wk[w].pc \in {"save", "summary"} => wk[w].executed + Len(wk[w].todo) <= NScenarios + 1
        /\ wk[w].executed <= NScenarios

\* Some summary of a worker reports a failed cleanup.
Reported(sums) == \E i \in 1 .. Len(sums) : sums[i][3]

QuarantineInv ==
    /\ sn.pc = "running" => rt.state \in {"warm", "quarantined"}
    /\ sn.pc \notin {"idle", "provision"} =>
         \A w \in Workers : Reported(wk[w].sums) =>
             w \in rt.workers /\ rt.state \in {"quarantined", "torn_down", "failed"}

\* A lab with a fault is that of a case under way, or its runtime is warm no
\* longer.
LabInv ==
    /\ \A w \in Workers : wk[w].pc # "raised"
    /\ sn.pc # "running" => lab = {} \/ rt.state # "warm"
    /\ sn.pc = "running" => \A w \in lab :
         \/ wk[w].pc \in {"diagnose", "cleanup"}
         \/ wk[w].pc \in {"save", "summary"} /\ ~wk[w].case.clean
         \/ wk[w].pc = "done" /\ rt.state # "warm"

\* The summaries of a worker are those of the first scenarios of its share, and
\* the rest of them is still to do.
Covers(sums, todo, share) ==
    /\ Len(sums) + Len(todo) = Len(share)
    /\ \A i \in 1 .. Len(sums) : sums[i][1] = share[i]
    /\ \A i \in 1 .. Len(todo) : todo[i] = share[Len(sums) + i]

\* A worker that is well so far has completed every case, and one that has
\* ended has left nothing out unless the session was cancelled.
CaseInv ==
    \A w \in Workers :
        /\ Covers(wk[w].sums, wk[w].todo, AssignScenarios(w))
        /\ wk[w].ok => \A i \in 1 .. Len(wk[w].sums) : wk[w].sums[i][2] = "completed"
        /\ wk[w].pc = "done" => wk[w].todo = <<>> \/ (cancel /\ ~wk[w].ok)
        /\ sn.pc = "report" => wk[w].pc = "done"

AllWell == \A w \in Workers : wk[w].pc = "done" /\ wk[w].ok

\* The report is not there before its turn, and it says "completed" only of
\* workers that are all well.
RunInv ==
    /\ sn.pc \in {"provision", "check", "running", "report"} =>
         run.report = "none" /\ run.meta = "none" /\ run.teardown = "none"
    /\ run.report = "completed" => AllWell
    /\ sn.pc = "metadata" => run.report # "none"
    /\ sn.pc = "idle" /\ sn.owner = "platform" /\ run.teardown # "none" =>
         /\ run.report = run.meta /\ run.report # "none" /\ run.teardown # "pending"
         /\ run.report = "completed" => ~sn.failed /\ ~sn.dirty

\* The rows of the report are those of the threads, which are done.
RowsInv ==
    /\ sn.pc \in {"provision", "check", "running"} => run.rows = <<>>
    /\ run.rows = <<>> \/ (run.rows = Rows /\ \A w \in Workers : wk[w].pc = "done")

\* What holds of every behaviour; LabInv holds, besides, when nothing raises.
IInv == Types /\ ThreadInv /\ QuarantineInv

-----------------------------------------------------------------------------
(* The threads.                                                            *)

\* The fields of what the types say, for the solvers.
LEMMA Fields ==
    ASSUME Types
    PROVE  /\ sn.pc \in SessionPcs /\ sn.n \in 0 .. NSessions /\ sn.owner \in {"user", "platform"}
           /\ rt.state \in RuntimeStates /\ rt.workers \subseteq Workers
           /\ \A w \in Workers :
                 /\ wk[w] \in Threads /\ wk[w].pc \in WorkerPcs /\ wk[w].todo \in Seq(Scenarios)
                 /\ wk[w].case \in CaseStates /\ wk[w].case.clean \in BOOLEAN
                 /\ wk[w].executed \in Nat /\ wk[w].sums \in Seq(Summaries)
BY DEF Types, Sessions, Threads, CaseStates

\* A worker does not get more scenarios than there are (assign_scenarios_to_workers).
LEMMA Shares ==
    ASSUME SessionAssumption, NEW w \in Workers
    PROVE  /\ AssignScenarios(w) \in Seq(Scenarios)
           /\ Len(AssignScenarios(w)) \in Nat /\ Len(AssignScenarios(w)) <= NScenarios
<1>. DEFINE n == (NScenarios + NWorkers - 1 - w) \div NWorkers
            r == (NScenarios + NWorkers - 1 - w) % NWorkers
<1>1. w \in Nat /\ w <= NWorkers - 1 /\ NWorkers \in Nat /\ NWorkers > 0 /\ NScenarios \in Nat
  BY DEF SessionAssumption, Workers
<1>2. NScenarios + NWorkers - 1 - w \in Nat
  BY <1>1
<1>3. n \in Nat /\ r \in 0 .. NWorkers - 1 /\ NScenarios + NWorkers - 1 - w = NWorkers * n + r
  BY <1>1, <1>2
<1>. HIDE DEF n, r
<1>4. n <= NScenarios
  <2>1. SUFFICES ASSUME n >= NScenarios + 1  PROVE FALSE
    BY <1>1, <1>3
  <2>2. NWorkers * n >= NWorkers * (NScenarios + 1)
    BY <1>1, <1>3, <2>1
  <2>3. NWorkers * NScenarios >= NScenarios
    BY <1>1
  <2>4. NWorkers * (NScenarios + 1) = NWorkers * NScenarios + NWorkers
    BY <1>1
  <2>. QED  BY <1>1, <1>3, <2>2, <2>3, <2>4
<1>5. ASSUME NEW k \in 1 .. n  PROVE (k - 1) * NWorkers + w + 1 \in Scenarios
  <2>1. k - 1 <= n - 1 /\ k - 1 \in Nat
    BY <1>3, <1>5
  <2>2. NWorkers * (k - 1) <= NWorkers * (n - 1) /\ NWorkers * (k - 1) \in Nat
    BY <1>1, <1>3, <2>1
  <2>3. NWorkers * (n - 1) = NWorkers * n - NWorkers /\ NWorkers * n \in Nat
    BY <1>1, <1>3
  <2>4. (k - 1) * NWorkers = NWorkers * (k - 1)
    BY <1>1, <2>1
  <2>. QED  BY <1>1, <1>3, <2>2, <2>3, <2>4 DEF Scenarios
<1>6. AssignScenarios(w) = [k \in 1 .. n |-> (k - 1) * NWorkers + w + 1]
  BY DEF AssignScenarios, n
<1>7. AssignScenarios(w) \in Seq(Scenarios) /\ Len(AssignScenarios(w)) = n
  BY <1>3, <1>5, <1>6
<1>. QED  BY <1>3, <1>4, <1>7

\* A new session starts with a thread that is off for every worker.
LEMMA FreshThreads ==
    ASSUME SessionAssumption, NEW w \in Workers
    PROVE  /\ Fresh(w) \in Threads /\ Fresh(w).pc = "off" /\ Fresh(w).sums = <<>>
           /\ Fresh(w).executed = 0 /\ Fresh(w).executed + Len(Fresh(w).todo) <= NScenarios
<1>1. <<>> \in Seq(Summaries)
  OBVIOUS
<1>2. NoCase \in CaseStates
  BY DEF NoCase, CaseStates
<1>. QED  BY <1>1, <1>2, Shares DEF Fresh, Threads, WorkerPcs

\* The thread of w, and no other, is t now.
Thread(w, t) ==
    /\ wk' \in [Workers -> Threads] /\ wk'[w] = t
    /\ \A v \in Workers \ {w} : wk'[v] = wk[v]

LEMMA ThreadMoves ==
    ASSUME Types, NEW w \in Workers, NEW t \in Threads, wk' = [wk EXCEPT ![w] = t]
    PROVE  Thread(w, t)
BY DEF Types, Thread

\* A thread that is at work is one of a running session.
LEMMA AtWork ==
    ASSUME IInv, NEW w \in Workers, wk[w].pc \notin {"off", "done", "raised"}
    PROVE  sn.pc = "running"
BY DEF IInv, ThreadInv

\* What such a move has to satisfy, the session and the runtime being left alone.
LEMMA MoveKeeps ==
    ASSUME IInv, NEW w \in Workers, NEW t \in Threads, Thread(w, t), UNCHANGED <<rt, sn, run>>,
           cancel' \in BOOLEAN, lab' \subseteq Workers, sn.pc = "running",
           t.pc # "off", t.todo = wk[w].todo, t.sums = wk[w].sums,
           t.executed = wk[w].executed,
           t.pc \in {"prepare", "diagnose", "cleanup", "save", "summary"} => t.todo # <<>>,
           t.pc \in {"next", "prepare", "diagnose", "cleanup"} => t.executed + Len(t.todo) <= NScenarios,
           t.pc \in {"save", "summary"} => t.executed + Len(t.todo) <= NScenarios + 1
    PROVE  IInv'
<1>1. Types'
  BY DEF IInv, Types, Thread
<1>2. ThreadInv'
  BY DEF IInv, ThreadInv, Thread
<1>3. QuarantineInv'
  BY DEF IInv, QuarantineInv, Thread, Reported
<1>. QED  BY <1>1, <1>2, <1>3 DEF IInv

\* The next case of the assignment, its end, or a cancelled session.
LEMMA NextCaseKeeps ==
    ASSUME IInv, NEW w \in Workers, NextCase(w)
    PROVE  IInv' /\ (LabInv => LabInv')
<1>1. /\ wk[w].pc = "next" /\ UNCHANGED <<rt, lab, sn, run, cancel>> /\ sn.pc = "running"
  BY AtWork DEF NextCase
<1>2. Types /\ NoCase \in CaseStates /\ wk[w].ok \in BOOLEAN
  BY DEF IInv, NoCase, CaseStates, Types, Threads
<1>3. PICK pc \in {"prepare", "done"}, case \in CaseStates, ok \in BOOLEAN :
         /\ wk' = [wk EXCEPT ![w] = [wk[w] EXCEPT !.pc = pc, !.case = case, !.ok = ok]]
         /\ pc = "prepare" => wk[w].todo # <<>>
  <2>1. CASE wk[w].todo # <<>> /\ wk' = [wk EXCEPT ![w].pc = "prepare", ![w].case = NoCase]
    <3>1. wk' = [wk EXCEPT ![w] = [wk[w] EXCEPT !.pc = "prepare", !.case = NoCase, !.ok = wk[w].ok]]
      BY <1>2, <2>1, Fields DEF Types, Threads
    <3>. QED  BY <1>2, <2>1, <3>1
  <2>2. CASE wk' = [wk EXCEPT ![w].pc = "done", ![w].ok = FALSE]
    <3>1. wk' = [wk EXCEPT ![w] = [wk[w] EXCEPT !.pc = "done", !.case = wk[w].case, !.ok = FALSE]]
      BY <1>2, <2>2, Fields DEF Types, Threads
    <3>. QED  BY <1>2, <3>1, Fields
  <2>3. CASE wk' = [wk EXCEPT ![w].pc = "done"]
    <3>1. wk' = [wk EXCEPT ![w] = [wk[w] EXCEPT !.pc = "done", !.case = wk[w].case, !.ok = wk[w].ok]]
      BY <1>2, <2>3, Fields DEF Types, Threads
    <3>. QED  BY <1>2, <3>1, Fields
  <2>. QED  BY <2>1, <2>2, <2>3 DEF NextCase
<1>. DEFINE t == [wk[w] EXCEPT !.pc = pc, !.case = case, !.ok = ok]
<1>4. /\ t \in Threads /\ t.pc = pc /\ t.todo = wk[w].todo /\ t.executed = wk[w].executed
      /\ t.sums = wk[w].sums
  BY <1>2, <1>3, Fields DEF Threads, WorkerPcs
<1>. HIDE DEF t
<1>5. Thread(w, t)
  BY <1>2, <1>3, <1>4, ThreadMoves DEF t
<1>6. wk[w].executed + Len(wk[w].todo) <= NScenarios
  BY <1>1 DEF IInv, ThreadInv
<1>7. IInv'
  BY <1>1, <1>2, <1>3, <1>4, <1>5, <1>6, MoveKeeps DEF Types
<1>8. LabInv => LabInv'
  BY <1>1, <1>3, <1>4, <1>5 DEF LabInv, Thread
<1>. QED  BY <1>7, <1>8

\* Preparation may leave a fault in the lab; cleanup has still to come.
LEMMA PrepareKeeps ==
    ASSUME IInv, NEW w \in Workers, PrepareCase(w)
    PROVE  IInv' /\ (LabInv => LabInv')
<1>1. /\ wk[w].pc = "prepare" /\ UNCHANGED <<rt, sn, run, cancel>> /\ sn.pc = "running"
      /\ lab' \in {lab, lab \cup {w}}
  BY AtWork DEF PrepareCase
<1>2. Types /\ wk[w].ok \in BOOLEAN /\ sn.control.effects \in BOOLEAN
  BY DEF IInv, Types, Threads, Sessions, Controls
<1>3. PICK pc \in {"diagnose", "cleanup"}, case \in CaseStates :
         wk' = [wk EXCEPT ![w] = [wk[w] EXCEPT !.pc = pc, !.case = case, !.ok = wk[w].ok]]
  <2>1. CASE wk' = [wk EXCEPT ![w].case.valid = TRUE, ![w].pc = IF sn.control.effects THEN "cleanup" ELSE "diagnose",
                              ![w].case.success = sn.control.effects]
    <3>. DEFINE pc == IF sn.control.effects THEN "cleanup" ELSE "diagnose"
                case == [wk[w].case EXCEPT !.valid = TRUE, !.success = sn.control.effects]
    <3>1. case \in CaseStates
      BY <1>2, Fields DEF CaseStates
    <3>2. wk' = [wk EXCEPT ![w] = [wk[w] EXCEPT !.pc = pc, !.case = case, !.ok = wk[w].ok]]
      BY <1>2, <2>1, Fields DEF Types, Threads, CaseStates
    <3>. QED  BY <3>1, <3>2
  <2>2. CASE wk' = [wk EXCEPT ![w].pc = "cleanup"]
    <3>1. wk' = [wk EXCEPT ![w] = [wk[w] EXCEPT !.pc = "cleanup", !.case = wk[w].case, !.ok = wk[w].ok]]
      BY <1>2, <2>2, Fields DEF Types, Threads
    <3>. QED  BY <1>2, <3>1, Fields
  <2>. QED  BY <2>1, <2>2 DEF PrepareCase
<1>. DEFINE t == [wk[w] EXCEPT !.pc = pc, !.case = case, !.ok = wk[w].ok]
<1>4. /\ t \in Threads /\ t.pc = pc /\ t.todo = wk[w].todo /\ t.executed = wk[w].executed
      /\ t.sums = wk[w].sums
  BY <1>2, <1>3, Fields DEF Threads, WorkerPcs
<1>. HIDE DEF t
<1>5. Thread(w, t)
  BY <1>2, <1>3, <1>4, ThreadMoves DEF t
<1>6. wk[w].executed + Len(wk[w].todo) <= NScenarios /\ wk[w].todo # <<>> /\ lab \subseteq Workers
  BY <1>1 DEF IInv, ThreadInv, Types
<1>7. IInv'
  BY <1>1, <1>2, <1>3, <1>4, <1>5, <1>6, MoveKeeps DEF Types
<1>8. LabInv => LabInv'
  BY <1>1, <1>3, <1>4, <1>5 DEF LabInv, Thread
<1>. QED  BY <1>7, <1>8

\* The diagnosis ends, with an answer or without one.
LEMMA DiagnosisKeeps ==
    ASSUME IInv, NEW w \in Workers, AgentAnswers(w) \/ DiagnosisEnds(w)
    PROVE  IInv' /\ (LabInv => LabInv')
<1>1. /\ wk[w].pc = "diagnose" /\ UNCHANGED <<rt, lab, sn, run, cancel>> /\ sn.pc = "running"
  BY AtWork DEF AgentAnswers, DiagnosisEnds
<1>2. Types /\ wk[w].ok \in BOOLEAN
  BY DEF IInv, Types, Threads
<1>3. PICK case \in CaseStates :
         wk' = [wk EXCEPT ![w] = [wk[w] EXCEPT !.pc = "cleanup", !.case = case, !.ok = wk[w].ok]]
  <2>1. CASE wk' = [wk EXCEPT ![w].pc = "cleanup", ![w].case.success = TRUE]
    <3>. DEFINE case == [wk[w].case EXCEPT !.success = TRUE]
    <3>1. case \in CaseStates
      BY <1>2, Fields DEF CaseStates
    <3>2. wk' = [wk EXCEPT ![w] = [wk[w] EXCEPT !.pc = "cleanup", !.case = case, !.ok = wk[w].ok]]
      BY <1>2, <2>1, Fields DEF Types, Threads, CaseStates
    <3>. QED  BY <3>1, <3>2
  <2>2. CASE wk' = [wk EXCEPT ![w].pc = "cleanup"]
    <3>1. wk' = [wk EXCEPT ![w] = [wk[w] EXCEPT !.pc = "cleanup", !.case = wk[w].case, !.ok = wk[w].ok]]
      BY <1>2, <2>2, Fields DEF Types, Threads
    <3>. QED  BY <1>2, <3>1, Fields
  <2>. QED  BY <2>1, <2>2 DEF AgentAnswers, DiagnosisEnds
<1>. DEFINE t == [wk[w] EXCEPT !.pc = "cleanup", !.case = case, !.ok = wk[w].ok]
<1>4. /\ t \in Threads /\ t.pc = "cleanup" /\ t.todo = wk[w].todo /\ t.executed = wk[w].executed
      /\ t.sums = wk[w].sums
  BY <1>2, <1>3, Fields DEF Threads, WorkerPcs
<1>. HIDE DEF t
<1>5. Thread(w, t)
  BY <1>2, <1>3, <1>4, ThreadMoves DEF t
<1>6. wk[w].executed + Len(wk[w].todo) <= NScenarios /\ wk[w].todo # <<>> /\ lab \subseteq Workers
  BY <1>1 DEF IInv, ThreadInv, Types
<1>7. IInv'
  BY <1>1, <1>2, <1>4, <1>5, <1>6, MoveKeeps DEF Types
<1>8. LabInv => LabInv'
  BY <1>1, <1>4, <1>5, <1>6 DEF LabInv, Thread
<1>. QED  BY <1>7, <1>8

\* The result is saved, or saving it raises.
LEMMA SaveKeeps ==
    ASSUME IInv, NEW w \in Workers, SaveResult(w)
    PROVE  IInv' /\ (LabInv /\ ~MayRaise => LabInv')
<1>1. /\ wk[w].pc = "save" /\ UNCHANGED <<rt, lab, sn, run, cancel>> /\ sn.pc = "running"
  BY AtWork DEF SaveResult
<1>2. Types /\ wk[w].ok \in BOOLEAN
  BY DEF IInv, Types, Threads
<1>3. PICK pc \in {"summary", "raised"} :
         /\ wk' = [wk EXCEPT ![w] = [wk[w] EXCEPT !.pc = pc, !.case = wk[w].case, !.ok = wk[w].ok]]
         /\ pc = "raised" => MayRaise
  <2>1. PICK pc \in {"summary", "raised"} : wk' = [wk EXCEPT ![w].pc = pc] /\ (pc = "raised" => MayRaise)
    BY DEF SaveResult
  <2>2. wk' = [wk EXCEPT ![w] = [wk[w] EXCEPT !.pc = pc, !.case = wk[w].case, !.ok = wk[w].ok]]
    BY <1>2, <2>1, Fields DEF Types, Threads
  <2>. QED  BY <2>1, <2>2
<1>. DEFINE t == [wk[w] EXCEPT !.pc = pc, !.case = wk[w].case, !.ok = wk[w].ok]
<1>4. /\ t \in Threads /\ t.pc = pc /\ t.case = wk[w].case /\ t.todo = wk[w].todo
      /\ t.executed = wk[w].executed /\ t.sums = wk[w].sums
  BY <1>2, <1>3, Fields DEF Threads, WorkerPcs
<1>. HIDE DEF t
<1>5. Thread(w, t)
  BY <1>2, <1>3, <1>4, ThreadMoves DEF t
<1>6. wk[w].executed + Len(wk[w].todo) <= NScenarios + 1 /\ wk[w].todo # <<>> /\ lab \subseteq Workers
  BY <1>1 DEF IInv, ThreadInv, Types
<1>7. IInv'
  BY <1>1, <1>2, <1>3, <1>4, <1>5, <1>6, MoveKeeps DEF Types
<1>8. LabInv /\ ~MayRaise => LabInv'
  BY <1>1, <1>3, <1>4, <1>5 DEF LabInv, Thread
<1>. QED  BY <1>7, <1>8

\* Cleanup ends the case; where it fails the result says so.
LEMMA CleanupKeeps ==
    ASSUME SessionAssumption, IInv, NEW w \in Workers, CleanupCase(w)
    PROVE  IInv' /\ (LabInv => LabInv')
<1>1. /\ wk[w].pc = "cleanup" /\ UNCHANGED <<rt, sn, run, cancel>> /\ sn.pc = "running"
  BY AtWork DEF CleanupCase
<1>2. Types /\ wk[w].executed \in Nat /\ wk[w].todo \in Seq(Scenarios) /\ wk[w].case \in CaseStates
  BY Fields DEF IInv
<1>3. PICK case \in CaseStates :
         /\ wk' = [wk EXCEPT ![w] = [wk[w] EXCEPT !.pc = "save", !.executed = wk[w].executed + 1, !.case = case]]
         /\ lab' = lab \ {w} \/ (lab' = lab /\ ~case.clean)
  <2>1. CASE lab' = lab \ {w} /\ wk' = [wk EXCEPT ![w].pc = "save", ![w].executed = @ + 1]
    <3>1. wk' = [wk EXCEPT ![w] = [wk[w] EXCEPT !.pc = "save", !.executed = wk[w].executed + 1, !.case = wk[w].case]]
      BY <1>2, <2>1 DEF Types, Threads
    <3>. QED  BY <1>2, <2>1, <3>1
  <2>2. CASE lab' = lab /\ wk' = [wk EXCEPT ![w].pc = "save", ![w].executed = @ + 1, ![w].case.clean = FALSE]
    <3>. DEFINE case == [wk[w].case EXCEPT !.clean = FALSE]
    <3>1. case \in CaseStates /\ ~case.clean
      BY <1>2 DEF CaseStates
    <3>2. wk' = [wk EXCEPT ![w] = [wk[w] EXCEPT !.pc = "save", !.executed = wk[w].executed + 1, !.case = case]]
      BY <1>2, <2>2, ZenonT(40) DEF Types, Threads, CaseStates
    <3>. QED  BY <2>2, <3>1, <3>2
  <2>. QED  BY <2>1, <2>2 DEF CleanupCase
<1>. DEFINE t == [wk[w] EXCEPT !.pc = "save", !.executed = wk[w].executed + 1, !.case = case]
<1>4. /\ t \in Threads /\ t.pc = "save" /\ t.case = case /\ t.todo = wk[w].todo
      /\ t.executed = wk[w].executed + 1 /\ t.sums = wk[w].sums
  <2>1. wk[w] \in Threads /\ wk[w].executed + 1 \in Nat /\ case \in CaseStates /\ "save" \in WorkerPcs
    BY <1>2, <1>3, Fields DEF WorkerPcs
  <2>. HIDE DEF t
  <2>2. t = [wk[w] EXCEPT !.pc = "save", !.executed = wk[w].executed + 1, !.case = case]
    BY DEF t
  <2>. QED  BY <2>1, <2>2 DEF Threads
<1>. HIDE DEF t
<1>5. Thread(w, t)
  BY <1>2, <1>3, <1>4, ThreadMoves DEF t
<1>6. /\ wk[w].executed + Len(wk[w].todo) <= NScenarios /\ wk[w].todo # <<>> /\ lab \subseteq Workers
      /\ Len(wk[w].todo) \in Nat /\ Len(wk[w].todo) > 0
  BY <1>1, <1>2 DEF IInv, ThreadInv, Types
<1>7. Types'
  BY <1>1, <1>2, <1>3, <1>5, <1>6 DEF Types, Thread
<1>8. ThreadInv'
  <2>1. wk'[w].executed + Len(wk'[w].todo) <= NScenarios + 1 /\ wk'[w].executed <= NScenarios
    BY <1>2, <1>4, <1>5, <1>6 DEF Thread, SessionAssumption
  <2>2. wk'[w].pc = "save" /\ wk'[w].todo # <<>> /\ sn' = sn
    BY <1>1, <1>4, <1>5, <1>6 DEF Thread
  <2>. QED  BY <1>1, <1>5, <2>1, <2>2 DEF IInv, ThreadInv, Thread
<1>9. QuarantineInv'
  BY <1>1, <1>4, <1>5 DEF IInv, QuarantineInv, Thread, Reported
<1>10. LabInv => LabInv'
  BY <1>1, <1>3, <1>4, <1>5 DEF LabInv, Thread
<1>. QED  BY <1>7, <1>8, <1>9, <1>10 DEF IInv

\* One sequence after another.
LEMMA Concatenated ==
    ASSUME NEW S, NEW a \in Seq(S), NEW b \in Seq(S)
    PROVE  /\ a \o b \in Seq(S) /\ Len(a \o b) = Len(a) + Len(b) /\ Len(a) \in Nat /\ Len(b) \in Nat
           /\ \A i \in 1 .. Len(a) : (a \o b)[i] = a[i]
           /\ \A j \in Len(a) + 1 .. Len(a) + Len(b) : (a \o b)[j] = b[j - Len(a)]
OBVIOUS

\* The summaries of a case, and of what is skipped after it.
LEMMA SummariesGrow ==
    ASSUME NEW sums \in Seq(Summaries), NEW row \in Summaries, NEW rest \in Seq(Scenarios),
           NEW skipped, skipped = <<>> \/ \E kind \in Statuses :
                                             skipped = [i \in 1 .. Len(rest) |-> <<rest[i], kind, FALSE>>]
    PROVE  /\ sums \o <<row>> \o skipped \in Seq(Summaries)
           /\ Reported(sums \o <<row>> \o skipped) <=> Reported(sums) \/ row[3]
<1>1. skipped \in Seq(Summaries) /\ \A i \in 1 .. Len(skipped) : ~skipped[i][3]
  <2>1. CASE skipped = <<>>
    BY <2>1
  <2>2. ASSUME NEW kind \in Statuses, skipped = [i \in 1 .. Len(rest) |-> <<rest[i], kind, FALSE>>]
        PROVE  skipped \in Seq(Summaries) /\ \A i \in 1 .. Len(skipped) : ~skipped[i][3]
    <3>1. Len(rest) \in Nat /\ \A i \in 1 .. Len(rest) : rest[i] \in Scenarios
      OBVIOUS
    <3>2. \A i \in 1 .. Len(rest) : <<rest[i], kind, FALSE>> \in Summaries
      BY <3>1 DEF Summaries
    <3>3. skipped \in [1 .. Len(rest) -> Summaries]
      BY <2>2, <3>2
    <3>4. skipped \in Seq(Summaries) /\ Len(skipped) = Len(rest)
      BY <3>1, <3>3
    <3>5. \A i \in 1 .. Len(rest) : skipped[i] = <<rest[i], kind, FALSE>>
      BY <2>2
    <3>6. \A i \in 1 .. Len(skipped) : skipped[i] = <<rest[i], kind, FALSE>>
      BY <3>4, <3>5
    <3>7. \A a : ~(<<a, kind, FALSE>>[3])
      OBVIOUS
    <3>8. \A i \in 1 .. Len(skipped) : ~skipped[i][3]
      BY <3>6, <3>7, Zenon
    <3>. QED  BY <3>4, <3>8, Zenon
  <2>. QED  BY <2>1, <2>2
<1>. DEFINE one == sums \o <<row>>
<1>2. one \in Seq(Summaries) /\ Len(one) = Len(sums) + 1 /\ one[Len(sums) + 1] = row
      /\ \A i \in 1 .. Len(sums) : one[i] = sums[i]
  OBVIOUS
<1>3. Reported(one) <=> Reported(sums) \/ row[3]
  BY <1>2 DEF Reported
<1>. HIDE DEF one
<1>4. one \o skipped \in Seq(Summaries) /\ Len(one \o skipped) = Len(one) + Len(skipped)
      /\ \A i \in 1 .. Len(one) : (one \o skipped)[i] = one[i]
      /\ \A j \in Len(one) + 1 .. Len(one) + Len(skipped) : (one \o skipped)[j] = skipped[j - Len(one)]
  BY <1>1, <1>2, SMTT(30)
<1>5. Reported(one \o skipped) <=> Reported(one)
  <2>1. ASSUME NEW i \in 1 .. Len(one), one[i][3]  PROVE Reported(one \o skipped)
    BY <1>1, <1>2, <1>4, <2>1 DEF Reported
  <2>2. ASSUME NEW i \in 1 .. Len(one \o skipped), (one \o skipped)[i][3]  PROVE Reported(one)
    <3>1. Len(one) \in Nat /\ Len(skipped) \in Nat
      BY <1>1, <1>2
    <3>2. CASE i <= Len(one)
      BY <1>4, <2>2, <3>1, <3>2 DEF Reported
    <3>3. CASE i > Len(one)
      <4>1. i \in Len(one) + 1 .. Len(one) + Len(skipped) /\ i - Len(one) \in 1 .. Len(skipped)
        BY <1>4, <3>1, <3>3
      <4>. QED  BY <1>1, <1>4, <2>2, <4>1
    <3>. QED  BY <1>4, <2>2, <3>1, <3>2, <3>3
  <2>. QED  BY <2>1, <2>2 DEF Reported
<1>. QED  BY <1>3, <1>4, <1>5 DEF one

\* The summary of the case at hand, and those of the skipped ones, cover what
\* was to do.
LEMMA CoversGrow ==
    ASSUME NEW share \in Seq(Scenarios), NEW sums \in Seq(Summaries), NEW todo \in Seq(Scenarios),
           todo # <<>>, Covers(sums, todo, share), NEW row \in Summaries, row[1] = Head(todo)
    PROVE  Covers(sums \o <<row>>, Tail(todo), share)
<1>. DEFINE one == sums \o <<row>>
            rest == Tail(todo)
<1>1. /\ Len(sums) \in Nat /\ Len(todo) \in Nat /\ Len(todo) > 0 /\ Len(share) \in Nat
      /\ Len(one) = Len(sums) + 1 /\ one[Len(sums) + 1] = row
      /\ \A i \in 1 .. Len(sums) : one[i] = sums[i]
  OBVIOUS
<1>2. Len(rest) = Len(todo) - 1 /\ \A i \in 1 .. Len(rest) : rest[i] = todo[i + 1]
  BY <1>1
<1>3. Head(todo) = todo[1] /\ todo[1] = share[Len(sums) + 1]
  BY <1>1 DEF Covers
<1>. HIDE DEF one, rest
<1>4. ASSUME NEW i \in 1 .. Len(one)  PROVE one[i][1] = share[i]
  <2>1. CASE i \in 1 .. Len(sums)
    BY <1>1, <2>1 DEF Covers
  <2>2. CASE i = Len(sums) + 1
    BY <1>1, <1>3, <2>2
  <2>. QED  BY <1>1, <2>1, <2>2
<1>5. ASSUME NEW i \in 1 .. Len(rest)  PROVE rest[i] = share[Len(one) + i]
  <2>1. i + 1 \in 1 .. Len(todo) /\ Len(sums) + (i + 1) = Len(one) + i
    BY <1>1, <1>2
  <2>. QED  BY <1>2, <2>1 DEF Covers
<1>6. Len(one) + Len(rest) = Len(share)
  <2>1. Len(sums) + Len(todo) = Len(share)
    BY DEF Covers
  <2>2. /\ Len(sums) \in Nat /\ Len(todo) \in Nat /\ Len(share) \in Nat
        /\ Len(one) = Len(sums) + 1 /\ Len(rest) = Len(todo) - 1
    BY <1>1, <1>2
  <2>. QED  BY <2>1, <2>2
<1>. QED  BY <1>4, <1>5, <1>6 DEF Covers, one, rest

LEMMA CoversSkipped ==
    ASSUME NEW share \in Seq(Scenarios), NEW sums \in Seq(Summaries), NEW rest \in Seq(Scenarios),
           Covers(sums, rest, share), NEW kind,
           NEW skipped, skipped = [i \in 1 .. Len(rest) |-> <<rest[i], kind, FALSE>>],
           skipped \in Seq(Summaries)
    PROVE  Covers(sums \o skipped, <<>>, share)
<1>. DEFINE all == sums \o skipped
<1>1. Len(rest) \in Nat /\ Len(skipped) = Len(rest) /\ Len(sums) \in Nat
  OBVIOUS
<1>2. \A i \in 1 .. Len(rest) : skipped[i][1] = rest[i]
  BY <1>1
<1>3. /\ Len(all) = Len(sums) + Len(rest)
      /\ \A i \in 1 .. Len(sums) : all[i] = sums[i]
      /\ \A j \in Len(sums) + 1 .. Len(sums) + Len(rest) : all[j] = skipped[j - Len(sums)]
  <2>1. /\ Len(all) = Len(sums) + Len(skipped) /\ Len(skipped) \in Nat
        /\ \A i \in 1 .. Len(sums) : all[i] = sums[i]
        /\ \A j \in Len(sums) + 1 .. Len(sums) + Len(skipped) : all[j] = skipped[j - Len(sums)]
    BY Concatenated, ZenonT(40)
  <2>. HIDE DEF all
  <2>. QED  BY <1>1, <2>1
<1>. HIDE DEF all
<1>4. ASSUME NEW i \in 1 .. Len(all)  PROVE all[i][1] = share[i]
  <2>1. CASE i \in 1 .. Len(sums)
    BY <1>3, <2>1 DEF Covers
  <2>2. CASE i \in Len(sums) + 1 .. Len(sums) + Len(rest)
    <3>1. i - Len(sums) \in 1 .. Len(rest) /\ Len(sums) + (i - Len(sums)) = i
      BY <1>1, <2>2
    <3>2. all[i] = skipped[i - Len(sums)] /\ skipped[i - Len(sums)][1] = rest[i - Len(sums)]
      BY <1>2, <1>3, <2>2, <3>1
    <3>3. rest[i - Len(sums)] = share[Len(sums) + (i - Len(sums))]
      BY <3>1 DEF Covers
    <3>. QED  BY <3>1, <3>2, <3>3
  <2>. QED  BY <1>1, <1>3, <2>1, <2>2
<1>5. Len(<<>>) = 0 /\ Len(all) + 0 = Len(share)
  BY <1>1, <1>3 DEF Covers
<1>6. \A i \in 1 .. Len(<<>>) : FALSE
  OBVIOUS
<1>7. Covers(all, <<>>, share)
  BY <1>4, <1>5, <1>6 DEF Covers
<1>. QED  BY <1>7 DEF all

\* A case is over: its summary, the quarantine, and what the worker skips.
LEMMA SummarizeKeeps ==
    ASSUME SessionAssumption, IInv, NEW w \in Workers, SummarizeCase(w)
    PROVE  IInv' /\ (LabInv /\ ~MayRaise => LabInv') /\ (CaseInv => CaseInv')
<1>. DEFINE c == wk[w].case
            status == Status(c)
            stops == ~c.clean \/ (sn.control.stop /\ status # "completed")
            rest == Tail(wk[w].todo)
            row == <<Head(wk[w].todo), status, ~c.clean>>
            skipped == IF stops THEN [i \in 1 .. Len(rest) |-> <<rest[i], Skipped(c), FALSE>>] ELSE <<>>
            ok == wk[w].ok /\ status = "completed"
            left == IF stops THEN <<>> ELSE rest
            sums == wk[w].sums \o <<row>> \o skipped
<1>1. /\ wk[w].pc = "summary" /\ UNCHANGED <<lab, sn, run>> /\ sn.pc = "running"
      /\ cancel' \in {cancel, cancel \/ (sn.control.on /\ status # "completed")}
      /\ IF c.clean THEN UNCHANGED rt ELSE MarkQuarantined({w})
  BY AtWork DEF SummarizeCase
<1>2. Types /\ c \in CaseStates /\ wk[w].ok \in BOOLEAN /\ wk[w].todo \in Seq(Scenarios) /\ wk[w].todo # <<>>
      /\ wk[w].sums \in Seq(Summaries) /\ wk[w].executed \in Nat /\ wk[w] \in Threads
      /\ sn.control.stop \in BOOLEAN /\ sn.control.on \in BOOLEAN
  BY <1>1, Fields DEF IInv, ThreadInv, Threads, Types, Sessions, Controls
<1>3. PICK pc \in {"done", "next", "raised"} :
         /\ pc = "raised" => MayRaise
         /\ (pc = "next" => ~stops) /\ (pc = "done" => stops)
         /\ wk' = [wk EXCEPT ![w].pc = pc, ![w].ok = ok, ![w].todo = left, ![w].sums = sums]
  <2>1. PICK pc \in {IF stops THEN "done" ELSE "next"} \cup (IF MayRaise /\ sn.control.on THEN {"raised"} ELSE {}) :
           wk' = [wk EXCEPT ![w].pc = pc, ![w].ok = @ /\ status = "completed",
                            ![w].todo = IF stops THEN <<>> ELSE rest,
                            ![w].sums = @ \o << <<Head(wk[w].todo), status, ~c.clean>> >>
                                          \o (IF stops THEN [i \in 1 .. Len(rest) |-> <<rest[i], Skipped(c), FALSE>>]
                                                       ELSE <<>>)]
    BY DEF SummarizeCase
  <2>2. wk' = [wk EXCEPT ![w].pc = pc, ![w].ok = ok, ![w].todo = left, ![w].sums = sums]
    BY <1>2, <2>1 DEF Types
  <2>. QED  BY <2>1, <2>2
<1>4. /\ rest \in Seq(Scenarios) /\ Len(rest) = Len(wk[w].todo) - 1 /\ Len(rest) \in Nat
      /\ Head(wk[w].todo) \in Scenarios
  BY <1>2
<1>5. status \in Statuses /\ Skipped(c) \in Statuses /\ (~c.clean) \in BOOLEAN
  BY <1>2 DEF Status, Skipped, Statuses, CaseStates
<1>6. row \in Summaries /\ row[3] = ~c.clean
  BY <1>4, <1>5 DEF Summaries
<1>7. sums \in Seq(Summaries) /\ (Reported(sums) <=> Reported(wk[w].sums) \/ ~c.clean)
  <2>1. skipped = <<>> \/ \E kind \in Statuses : skipped = [i \in 1 .. Len(rest) |-> <<rest[i], kind, FALSE>>]
    BY <1>5
  <2>. HIDE DEF skipped, row, rest, c
  <2>2. wk[w].sums \o <<row>> \o skipped \in Seq(Summaries)
        /\ (Reported(wk[w].sums \o <<row>> \o skipped) <=> Reported(wk[w].sums) \/ row[3])
    BY <1>2, <1>4, <1>6, <2>1, SummariesGrow
  <2>. QED  BY <1>6, <2>2
<1>8. left \in Seq(Scenarios) /\ Len(left) \in Nat /\ Len(left) <= Len(wk[w].todo) - 1
  BY <1>4
<1>9. ok \in BOOLEAN /\ cancel' \in BOOLEAN /\ (cancel => cancel')
  BY <1>1, <1>2 DEF Types
<1>20. ok => wk[w].ok /\ sums = wk[w].sums \o <<row>> /\ row[2] = "completed"
  <2>1. status = "completed" => c.clean
    BY <1>2 DEF Status, CaseStates
  <2>2. ok => wk[w].ok /\ ~stops /\ row[2] = "completed"
    BY <2>1
  <2>3. wk[w].sums \o <<row>> \o <<>> = wk[w].sums \o <<row>>
    <3>. HIDE DEF row
    <3>. QED  BY <1>2, <1>6
  <2>. QED  BY <2>2, <2>3
<1>21. (stops => left = <<>>)
       /\ (Covers(wk[w].sums, wk[w].todo, AssignScenarios(w)) => Covers(sums, left, AssignScenarios(w)))
  <2>. SUFFICES ASSUME Covers(wk[w].sums, wk[w].todo, AssignScenarios(w))
                PROVE  Covers(sums, left, AssignScenarios(w))
    OBVIOUS
  <2>1. AssignScenarios(w) \in Seq(Scenarios) /\ row[1] = Head(wk[w].todo)
    BY Shares
  <2>. HIDE DEF row
  <2>2. Covers(wk[w].sums \o <<row>>, rest, AssignScenarios(w)) /\ wk[w].sums \o <<row>> \in Seq(Summaries)
    BY <1>2, <1>6, <2>1, CoversGrow
  <2>3. CASE stops
    <3>1. /\ skipped = [i \in 1 .. Len(rest) |-> <<rest[i], Skipped(c), FALSE>>]
          /\ left = <<>> /\ sums = wk[w].sums \o <<row>> \o skipped
      BY <2>3
    <3>2. skipped \in Seq(Summaries)
      <4>. HIDE DEF rest, skipped, c
      <4>1. \A i \in 1 .. Len(rest) : <<rest[i], Skipped(c), FALSE>> \in Summaries
        <5>1. \A i \in 1 .. Len(rest) : rest[i] \in Scenarios
          BY <1>4
        <5>. QED  BY <1>5, <5>1 DEF Summaries
      <4>2. skipped \in [1 .. Len(rest) -> Summaries]
        BY <3>1, <4>1
      <4>. QED  BY <1>4, <4>2
    <3>. HIDE DEF rest, skipped, c, left, sums
    <3>. QED  BY <1>4, <2>1, <2>2, <3>1, <3>2, CoversSkipped
  <2>4. CASE ~stops
    <3>1. left = rest /\ sums = wk[w].sums \o <<row>> \o <<>>
      BY <2>4
    <3>2. wk[w].sums \o <<row>> \o <<>> = wk[w].sums \o <<row>>
      BY <2>2
    <3>. HIDE DEF left, sums, rest
    <3>. QED  BY <2>2, <3>1, <3>2
  <2>. QED  BY <2>3, <2>4
<1>10. c.clean \in BOOLEAN /\ (c.clean => rt' = rt)
       /\ (~c.clean => rt' = [state |-> "quarantined", workers |-> rt.workers \cup {w}] /\ stops)
  BY <1>1, <1>2 DEF CaseStates, MarkQuarantined
<1>. HIDE DEF c, stops, rest, row, skipped, ok, left, sums, status
<1>. DEFINE t == [wk[w] EXCEPT !.pc = pc, !.ok = ok, !.todo = left, !.sums = sums]
<1>11. /\ t \in Threads /\ t.pc = pc /\ t.case = c /\ t.todo = left
       /\ t.executed = wk[w].executed /\ t.sums = sums /\ t.ok = ok
  BY <1>2, <1>3, <1>7, <1>8, <1>9 DEF Threads, WorkerPcs, c
<1>12. wk' = [wk EXCEPT ![w] = t]
  BY <1>2, <1>3
<1>. HIDE DEF t
<1>13. Thread(w, t)
  BY <1>2, <1>11, <1>12, ThreadMoves
<1>14. wk[w].executed + Len(wk[w].todo) <= NScenarios + 1 /\ wk[w].executed <= NScenarios
       /\ NScenarios \in Nat /\ Len(wk[w].todo) \in Nat
  BY <1>1, <1>2 DEF IInv, ThreadInv, SessionAssumption
<1>15. rt' \in [state : RuntimeStates, workers : SUBSET Workers]
       /\ rt.workers \subseteq rt'.workers /\ (rt'.state = rt.state \/ rt'.state = "quarantined")
       /\ (~c.clean => w \in rt'.workers /\ rt'.state = "quarantined")
  BY <1>2, <1>10 DEF Types, RuntimeStates
<1>16. Types'
  BY <1>1, <1>2, <1>9, <1>13, <1>15 DEF Types, Thread
<1>17. ThreadInv'
  <2>1. wk'[w].executed + Len(wk'[w].todo) <= NScenarios /\ wk'[w].executed <= NScenarios
    BY <1>2, <1>8, <1>11, <1>13, <1>14 DEF Thread
  <2>2. wk'[w].pc \in {"done", "next", "raised"} /\ sn' = sn
    BY <1>1, <1>3, <1>11, <1>13 DEF Thread
  <2>. QED  BY <1>1, <1>13, <2>1, <2>2 DEF IInv, ThreadInv, Thread
<1>18. QuarantineInv'
  <2>1. ASSUME NEW v \in Workers, Reported(wk[v].sums)
        PROVE  v \in rt.workers /\ rt.state \in {"quarantined", "torn_down", "failed"}
    BY <1>1, <2>1 DEF IInv, QuarantineInv
  <2>2. ASSUME NEW v \in Workers, Reported(wk'[v].sums)
        PROVE  v \in rt'.workers /\ rt'.state \in {"quarantined", "torn_down", "failed"}
    BY <1>7, <1>11, <1>13, <1>15, <2>1, <2>2 DEF Thread
  <2>. QED  BY <1>1, <1>15, <2>2 DEF IInv, QuarantineInv
<1>19. LabInv /\ ~MayRaise => LabInv'
  <2>. SUFFICES ASSUME LabInv, ~MayRaise  PROVE LabInv'
    OBVIOUS
  <2>1. wk'[w].pc \in {"done", "next"} /\ (w \in lab => wk'[w].pc = "done" /\ rt'.state = "quarantined")
    BY <1>1, <1>3, <1>10, <1>11, <1>13, <1>15 DEF LabInv, Thread, c
  <2>2. \A v \in Workers : v # w => wk'[v] = wk[v]
    BY <1>13 DEF Thread
  <2>3. lab \subseteq Workers /\ lab' = lab /\ sn' = sn /\ sn.pc = "running"
    BY <1>1, <1>2 DEF Types
  <2>4. rt'.state = "warm" => rt.state = "warm"
    BY <1>15
  <2>. QED  BY <2>1, <2>2, <2>3, <2>4 DEF LabInv
<1>22. CaseInv => CaseInv'
  <2>. SUFFICES ASSUME CaseInv  PROVE CaseInv'
    OBVIOUS
  <2>1. Covers(sums, left, AssignScenarios(w))
    BY <1>21 DEF CaseInv
  <2>2. ok => \A i \in 1 .. Len(sums) : sums[i][2] = "completed"
    <3>. SUFFICES ASSUME ok  PROVE \A i \in 1 .. Len(sums) : sums[i][2] = "completed"
      OBVIOUS
    <3>1. \A i \in 1 .. Len(wk[w].sums) : wk[w].sums[i][2] = "completed"
      BY <1>20 DEF CaseInv
    <3>2. Len(sums) = Len(wk[w].sums) + 1 /\ sums[Len(wk[w].sums) + 1] = row
          /\ \A i \in 1 .. Len(wk[w].sums) : sums[i] = wk[w].sums[i]
      BY <1>2, <1>20
    <3>. QED  BY <1>2, <1>20, <3>1, <3>2, SMTT(30)
  <2>3. pc = "done" => left = <<>>
    BY <1>3, <1>21
  <2>4. /\ wk'[w].sums = sums /\ wk'[w].todo = left /\ wk'[w].ok = ok /\ wk'[w].pc = pc
        /\ \A v \in Workers : v # w => wk'[v] = wk[v]
    BY <1>11, <1>13 DEF Thread
  <2>. QED  BY <1>1, <1>9, <2>1, <2>2, <2>3, <2>4 DEF CaseInv
<1>. QED  BY <1>16, <1>17, <1>18, <1>19, <1>22 DEF IInv

-----------------------------------------------------------------------------
(* The session.                                                            *)

\* When no thread is at work and none begins to be, the threads are sound.
LEMMA ThreadsRest ==
    ASSUME IInv, UNCHANGED wk, \A w \in Workers : wk[w].pc \in {"off", "done", "raised"},
           sn'.pc \notin {"running", "provision", "check"}
    PROVE  ThreadInv'
BY DEF IInv, ThreadInv

\* The runtime's record of failed cleanups outlives a step that keeps the
\* threads, the workers on it and the fact that it is warm no longer.
LEMMA QuarantineRests ==
    ASSUME IInv, UNCHANGED wk, sn.pc \notin {"idle", "provision"}, sn'.pc # "running",
           rt.workers \subseteq rt'.workers,
           rt'.state = rt.state \/ rt'.state \in {"quarantined", "torn_down", "failed"}
    PROVE  QuarantineInv'
<1>1. ASSUME NEW w \in Workers, Reported(wk[w].sums)
      PROVE  w \in rt'.workers /\ rt'.state \in {"quarantined", "torn_down", "failed"}
  BY <1>1 DEF IInv, QuarantineInv
<1>2. \A w \in Workers : Reported(wk'[w].sums) <=> Reported(wk[w].sums)
  BY DEF Reported
<1>. QED  BY <1>1, <1>2 DEF QuarantineInv

\* The session's own fields, one by one.
LEMMA SessionMoves ==
    ASSUME sn \in Sessions, NEW pc \in SessionPcs, NEW failed \in BOOLEAN, NEW dirty \in BOOLEAN
    PROVE  /\ [sn EXCEPT !.pc = pc] \in Sessions /\ [sn EXCEPT !.pc = pc].pc = pc
           /\ [sn EXCEPT !.failed = failed, !.pc = pc] \in Sessions
           /\ [sn EXCEPT !.failed = failed, !.pc = pc].pc = pc
           /\ [sn EXCEPT !.pc = pc, !.dirty = dirty] \in Sessions
           /\ [sn EXCEPT !.pc = pc, !.dirty = dirty].pc = pc
BY DEF Sessions

LEMMA FailureMoves ==
    ASSUME sn \in Sessions, ExecutionFails
    PROVE  sn' \in Sessions /\ sn'.pc \in {"teardown", "idle"}
<1>1. "teardown" \in SessionPcs /\ "idle" \in SessionPcs
  BY DEF SessionPcs
<1>. QED  BY <1>1, SessionMoves DEF ExecutionFails

\* A session begins: every thread is fresh.
LEMMA BeginKeeps ==
    ASSUME SessionAssumption, IInv, RunWithExistingRuntime \/ RunWithPlatformRuntime
    PROVE  IInv' /\ (LabInv => LabInv')
<1>1. /\ sn.pc = "idle" /\ sn.n < NSessions /\ UNCHANGED <<rt, lab>> /\ run' = NoRun /\ cancel' = FALSE
      /\ wk' = [w \in Workers |-> Fresh(w)]
  BY DEF RunWithExistingRuntime, RunWithPlatformRuntime
<1>2. sn' \in Sessions /\ sn'.pc \in {"check", "provision"}
  <2>1. sn \in Sessions /\ sn.n + 1 \in 0 .. NSessions
    BY <1>1 DEF IInv, Types, Sessions, SessionAssumption
  <2>2. NoControl \in Controls
    BY DEF NoControl, Controls
  <2>3. CASE RunWithExistingRuntime
    <3>1. PICK c \in [on : {TRUE}, stop : BOOLEAN, effects : BOOLEAN] \cup {NoControl} :
             sn' = [sn EXCEPT !.n = @ + 1, !.pc = "check", !.owner = "user", !.keep = TRUE, !.control = c,
                              !.failed = FALSE, !.dirty = FALSE]
      BY <2>3 DEF RunWithExistingRuntime
    <3>2. c \in Controls
      BY <2>2, <3>1 DEF Controls
    <3>. QED  BY <2>1, <3>1, <3>2 DEF Sessions, SessionPcs
  <2>4. CASE RunWithPlatformRuntime
    <3>1. PICK keep \in BOOLEAN :
             sn' = [sn EXCEPT !.n = @ + 1, !.pc = "provision", !.owner = "platform", !.keep = keep,
                              !.control = NoControl, !.failed = FALSE, !.dirty = FALSE]
      BY <2>4 DEF RunWithPlatformRuntime
    <3>. QED  BY <2>1, <2>2, <3>1 DEF Sessions, SessionPcs
  <2>. QED  BY <2>3, <2>4
<1>3. \A w \in Workers : /\ wk'[w] \in Threads /\ wk'[w].pc = "off" /\ wk'[w].sums = <<>>
                         /\ wk'[w].executed = 0 /\ wk'[w].executed + Len(wk'[w].todo) <= NScenarios
  BY <1>1, FreshThreads
<1>4. wk' \in [Workers -> Threads]
  BY <1>1, <1>3
<1>5. Types'
  BY <1>1, <1>2, <1>4 DEF IInv, Types, NoRun, Outcomes
<1>6. ThreadInv'
  BY <1>2, <1>3 DEF ThreadInv, SessionAssumption
<1>7. QuarantineInv'
  <2>1. \A w \in Workers : ~Reported(wk'[w].sums)
    BY <1>3 DEF Reported
  <2>. QED  BY <1>2, <2>1 DEF QuarantineInv
<1>8. LabInv => LabInv'
  BY <1>1, <1>2, <1>3 DEF LabInv
<1>. QED  BY <1>5, <1>6, <1>7, <1>8 DEF IInv

LEMMA ProvisionKeeps ==
    ASSUME IInv, ProvisionRuntime
    PROVE  IInv' /\ (LabInv => LabInv')
<1>1. sn.pc = "provision" /\ UNCHANGED <<wk, run, cancel>>
      /\ \/ rt' = [state |-> "warm", workers |-> {}] /\ lab' = {} /\ sn' = [sn EXCEPT !.pc = "check"]
         \/ sn' = [sn EXCEPT !.pc = "idle"] /\ UNCHANGED <<rt, lab>>
  BY DEF ProvisionRuntime
<1>2. sn' \in Sessions /\ sn'.pc \in {"check", "idle"}
      /\ (sn'.pc = "check" => lab' = {} /\ rt' = [state |-> "warm", workers |-> {}])
      /\ (sn'.pc = "idle" => UNCHANGED <<rt, lab>>)
  <2>1. sn \in Sessions /\ "check" \in SessionPcs /\ "idle" \in SessionPcs
    BY DEF IInv, Types, SessionPcs
  <2>. QED  BY <1>1, <2>1, SessionMoves
<1>3. Types'
  BY <1>1, <1>2 DEF IInv, Types, RuntimeStates
<1>4. \A w \in Workers : wk[w].pc = "off" /\ wk[w].sums = <<>>
  BY <1>1 DEF IInv, ThreadInv
<1>5. ThreadInv'
  BY <1>1, <1>2, <1>4 DEF IInv, ThreadInv
<1>6. QuarantineInv'
  BY <1>1, <1>2, <1>4 DEF QuarantineInv, Reported
<1>7. LabInv => LabInv'
  BY <1>1, <1>2 DEF LabInv
<1>. QED  BY <1>3, <1>5, <1>6, <1>7 DEF IInv

\* Only a warm runtime is worked on (execute_on_runtime_pool).
LEMMA ExecuteKeeps ==
    ASSUME SessionAssumption, IInv, ExecuteOnRuntimePool
    PROVE  IInv' /\ (LabInv => LabInv')
<1>1. sn.pc = "check" /\ UNCHANGED <<rt, lab, run, cancel>> /\ sn \in Sessions /\ Types
  BY DEF ExecuteOnRuntimePool, IInv, Types
<1>2. \A w \in Workers : wk[w].pc = "off" /\ wk[w].sums = <<>> /\ wk[w] \in Threads
                         /\ wk[w].executed + Len(wk[w].todo) <= NScenarios /\ wk[w].executed <= NScenarios
  BY <1>1 DEF IInv, ThreadInv, Types
<1>3. CASE rt.state = "warm" /\ sn' = [sn EXCEPT !.pc = "running"]
           /\ wk' = [w \in Workers |-> [wk[w] EXCEPT !.pc = "next"]]
  <2>1. sn' \in Sessions /\ sn'.pc = "running"
    BY <1>1, <1>3, SessionMoves DEF SessionPcs
  <2>2. \A w \in Workers : /\ wk'[w] \in Threads /\ wk'[w].pc = "next" /\ wk'[w].sums = <<>>
                           /\ wk'[w].executed = wk[w].executed /\ wk'[w].todo = wk[w].todo
    BY <1>2, <1>3 DEF Threads, WorkerPcs
  <2>3. wk' \in [Workers -> Threads]
    BY <1>3, <2>2
  <2>4. Types'
    BY <1>1, <2>1, <2>3 DEF Types
  <2>5. ThreadInv'
    BY <1>2, <2>1, <2>2 DEF ThreadInv
  <2>6. QuarantineInv'
    BY <1>1, <1>3, <2>1, <2>2 DEF QuarantineInv, Reported
  <2>7. LabInv => LabInv'
    BY <1>1, <1>3, <2>1, <2>2 DEF LabInv
  <2>. QED  BY <2>4, <2>5, <2>6, <2>7 DEF IInv
<1>4. CASE rt.state # "warm" /\ ExecutionFails /\ UNCHANGED wk
  <2>1. sn' \in Sessions /\ sn'.pc \in {"teardown", "idle"}
    BY <1>1, <1>4, FailureMoves
  <2>2. Types'
    BY <1>1, <1>4, <2>1 DEF Types
  <2>3. ThreadInv'
    BY <1>2, <1>4, <2>1, ThreadsRest
  <2>4. QuarantineInv'
    BY <1>1, <1>4, <2>1, QuarantineRests
  <2>5. LabInv => LabInv'
    BY <1>1, <1>4, <2>1 DEF LabInv
  <2>. QED  BY <2>2, <2>3, <2>4, <2>5 DEF IInv
<1>. QED  BY <1>3, <1>4 DEF ExecuteOnRuntimePool

\* The threads have all ended: their results are collected, or lost.
LEMMA DispatchKeeps ==
    ASSUME IInv, DispatchWorkers
    PROVE  IInv' /\ (LabInv => LabInv')
<1>1. /\ sn.pc = "running" /\ UNCHANGED <<lab, wk, cancel>> /\ sn \in Sessions /\ Types
      /\ \A w \in Workers : wk[w].pc \in {"done", "raised"}
  BY DEF DispatchWorkers, IInv, Types
<1>2. /\ sn' \in Sessions /\ sn'.pc \in {"report", "teardown", "idle"}
      /\ run' = run \/ run' = [run EXCEPT !.rows = Rows]
      /\ rt' = rt \/ \E ws \in SUBSET Workers : MarkQuarantined(ws)
  <2>1. CASE ExecutionFails /\ UNCHANGED <<rt, run>>
    BY <1>1, <2>1, FailureMoves
  <2>2. CASE /\ LET failures == {w \in Workers : \E r \in ToSet(wk[w].sums) : r[3]}
                IN IF failures # {} THEN MarkQuarantined(failures) ELSE UNCHANGED rt
             /\ run' = [run EXCEPT !.rows = Rows]
             /\ sn' = [sn EXCEPT !.pc = "report"]
    <3>. DEFINE failures == {w \in Workers : \E r \in ToSet(wk[w].sums) : r[3]}
    <3>1. failures \in SUBSET Workers
      OBVIOUS
    <3>2. IF failures # {} THEN MarkQuarantined(failures) ELSE UNCHANGED rt
      BY <2>2
    <3>. HIDE DEF failures
    <3>3. rt' = rt \/ \E ws \in SUBSET Workers : MarkQuarantined(ws)
      BY <3>1, <3>2
    <3>4. sn' \in Sessions /\ sn'.pc = "report"
      BY <1>1, <2>2, SessionMoves DEF SessionPcs
    <3>. QED  BY <2>2, <3>3, <3>4
  <2>. QED  BY <2>1, <2>2 DEF DispatchWorkers
<1>3. /\ rt' \in [state : RuntimeStates, workers : SUBSET Workers] /\ rt.workers \subseteq rt'.workers
      /\ rt'.state = rt.state \/ rt'.state = "quarantined"
  BY <1>1, <1>2 DEF Types, RuntimeStates, MarkQuarantined
<1>4. Types'
  BY <1>1, <1>2, <1>3 DEF Types, Outcomes
<1>5. ThreadInv'
  BY <1>1, <1>2, ThreadsRest
<1>6. QuarantineInv'
  BY <1>1, <1>2, <1>3, QuarantineRests
<1>7. LabInv => LabInv'
  BY <1>1, <1>2, <1>3 DEF LabInv, Types
<1>. QED  BY <1>4, <1>5, <1>6, <1>7 DEF IInv

\* The report, the metadata, the final report, and the end of the runtime.
LEMMA ReportKeeps ==
    ASSUME IInv, SaveRunReport \/ SaveRunMetadata \/ FinalizeLifecycleReport
    PROVE  IInv' /\ (LabInv => LabInv')
<1>1. /\ sn.pc \in {"report", "metadata", "finalize"} /\ UNCHANGED <<rt, lab, wk, cancel>>
      /\ sn \in Sessions /\ Types
  BY DEF SaveRunReport, SaveRunMetadata, FinalizeLifecycleReport, IInv, Types
<1>2. sn' \in Sessions /\ sn'.pc \in {"metadata", "teardown", "idle"}
  <2>1. CASE ExecutionFails
    BY <1>1, <2>1, FailureMoves
  <2>2. CASE \E pc \in {"metadata", "teardown", "idle"} : sn' = [sn EXCEPT !.pc = pc]
    <3>1. PICK pc \in {"metadata", "teardown", "idle"} : sn' = [sn EXCEPT !.pc = pc]
      BY <2>2
    <3>2. pc \in SessionPcs
      BY DEF SessionPcs
    <3>. QED  BY <1>1, <3>1, <3>2, SessionMoves
  <2>. QED  BY <2>1, <2>2 DEF SaveRunReport, SaveRunMetadata, FinalizeLifecycleReport
<1>3. /\ run'.report \in Outcomes /\ run'.meta \in Outcomes
      /\ run' = [report |-> run'.report, meta |-> run'.meta, teardown |-> run'.teardown, rows |-> run'.rows]
  <2>1. run.report \in Outcomes /\ run.meta \in Outcomes
        /\ run = [report |-> run.report, meta |-> run.meta, teardown |-> run.teardown, rows |-> run.rows]
    BY <1>1 DEF Types
  <2>2. ReportStatus \in Outcomes /\ "failed" \in Outcomes
    BY DEF ReportStatus, Outcomes
  <2>. QED  BY <2>1, <2>2 DEF SaveRunReport, SaveRunMetadata, FinalizeLifecycleReport
<1>4. Types'
  BY <1>1, <1>2, <1>3 DEF Types
<1>5. ThreadInv'
  <2>1. \A w \in Workers : wk[w].pc \in {"off", "done", "raised"}
    BY <1>1 DEF IInv, ThreadInv
  <2>. QED  BY <1>1, <1>2, <2>1, ThreadsRest
<1>6. QuarantineInv'
  BY <1>1, <1>2, QuarantineRests
<1>7. LabInv => LabInv'
  BY <1>1, <1>2 DEF LabInv
<1>. QED  BY <1>4, <1>5, <1>6, <1>7 DEF IInv

LEMMA TeardownKeeps ==
    ASSUME IInv, TeardownRuntime \/ OwnerTeardown
    PROVE  IInv' /\ (LabInv => LabInv')
<1>1. /\ sn.pc \in {"teardown", "idle"} /\ UNCHANGED <<wk, run, cancel>> /\ sn \in Sessions /\ Types
      /\ (sn.pc = "teardown" => TeardownRuntime) /\ (sn.pc = "idle" => sn' = sn)
  BY DEF TeardownRuntime, OwnerTeardown, IInv, Types
<1>2. sn' \in Sessions /\ sn'.pc \in {"finalize", "idle"} /\ (sn.pc = "teardown" => sn'.pc = "finalize")
  <2>1. "finalize" \in SessionPcs
    BY DEF SessionPcs
  <2>2. CASE sn.pc = "teardown"
    <3>1. \/ sn' = [sn EXCEPT !.pc = "finalize"]
          \/ sn' = [sn EXCEPT !.pc = "finalize", !.dirty = TRUE]
      BY <1>1, <2>2 DEF TeardownRuntime
    <3>. QED  BY <1>1, <2>1, <2>2, <3>1, SessionMoves
  <2>. QED  BY <1>1, <2>2
<1>3. \/ UNCHANGED <<rt, lab>>
      \/ \E state \in {"torn_down", "failed"} : rt' = [rt EXCEPT !.state = state] /\ lab' \in {{}, lab}
  BY DEF TeardownRuntime, OwnerTeardown
<1>4. /\ rt' \in [state : RuntimeStates, workers : SUBSET Workers] /\ rt'.workers = rt.workers
      /\ rt' = rt \/ rt'.state \in {"torn_down", "failed"}
      /\ lab' \in {{}, lab} /\ (rt' = rt => lab' \in {{}, lab})
  BY <1>1, <1>3 DEF Types, RuntimeStates
<1>5. Types'
  BY <1>1, <1>2, <1>4 DEF Types
<1>6. ThreadInv'
  <2>1. \A w \in Workers : wk[w].pc \in {"off", "done", "raised"}
    BY <1>1 DEF IInv, ThreadInv
  <2>. QED  BY <1>1, <1>2, <2>1, ThreadsRest
<1>7. QuarantineInv'
  <2>1. CASE sn.pc = "teardown"
    BY <1>1, <1>2, <1>4, <2>1, QuarantineRests
  <2>2. CASE sn.pc = "idle"
    BY <1>1, <1>2, <2>2 DEF QuarantineInv
  <2>. QED  BY <1>1, <2>1, <2>2
<1>8. LabInv => LabInv'
  BY <1>1, <1>2, <1>4 DEF LabInv
<1>. QED  BY <1>5, <1>6, <1>7, <1>8 DEF IInv

LEMMA StutterInv ==
    ASSUME UNCHANGED vars
    PROVE  /\ (IInv => IInv') /\ (LabInv => LabInv') /\ (CaseInv => CaseInv')
           /\ (RunInv => RunInv') /\ (RowsInv => RowsInv')
<1>1. (IInv => IInv') /\ (LabInv => LabInv')
  BY DEF vars, IInv, Types, ThreadInv, QuarantineInv, Reported, LabInv
<1>2. (CaseInv => CaseInv') /\ (RunInv => RunInv') /\ (RowsInv => RowsInv')
  BY DEF vars, CaseInv, Covers, RunInv, RowsInv, Rows, AllWell
<1>. QED  BY <1>1, <1>2

LEMMA CancelKeeps ==
    ASSUME IInv, Cancel
    PROVE  IInv' /\ (LabInv => LabInv')
<1>1. Types'
  BY DEF Cancel, IInv, Types
<1>. QED  BY <1>1 DEF Cancel, IInv, ThreadInv, QuarantineInv, Reported, LabInv

-----------------------------------------------------------------------------
(* What becomes of the scenarios.                                          *)

\* What a worker is assigned, one by one.
LEMMA ShareIs ==
    ASSUME SessionAssumption, NEW w \in Workers
    PROVE  LET share == AssignScenarios(w)
               n == (NScenarios + NWorkers - 1 - w) \div NWorkers
           IN  /\ n \in Nat /\ NWorkers * n \in Nat
               /\ NWorkers * n <= NScenarios + NWorkers - 1 - w
               /\ NScenarios + NWorkers - 1 - w < NWorkers * n + NWorkers
               /\ Len(share) = n
               /\ \A k \in 1 .. n : share[k] = NWorkers * (k - 1) + w + 1
<1>. DEFINE n == (NScenarios + NWorkers - 1 - w) \div NWorkers
            r == (NScenarios + NWorkers - 1 - w) % NWorkers
<1>1. w \in Nat /\ w <= NWorkers - 1 /\ NWorkers \in Nat /\ NWorkers > 0 /\ NScenarios \in Nat
  BY DEF SessionAssumption, Workers
<1>2. NScenarios + NWorkers - 1 - w \in Nat
  BY <1>1
<1>3. n \in Nat /\ r \in 0 .. NWorkers - 1 /\ NScenarios + NWorkers - 1 - w = NWorkers * n + r
  BY <1>1, <1>2
<1>4. AssignScenarios(w) = [k \in 1 .. n |-> (k - 1) * NWorkers + w + 1]
  BY DEF AssignScenarios
<1>. HIDE DEF n, r
<1>5. NWorkers * n \in Nat /\ \A k \in 1 .. n : (k - 1) * NWorkers = NWorkers * (k - 1)
  BY <1>1, <1>3
<1>6. AssignScenarios(w) \in Seq(Scenarios)
  BY Shares
<1>7. Len(AssignScenarios(w)) = n
  BY <1>3, <1>4, <1>6
<1>8. \A k \in 1 .. n : AssignScenarios(w)[k] = NWorkers * (k - 1) + w + 1
  BY <1>4, <1>5
<1>. QED  BY <1>1, <1>3, <1>5, <1>7, <1>8 DEF n

\* Quotient and remainder are unique.
LEMMA OneDivision ==
    ASSUME NEW d \in Nat, NEW a \in Nat, NEW b \in Nat, NEW v \in 0 .. d - 1, NEW w \in 0 .. d - 1,
           d * a + v = d * b + w
    PROVE  a = b /\ v = w
<1>1. ASSUME NEW x \in Nat, NEW y \in Nat, x < y  PROVE d * x + d <= d * y
  <2>1. d * (x + 1) <= d * y
    BY <1>1
  <2>2. d * (x + 1) = d * x + d
    OBVIOUS
  <2>. QED  BY <2>1, <2>2
<1>2. d * a \in Nat /\ d * b \in Nat
  OBVIOUS
<1>3. ~(a < b) /\ ~(b < a)
  BY <1>1, <1>2
<1>. QED  BY <1>2, <1>3

\* Equal numbers that are one more than a multiple and a remainder.
LEMMA ProductIsNat ==
    ASSUME NEW a \in Nat, NEW b \in Nat
    PROVE  a * b \in Nat
OBVIOUS

LEMMA SameDivision ==
    ASSUME NEW d \in Nat, NEW a \in Nat, NEW b \in Nat, NEW v \in 0 .. d - 1, NEW w \in 0 .. d - 1,
           d * a + v + 1 = d * b + w + 1
    PROVE  a = b /\ v = w
<1>. DEFINE x == d * a
            y == d * b
<1>1. x \in Nat /\ y \in Nat /\ v \in Nat /\ w \in Nat
  BY ProductIsNat
<1>2. x + v + 1 = y + w + 1
  OBVIOUS
<1>. HIDE DEF x, y
<1>3. x + v = y + w
  BY <1>1, <1>2
<1>. QED  BY <1>3, OneDivision DEF x, y

\* No two summaries are of the same scenario.
LEMMA OneSummaryEach ==
    ASSUME SessionAssumption, CaseInv, NEW v \in Workers, NEW w \in Workers,
           NEW i \in 1 .. Len(wk[v].sums), NEW j \in 1 .. Len(wk[w].sums),
           wk[v].sums \in Seq(Summaries), wk[w].sums \in Seq(Summaries),
           wk[v].todo \in Seq(Scenarios), wk[w].todo \in Seq(Scenarios),
           wk[v].sums[i][1] = wk[w].sums[j][1]
    PROVE  v = w /\ i = j
<1>1. ASSUME NEW u \in Workers, NEW k \in 1 .. Len(wk[u].sums),
             wk[u].sums \in Seq(Summaries), wk[u].todo \in Seq(Scenarios)
      PROVE  k \in Nat /\ k > 0 /\ wk[u].sums[k][1] = NWorkers * (k - 1) + u + 1
  <2>. DEFINE n == (NScenarios + NWorkers - 1 - u) \div NWorkers
              done == Len(wk[u].sums)
              left == Len(wk[u].todo)
  <2>1. /\ n \in Nat /\ Len(AssignScenarios(u)) = n
        /\ \A m \in 1 .. n : AssignScenarios(u)[m] = NWorkers * (m - 1) + u + 1
    BY ShareIs
  <2>. HIDE DEF n
  <2>2. done \in Nat /\ left \in Nat
    BY <1>1
  <2>3. done + left = n /\ wk[u].sums[k][1] = AssignScenarios(u)[k]
    BY <1>1, <2>1 DEF CaseInv, Covers
  <2>4. k \in 1 .. done
    OBVIOUS
  <2>. HIDE DEF done, left
  <2>5. n \in Nat
    BY <2>1
  <2>6. done + left = n
    BY <2>3
  <2>7. k \in 1 .. n /\ k \in Nat /\ k > 0
    BY <2>2, <2>4, <2>5, <2>6
  <2>. QED  BY <2>1, <2>3, <2>7
<1>2. /\ i \in Nat /\ i > 0 /\ wk[v].sums[i][1] = NWorkers * (i - 1) + v + 1
      /\ j \in Nat /\ j > 0 /\ wk[w].sums[j][1] = NWorkers * (j - 1) + w + 1
  BY <1>1
<1>. DEFINE p == i - 1
            q == j - 1
<1>3. /\ v \in 0 .. NWorkers - 1 /\ w \in 0 .. NWorkers - 1 /\ p \in Nat /\ q \in Nat
      /\ NWorkers \in Nat
  BY <1>2 DEF Workers, SessionAssumption
<1>4. NWorkers * p + v + 1 = NWorkers * q + w + 1
  BY <1>2
<1>5. p = q => i = j
  BY <1>2
<1>. HIDE DEF p, q
<1>6. \A d, a, b \in Nat : \A x, y \in 0 .. d - 1 : d * a + x + 1 = d * b + y + 1 => a = b /\ x = y
  BY SameDivision
<1>7. NWorkers * p + v + 1 = NWorkers * q + w + 1 => p = q /\ v = w
  BY ONLY <1>3, <1>6, ZenonT(30)
<1>. QED  BY <1>4, <1>5, <1>7

\* Every scenario has one summary, of one worker.
EveryScenarioOnce ==
    /\ \A s \in Scenarios : \E w \in Workers : \E i \in 1 .. Len(wk[w].sums) : wk[w].sums[i][1] = s
    /\ \A v, w \in Workers : \A i \in 1 .. Len(wk[v].sums), j \in 1 .. Len(wk[w].sums) :
          wk[v].sums[i][1] = wk[w].sums[j][1] => v = w /\ i = j

LEMMA NothingLeft ==
    ASSUME SessionAssumption, IInv, CaseInv, \A w \in Workers : wk[w].todo = <<>>
    PROVE  EveryScenarioOnce
<1>1. NWorkers \in Nat /\ NWorkers > 0 /\ NScenarios \in Nat
  BY DEF SessionAssumption
<1>2. ASSUME NEW w \in Workers
      PROVE  LET n == (NScenarios + NWorkers - 1 - w) \div NWorkers
             IN  /\ n \in Nat /\ Len(wk[w].sums) = n
                 /\ \A i \in 1 .. n : wk[w].sums[i][1] = NWorkers * (i - 1) + w + 1
  <2>. DEFINE n == (NScenarios + NWorkers - 1 - w) \div NWorkers
  <2>1. /\ n \in Nat /\ Len(AssignScenarios(w)) = n
        /\ \A k \in 1 .. n : AssignScenarios(w)[k] = NWorkers * (k - 1) + w + 1
    BY ShareIs
  <2>. HIDE DEF n
  <2>2. Covers(wk[w].sums, <<>>, AssignScenarios(w))
    BY DEF CaseInv
  <2>3. Len(wk[w].sums) + 0 = n /\ \A i \in 1 .. Len(wk[w].sums) : wk[w].sums[i][1] = AssignScenarios(w)[i]
    <3>1. Len(<<>>) = 0
      OBVIOUS
    <3>. QED  BY <2>1, <2>2, <3>1 DEF Covers
  <2>4. Len(wk[w].sums) = n
    <3>1. CASE Len(wk[w].sums) \in Nat
      BY <2>1, <2>3, <3>1
    <3>. QED  BY <2>3, <3>1
  <2>. QED  BY <2>1, <2>3, <2>4 DEF n
<1>3. ASSUME NEW s \in Scenarios
      PROVE  \E w \in Workers : \E i \in 1 .. Len(wk[w].sums) : wk[w].sums[i][1] = s
  <2>. DEFINE w == (s - 1) % NWorkers
              q == (s - 1) \div NWorkers
  <2>1. /\ s - 1 \in Nat /\ s <= NScenarios /\ w \in 0 .. NWorkers - 1 /\ q \in Nat
        /\ s - 1 = NWorkers * q + w
    BY <1>1 DEF Scenarios
  <2>. HIDE DEF w, q
  <2>2. w \in Workers
    BY <2>1 DEF Workers
  <2>. DEFINE n == (NScenarios + NWorkers - 1 - w) \div NWorkers
  <2>3. /\ n \in Nat /\ NWorkers * n \in Nat /\ NScenarios + NWorkers - 1 - w < NWorkers * n + NWorkers
        /\ Len(wk[w].sums) = n
        /\ \A i \in 1 .. n : wk[w].sums[i][1] = NWorkers * (i - 1) + w + 1
    BY <1>2, <2>2, ShareIs
  <2>. HIDE DEF n
  <2>4. q < n
    <3>. SUFFICES ASSUME n <= q  PROVE FALSE
      BY <2>1, <2>3
    <3>1. NWorkers * n <= NWorkers * q /\ NWorkers * q \in Nat
      BY <1>1, <2>1, <2>3
    <3>2. s \in Nat
      BY DEF Scenarios
    <3>. DEFINE a == NWorkers * n
                b == NWorkers * q
    <3>3. /\ a \in Nat /\ b \in Nat /\ a <= b /\ s - 1 = b + w /\ s <= NScenarios
          /\ NScenarios + NWorkers - 1 - w < a + NWorkers /\ w \in Nat
      BY <2>1, <2>3, <3>1
    <3>. HIDE DEF a, b
    <3>. QED  BY <1>1, <3>2, <3>3
  <2>5. q + 1 \in 1 .. n /\ (q + 1) - 1 = q
    BY <2>1, <2>3, <2>4
  <2>6. wk[w].sums[q + 1][1] = NWorkers * q + w + 1
    BY <2>3, <2>5
  <2>7. NWorkers * q + w + 1 = s
    BY <1>1, <2>1 DEF Scenarios
  <2>. QED  BY <2>2, <2>3, <2>5, <2>6, <2>7
<1>4. \A v, w \in Workers : \A i \in 1 .. Len(wk[v].sums), j \in 1 .. Len(wk[w].sums) :
        wk[v].sums[i][1] = wk[w].sums[j][1] => v = w /\ i = j
  BY OneSummaryEach, Fields DEF IInv
<1>. QED  BY <1>3, <1>4 DEF EveryScenarioOnce

\* A thread that has no case to summarize leaves its summaries alone.
LEMMA CaseGoes ==
    ASSUME IInv, CaseInv, NEW w \in Workers,
           \/ NextCase(w) \/ PrepareCase(w) \/ AgentAnswers(w) \/ DiagnosisEnds(w)
           \/ CleanupCase(w) \/ SaveResult(w)
    PROVE  CaseInv'
<1>1. wk \in [Workers -> Threads] /\ wk[w].pc \notin {"off", "done", "raised"}
  BY DEF IInv, Types, NextCase, PrepareCase, AgentAnswers, DiagnosisEnds, CleanupCase, SaveResult
<1>2. sn.pc = "running" /\ sn' = sn /\ cancel' = cancel
  BY <1>1, AtWork DEF NextCase, PrepareCase, AgentAnswers, DiagnosisEnds, CleanupCase, SaveResult
<1>3. \A v \in Workers : v # w => wk'[v] = wk[v]
  BY <1>1 DEF NextCase, PrepareCase, AgentAnswers, DiagnosisEnds, CleanupCase, SaveResult
<1>4. /\ wk'[w].sums = wk[w].sums /\ wk'[w].todo = wk[w].todo /\ (wk'[w].ok => wk[w].ok)
      /\ wk'[w].pc = "done" => wk[w].todo = <<>> \/ (cancel /\ ~wk'[w].ok)
  <2>1. CASE NextCase(w)
    <3>1. CASE wk' = [wk EXCEPT ![w].pc = "prepare", ![w].case = NoCase]
      BY <1>1, <3>1 DEF Threads
    <3>2. CASE cancel /\ wk' = [wk EXCEPT ![w].pc = "done", ![w].ok = FALSE]
      BY <1>1, <3>2 DEF Threads
    <3>3. CASE wk[w].todo = <<>> /\ wk' = [wk EXCEPT ![w].pc = "done"]
      BY <1>1, <3>3 DEF Threads
    <3>. QED  BY <2>1, <3>1, <3>2, <3>3 DEF NextCase
  <2>2. CASE PrepareCase(w)
    <3>1. ASSUME NEW pc, pc # "done", wk' = [wk EXCEPT ![w].case.valid = TRUE, ![w].pc = pc,
                                             ![w].case.success = sn.control.effects]
          PROVE  /\ wk'[w].sums = wk[w].sums /\ wk'[w].todo = wk[w].todo /\ wk'[w].ok = wk[w].ok
                 /\ wk'[w].pc = pc
      BY <1>1, <3>1 DEF Threads
    <3>2. CASE wk' = [wk EXCEPT ![w].pc = "cleanup"]
      BY <1>1, <3>2 DEF Threads
    <3>3. \/ \E pc \in {"cleanup", "diagnose"} :
                wk' = [wk EXCEPT ![w].case.valid = TRUE, ![w].pc = pc, ![w].case.success = sn.control.effects]
          \/ wk' = [wk EXCEPT ![w].pc = "cleanup"]
      BY <2>2 DEF PrepareCase
    <3>. QED  BY <3>1, <3>2, <3>3
  <2>3. CASE AgentAnswers(w) \/ DiagnosisEnds(w)
    BY <1>1, <2>3 DEF AgentAnswers, DiagnosisEnds, Threads
  <2>4. CASE CleanupCase(w)
    <3>1. CASE wk' = [wk EXCEPT ![w].pc = "save", ![w].executed = @ + 1]
      BY <1>1, <3>1 DEF Threads
    <3>2. CASE wk' = [wk EXCEPT ![w].pc = "save", ![w].executed = @ + 1, ![w].case.clean = FALSE]
      BY <1>1, <3>2 DEF Threads
    <3>. QED  BY <2>4, <3>1, <3>2 DEF CleanupCase
  <2>5. CASE SaveResult(w)
    BY <1>1, <2>5, ZenonT(40) DEF SaveResult, Threads
  <2>. QED  BY <2>1, <2>2, <2>3, <2>4, <2>5
<1>. QED  BY <1>2, <1>3, <1>4 DEF CaseInv

\* A share of which nothing is done yet.
LEMMA CoversNothing ==
    ASSUME SessionAssumption, NEW w \in Workers
    PROVE  Covers(<<>>, AssignScenarios(w), AssignScenarios(w))
<1>1. Len(<<>>) = 0 /\ Len(AssignScenarios(w)) \in Nat
  BY Shares
<1>2. \A i \in 1 .. Len(AssignScenarios(w)) : 0 + i = i
  BY <1>1
<1>. QED  BY <1>1, <1>2 DEF Covers

\* The session's own steps leave the summaries alone, or start afresh.
LEMMA CaseBegins ==
    ASSUME SessionAssumption, IInv, RunWithExistingRuntime \/ RunWithPlatformRuntime
    PROVE  CaseInv' /\ RunInv'
<1>1. wk' = [w \in Workers |-> Fresh(w)] /\ run' = NoRun
  BY DEF RunWithExistingRuntime, RunWithPlatformRuntime
<1>2. sn'.pc \in {"check", "provision"}
  BY DEF RunWithExistingRuntime, RunWithPlatformRuntime, IInv, Types, Sessions
<1>3. ASSUME NEW w \in Workers
      PROVE  /\ Covers(wk'[w].sums, wk'[w].todo, AssignScenarios(w))
             /\ wk'[w].sums = <<>> /\ wk'[w].pc = "off"
  <2>1. wk'[w].sums = <<>> /\ wk'[w].todo = AssignScenarios(w) /\ wk'[w].pc = "off"
    BY <1>1 DEF Fresh
  <2>. QED  BY <2>1, CoversNothing
<1>4. CaseInv'
  BY <1>2, <1>3 DEF CaseInv
<1>. QED  BY <1>1, <1>2, <1>4 DEF RunInv, NoRun

LEMMA CaseRests ==
    ASSUME CaseInv, UNCHANGED wk, cancel => cancel', sn'.pc = "report" => \A w \in Workers : wk[w].pc = "done"
    PROVE  CaseInv'
BY DEF CaseInv

LEMMA CaseStep ==
    ASSUME SessionAssumption, IInv, CaseInv, Next
    PROVE  CaseInv'
<1>1. CASE RunWithExistingRuntime \/ RunWithPlatformRuntime
  BY <1>1, CaseBegins
<1>2. ASSUME \/ ProvisionRuntime \/ SaveRunReport \/ SaveRunMetadata \/ TeardownRuntime
             \/ FinalizeLifecycleReport \/ OwnerTeardown \/ Done
      PROVE  CaseInv'
  <2>1. UNCHANGED <<wk, cancel>> /\ sn'.pc # "report"
    BY <1>2 DEF ProvisionRuntime, SaveRunReport, SaveRunMetadata, TeardownRuntime,
       FinalizeLifecycleReport, OwnerTeardown, Done, vars, ExecutionFails, IInv, Types, Sessions
  <2>. QED  BY <2>1, CaseRests
<1>3. CASE Cancel
  BY <1>3, CaseRests DEF Cancel
<1>4. CASE ExecuteOnRuntimePool
  <2>1. CASE ExecutionFails /\ UNCHANGED <<wk, cancel>>
    <3>1. sn'.pc \in {"teardown", "idle"}
      BY <2>1, FailureMoves DEF IInv, Types
    <3>. QED  BY <2>1, <3>1, CaseRests
  <2>2. CASE sn' = [sn EXCEPT !.pc = "running"] /\ wk' = [w \in Workers |-> [wk[w] EXCEPT !.pc = "next"]]
             /\ UNCHANGED cancel
    <3>1. sn'.pc = "running" /\ wk \in [Workers -> Threads]
      BY <2>2 DEF IInv, Types, Sessions
    <3>2. \A w \in Workers : /\ wk'[w].sums = wk[w].sums /\ wk'[w].todo = wk[w].todo
                             /\ wk'[w].ok = wk[w].ok /\ wk'[w].pc = "next"
      BY <2>2, <3>1 DEF Threads
    <3>. QED  BY <3>1, <3>2 DEF CaseInv
  <2>. QED  BY <1>4, <2>1, <2>2 DEF ExecuteOnRuntimePool
<1>5. CASE DispatchWorkers
  <2>1. UNCHANGED <<wk, cancel>> /\ (sn'.pc = "report" => \A w \in Workers : wk[w].pc = "done")
    <3>1. CASE ExecutionFails
      BY <1>5, <3>1, FailureMoves DEF IInv, Types, DispatchWorkers
    <3>2. CASE \A w \in Workers : wk[w].pc = "done"
      BY <1>5, <3>2 DEF DispatchWorkers
    <3>. QED  BY <1>5, <3>1, <3>2 DEF DispatchWorkers
  <2>. QED  BY <2>1, CaseRests
<1>6. ASSUME NEW w \in Workers, WorkerStep(w) \/ AgentAnswers(w)
      PROVE  CaseInv'
  BY <1>6, CaseGoes, SummarizeKeeps DEF WorkerStep
<1>. QED  BY <1>1, <1>2, <1>3, <1>4, <1>5, <1>6 DEF Next, SessionStep

LEMMA RunStep ==
    ASSUME SessionAssumption, IInv, CaseInv, RunInv, Next
    PROVE  RunInv'
<1>. USE DEF IInv, Types, Sessions
<1>1. CASE RunWithExistingRuntime \/ RunWithPlatformRuntime
  BY <1>1, CaseBegins
<1>2. ASSUME UNCHANGED <<sn, run>>, sn.pc = "running"
      PROVE  RunInv'
  BY <1>2 DEF RunInv
<1>3. CASE Cancel
  BY <1>2, <1>3 DEF Cancel
<1>4. ASSUME NEW w \in Workers, WorkerStep(w) \/ AgentAnswers(w)
      PROVE  RunInv'
  <2>1. wk[w].pc \notin {"off", "done", "raised"} /\ UNCHANGED <<sn, run>>
    BY <1>4 DEF WorkerStep, NextCase, PrepareCase, AgentAnswers, DiagnosisEnds, CleanupCase, SaveResult,
       SummarizeCase
  <2>. QED  BY <1>2, <2>1, AtWork
<1>5. CASE OwnerTeardown \/ Done
  BY <1>5 DEF OwnerTeardown, Done, vars, RunInv, AllWell
<1>6. CASE ProvisionRuntime
  BY <1>6 DEF ProvisionRuntime, RunInv, AllWell
\* A failure of the execution leaves a report that is not there yet, or one to be completed.
<1>7. ASSUME ExecutionFails, UNCHANGED <<run, wk>>, sn.pc \in {"check", "running", "report", "metadata"}
      PROVE  RunInv'
  <2>1. sn'.owner = sn.owner /\ sn'.pc = IF sn.owner = "platform" THEN "teardown" ELSE "idle"
    BY <1>7 DEF ExecutionFails
  <2>. QED  BY <1>7, <2>1 DEF RunInv, AllWell
<1>8. CASE ExecuteOnRuntimePool
  <2>1. CASE sn' = [sn EXCEPT !.pc = "running"] /\ run' = run /\ sn.pc = "check"
    BY <2>1 DEF RunInv
  <2>. QED  BY <1>7, <1>8, <2>1 DEF ExecuteOnRuntimePool
<1>9. CASE DispatchWorkers
  <2>1. CASE sn' = [sn EXCEPT !.pc = "report"] /\ run' = [run EXCEPT !.rows = Rows] /\ sn.pc = "running"
    <3>1. run'.report = run.report /\ run'.meta = run.meta /\ run'.teardown = run.teardown
      BY <2>1
    <3>2. sn'.pc = "report"
      BY <2>1
    <3>. QED  BY <2>1, <3>1, <3>2 DEF RunInv
  <2>. QED  BY <1>7, <1>9, <2>1 DEF DispatchWorkers
<1>10. CASE SaveRunReport
  <2>1. CASE /\ run' = [run EXCEPT !.report = ReportStatus, !.teardown = Planned]
             /\ sn' = [sn EXCEPT !.pc = "metadata"] /\ sn.pc = "report" /\ UNCHANGED wk
    <3>1. run'.report = ReportStatus /\ sn'.pc = "metadata"
      BY <2>1
    <3>2. ReportStatus = "completed" => AllWell
      BY <2>1 DEF ReportStatus, AllWell, CaseInv
    <3>3. ReportStatus # "none"
      BY DEF ReportStatus
    <3>. QED  BY <2>1, <3>1, <3>2, <3>3 DEF RunInv, AllWell
  <2>. QED  BY <1>7, <1>10, <2>1 DEF SaveRunReport
<1>11. CASE SaveRunMetadata
  <2>1. CASE /\ run' = [run EXCEPT !.meta = run.report] /\ UNCHANGED wk /\ sn.pc = "metadata"
             /\ sn' = [sn EXCEPT !.pc = IF sn.owner = "platform" THEN "teardown" ELSE "idle"]
    <3>1. run'.report = run.report /\ sn'.owner = sn.owner
          /\ sn'.pc = IF sn.owner = "platform" THEN "teardown" ELSE "idle"
      BY <2>1
    <3>. QED  BY <2>1, <3>1 DEF RunInv, AllWell
  <2>. QED  BY <1>7, <1>11, <2>1 DEF SaveRunMetadata
<1>12. CASE TeardownRuntime
  <2>1. sn'.pc = "finalize" /\ UNCHANGED <<run, wk>> /\ sn.pc = "teardown"
    BY <1>12 DEF TeardownRuntime
  <2>. QED  BY <2>1 DEF RunInv, AllWell
<1>13. CASE FinalizeLifecycleReport
  <2>. DEFINE failed == sn.failed \/ sn.dirty
              report == IF failed \/ run.report = "none" THEN "failed" ELSE run.report
  <2>1. /\ run'.report = report /\ run'.meta = report /\ run'.teardown = FinalTeardown
        /\ sn' = [sn EXCEPT !.pc = "idle"] /\ UNCHANGED wk
    BY <1>13 DEF FinalizeLifecycleReport
  <2>2. sn'.pc = "idle" /\ sn'.failed = sn.failed /\ sn'.dirty = sn.dirty
    BY <2>1
  <2>3. report # "none" /\ (report = "completed" => ~sn.failed /\ ~sn.dirty /\ run.report = "completed")
    OBVIOUS
  <2>4. FinalTeardown # "pending"
    BY DEF FinalTeardown
  <2>. HIDE DEF report, failed
  <2>. QED  BY <2>1, <2>2, <2>3, <2>4 DEF RunInv, AllWell
<1>. QED
  BY <1>1, <1>3, <1>4, <1>5, <1>6, <1>8, <1>9, <1>10, <1>11, <1>12, <1>13 DEF Next, SessionStep


-----------------------------------------------------------------------------

(***************************************************************************)
(* The rows of the report.  FlattenSeq appends the sequences one after the *)
(* other; what holds of the first n of them for every n holds of the       *)
(* result, and a first n for which it does not hold there is not.          *)
(***************************************************************************)

\* A set of numbers has a least one.
LEMMA LeastOf ==
    ASSUME NEW failing \in SUBSET Nat, failing # {}
    PROVE  \E n \in failing : \A m \in failing : ~(m < n)
<1>1. PICK n \in failing : \A m \in failing : ~(<<m, n>> \in OpToRel(<, Nat))
  BY NatLessThanWellFounded, WFMin
<1>2. \A ss \in Nat \X Nat : ss[1] < ss[2] => ss \in OpToRel(<, Nat)
  BY DEF OpToRel
<1>. QED  BY <1>1, <1>2

\* What FlattenSeq has appended after n of the sequences.
Appended(f, seqs, n) == f = [i \in 1 .. n |-> IF i = 1 THEN seqs[i] ELSE f[i - 1] \o seqs[i]]

LEMMA CanAppend ==
    ASSUME NEW seqs, NEW n \in Nat
    PROVE  \E f : Appended(f, seqs, n)
<1>. DEFINE failing == {k \in Nat : ~ \E f : Appended(f, seqs, k)}
<1>1. SUFFICES ASSUME failing # {} PROVE FALSE
  OBVIOUS
<1>2. PICK k \in failing : \A m \in failing : ~(m < k)
  BY <1>1, LeastOf
<1>3. CASE k = 0
  <2>. DEFINE f == [i \in 1 .. 0 |-> {}]
  <2>1. 1 .. 0 = {}
    OBVIOUS
  <2>2. f = [i \in 1 .. 0 |-> IF i = 1 THEN seqs[i] ELSE f[i - 1] \o seqs[i]]
    BY <2>1
  <2>. QED  BY <1>2, <1>3, <2>2 DEF Appended
<1>4. CASE k # 0
  <2>1. k - 1 \in Nat /\ k \in Nat /\ k > 0 /\ k - 1 < k
    BY <1>2, <1>4
  <2>2. k - 1 \notin failing
    BY <1>2, <2>1
  <2>3. PICK f : Appended(f, seqs, k - 1)
    BY <2>1, <2>2
  <2>. DEFINE g == [i \in 1 .. k |-> IF i = k THEN (IF i = 1 THEN seqs[i] ELSE f[i - 1] \o seqs[i]) ELSE f[i]]
  <2>4. ASSUME NEW i \in 1 .. k
        PROVE  g[i] = IF i = 1 THEN seqs[i] ELSE g[i - 1] \o seqs[i]
    <3>1. i # 1 => i - 1 \in 1 .. k /\ i - 1 # k
      BY <2>1
    <3>2. i # 1 => g[i - 1] = f[i - 1]
      BY <3>1
    <3>3. CASE i = k
      BY <3>2, <3>3
    <3>4. CASE i # k
      <4>1. i \in 1 .. k - 1
        BY <2>1, <3>4
      <4>2. g[i] = f[i]
        BY <3>4
      <4>3. f[i] = IF i = 1 THEN seqs[i] ELSE f[i - 1] \o seqs[i]
        BY <2>3, <4>1 DEF Appended
      <4>. QED  BY <3>2, <4>2, <4>3
    <3>. QED  BY <3>3, <3>4
  <2>5. g = [i \in 1 .. k |-> IF i = 1 THEN seqs[i] ELSE g[i - 1] \o seqs[i]]
    BY <2>4
  <2>6. Appended(g, seqs, k)
    BY <2>5 DEF Appended
  <2>. QED  BY <1>2, <2>6
<1>. QED  BY <1>3, <1>4

LEMMA FlattenAppends ==
    ASSUME NEW S, NEW seqs \in Seq(S), seqs # <<>>
    PROVE  \E f : Appended(f, seqs, Len(seqs)) /\ FlattenSeq(seqs) = f[Len(seqs)]
<1>1. Len(seqs) \in Nat /\ Len(seqs) # 0
  OBVIOUS
<1>2. \E f : Appended(f, seqs, Len(seqs))
  BY <1>1, CanAppend
<1>. DEFINE f == CHOOSE f : Appended(f, seqs, Len(seqs))
<1>3. Appended(f, seqs, Len(seqs))
  BY <1>2
<1>4. FlattenSeq(seqs) = f[Len(seqs)]
  BY <1>1 DEF FlattenSeq, Appended
<1>. QED  BY <1>3, <1>4

\* The elements of q are those of the first n sequences, and elements of the
\* sequences that differ in place do so in their first component, also in q.
Holds(q, seqs, n) ==
    /\ \A i \in 1 .. Len(q) : \E m \in 1 .. n : \E j \in 1 .. Len(seqs[m]) : q[i] = seqs[m][j]
    /\ \A m \in 1 .. n : \A j \in 1 .. Len(seqs[m]) : \E i \in 1 .. Len(q) : q[i] = seqs[m][j]
Distinct(q) == \A i, j \in 1 .. Len(q) : q[i][1] = q[j][1] => i = j
AllDistinct(seqs, n) ==
    \A l, m \in 1 .. n : \A i \in 1 .. Len(seqs[l]), j \in 1 .. Len(seqs[m]) :
        seqs[l][i][1] = seqs[m][j][1] => l = m /\ i = j

LEMMA AppendOne ==
    ASSUME NEW S, NEW N \in Nat, NEW seqs \in [1 .. N -> Seq(S)], NEW n \in 1 .. N, AllDistinct(seqs, N),
           NEW q \in Seq(S), IF n = 1 THEN q = <<>> ELSE Holds(q, seqs, n - 1) /\ Distinct(q)
    PROVE  LET r == q \o seqs[n] IN r \in Seq(S) /\ Holds(r, seqs, n) /\ Distinct(r)
<1>. DEFINE p == seqs[n]
            r == q \o p
            a == Len(q)
            b == Len(p)
<1>1. p \in Seq(S) /\ r \in Seq(S) /\ a \in Nat /\ b \in Nat
  OBVIOUS
<1>2. /\ Len(r) = a + b
      /\ \A i \in 1 .. a : r[i] = q[i]
      /\ \A i \in 1 .. b : r[a + i] = p[i]
  BY <1>1
<1>3. n = 1 => a = 0
  OBVIOUS
<1>4. /\ \A i \in 1 .. a : \E m \in 1 .. n - 1 : \E j \in 1 .. Len(seqs[m]) : q[i] = seqs[m][j]
      /\ \A m \in 1 .. n - 1 : \A j \in 1 .. Len(seqs[m]) : \E i \in 1 .. a : q[i] = seqs[m][j]
      /\ \A i, j \in 1 .. a : q[i][1] = q[j][1] => i = j
  <2>1. CASE n = 1
    <3>1. 1 .. a = {} /\ 1 .. n - 1 = {}
      BY <2>1
    <3>. QED  BY <3>1
  <2>2. CASE n # 1
    BY <2>2 DEF Holds, Distinct
  <2>. QED  BY <2>1, <2>2
<1>. HIDE DEF r, a, b
<1>5. n \in Nat /\ n > 0 /\ n - 1 \in Nat /\ N \in Nat /\ n <= N
  OBVIOUS
<1>6. ASSUME NEW i \in 1 .. a + b
      PROVE  \/ i \in 1 .. a
             \/ i \notin 1 .. a /\ \E j \in 1 .. b : i = a + j
  <2>1. CASE i <= a
    BY <1>1, <2>1
  <2>2. CASE ~(i <= a)
    <3>1. i - a \in 1 .. b /\ i = a + (i - a)
      BY <1>1, <2>2
    <3>. QED  BY <1>1, <2>2, <3>1
  <2>. QED  BY <2>1, <2>2
<1>7. /\ \A i \in 1 .. a : i \in 1 .. a + b
      /\ \A j \in 1 .. b : a + j \in 1 .. a + b
      /\ \A m \in 1 .. n - 1 : m \in 1 .. n /\ m # n
      /\ \A m \in 1 .. n : m = n \/ m \in 1 .. n - 1
      /\ n \in 1 .. n
      /\ \A m \in 1 .. n : m \in 1 .. N
  BY <1>1, <1>5
<1>8. Holds(r, seqs, n)
  <2>1. ASSUME NEW i \in 1 .. Len(r)
        PROVE  \E m \in 1 .. n : \E j \in 1 .. Len(seqs[m]) : r[i] = seqs[m][j]
    <3>1. CASE i \in 1 .. a
      <4>1. PICK m \in 1 .. n - 1 : \E j \in 1 .. Len(seqs[m]) : q[i] = seqs[m][j]
        BY <1>4, <3>1
      <4>2. r[i] = q[i] /\ m \in 1 .. n
        BY <1>2, <1>7, <3>1, <4>1
      <4>. QED  BY <4>1, <4>2
    <3>2. CASE \E j \in 1 .. b : i = a + j
      <4>1. PICK j \in 1 .. b : i = a + j
        BY <3>2
      <4>2. r[i] = seqs[n][j] /\ j \in 1 .. Len(seqs[n])
        BY <1>2, <4>1 DEF b
      <4>. QED  BY <1>7, <4>2
    <3>. QED  BY <1>2, <1>6, <3>1, <3>2
  <2>2. ASSUME NEW m \in 1 .. n, NEW j \in 1 .. Len(seqs[m])
        PROVE  \E i \in 1 .. Len(r) : r[i] = seqs[m][j]
    <3>1. CASE m \in 1 .. n - 1
      <4>1. PICK i \in 1 .. a : q[i] = seqs[m][j]
        BY <1>4, <3>1
      <4>. QED  BY <1>2, <1>7, <4>1
    <3>2. CASE m = n
      <4>1. j \in 1 .. b
        BY <3>2 DEF b
      <4>. QED  BY <1>2, <1>7, <3>2, <4>1
    <3>. QED  BY <1>7, <3>1, <3>2
  <2>. QED  BY <2>1, <2>2 DEF Holds
<1>9. Distinct(r)
  <2>1. ASSUME NEW i \in 1 .. a, NEW j \in 1 .. b  PROVE q[i][1] # p[j][1]
    <3>1. PICK m \in 1 .. n - 1 : \E k \in 1 .. Len(seqs[m]) : q[i] = seqs[m][k]
      BY <1>4
    <3>2. PICK k \in 1 .. Len(seqs[m]) : q[i] = seqs[m][k]
      BY <3>1
    <3>3. m # n /\ m \in 1 .. N /\ n \in 1 .. N /\ j \in 1 .. Len(seqs[n])
      BY <1>7 DEF b
    <3>. QED  BY <3>2, <3>3 DEF AllDistinct
  <2>2. ASSUME NEW i \in 1 .. b, NEW j \in 1 .. b, p[i][1] = p[j][1]  PROVE i = j
    <3>1. i \in 1 .. Len(seqs[n]) /\ j \in 1 .. Len(seqs[n]) /\ n \in 1 .. N
      BY DEF b
    <3>. QED  BY <2>2, <3>1 DEF AllDistinct
  <2>3. ASSUME NEW i \in 1 .. Len(r), NEW j \in 1 .. Len(r), r[i][1] = r[j][1]
        PROVE  i = j
    <3>1. CASE i \in 1 .. a /\ j \in 1 .. a
      BY <1>2, <1>4, <2>3, <3>1
    <3>2. CASE i \in 1 .. a /\ \E k \in 1 .. b : j = a + k
      BY <1>2, <2>1, <2>3, <3>2
    <3>3. CASE j \in 1 .. a /\ \E k \in 1 .. b : i = a + k
      <4>1. PICK k \in 1 .. b : i = a + k
        BY <3>3
      <4>2. p[k][1] = q[j][1]
        BY <1>2, <2>3, <3>3, <4>1
      <4>. QED  BY <2>1, <3>3, <4>1, <4>2
    <3>4. CASE (\E k \in 1 .. b : i = a + k) /\ (\E k \in 1 .. b : j = a + k)
      <4>1. PICK k \in 1 .. b : i = a + k
        BY <3>4
      <4>2. PICK l \in 1 .. b : j = a + l
        BY <3>4
      <4>3. p[k][1] = p[l][1]
        BY <1>2, <2>3, <4>1, <4>2
      <4>. QED  BY <2>2, <4>1, <4>2, <4>3
    <3>5. i \in 1 .. a + b /\ j \in 1 .. a + b
      BY <1>2
    <3>. QED  BY <1>6, <3>1, <3>2, <3>3, <3>4, <3>5
  <2>. QED  BY <2>3 DEF Distinct
<1>. QED  BY <1>1, <1>8, <1>9 DEF r

LEMMA FlattenHolds ==
    ASSUME NEW S, NEW N \in Nat \ {0}, NEW seqs \in [1 .. N -> Seq(S)], AllDistinct(seqs, N)
    PROVE  FlattenSeq(seqs) \in Seq(S) /\ Holds(FlattenSeq(seqs), seqs, N) /\ Distinct(FlattenSeq(seqs))
<1>1. seqs \in Seq(Seq(S)) /\ Len(seqs) = N /\ seqs # <<>>
  OBVIOUS
<1>2. PICK f : Appended(f, seqs, N) /\ FlattenSeq(seqs) = f[N]
  BY <1>1, FlattenAppends
<1>. DEFINE Good(n) == f[n] \in Seq(S) /\ Holds(f[n], seqs, n) /\ Distinct(f[n])
            failing == {n \in 1 .. N : ~Good(n)}
<1>3. failing = {}
  <2>1. SUFFICES ASSUME failing # {} PROVE FALSE
    OBVIOUS
  <2>2. failing \subseteq Nat
    OBVIOUS
  <2>3. PICK n \in failing : \A m \in failing : ~(m < n)
    BY <2>1, <2>2, LeastOf
  <2>4. n \in 1 .. N /\ ~Good(n)
    BY <2>3
  <2>5. f[n] = IF n = 1 THEN seqs[n] ELSE f[n - 1] \o seqs[n]
    BY <1>2, <2>4 DEF Appended
  <2>6. CASE n = 1
    <3>1. <<>> \in Seq(S) /\ seqs[n] \in Seq(S) /\ <<>> \o seqs[n] = seqs[n]
      BY <2>4
    <3>2. Good(n)
      BY <2>4, <2>5, <2>6, <3>1, AppendOne
    <3>. QED  BY <2>4, <3>2
  <2>7. CASE n # 1
    <3>1. n - 1 \in 1 .. N /\ n - 1 < n
      BY <2>4, <2>7
    <3>2. Good(n - 1)
      BY <2>3, <3>1
    <3>. HIDE DEF failing
    <3>3. f[n - 1] \in Seq(S) /\ Holds(f[n - 1], seqs, n - 1) /\ Distinct(f[n - 1])
      BY <3>2
    <3>4. Good(n)
      BY <2>4, <2>5, <2>7, <3>3, AppendOne
    <3>. QED  BY <2>4, <3>4
  <2>. QED  BY <2>6, <2>7
<1>4. N \in 1 .. N
  OBVIOUS
<1>. QED  BY <1>2, <1>3, <1>4

\* The rows of the report follow the threads, which rest once it is made.
LEMMA RowsStep ==
    ASSUME SessionAssumption, IInv, RowsInv, Next
    PROVE  RowsInv'
<1>. USE DEF IInv, Types, Sessions
<1>1. CASE RunWithExistingRuntime \/ RunWithPlatformRuntime
  <2>1. run' = NoRun
    BY <1>1 DEF RunWithExistingRuntime, RunWithPlatformRuntime
  <2>2. run'.rows = <<>>
    BY ONLY <2>1 DEF NoRun
  <2>. QED  BY <2>2 DEF RowsInv
<1>2. ASSUME run' = run, sn.pc \in {"provision", "check", "running"}
      PROVE  RowsInv'
  BY <1>2 DEF RowsInv
<1>3. ASSUME UNCHANGED wk, run'.rows = run.rows, sn'.pc \notin {"provision", "check", "running"}
      PROVE  RowsInv'
  BY <1>3 DEF RowsInv, Rows
<1>4. ASSUME NEW w \in Workers, WorkerStep(w) \/ AgentAnswers(w)
      PROVE  RowsInv'
  <2>1. wk[w].pc \notin {"off", "done", "raised"} /\ run' = run
    BY <1>4 DEF WorkerStep, NextCase, PrepareCase, AgentAnswers, DiagnosisEnds, CleanupCase, SaveResult,
       SummarizeCase
  <2>. QED  BY <1>2, <2>1, AtWork
<1>5. CASE ProvisionRuntime \/ ExecuteOnRuntimePool \/ Cancel
  <2>1. run' = run /\ sn.pc \in {"provision", "check", "running"}
    BY <1>5 DEF ProvisionRuntime, ExecuteOnRuntimePool, Cancel
  <2>. QED  BY <1>2, <2>1
<1>6. CASE DispatchWorkers
  <2>1. CASE ExecutionFails /\ run' = run
    BY <1>2, <1>6, <2>1 DEF DispatchWorkers
  <2>2. CASE /\ \A w \in Workers : wk[w].pc = "done"
             /\ run' = [run EXCEPT !.rows = Rows] /\ sn' = [sn EXCEPT !.pc = "report"] /\ wk' = wk
    <3>1. run'.rows = Rows /\ Rows' = Rows /\ sn'.pc = "report"
      BY <2>2 DEF Rows
    <3>. QED  BY <2>2, <3>1 DEF RowsInv
  <2>. QED  BY <1>6, <2>1, <2>2 DEF DispatchWorkers
<1>7. CASE SaveRunReport \/ SaveRunMetadata \/ TeardownRuntime \/ FinalizeLifecycleReport
  <2>1. UNCHANGED wk /\ sn'.pc \notin {"provision", "check", "running"}
    BY <1>7 DEF SaveRunReport, SaveRunMetadata, TeardownRuntime, FinalizeLifecycleReport, ExecutionFails
  <2>2. run'.rows = run.rows
    BY <1>7 DEF SaveRunReport, SaveRunMetadata, TeardownRuntime, FinalizeLifecycleReport
  <2>. QED  BY <1>3, <2>1, <2>2
<1>8. CASE OwnerTeardown \/ Done
  BY <1>8 DEF OwnerTeardown, Done, vars, RowsInv, Rows
<1>. QED  BY <1>1, <1>4, <1>5, <1>6, <1>7, <1>8 DEF Next, SessionStep

\* The rows are the summaries of the workers, each of them once.
LEMMA RowsAreSummaries ==
    ASSUME SessionAssumption, IInv, CaseInv
    PROVE  /\ Rows \in Seq(Summaries)
           /\ \A i \in 1 .. Len(Rows) : \E w \in Workers : \E j \in 1 .. Len(wk[w].sums) : Rows[i] = wk[w].sums[j]
           /\ \A w \in Workers : \A j \in 1 .. Len(wk[w].sums) : \E i \in 1 .. Len(Rows) : Rows[i] = wk[w].sums[j]
           /\ \A i, j \in 1 .. Len(Rows) : Rows[i][1] = Rows[j][1] => i = j
<1>. DEFINE seqs == [i \in 1 .. NWorkers |-> wk[i - 1].sums]
<1>1. NWorkers \in Nat \ {0}
  BY DEF SessionAssumption
<1>2. /\ \A m \in 1 .. NWorkers : m - 1 \in Workers
      /\ \A w \in Workers : w + 1 \in 1 .. NWorkers /\ (w + 1) - 1 = w
      /\ \A m \in 1 .. NWorkers, n \in 1 .. NWorkers : m - 1 = n - 1 => m = n
  BY <1>1 DEF Workers
<1>3. \A m \in 1 .. NWorkers : seqs[m] = wk[m - 1].sums
  OBVIOUS
<1>4. \A w \in Workers : wk[w].sums \in Seq(Summaries) /\ wk[w].todo \in Seq(Scenarios)
  BY Fields DEF IInv
<1>5. seqs \in [1 .. NWorkers -> Seq(Summaries)]
  BY <1>2, <1>4
<1>6. Rows = FlattenSeq(seqs)
  BY DEF Rows
<1>. HIDE DEF seqs
<1>7. AllDistinct(seqs, NWorkers)
  <2>. SUFFICES ASSUME NEW l \in 1 .. NWorkers, NEW m \in 1 .. NWorkers,
                       NEW i \in 1 .. Len(seqs[l]), NEW j \in 1 .. Len(seqs[m]),
                       seqs[l][i][1] = seqs[m][j][1]
                PROVE  l = m /\ i = j
    BY DEF AllDistinct
  <2>1. l - 1 \in Workers /\ m - 1 \in Workers /\ seqs[l] = wk[l - 1].sums /\ seqs[m] = wk[m - 1].sums
    BY <1>2, <1>3
  <2>2. ASSUME NEW v \in Workers, NEW w \in Workers, v = l - 1, w = m - 1
        PROVE  v = w /\ i = j
    BY <1>4, <2>1, <2>2, OneSummaryEach
  <2>3. l - 1 = m - 1 /\ i = j
    BY <2>1, <2>2
  <2>. QED  BY <1>2, <2>3
<1>8. Rows \in Seq(Summaries) /\ Holds(Rows, seqs, NWorkers) /\ Distinct(Rows)
  BY <1>1, <1>5, <1>6, <1>7, FlattenHolds
<1>9. ASSUME NEW i \in 1 .. Len(Rows)
      PROVE  \E w \in Workers : \E j \in 1 .. Len(wk[w].sums) : Rows[i] = wk[w].sums[j]
  <2>1. PICK m \in 1 .. NWorkers : \E j \in 1 .. Len(seqs[m]) : Rows[i] = seqs[m][j]
    BY <1>8 DEF Holds
  <2>. QED  BY <1>2, <1>3, <2>1
<1>10. ASSUME NEW w \in Workers, NEW j \in 1 .. Len(wk[w].sums)
       PROVE  \E i \in 1 .. Len(Rows) : Rows[i] = wk[w].sums[j]
  <2>1. w + 1 \in 1 .. NWorkers /\ seqs[w + 1] = wk[w].sums
    BY <1>2, <1>3
  <2>2. \A m \in 1 .. NWorkers : \A k \in 1 .. Len(seqs[m]) : \E i \in 1 .. Len(Rows) : Rows[i] = seqs[m][k]
    BY <1>8 DEF Holds
  <2>3. \A k \in 1 .. Len(seqs[w + 1]) : \E i \in 1 .. Len(Rows) : Rows[i] = seqs[w + 1][k]
    BY <2>1, <2>2, Zenon
  <2>. QED  BY <2>1, <2>3
<1>. QED  BY <1>8, <1>9, <1>10 DEF Distinct

\* What the rows say to a reader of the report.
LEMMA RowsImply ==
    ASSUME SessionAssumption, IInv, CaseInv, RunInv, RowsInv
    PROVE  ReportCoversTheSession /\ RunIsAccountedFor
<1>1. /\ Rows \in Seq(Summaries)
      /\ \A i \in 1 .. Len(Rows) : \E w \in Workers : \E j \in 1 .. Len(wk[w].sums) : Rows[i] = wk[w].sums[j]
      /\ \A w \in Workers : \A j \in 1 .. Len(wk[w].sums) : \E i \in 1 .. Len(Rows) : Rows[i] = wk[w].sums[j]
      /\ \A i, j \in 1 .. Len(Rows) : Rows[i][1] = Rows[j][1] => i = j
  BY RowsAreSummaries
<1>2. ASSUME run.rows # <<>>
      PROVE  /\ run.rows = Rows /\ \A w \in Workers : wk[w].pc = "done"
             /\ ToSet(run.rows) = {Rows[i] : i \in 1 .. Len(Rows)}
  <2>1. run.rows = Rows /\ \A w \in Workers : wk[w].pc = "done"
    BY <1>2 DEF RowsInv
  <2>2. DOMAIN Rows = 1 .. Len(Rows)
    BY <1>1
  <2>. QED  BY <2>1, <2>2 DEF ToSet
<1>3. ReportCoversTheSession
  <2>. SUFFICES ASSUME run.rows # <<>>
                PROVE  /\ \A i, j \in 1 .. Len(run.rows) : run.rows[i][1] = run.rows[j][1] => i = j
                       /\ cancel \/ {r[1] : r \in ToSet(run.rows)} = Scenarios
    BY DEF ReportCoversTheSession
  <2>1. ASSUME ~cancel  PROVE {r[1] : r \in ToSet(run.rows)} = Scenarios
    <3>1. EveryScenarioOnce
      BY <1>2, <2>1, NothingLeft DEF CaseInv
    <3>2. ASSUME NEW s \in Scenarios  PROVE \E r \in ToSet(run.rows) : r[1] = s
      <4>1. PICK w \in Workers : \E i \in 1 .. Len(wk[w].sums) : wk[w].sums[i][1] = s
        BY <3>1 DEF EveryScenarioOnce
      <4>. QED  BY <1>1, <1>2, <4>1
    <3>3. ASSUME NEW r \in ToSet(run.rows)  PROVE r[1] \in Scenarios
      <4>1. PICK i \in 1 .. Len(Rows) : r = Rows[i]
        BY <1>2
      <4>2. r \in Summaries
        BY <1>1, <4>1
      <4>. QED  BY <4>2 DEF Summaries
    <3>. QED  BY <3>2, <3>3
  <2>. QED  BY <1>1, <1>2, <2>1
<1>4. ASSUME run.report = "completed", NEW r \in ToSet(run.rows)
      PROVE  r[2] = "completed"
  <2>1. run.rows # <<>>
    BY <1>4 DEF ToSet
  <2>2. PICK i \in 1 .. Len(Rows) : r = Rows[i]
    BY <1>2, <1>4, <2>1
  <2>3. PICK w \in Workers : \E j \in 1 .. Len(wk[w].sums) : Rows[i] = wk[w].sums[j]
    BY <1>1
  <2>. QED  BY <1>4, <2>2, <2>3 DEF RunInv, AllWell, CaseInv
<1>5. RunIsAccountedFor
  BY <1>4 DEF RunIsAccountedFor, RunInv
<1>. QED  BY <1>3, <1>5

-----------------------------------------------------------------------------
(* The theorems.                                                           *)

LEMMA InitInv ==
    ASSUME SessionAssumption, Init
    PROVE  IInv /\ LabInv /\ CaseInv /\ RunInv /\ RowsInv
<1>1. \A w \in Workers : /\ wk[w] \in Threads /\ wk[w].pc = "off" /\ wk[w].sums = <<>>
                         /\ wk[w].executed = 0 /\ wk[w].executed + Len(wk[w].todo) <= NScenarios
  BY FreshThreads DEF Init
<1>2. wk \in [Workers -> Threads]
  BY <1>1 DEF Init
<1>3. Types
  <2>1. rt \in [state : RuntimeStates, workers : SUBSET Workers]
    BY DEF Init, RuntimeStates
  <2>2. NoControl \in Controls /\ 0 \in 0 .. NSessions
    BY DEF NoControl, Controls, SessionAssumption
  <2>3. sn \in Sessions
    BY <2>2 DEF Init, Sessions, SessionPcs
  <2>. QED  BY <1>2, <2>1, <2>3 DEF Init, Types, NoRun, Outcomes
<1>4. ThreadInv
  BY <1>1 DEF Init, ThreadInv, SessionAssumption
<1>5. QuarantineInv /\ LabInv
  BY <1>1 DEF Init, QuarantineInv, LabInv
<1>6. CaseInv
  <2>1. \A w \in Workers : wk[w].todo = AssignScenarios(w)
    BY DEF Init, Fresh
  <2>4. \A i \in 1 .. Len(<<>>) : FALSE
    OBVIOUS
  <2>5. \A w \in Workers : Covers(wk[w].sums, wk[w].todo, AssignScenarios(w))
    BY <1>1, <2>1, CoversNothing
  <2>6. sn.pc = "idle"
    BY DEF Init
  <2>. QED  BY <1>1, <2>4, <2>5, <2>6 DEF CaseInv
<1>7. RunInv /\ RowsInv
  BY DEF Init, RunInv, RowsInv, NoRun
<1>. QED  BY <1>3, <1>4, <1>5, <1>6, <1>7 DEF IInv

LEMMA NextInv ==
    ASSUME SessionAssumption, IInv, Next
    PROVE  IInv' /\ (LabInv /\ ~MayRaise => LabInv')
           /\ (CaseInv => CaseInv') /\ (CaseInv /\ RunInv => RunInv') /\ (RowsInv => RowsInv')
<1>1. ASSUME RunWithExistingRuntime \/ RunWithPlatformRuntime
      PROVE  IInv' /\ (LabInv /\ ~MayRaise => LabInv')
  BY <1>1, BeginKeeps
<1>2. ASSUME SessionStep
      PROVE  IInv' /\ (LabInv /\ ~MayRaise => LabInv')
  BY <1>2, ProvisionKeeps, ExecuteKeeps, DispatchKeeps, ReportKeeps, TeardownKeeps DEF SessionStep
<1>3. ASSUME Cancel \/ OwnerTeardown \/ Done
      PROVE  IInv' /\ (LabInv /\ ~MayRaise => LabInv')
  BY <1>3, CancelKeeps, TeardownKeeps, StutterInv DEF Done
<1>4. ASSUME NEW w \in Workers, WorkerStep(w) \/ AgentAnswers(w)
      PROVE  IInv' /\ (LabInv /\ ~MayRaise => LabInv')
  BY <1>4, NextCaseKeeps, PrepareKeeps, DiagnosisKeeps, CleanupKeeps, SaveKeeps, SummarizeKeeps
     DEF WorkerStep
<1>5. (CaseInv => CaseInv') /\ (CaseInv /\ RunInv => RunInv') /\ (RowsInv => RowsInv')
  BY CaseStep, RunStep, RowsStep
<1>. QED  BY <1>1, <1>2, <1>3, <1>4, <1>5 DEF Next

\* What the invariants say to a reader of the module.
LEMMA InvImplies ==
    ASSUME SessionAssumption
    PROVE  /\ IInv => TypeOK /\ FailedCleanupIsQuarantined
           /\ IInv /\ LabInv => NoCaseOnDirtyLab
           /\ IInv /\ CaseInv /\ RunInv /\ RowsInv => ReportCoversTheSession /\ RunIsAccountedFor
<1>1. IInv => TypeOK
  <2>. SUFFICES ASSUME IInv  PROVE TypeOK
    OBVIOUS
  <2>1. \A w \in Workers :
          /\ wk[w].pc \in WorkerPcs /\ wk[w].executed \in 0 .. NScenarios /\ wk[w].case \in CaseStates
    BY Fields DEF IInv, ThreadInv, SessionAssumption
  <2>2. /\ rt \in [state : RuntimeStates, workers : SUBSET Workers]
        /\ lab \subseteq Workers /\ cancel \in BOOLEAN /\ sn \in Sessions
        /\ run.report \in Outcomes /\ run.meta \in Outcomes
    BY DEF IInv, Types
  <2>. QED  BY <2>1, <2>2 DEF TypeOK, RuntimeStates, Sessions, Controls, SessionPcs, WorkerPcs, CaseStates, Outcomes
<1>2. IInv => FailedCleanupIsQuarantined
  <2>. SUFFICES ASSUME IInv, sn.pc \notin {"idle", "provision"},
                       NEW w \in Workers, NEW r \in ToSet(wk[w].sums), r[3]
                PROVE  w \in rt.workers /\ rt.state \in {"quarantined", "torn_down", "failed"}
    BY DEF FailedCleanupIsQuarantined
  <2>1. wk[w].sums \in Seq(Summaries)
    BY Fields DEF IInv
  <2>2. PICK i \in DOMAIN wk[w].sums : r = wk[w].sums[i]
    BY DEF ToSet
  <2>3. Reported(wk[w].sums)
    BY <2>1, <2>2 DEF Reported
  <2>. QED  BY <2>3 DEF IInv, QuarantineInv
<1>3. IInv /\ LabInv => NoCaseOnDirtyLab
  BY DEF IInv, ThreadInv, LabInv, NoCaseOnDirtyLab
<1>. QED  BY <1>1, <1>2, <1>3, RowsImply

\* However threads, cancellations and sessions interleave, a thread works only
\* in a running session, and a reported failure of cleanup is on record.
THEOREM SessionInvariant ==
    ASSUME SessionAssumption
    PROVE  Spec => []IInv
<1>1. Init => IInv
  BY InitInv
<1>2. IInv /\ [Next]_vars => IInv'
  BY NextInv, StutterInv
<1>. QED  BY <1>1, <1>2, PTL DEF Spec

\* Every variable keeps its type.
THEOREM SessionTypes ==
    ASSUME SessionAssumption
    PROVE  Spec => []TypeOK
BY InvImplies, SessionInvariant, PTL

\* A worker that has reported a failed cleanup stays among the quarantined
\* workers of the runtime, whatever the others report meanwhile and even when
\* one of them raises (mark_quarantined).
THEOREM FailedCleanupsAreRemembered ==
    ASSUME SessionAssumption
    PROVE  Spec => []FailedCleanupIsQuarantined
BY InvImplies, SessionInvariant, PTL

\* When saving and scoring raise nothing, a lab with a fault belongs to a case
\* under way or to a runtime that is warm no longer.
THEOREM LabInvariant ==
    ASSUME SessionAssumption, ~MayRaise
    PROVE  Spec => [](IInv /\ LabInv)
<1>1. Init => IInv /\ LabInv
  BY InitInv
<1>2. IInv /\ LabInv /\ [Next]_vars => IInv' /\ LabInv'
  BY NextInv, StutterInv
<1>. QED  BY <1>1, <1>2, PTL DEF Spec

\* No case starts on a worker whose lab still holds the fault of an earlier
\* case, of this session or of one before (execute_on_runtime_pool).
THEOREM CasesStartClean ==
    ASSUME SessionAssumption, ~MayRaise
    PROVE  Spec => []NoCaseOnDirtyLab
BY InvImplies, LabInvariant, PTL

\* The summaries of a worker follow its assignment, and the report follows the
\* summaries and what the workers say of themselves.
THEOREM CoverInvariant ==
    ASSUME SessionAssumption
    PROVE  Spec => [](IInv /\ CaseInv /\ RunInv /\ RowsInv)
<1>1. Init => IInv /\ CaseInv /\ RunInv /\ RowsInv
  BY InitInv
<1>2. IInv /\ CaseInv /\ RunInv /\ RowsInv /\ [Next]_vars => IInv' /\ CaseInv' /\ RunInv' /\ RowsInv'
  BY NextInv, StutterInv
<1>. QED  BY <1>1, <1>2, PTL DEF Spec

\* The report of a session has one summary for each of its scenarios, no more
\* and no less, also when workers stopped early and skipped theirs; only a
\* cancelled session leaves some out (assign_scenarios_to_workers, _run_worker).
THEOREM ReportsCoverTheSession ==
    ASSUME SessionAssumption
    PROVE  Spec => []ReportCoversTheSession
BY InvImplies, CoverInvariant, PTL

\* Once a session with a runtime of the platform is over, the report is final,
\* its metadata agree, and "completed" is said only of a session that raised
\* nothing, skipped nothing and tore its runtime down or kept it as planned
\* (create_run_report, _finalize_lifecycle_report).
THEOREM RunsAreAccountedFor ==
    ASSUME SessionAssumption
    PROVE  Spec => []RunIsAccountedFor
BY InvImplies, CoverInvariant, PTL

\* A report that says "completed" is one of a session in which every scenario
\* ran, on one worker, and was completed, whoever cancelled meanwhile.
THEOREM CompletedReportsAreEarned ==
    ASSUME SessionAssumption
    PROVE  Spec => [](run.report = "completed" =>
                            /\ EveryScenarioOnce
                            /\ \A w \in Workers : \A i \in 1 .. Len(wk[w].sums) : wk[w].sums[i][2] = "completed")
<1>1. IInv /\ CaseInv /\ RunInv /\ run.report = "completed" =>
        /\ EveryScenarioOnce
        /\ \A w \in Workers : \A i \in 1 .. Len(wk[w].sums) : wk[w].sums[i][2] = "completed"
  BY NothingLeft DEF CaseInv, RunInv, AllWell
<1>. QED  BY <1>1, CoverInvariant, PTL

=============================================================================
