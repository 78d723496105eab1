-------------------------- MODULE SessionDispatch --------------------------
(***************************************************************************)
(* Benchmark sessions on a runtime pool (session/orchestrator.py and       *)
(* session/dispatch.py).  A session reserves a run directory, runs its     *)
(* scenarios on the workers of a runtime, one thread per worker, writes a  *)
(* report and, when the platform provisioned the runtime itself, tears it  *)
(* down.  A case whose cleanup failed leaves its fault in the lab of its   *)
(* worker: the runtime is quarantined and no later session may use it.     *)
(* Sessions follow one another; one runtime is followed at a time.         *)
(***************************************************************************)
EXTENDS Naturals, Sequences, FiniteSets, SequencesExt

CONSTANTS NWorkers,     \* workers of the runtime
          NScenarios,   \* scenarios of a session
          NSessions,    \* bound: sessions run one after the other
          MayRaise      \* saving or scoring a result may raise

VARIABLES rt,      \* the runtime: state and quarantined_workers
          lab,     \* workers whose lab still holds a fault
          sn,      \* the session that runs
          wk,      \* its worker threads
          run,     \* the run directory: report.json and metadata.json
          cancel   \* cancel_event

vars == <<rt, lab, sn, wk, run, cancel>>

Workers == 0 .. NWorkers - 1
Scenarios == 1 .. NScenarios

(***************************************************************************)
(* assign_scenarios_to_workers: scenario i goes to worker (i - 1) modulo   *)
(* the number of workers, in order: worker w has every NWorkers-th one     *)
(* from w + 1 on.                                                          *)
(***************************************************************************)
AssignScenarios(w) == [k \in 1 .. (NScenarios + NWorkers - 1 - w) \div NWorkers |-> (k - 1) * NWorkers + w + 1]

NoCase == [valid |-> FALSE, success |-> FALSE, clean |-> TRUE]
Fresh(w) == [pc |-> "off", todo |-> AssignScenarios(w), case |-> NoCase, executed |-> 0, sums |-> <<>>, ok |-> TRUE]
NoRun == [report |-> "none", meta |-> "none", teardown |-> "none", rows |-> <<>>]
NoControl == [on |-> FALSE, stop |-> FALSE, effects |-> FALSE]

Init == /\ rt \in [state : {"none", "warm"}, workers : {{}}]
        /\ lab = {}
        /\ sn = [n |-> 0, pc |-> "idle", owner |-> "user", keep |-> FALSE, control |-> NoControl,
                 failed |-> FALSE, dirty |-> FALSE]
        /\ wk = [w \in Workers |-> Fresh(w)]
        /\ run = NoRun
        /\ cancel = FALSE

(***************************************************************************)
(* run_on_runtime_*: a session on a runtime the caller owns.  Only the     *)
(* acceptance campaign passes an ExecutionControl.                         *)
(***************************************************************************)
RunWithExistingRuntime ==
    /\ sn.pc = "idle" /\ sn.n < NSessions /\ rt.state # "none"
    /\ \E c \in [on : {TRUE}, stop : BOOLEAN, effects : BOOLEAN] \cup {NoControl} :
          sn' = [sn EXCEPT !.n = @ + 1, !.pc = "check", !.owner = "user", !.keep = TRUE, !.control = c,
                           !.failed = FALSE, !.dirty = FALSE]
    /\ run' = NoRun /\ cancel' = FALSE /\ wk' = [w \in Workers |-> Fresh(w)]
    /\ UNCHANGED <<rt, lab>>

(***************************************************************************)
(* _run_with_platform_runtime: the run id is reserved first, then the      *)
(* runtime is provisioned under its name.  A failure to provision is       *)
(* raised at once: the run directory stays empty.                          *)
(***************************************************************************)
RunWithPlatformRuntime ==
    /\ sn.pc = "idle" /\ sn.n < NSessions /\ rt.state \in {"none", "torn_down"}
    /\ \E keep \in BOOLEAN :
          sn' = [sn EXCEPT !.n = @ + 1, !.pc = "provision", !.owner = "platform", !.keep = keep,
                           !.control = NoControl, !.failed = FALSE, !.dirty = FALSE]
    /\ run' = NoRun /\ cancel' = FALSE /\ wk' = [w \in Workers |-> Fresh(w)]
    /\ UNCHANGED <<rt, lab>>

ProvisionRuntime ==
    /\ sn.pc = "provision"
    /\ \/ /\ rt' = [state |-> "warm", workers |-> {}] /\ lab' = {}
          /\ sn' = [sn EXCEPT !.pc = "check"]
       \/ /\ sn' = [sn EXCEPT !.pc = "idle"] /\ UNCHANGED <<rt, lab>>
    /\ UNCHANGED <<wk, run, cancel>>

(***************************************************************************)
(* execute_on_runtime_pool: an exception goes to the caller; with a        *)
(* platform runtime it is kept until the runtime has been torn down.       *)
(***************************************************************************)
ExecutionFails == sn' = [sn EXCEPT !.failed = TRUE, !.pc = IF sn.owner = "platform" THEN "teardown" ELSE "idle"]

ExecuteOnRuntimePool_AnyState ==
    /\ sn.pc = "check"
    /\ sn' = [sn EXCEPT !.pc = "running"] /\ wk' = [w \in Workers |-> [wk[w] EXCEPT !.pc = "next"]]
    /\ UNCHANGED <<rt, lab, run, cancel>>
ExecuteOnRuntimePool ==
    /\ sn.pc = "check"
    /\ \/ /\ rt.state = "warm"
          /\ sn' = [sn EXCEPT !.pc = "running"] /\ wk' = [w \in Workers |-> [wk[w] EXCEPT !.pc = "next"]]
       \/ rt.state # "warm" /\ ExecutionFails /\ UNCHANGED wk
    /\ UNCHANGED <<rt, lab, run, cancel>>

(***************************************************************************)
(* _run_worker, one case: the cancel_event is looked at before each case.  *)
(* What is left of the assignment gets no summary when it is set.          *)
(***************************************************************************)
NextCase(w) ==
    /\ wk[w].pc = "next"
    /\ \/ /\ wk[w].todo # <<>> /\ ~cancel
          /\ wk' = [wk EXCEPT ![w].pc = "prepare", ![w].case = NoCase]
       \/ /\ wk[w].todo # <<>> /\ cancel
          /\ wk' = [wk EXCEPT ![w].pc = "done", ![w].ok = FALSE]
       \/ /\ wk[w].todo = <<>>
          /\ wk' = [wk EXCEPT ![w].pc = "done"]
    /\ UNCHANGED <<rt, lab, sn, run, cancel>>

(***************************************************************************)
(* run_scenario up to the diagnosis: preparation breaks the case or leaves *)
(* its fault in the lab of the worker.                                     *)
(***************************************************************************)
PrepareCase(w) ==
    /\ wk[w].pc = "prepare"
    /\ \/ ~cancel /\ lab' = lab \cup {w}
          /\ wk' = [wk EXCEPT ![w].case.valid = TRUE, ![w].pc = IF sn.control.effects THEN "cleanup" ELSE "diagnose",
                              ![w].case.success = sn.control.effects]
       \/ wk' = [wk EXCEPT ![w].pc = "cleanup"] /\ lab' \in {lab, lab \cup {w}}
    /\ UNCHANGED <<rt, sn, run, cancel>>

(***************************************************************************)
(* run_agent_diagnose: the agent's task is polled; it answers, it raises   *)
(* (a scored outcome), the cancel_event or its time limit cancels it.      *)
(***************************************************************************)
AgentAnswers(w) ==
    /\ wk[w].pc = "diagnose"
    /\ wk' = [wk EXCEPT ![w].pc = "cleanup", ![w].case.success = TRUE]
    /\ UNCHANGED <<rt, lab, sn, run, cancel>>

DiagnosisEnds_OnCancel(w) ==
    /\ wk[w].pc = "diagnose" /\ cancel
    /\ wk' = [wk EXCEPT ![w].pc = "cleanup"]
    /\ UNCHANGED <<rt, lab, sn, run, cancel>>
DiagnosisEnds(w) ==
    /\ wk[w].pc = "diagnose"
    /\ wk' = [wk EXCEPT ![w].pc = "cleanup"]
    /\ UNCHANGED <<rt, lab, sn, run, cancel>>

(***************************************************************************)
(* The end of run_scenario: cleanup removes the fault or reports that it   *)
(* could not; the result is ready.                                         *)
(***************************************************************************)
CleanupCase(w) ==
    /\ wk[w].pc = "cleanup"
    /\ \/ lab' = lab \ {w} /\ wk' = [wk EXCEPT ![w].pc = "save", ![w].executed = @ + 1]
       \/ /\ w \in lab /\ UNCHANGED lab
          /\ wk' = [wk EXCEPT ![w].pc = "save", ![w].executed = @ + 1, ![w].case.clean = FALSE]
    /\ UNCHANGED <<rt, sn, run, cancel>>

(***************************************************************************)
(* _persist_raw_scenario_result and score_scenario_episode: an exception   *)
(* of either leaves the worker at once (finally: runner.close()).          *)
(***************************************************************************)
SaveResult(w) ==
    /\ wk[w].pc = "save"
    /\ \/ wk' = [wk EXCEPT ![w].pc = "summary"]
       \/ MayRaise /\ wk' = [wk EXCEPT ![w].pc = "raised"]
    /\ UNCHANGED <<rt, lab, sn, run, cancel>>

Status(c) == IF ~c.valid THEN "invalid" ELSE IF c.success /\ c.clean THEN "completed" ELSE "failed"
Skipped(c) == IF c.clean THEN "skipped_execution_failure" ELSE "skipped_infrastructure_failure"

(***************************************************************************)
(* mark_quarantined: under the metadata lock, the workers accumulate.      *)
(***************************************************************************)
MarkQuarantined_Replaces(ws) == rt' = [state |-> "quarantined", workers |-> ws]
MarkQuarantined(ws) == rt' = [state |-> "quarantined", workers |-> rt.workers \cup ws]

(***************************************************************************)
(* The rest of the case: its summary, the quarantine, the on_case hook     *)
(* (which may set the cancel_event for the other workers, or raise) and,   *)
(* when the worker stops here, a summary for every scenario it skips.      *)
(***************************************************************************)
SummarizeCase_SkipsSilently(w) ==
    LET c == wk[w].case
        status == Status(c)
        stops == ~c.clean \/ (sn.control.stop /\ status # "completed")
    IN /\ wk[w].pc = "summary"
       /\ wk' = [wk EXCEPT ![w].pc = IF stops THEN "done" ELSE "next", ![w].ok = @ /\ status = "completed",
                           ![w].sums = @ \o << <<Head(wk[w].todo), status, ~c.clean>> >>, ![w].todo = Tail(@)]
       /\ IF c.clean THEN UNCHANGED rt ELSE MarkQuarantined({w})
       /\ cancel' \in {cancel, cancel \/ (sn.control.on /\ status # "completed")}
       /\ UNCHANGED <<lab, sn, run>>
SummarizeCase(w) ==
    LET c == wk[w].case
        status == Status(c)
        stops == ~c.clean \/ (sn.control.stop /\ status # "completed")
        rest == Tail(wk[w].todo)
        skipped == [i \in 1 .. Len(rest) |-> <<rest[i], Skipped(c), FALSE>>]
    IN /\ wk[w].pc = "summary"
       /\ \E pc \in {IF stops THEN "done" ELSE "next"} \cup (IF MayRaise /\ sn.control.on THEN {"raised"} ELSE {}) :
             wk' = [wk EXCEPT ![w].pc = pc, ![w].ok = @ /\ status = "completed",
                           ![w].todo = IF stops THEN <<>> ELSE rest,
                           ![w].sums = @ \o << <<Head(wk[w].todo), status, ~c.clean>> >>
                                         \o (IF stops THEN skipped ELSE <<>>)]
       /\ IF c.clean THEN UNCHANGED rt ELSE MarkQuarantined({w})
       /\ cancel' \in {cancel, cancel \/ (sn.control.on /\ status # "completed")}
       /\ UNCHANGED <<lab, sn, run>>

(***************************************************************************)
(* The caller cancels a session it has given a cancel_event to.            *)
(***************************************************************************)
Cancel == /\ sn.pc = "running" /\ sn.control.on /\ ~cancel /\ cancel' = TRUE
          /\ UNCHANGED <<rt, lab, sn, wk, run>>

(***************************************************************************)
(* _dispatch_workers: the pool is left only when every worker thread has   *)
(* ended.  An exception of one of them loses the results of all; otherwise *)
(* they are collected in worker order and what they say of cleanup is      *)
(* marked again.                                                           *)
(***************************************************************************)
Rows == FlattenSeq([i \in 1 .. NWorkers |-> wk[i - 1].sums])

DispatchWorkers ==
    /\ sn.pc = "running" /\ \A w \in Workers : wk[w].pc \in {"done", "raised"}
    /\ \/ /\ \E w \in Workers : wk[w].pc = "raised"
          /\ ExecutionFails /\ UNCHANGED <<rt, run>>
       \/ /\ \A w \in Workers : wk[w].pc = "done"
          /\ LET failures == {w \in Workers : \E r \in ToSet(wk[w].sums) : r[3]}
             IN IF failures # {} THEN MarkQuarantined(failures) ELSE UNCHANGED rt
          /\ run' = [run EXCEPT !.rows = Rows]
          /\ sn' = [sn EXCEPT !.pc = "report"]
    /\ UNCHANGED <<lab, wk, cancel>>

(***************************************************************************)
(* create_run_report, save_run_report and save_run_metadata, in this       *)
(* order; either write may fail.                                           *)
(***************************************************************************)
ReportStatus == IF \A w \in Workers : wk[w].ok THEN "completed" ELSE "failed"
Planned == IF sn.owner = "user" THEN "skipped" ELSE IF sn.keep THEN "preserved" ELSE "pending"

SaveRunReport ==
    /\ sn.pc = "report"
    /\ \/ /\ run' = [run EXCEPT !.report = ReportStatus, !.teardown = Planned]
          /\ sn' = [sn EXCEPT !.pc = "metadata"]
       \/ MayRaise /\ ExecutionFails /\ UNCHANGED run
    /\ UNCHANGED <<rt, lab, wk, cancel>>

SaveRunMetadata ==
    /\ sn.pc = "metadata"
    /\ \/ /\ run' = [run EXCEPT !.meta = run.report]
          /\ sn' = [sn EXCEPT !.pc = IF sn.owner = "platform" THEN "teardown" ELSE "idle"]
       \/ MayRaise /\ ExecutionFails /\ UNCHANGED run
    /\ UNCHANGED <<rt, lab, wk, cancel>>

(***************************************************************************)
(* The runtime of the platform is torn down, whatever the execution did,   *)
(* unless it is to be kept; teardown may fail.                             *)
(***************************************************************************)
TeardownRuntime ==
    /\ sn.pc = "teardown"
    /\ \/ /\ sn.keep /\ UNCHANGED <<rt, lab>>
          /\ sn' = [sn EXCEPT !.pc = "finalize"]
       \/ /\ ~sn.keep /\ rt' = [rt EXCEPT !.state = "torn_down"] /\ lab' = {}
          /\ sn' = [sn EXCEPT !.pc = "finalize"]
       \/ /\ ~sn.keep /\ rt' = [rt EXCEPT !.state = "failed"] /\ UNCHANGED lab
          /\ sn' = [sn EXCEPT !.pc = "finalize", !.dirty = TRUE]
    /\ UNCHANGED <<wk, run, cancel>>

(***************************************************************************)
(* _finalize_lifecycle_report: the saved report, or a failed one when      *)
(* there is none, is completed with the teardown and the failures; the     *)
(* metadata follow it.                                                     *)
(***************************************************************************)
FinalTeardown == IF sn.keep THEN "preserved" ELSE IF sn.dirty THEN "failed" ELSE "performed"
FinalizeLifecycleReport_KeepsMetadata ==
    /\ sn.pc = "finalize"
    /\ LET failed == sn.failed \/ sn.dirty
           report == IF failed \/ run.report = "none" THEN "failed" ELSE run.report
       IN run' = [run EXCEPT !.report = report, !.meta = IF @ = "none" THEN report ELSE @, !.teardown = FinalTeardown]
    /\ sn' = [sn EXCEPT !.pc = "idle"]
    /\ UNCHANGED <<rt, lab, wk, cancel>>
FinalizeLifecycleReport ==
    /\ sn.pc = "finalize"
    /\ LET failed == sn.failed \/ sn.dirty
           report == IF failed \/ run.report = "none" THEN "failed" ELSE run.report
       IN run' = [run EXCEPT !.report = report, !.meta = report, !.teardown = FinalTeardown]
    /\ sn' = [sn EXCEPT !.pc = "idle"]
    /\ UNCHANGED <<rt, lab, wk, cancel>>

(***************************************************************************)
(* The owner of a kept runtime tears it down between sessions.             *)
(***************************************************************************)
OwnerTeardown == /\ sn.pc = "idle" /\ rt.state \notin {"none", "torn_down"}
                 /\ rt' = [rt EXCEPT !.state = "torn_down"] /\ lab' = {}
                 /\ UNCHANGED <<sn, wk, run, cancel>>

WorkerStep(w) == \/ NextCase(w) \/ PrepareCase(w) \/ DiagnosisEnds(w) \/ CleanupCase(w) \/ SaveResult(w)
                 \/ SummarizeCase(w)
SessionStep == \/ ProvisionRuntime \/ ExecuteOnRuntimePool \/ DispatchWorkers \/ SaveRunReport
               \/ SaveRunMetadata \/ TeardownRuntime \/ FinalizeLifecycleReport

Done == /\ sn.pc = "idle" /\ sn.n = NSessions /\ rt.state \in {"none", "torn_down"} /\ UNCHANGED vars

Next == \/ RunWithExistingRuntime \/ RunWithPlatformRuntime \/ SessionStep \/ Cancel \/ OwnerTeardown \/ Done
        \/ \E w \in Workers : WorkerStep(w) \/ AgentAnswers(w)

(***************************************************************************)
(* Threads run.  A diagnosis ends by its own time limit, so an agent that  *)
(* never answers owes nothing; callers owe neither sessions nor teardown.  *)
(***************************************************************************)
Spec == /\ Init /\ [][Next]_vars /\ WF_vars(SessionStep)
        /\ \A w \in Workers : WF_vars(WorkerStep(w))

-----------------------------------------------------------------------------

\* Type invariant of the session, its workers and its run directory.
TypeOK ==
    /\ rt \in [state : {"none", "warm", "quarantined", "torn_down", "failed"}, workers : SUBSET Workers]
    /\ lab \subseteq Workers /\ cancel \in BOOLEAN
    /\ sn \in [n : 0 .. NSessions, owner : {"user", "platform"}, keep : BOOLEAN, failed : BOOLEAN, dirty : BOOLEAN,
               control : [on : BOOLEAN, stop : BOOLEAN, effects : BOOLEAN],
               pc : {"idle", "provision", "check", "running", "report", "metadata", "teardown", "finalize"}]
    /\ \A w \in Workers :
          /\ wk[w].pc \in {"off", "next", "prepare", "diagnose", "cleanup", "save", "summary", "done", "raised"}
          /\ wk[w].executed \in 0 .. NScenarios
          /\ wk[w].case \in [valid : BOOLEAN, success : BOOLEAN, clean : BOOLEAN]
    /\ run.report \in {"none", "completed", "failed"} /\ run.meta \in {"none", "completed", "failed"}

\* The report of a session has one summary for each of its scenarios, no more
\* and no less, also when workers stopped early and skipped theirs; only a
\* cancelled session may leave scenarios out (dispatch.py: _run_worker).
ReportCoversTheSession ==
    run.report # "none" /\ run.rows # <<>> =>
        /\ \A i, j \in 1 .. Len(run.rows) : run.rows[i][1] = run.rows[j][1] => i = j
        /\ cancel \/ {r[1] : r \in ToSet(run.rows)} = Scenarios

\* A worker that has reported a failed cleanup stays among the quarantined
\* workers of the runtime, whatever the other workers report meanwhile and
\* even when one of them raises (manager.py: mark_quarantined).
FailedCleanupIsQuarantined ==
    sn.pc \notin {"idle", "provision"} =>
        \A w \in Workers : (\E r \in ToSet(wk[w].sums) : r[3]) =>
            /\ w \in rt.workers
            /\ rt.state \in {"quarantined", "torn_down", "failed"}

\* No case starts on a worker whose lab still holds the fault of an earlier
\* case, of this session or of one before (manager.py: mark_quarantined;
\* execute_on_runtime_pool turns a quarantined runtime down).
NoCaseOnDirtyLab == \A w \in Workers : wk[w].pc = "prepare" => w \notin lab

\* When a session with a runtime of the platform is over, its report and its
\* metadata exist and agree, they say "completed" only of a session that raised
\* nothing, skipped nothing and tore its runtime down, and "pending" never stays.
RunIsAccountedFor ==
    sn.pc = "idle" /\ sn.owner = "platform" /\ run.teardown # "none" =>
        /\ run.report = run.meta /\ run.report # "none" /\ run.teardown # "pending"
        /\ run.report = "completed" =>
              /\ ~sn.failed /\ ~sn.dirty
              /\ \A r \in ToSet(run.rows) : r[2] = "completed"

NoSession == sn.pc = "idle"

\* A session that has begun ends, although agents may never answer
\* (run_agent_diagnose bounds the diagnosis; the pool waits for its threads).
SessionEnds == ~NoSession ~> NoSession
=============================================================================
