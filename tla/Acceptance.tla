----------------------------- MODULE Acceptance -----------------------------
(***************************************************************************)
(* The acceptance campaign (session/acceptance.py) and its resource        *)
(* monitor (runtime/resources.py).  A process takes the scales one after   *)
(* the other: it creates a runtime, freezes the cases, deploys and warms   *)
(* the lab, runs the pending cases of every backend and releases the lab.  *)
(* What it has done is kept in `result' and written to acceptance.json at  *)
(* its checkpoints; the process may die at any moment and be resumed from  *)
(* that file.  A smoke phase is a phase with its own backends and cases.   *)
(***************************************************************************)
EXTENDS Naturals, FiniteSets

CONSTANTS NScales,     \* phases of the campaign
          NBackends,   \* backends of a phase
          NCases,      \* selected cases of a phase
          NProcesses   \* bound: processes started or resumed

VARIABLES disk,     \* acceptance.json
          result,   \* the process's own copy of it
          lab,      \* per scale: the runtime named in the record
          dirty,    \* per scale: a fault is in its lab
          p,        \* the process
          started   \* processes so far

vars == <<disk, result, lab, dirty, p, started>>

Scales == 1 .. NScales
Backends == 1 .. NBackends
Cases == 1 .. NCases

(***************************************************************************)
(* An entry of result["scales"]; cases counts the complete records of each *)
(* case, a record that is not complete is not looked at again.             *)
(***************************************************************************)
NoEntry == [runtime |-> FALSE, status |-> "none", frozen |-> FALSE, plan |-> FALSE, redeployed |-> FALSE,
            cases |-> [b \in Backends |-> [c \in Cases |-> 0]]]
NewResult == [status |-> "none", scales |-> [s \in Scales |-> NoEntry]]
NoFile == [NewResult EXCEPT !.status = "absent"]
NoProcess == [pc |-> "off", s |-> 1, last |-> NScales, b |-> 1, ran |-> FALSE, mode |-> "new", resumed |-> FALSE,
              completed |-> FALSE, failed |-> FALSE, active |-> FALSE, leak |-> FALSE, cancel |-> FALSE, emergency |-> FALSE]

Init == /\ disk = NoFile /\ result = NewResult
        /\ lab = [s \in Scales |-> "none"] /\ dirty = [s \in Scales |-> FALSE]
        /\ p = NoProcess /\ started = 0

At(pc) == p.pc = pc
Goto(pc) == p' = [p EXCEPT !.pc = pc]
Entry == result.scales[p.s]
Checkpoint == disk' = result'
InPlace == lab[p.s] \notin {"none", "gone"}

(***************************************************************************)
(* Completed cases are kept across processes (completed_case_ids).         *)
(***************************************************************************)
Pending_All(b) == Cases
Pending(b) == {c \in Cases : Entry.cases[b][c] = 0}

(***************************************************************************)
(* run_acceptance: a new campaign, or one resumed for a single scale with  *)
(* or without an explicit rebuild of its runtime.                          *)
(***************************************************************************)
StartCampaign ==
    /\ At("off") /\ started < NProcesses /\ disk.status = "absent"
    /\ p' = [NoProcess EXCEPT !.pc = "phase"] /\ result' = [NewResult EXCEPT !.status = "running"]
    /\ started' = started + 1 /\ UNCHANGED <<disk, lab, dirty>>

ResumeCampaign ==
    /\ At("off") /\ started < NProcesses /\ disk.status # "absent"
    /\ \E s \in Scales, mode \in {"resume", "rebuild"} :
          /\ disk.scales[s].runtime
          /\ p' = [NoProcess EXCEPT !.pc = "attach", !.s = s, !.last = s, !.mode = mode]
    /\ result' = disk
    /\ started' = started + 1 /\ UNCHANGED <<disk, lab, dirty>>

(***************************************************************************)
(* A live runtime is attached and validated before anything is changed:    *)
(* its plan must be on record unless it is to be rebuilt, a quarantined    *)
(* one is turned down, the case set must have been frozen.  The process    *)
(* has a hold of the lab (active_runtime) only once the runtime itself was *)
(* validated: one that is cancelled or fails before that leaves the lab    *)
(* alone, an emergency or not.                                             *)
(***************************************************************************)
Mismatch == (InPlace /\ p.mode = "resume" /\ ~Entry.plan) \/ ~Entry.frozen
AttachRuntime ==
    LET refused == Mismatch \/ (p.mode = "resume" /\ lab[p.s] = "quarantined")
    IN /\ At("attach")
       /\ \/ p' = [p EXCEPT !.pc = "final", !.failed = TRUE]
          \/ /\ ~p.cancel
             /\ p' = [p EXCEPT !.active = InPlace /\ (Entry.plan \/ p.mode = "rebuild"), !.resumed = InPlace,
                               !.pc = IF refused THEN "final" ELSE "preflight", !.failed = refused]
       /\ UNCHANGED <<disk, result, lab, dirty, started>>

(***************************************************************************)
(* The backends are probed and compared with the record, which may fail;   *)
(* only then is a lab that is to be rebuilt torn down.                     *)
(***************************************************************************)
Preflight ==
    /\ At("preflight")
    /\ \/ p' = [p EXCEPT !.pc = "final", !.failed = TRUE]
       \/ ~p.cancel /\ Goto(IF p.resumed /\ p.mode = "rebuild" THEN "raze" ELSE "phase")
    /\ UNCHANGED <<disk, result, lab, dirty, started>>

(***************************************************************************)
(* teardown of the runtime of scale s: it goes with its directory, or it   *)
(* stays as a quarantined one and the error is raised.  A runtime that was *)
(* only created has no lab to tear down, just its directory.               *)
(***************************************************************************)
TornDown == lab' = [lab EXCEPT ![p.s] = "gone"] /\ dirty' = [dirty EXCEPT ![p.s] = FALSE]
TeardownFails == /\ lab' = [lab EXCEPT ![p.s] = IF @ = "created" THEN @ ELSE "quarantined"]
                 /\ UNCHANGED dirty

RebuildTeardown ==
    /\ At("raze")
    /\ \/ TornDown /\ p' = [p EXCEPT !.pc = "phase", !.resumed = FALSE, !.active = FALSE]
       \/ TeardownFails /\ p' = [p EXCEPT !.pc = "final", !.failed = TRUE]
    /\ UNCHANGED <<disk, result, started>>

(***************************************************************************)
(* One scale begins: cancellation and the capacity check come before a     *)
(* runtime is created.  A runtime that is gone is deployed again at most   *)
(* once without an explicit rebuild.                                       *)
(***************************************************************************)
BeginPhase ==
    /\ At("phase")
    /\ \/ p' = [p EXCEPT !.pc = "final", !.failed = TRUE] /\ UNCHANGED <<result, lab>>
       \/ /\ ~p.cancel /\ p.resumed
          /\ Goto("record") /\ UNCHANGED <<result, lab>>
       \/ /\ ~p.cancel /\ ~p.resumed /\ ~InPlace
          /\ p.mode = "resume" => ~Entry.redeployed
          /\ lab' = [lab EXCEPT ![p.s] = "created"]
          /\ result' = [result EXCEPT !.scales[p.s].runtime = TRUE, !.scales[p.s].redeployed = @ \/ p.mode = "resume"]
          /\ Goto("record")
    /\ UNCHANGED <<disk, dirty, started>>

(***************************************************************************)
(* The runtime is on record before it has a lab, the cases are frozen      *)
(* before anything is deployed.                                            *)
(***************************************************************************)
Fails == p' = [p EXCEPT !.pc = "release", !.failed = TRUE]

RecordRuntime_NoCheckpoint ==
    /\ At("record")
    /\ result' = [result EXCEPT !.status = "running", !.scales[p.s].status = "running"]
    /\ p' = [p EXCEPT !.pc = "deploy", !.active = TRUE] /\ UNCHANGED <<disk, lab, dirty, started>>
RecordRuntime ==
    /\ At("record")
    /\ \/ /\ p.cancel /\ p' = [p EXCEPT !.pc = "final", !.failed = TRUE, !.active = TRUE] /\ UNCHANGED <<result, disk>>
       \/ /\ ~p.cancel /\ p' = [p EXCEPT !.pc = "freeze", !.active = TRUE]
          /\ result' = [result EXCEPT !.status = "running", !.scales[p.s].status = "running"] /\ Checkpoint
    /\ UNCHANGED <<lab, dirty, started>>

FreezeCases ==
    /\ At("freeze")
    /\ \/ /\ result' = [result EXCEPT !.scales[p.s].frozen = TRUE] /\ Checkpoint
          /\ Goto("deploy")
       \/ /\ p' = [p EXCEPT !.pc = "final", !.failed = TRUE] /\ UNCHANGED <<disk, result>>
    /\ UNCHANGED <<lab, dirty, started>>

(***************************************************************************)
(* deploy, ensure_observability and ensure_pingmesh unless the lab is      *)
(* warm.  A deployment that began and did not complete is kept and         *)
(* quarantined; a failure before it or after it leaves the lab as it is    *)
(* (quarantine_partial_deployment).                                        *)
(***************************************************************************)
PartlyDeployed == {lab[p.s], "deployed", "quarantined"}
Deploy ==
    /\ At("deploy")
    /\ \/ lab[p.s] = "warm" /\ Goto("warm") /\ UNCHANGED lab
       \/ lab[p.s] # "warm" /\ lab' = [lab EXCEPT ![p.s] = "deployed"] /\ Goto("warm")
       \/ /\ lab[p.s] # "warm"
          /\ \E st \in PartlyDeployed : lab' = [lab EXCEPT ![p.s] = st]
          /\ Fails
    /\ UNCHANGED <<disk, result, dirty, started>>

(***************************************************************************)
(* The plan is taken over, the lab is warmed or, when it was kept warm,    *)
(* its full health is required.  A fault that a dead process left in the   *)
(* lab is seen by the health check or not.  An ingestion probe or a BGP    *)
(* observation that fails leaves the lab as it is.  The identities are     *)
(* durable before the first case.                                          *)
(***************************************************************************)
LeftBehind == {lab[p.s], "warm"} \cup (IF lab[p.s] = "warm" THEN {"quarantined"} ELSE {})
WarmLab ==
    /\ At("warm")
    /\ \/ /\ ~p.cancel /\ lab' = [lab EXCEPT ![p.s] = "warm"]
          /\ result' = [result EXCEPT !.scales[p.s].plan = TRUE] /\ Checkpoint
          /\ p' = [p EXCEPT !.pc = "backend", !.b = 1, !.ran = FALSE]
       \/ /\ \E st \in LeftBehind : lab' = [lab EXCEPT ![p.s] = st]
          /\ result' \in {result, [result EXCEPT !.scales[p.s].plan = TRUE]}
          /\ Fails /\ UNCHANGED disk
    /\ UNCHANGED <<dirty, started>>

(***************************************************************************)
(* run_cases: the pending cases of a backend, one at a time.  The case     *)
(* puts its fault in the lab; at its end on_case appends the record and    *)
(* writes the checkpoint.  A case that did not complete stops the backend. *)
(***************************************************************************)
RunCase ==
    /\ At("backend") /\ ~p.cancel /\ Pending(p.b) # {}
    /\ dirty' = [dirty EXCEPT ![p.s] = TRUE]
    /\ p' = [p EXCEPT !.pc = "case", !.ran = TRUE]
    /\ UNCHANGED <<disk, result, lab, started>>

OnCase(complete) ==
    LET c == CHOOSE x \in Pending(p.b) : \A y \in Pending(p.b) : x <= y
    IN result' = [result EXCEPT !.scales[p.s].cases[p.b][c] = IF complete THEN @ + 1 ELSE @]

CaseEnds ==
    /\ At("case")
    /\ \E complete, clean \in BOOLEAN :
          /\ OnCase(complete) /\ Checkpoint
          /\ dirty' = [dirty EXCEPT ![p.s] = ~clean]
          /\ lab' = [lab EXCEPT ![p.s] = IF clean THEN @ ELSE "quarantined"]
          /\ IF complete /\ clean THEN Goto("backend") ELSE Fails
    /\ UNCHANGED started

CancelCases ==
    /\ At("backend") /\ p.cancel /\ Fails
    /\ UNCHANGED <<disk, result, lab, dirty, started>>

(***************************************************************************)
(* A backend that ran cases, and the last one, end with a full health      *)
(* check; a failure quarantines the runtime.                               *)
(***************************************************************************)
BackendEnds_FirstBackend ==
    /\ At("backend") /\ ~p.cancel /\ Pending(p.b) = {} /\ Goto("passed")
    /\ UNCHANGED <<disk, result, lab, dirty, started>>
BackendEnds ==
    /\ At("backend") /\ ~p.cancel /\ Pending(p.b) = {}
    /\ \/ /\ IF p.b < NBackends THEN p' = [p EXCEPT !.b = @ + 1, !.ran = FALSE] ELSE Goto("passed")
          /\ UNCHANGED lab
       \/ /\ p.ran \/ p.b = NBackends
          /\ lab' = [lab EXCEPT ![p.s] = "quarantined"] /\ Fails
    /\ UNCHANGED <<disk, result, dirty, started>>

PhasePassed ==
    /\ At("passed")
    /\ \/ p.cancel /\ Fails /\ UNCHANGED result
       \/ /\ ~p.cancel /\ result' = [result EXCEPT !.scales[p.s].status = "passed"]
          /\ p' = [p EXCEPT !.pc = "release", !.completed = TRUE]
    /\ UNCHANGED <<disk, lab, dirty, started>>

(***************************************************************************)
(* The finally of a scale: a first checkpoint, then release_runtime.  Only *)
(* an owned lab whose cases are complete, or in a resource emergency, is   *)
(* torn down; any other is kept for a resume.                              *)
(***************************************************************************)
Released_Always == TRUE
Released == p.completed \/ p.emergency

RecordPhase ==
    /\ At("release")
    /\ result' = IF p.failed THEN [result EXCEPT !.scales[p.s].status =
                     IF lab[p.s] = "quarantined" THEN "quarantined" ELSE "failed_retained"] ELSE result
    /\ Checkpoint /\ Goto("dispose") /\ UNCHANGED <<lab, dirty, started>>

AfterPhase == p' = [p EXCEPT !.pc = IF p.failed \/ p.s = p.last THEN "final" ELSE "phase", !.completed = FALSE,
                             !.resumed = FALSE, !.s = IF p.failed \/ p.s = p.last THEN @ ELSE @ + 1,
                             !.active = p.failed \/ p.s = p.last]

DisposeRuntime ==
    /\ At("dispose")
    /\ \/ ~Released /\ AfterPhase /\ UNCHANGED <<lab, dirty>>
       \/ Released /\ TornDown /\ AfterPhase
       \/ Released /\ TeardownFails /\ p' = [p EXCEPT !.pc = "final", !.failed = TRUE, !.leak = TRUE]
    /\ UNCHANGED <<disk, result, started>>

(***************************************************************************)
(* The last finally: the monitor is joined first, so an emergency is final *)
(* when it is looked at.  The last checkpoint closes the process.          *)
(***************************************************************************)
CloseMonitor == /\ At("final") /\ Goto("last") /\ UNCHANGED <<disk, result, lab, dirty, started>>

EmergencyRelease_Never ==
    /\ At("last") /\ Goto("finish")
    /\ UNCHANGED <<disk, result, lab, dirty, started>>
EmergencyRelease ==
    /\ At("last")
    /\ IF p.emergency /\ p.active /\ InPlace
       THEN \/ TornDown /\ Goto("finish")
            \/ TeardownFails /\ p' = [p EXCEPT !.pc = "finish", !.leak = TRUE]
       ELSE Goto("finish") /\ UNCHANGED <<lab, dirty>>
    /\ UNCHANGED <<disk, result, started>>

FinishProcess ==
    /\ At("finish")
    /\ result' = [result EXCEPT !.status = IF p.failed THEN "failed_retained" ELSE "passed"] /\ Checkpoint
    /\ Goto("off") /\ UNCHANGED <<lab, dirty, started>>

(***************************************************************************)
(* The resource monitor and the signal handlers set their events at any    *)
(* time until the monitor is closed.                                       *)
(***************************************************************************)
Watched == p.pc \notin {"off", "last", "finish"}

MemoryEmergency == /\ Watched /\ ~p.emergency /\ p' = [p EXCEPT !.emergency = TRUE, !.cancel = TRUE]
                   /\ UNCHANGED <<disk, result, lab, dirty, started>>

Signal == /\ Watched /\ ~p.cancel /\ p' = [p EXCEPT !.cancel = TRUE]
          /\ UNCHANGED <<disk, result, lab, dirty, started>>

(***************************************************************************)
(* The process dies: acceptance.json, the labs and the faults in them      *)
(* stay.  A runtime that was only reserved and is not on record is under a *)
(* name that nobody uses again.                                            *)
(***************************************************************************)
Crash == /\ ~At("off") /\ p' = NoProcess /\ result' = NewResult
         /\ lab' = [s \in Scales |-> IF lab[s] = "created" /\ ~disk.scales[s].runtime THEN "none" ELSE lab[s]]
         /\ UNCHANGED <<disk, dirty, started>>

Step == \/ AttachRuntime \/ Preflight \/ RebuildTeardown \/ BeginPhase \/ RecordRuntime \/ FreezeCases \/ Deploy
        \/ WarmLab \/ RunCase \/ CaseEnds \/ CancelCases \/ BackendEnds \/ PhasePassed \/ RecordPhase \/ DisposeRuntime
        \/ CloseMonitor \/ EmergencyRelease \/ FinishProcess

Idle == At("off") /\ UNCHANGED vars

Next == StartCampaign \/ ResumeCampaign \/ Step \/ MemoryEmergency \/ Signal \/ Crash \/ Idle

Spec == Init /\ [][Next]_vars

\* The process runs; nobody owes a start, a resume, a signal or a crash.
FairSpec == Spec /\ WF_vars(Step)

-----------------------------------------------------------------------------

Statuses == {"absent", "none", "running", "passed", "failed_retained", "quarantined"}

\* Type invariant of the file, the process and the labs.
TypeOK ==
    /\ disk.status \in Statuses /\ result.status \in Statuses
    /\ \A s \in Scales : /\ lab[s] \in {"none", "created", "deployed", "warm", "quarantined", "gone"}
                         /\ disk.scales[s].status \in Statuses \ {"absent"}
    /\ dirty \in [Scales -> BOOLEAN] /\ started \in 0 .. NProcesses
    /\ p.s \in Scales /\ p.b \in Backends

\* A case that is complete is never recorded complete a second time, whatever
\* dies and is resumed in between (acceptance.py: completed_case_ids, run_cases).
RecordedOnce == \A s \in Scales, b \in Backends, c \in Cases :
                    disk.scales[s].cases[b][c] <= 1 /\ result.scales[s].cases[b][c] <= 1

\* A lab that was deployed is named in acceptance.json, so that a process that
\* dies at any point leaves a runtime that can be resumed or rebuilt.
LabIsOnRecord == \A s \in Scales : lab[s] \in {"deployed", "warm", "quarantined"} => disk.scales[s].runtime

\* A scale is on record as passed only when every case of every backend is
\* complete on record, over all the processes that worked on it, and the case
\* set and the plan they were measured with are on record too.
PassedIsComplete == \A s \in Scales : disk.scales[s].status = "passed" =>
                        /\ \A b \in Backends, c \in Cases : disk.scales[s].cases[b][c] > 0
                        /\ disk.scales[s].frozen /\ disk.scales[s].plan

\* After a resource emergency a process does not end with the lab it had a
\* hold of still in place, wherever the emergency came between its checkpoints,
\* its release of the lab and its end, unless the teardown itself failed
\* (release_runtime).  A process that gave up before it had attached the lab
\* leaves it in place, emergency or not.
EmergencyFrees == At("off") /\ p.emergency /\ p.active /\ ~p.leak => ~InPlace

OnlyFinishedReleasedStep ==
    \A s \in Scales : lab'[s] = "gone" /\ lab[s] # "gone" =>
      \/ p.emergency \/ p.pc = "raze"
      \/ \A b \in Backends, c \in Cases : disk.scales[s].cases[b][c] > 0

\* Outside an emergency or an explicit rebuild, a lab is torn down only when
\* the file already says that all the cases of its scale are complete: work
\* that a later process still needs is kept (release_runtime).
OnlyFinishedReleased == [][OnlyFinishedReleasedStep]_vars

Off == At("off")

\* A process that runs comes to its end.
ProcessEnds == ~Off ~> Off
=============================================================================
