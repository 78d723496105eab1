-------------------------- MODULE RuntimeLifecycle --------------------------
(***************************************************************************)
(* The life of one named runtime: runtime/manager.py (RuntimePool and      *)
(* RuntimeManager), runtime/lifecycle.py (the stages), the ownership       *)
(* manifest of observability/ownership.py and the bucket calls of          *)
(* observability/influxdb.py.                                              *)
(*                                                                         *)
(* What survives a process is on the host: the runtime directory and its   *)
(* runtime.json, the labs, the InfluxDB buckets and the manifest that says *)
(* which buckets the workspace created.  What a process knows is `mem`,    *)
(* and a crash loses it between any two steps.  A worker stands for its    *)
(* lab and for its bucket, which bear its name.                            *)
(*                                                                         *)
(* Callers are the ones in the repository: provision() (orchestrator and   *)
(* simulator pool), and create() followed by the chain of stages with a    *)
(* later attach, resume or teardown (acceptance, CLI, SDK).                *)
(*                                                                         *)
(* A definition named Op_Variant is a mutated form of Op: replacing Op by  *)
(* it must break a property.  No specification uses it.                    *)
(***************************************************************************)
EXTENDS Naturals, FiniteSets

CONSTANTS
    Workers,            \* the workers of the runtime
    Backends,           \* identities runtime_backend_identity() may return
    NoBackend,          \* no identity recorded, no lab
    Foreign,            \* a lab of this name that another workspace deployed
    NoRuntime,          \* no in-memory runtime, no runtime.json
    NoList,             \* metadata without cleanup_pending_buckets
    Crashes,            \* a process may die in the middle of a call
    LostReplies,        \* InfluxDB may create a bucket and lose the answer
    ResumeQuarantined,  \* a caller runs stages on a quarantined runtime
    ForeignLabs         \* labs of the same names may exist before

Stages == {"deploy", "observability", "pingmesh", "warm"}

\* The chain deploy().ensure_observability().ensure_pingmesh().warm().
NextStage == [deploy |-> "observability", observability |-> "pingmesh",
              pingmesh |-> "warm", warm |-> "done"]

StateAfter == [deploy |-> "deployed", observability |-> "observability_ready",
               pingmesh |-> "pingmesh_ready", warm |-> "warm"]

States == {"created", "quarantined", "cleanup_failed", "torn_down"}
          \cup {StateAfter[s] : s \in Stages}

Runtimes == [state : States, stages : [Stages -> {"none", "failed", "completed"}],
             started : BOOLEAN, backend : Backends \cup {NoBackend},
             quarantined : BOOLEAN, pending : {NoList} \cup SUBSET Workers,
             created : SUBSET Workers]

VARIABLES
    pc,         \* where the process's current call is
    job,        \* the call: "provision", "staged" or "teardown"
    stage,      \* the stage of the chain being run
    todo,       \* workers the current loop still has to visit
    at,         \* the worker or bucket the loop is busy with
    failed,     \* workers the current loop failed for
    mem,        \* the RuntimePool of the process
    identity,   \* runtime_backend_identity() of the process
    dir,        \* the runtime directory exists
    disk,       \* runtime.json
    labs,       \* who deployed each worker's lab, if any
    buckets,    \* who made each worker's bucket: none, user, own, or
                \*   old (an earlier runtime of this name)
    owned       \* the buckets the ownership manifest lists for this name

vars == <<pc, job, stage, todo, at, failed, mem, identity, dir, disk, labs,
          buckets, owned>>

world == <<dir, disk, labs, buckets, owned>>
loop == <<todo, at, failed>>

Pcs == {"idle", "write", "stage", "slots", "deploying", "observe", "record",
        "sidecar", "probe", "down", "delete", "unrecord", "rmdir"}

Fresh == [state |-> "created", stages |-> [s \in Stages |-> "none"],
          started |-> FALSE, backend |-> NoBackend, quarantined |-> FALSE,
          pending |-> NoList, created |-> {}]

Init ==
    /\ pc = "idle" /\ job = "staged" /\ stage = "deploy"
    /\ todo = {} /\ at \in Workers /\ failed = {}
    /\ mem = NoRuntime /\ identity \in Backends
    /\ dir = FALSE /\ disk = NoRuntime
    /\ labs \in [Workers -> {NoBackend} \cup (IF ForeignLabs THEN {Foreign} ELSE {})]
    /\ buckets \in [Workers -> {"none", "user"}]
    /\ owned = {}

-----------------------------------------------------------------------------
(* Persistence and control shared by the calls.                            *)

\* _write_metadata(): the new in-memory runtime goes to runtime.json; the
\* list of buckets created by this process is not part of describe().
Persist(runtime) ==
    /\ mem' = runtime
    /\ disk' = [runtime EXCEPT !.created = {}]
    /\ dir' = TRUE

\* The call returns or raises to its caller; provision() that raises never
\* hands its runtime out.
Leave == pc' = "idle" /\ UNCHANGED <<job, stage, loop>>

LeaveWith(runtime) ==
    /\ Leave
    /\ disk' = [runtime EXCEPT !.created = {}]
    /\ dir' = TRUE
    /\ mem' = IF job = "provision" THEN NoRuntime ELSE runtime

\* A loop over a set of workers starts.
Visit(where, workers) ==
    pc' = where /\ todo' = workers /\ failed' = {} /\ UNCHANGED at

\* The state every failed cleanup is left in.
CleanupFailed(runtime, pending) ==
    [runtime EXCEPT !.state = "cleanup_failed", !.quarantined = TRUE,
                    !.pending = pending]

\* The chain raised: provision() compensates, other callers see the error.
\* Compensation tears down labs only once deployment_started is set, and
\* deletes the buckets this process created.
ChainRaises(runtime) ==
    /\ UNCHANGED <<job, stage>>
    /\ CASE job # "provision" -> pc' = "idle" /\ UNCHANGED loop
         [] job = "provision" /\ runtime.started -> Visit("down", Workers)
         [] OTHER -> Visit("delete", runtime.created)

-----------------------------------------------------------------------------
(* RuntimeManager: build, attach, and the end of a process.                *)

\* _build_runtime(): the directory must not exist yet.
Build(caller) ==
    /\ pc = "idle" /\ mem = NoRuntime /\ ~dir
    /\ dir' = TRUE /\ mem' = Fresh
    /\ job' = caller /\ pc' = "write"
    /\ buckets' = [w \in Workers |-> IF buckets[w] = "own" THEN "old" ELSE buckets[w]]
    /\ UNCHANGED <<stage, loop, identity, disk, labs, owned>>

\* The first runtime.json; create() returns, provision() starts the chain.
BuildWrites ==
    /\ pc = "write"
    /\ Persist(mem)
    /\ pc' = IF job = "provision" THEN "stage" ELSE "idle"
    /\ stage' = "deploy"
    /\ UNCHANGED <<job, loop, identity, labs, buckets, owned>>

\* attach(): whatever runtime.json says.
Attach ==
    /\ pc = "idle" /\ mem = NoRuntime /\ disk # NoRuntime
    /\ mem' = disk
    /\ UNCHANGED <<pc, job, stage, loop, identity, world>>

\* The process ends between two calls; the next one may run another backend.
Exit ==
    /\ pc = "idle"
    /\ mem' = NoRuntime /\ identity' \in Backends
    /\ UNCHANGED <<pc, job, stage, loop, world>>

\* The process dies inside a call.  A directory removal it was busy with may
\* have taken runtime.json already.
Crash ==
    /\ Crashes /\ pc # "idle"
    /\ pc' = "idle" /\ mem' = NoRuntime /\ identity' \in Backends
    /\ disk' \in IF pc = "rmdir" THEN {disk, NoRuntime} ELSE {disk}
    /\ UNCHANGED <<job, stage, loop, dir, labs, buckets, owned>>

\* mark_quarantined(): persisted at once, a no-op when already recorded.  Its
\* callers (dispatch, acceptance) have at least tried to deploy.
MarkQuarantined ==
    /\ pc = "idle" /\ mem # NoRuntime /\ mem.state # "torn_down"
    /\ mem.stages["deploy"] # "none"
    /\ Persist([mem EXCEPT !.state = "quarantined", !.quarantined = TRUE])
    /\ UNCHANGED <<pc, job, stage, loop, identity, labs, buckets, owned>>

-----------------------------------------------------------------------------
(* The chain of stages.                                                    *)

\* The caller starts the chain, on a new runtime or to resume one.
StartChain ==
    /\ pc = "idle" /\ mem # NoRuntime /\ mem.state \notin {"warm", "torn_down"}
    /\ mem.quarantined => ResumeQuarantined
    /\ pc' = "stage" /\ job' = "staged" /\ stage' = "deploy"
    /\ UNCHANGED <<loop, mem, identity, world>>

\* Nothing was ever done with this runtime: its backend may be recorded.
Untouched(runtime) ==
    /\ runtime.backend = NoBackend /\ runtime.state = "created"
    /\ \A s \in Stages : runtime.stages[s] = "none"
    /\ ~runtime.started

\* _run_stage(), before the stage: a cancelled operation, or a backend other
\* than the recorded one, raises without a stage result.
StageRefused ==
    /\ pc = "stage"
    /\ \/ job = "staged"
       \/ ~Untouched(mem) /\ mem.backend # identity
    /\ ChainRaises(mem)
    /\ UNCHANGED <<mem, identity, world>>

\* The backend is made durable before anything is deployed.
PinBackend ==
    IF Untouched(mem)
    THEN Persist([mem EXCEPT !.backend = identity])
    ELSE UNCHANGED <<mem, dir, disk>>

Admitted_AnyBackend == pc = "stage"

\* The recorded backend, if any, is the one this process runs.
Admitted == pc = "stage" /\ (Untouched(mem) \/ mem.backend = identity)

Advance_PastTheEnd ==
    /\ pc' = IF stage = "warm" THEN "idle" ELSE "stage"
    /\ stage' = NextStage[stage]
    /\ UNCHANGED <<job, loop>>

\* The stage after this one, or the end of the chain.
Advance ==
    /\ pc' = IF stage = "warm" THEN "idle" ELSE "stage"
    /\ stage' = IF stage = "warm" THEN stage ELSE NextStage[stage]
    /\ UNCHANGED <<job, loop>>

\* A completed stage is not run again.
SkipStage ==
    /\ Admitted /\ mem.stages[stage] = "completed"
    /\ Advance
    /\ UNCHANGED <<mem, identity, world>>

EnterStage ==
    /\ Admitted /\ mem.stages[stage] # "completed"
    /\ PinBackend
    /\ CASE stage = "deploy" -> pc' = "slots" /\ UNCHANGED loop
         [] stage = "observability" -> Visit("observe", Workers)
         [] OTHER -> pc' = "probe" /\ UNCHANGED loop
    /\ UNCHANGED <<job, stage, identity, labs, buckets, owned>>

\* The result is persisted; a failed stage leaves the state alone.
StageCompletes(runtime) ==
    /\ Persist([runtime EXCEPT !.stages[stage] = "completed",
                               !.state = StateAfter[stage]])
    /\ Advance

StageFails_NotWritten(runtime) ==
    LET result == [runtime EXCEPT !.stages[stage] = "failed"]
    IN  mem' = result /\ UNCHANGED <<dir, disk>> /\ ChainRaises(result)

StageFails(runtime) ==
    LET result == [runtime EXCEPT !.stages[stage] = "failed"]
    IN  Persist(result) /\ ChainRaises(result)

\* _deploy() before it starts: a lab of this name, no free subnet or a
\* cancelled operation refuses the deployment.
DeployRefused ==
    /\ pc = "slots"
    /\ StageFails(mem)
    /\ UNCHANGED <<identity, labs, buckets, owned>>

SlotsFree ==
    /\ pc = "slots" /\ \A w \in Workers : labs[w] = NoBackend
    /\ mem' = [mem EXCEPT !.started = TRUE]
    /\ Visit("deploying", Workers)
    /\ UNCHANGED <<job, stage, identity, world>>

\* deploy_worker_lab(): a failure may leave a partial lab behind.
DeployWorker(w) ==
    /\ pc = "deploying" /\ w \in todo
    /\ todo' = todo \ {w}
    /\ \/ labs' = [labs EXCEPT ![w] = identity] /\ UNCHANGED failed
       \/ labs' \in {labs, [labs EXCEPT ![w] = identity]}
          /\ failed' = failed \cup {w}
    /\ UNCHANGED <<pc, job, stage, at, mem, identity, dir, disk, buckets, owned>>

\* Sequential deployment stops at the first failure, the thread pool waits
\* for every worker.
DeployEnds ==
    /\ pc = "deploying"
    /\ \/ todo = {} /\ failed = {} /\ StageCompletes(mem)
       \/ failed # {} /\ StageFails(mem)
    /\ UNCHANGED <<identity, labs, buckets, owned>>

EnsureBucket_Adopts(w) ==
    /\ pc = "observe" /\ w \in todo
    /\ at' = w /\ pc' = "record"
    /\ buckets' = [buckets EXCEPT ![w] = IF @ = "none" THEN "own" ELSE @]
    /\ UNCHANGED <<job, stage, todo, failed, mem, identity, dir, disk, labs, owned>>

\* ensure_worker_observability(), the bucket: present, made now, or refused
\* after the retries.  A lost answer makes the retry find it present.
EnsureBucket(w) ==
    /\ pc = "observe" /\ w \in todo
    /\ at' = w
    /\ \/ /\ buckets[w] # "none"
          /\ pc' = "sidecar" /\ UNCHANGED buckets
       \/ /\ buckets[w] = "none"
          /\ pc' \in {"record"} \cup (IF LostReplies THEN {"sidecar"} ELSE {})
          /\ buckets' = [buckets EXCEPT ![w] = "own"]
    /\ UNCHANGED <<job, stage, todo, failed, mem, identity, dir, disk, labs, owned>>

BucketRefused ==
    /\ pc = "observe" /\ todo # {}
    /\ StageFails(mem)
    /\ UNCHANGED <<identity, labs, buckets, owned>>

\* record_created(): the manifest first, then the list of this process.
RecordBucket ==
    /\ pc = "record"
    /\ owned' = owned \cup {at}
    /\ mem' = [mem EXCEPT !.created = @ \cup {at}]
    /\ pc' = "sidecar"
    /\ UNCHANGED <<job, stage, loop, identity, dir, disk, labs, buckets>>

\* The collector and Telegraf of the worker.
SidecarStarts ==
    /\ pc = "sidecar"
    /\ todo' = todo \ {at} /\ pc' = "observe"
    /\ UNCHANGED <<job, stage, at, failed, mem, identity, world>>

SidecarFails ==
    /\ pc = "sidecar"
    /\ StageFails(mem)
    /\ UNCHANGED <<identity, labs, buckets, owned>>

ObserveEnds ==
    /\ pc = "observe" /\ todo = {}
    /\ StageCompletes(mem)
    /\ UNCHANGED <<identity, labs, buckets, owned>>

\* _ensure_pingmesh() and _warm() work inside the labs and may fail.  The
\* end of provision() writes the same state once more.
Probe ==
    /\ pc = "probe"
    /\ StageCompletes(mem) \/ StageFails(mem)
    /\ UNCHANGED <<identity, labs, buckets, owned>>

-----------------------------------------------------------------------------
(* Teardown, and the compensation of provision().                          *)

HasPhysical_StateOnly(runtime) == runtime.state # "created"

\* The physical part is skipped for a runtime that only reserved metadata.
HasPhysical(runtime) ==
    runtime.state # "created" \/ runtime.stages["deploy"] # "none"

Teardown ==
    /\ pc = "idle" /\ mem # NoRuntime /\ mem.state # "torn_down"
    /\ job' = "teardown"
    /\ IF HasPhysical(mem)
       THEN Visit("down", Workers)
       ELSE pc' = "rmdir" /\ UNCHANGED loop
    /\ UNCHANGED <<stage, mem, identity, world>>

\* teardown_workers(): every worker is attempted; one that fails may have
\* lost its lab all the same.
DownWorker(w) ==
    /\ pc = "down" /\ w \in todo
    /\ todo' = todo \ {w}
    /\ \/ labs' = [labs EXCEPT ![w] = NoBackend] /\ UNCHANGED failed
       \/ labs' \in {labs, [labs EXCEPT ![w] = NoBackend]}
          /\ failed' = failed \cup {w}
    /\ UNCHANGED <<pc, job, stage, at, mem, identity, dir, disk, buckets, owned>>

BucketsToDelete_ThisProcess == mem.created

\* The buckets a cleanup is going to delete: those of this provision, those
\* a failed cleanup left over, or those the manifest lists.
BucketsToDelete ==
    IF job = "provision" THEN mem.created
    ELSE IF mem.state = "cleanup_failed" /\ mem.pending # NoList
         THEN mem.pending
         ELSE owned

DownEnds_KeepsMemoryList ==
    /\ pc = "down" /\ todo = {}
    /\ \/ failed # {} /\ LeaveWith(CleanupFailed(mem, mem.created))
       \/ /\ failed = {}
          /\ Visit("delete", BucketsToDelete)
          /\ UNCHANGED <<job, stage, mem, dir, disk>>
    /\ UNCHANGED <<identity, labs, buckets, owned>>

DownEnds ==
    /\ pc = "down" /\ todo = {}
    /\ \/ /\ failed # {}
          /\ LeaveWith(CleanupFailed(mem,
                IF job = "provision" THEN mem.created ELSE owned))
       \/ /\ failed = {}
          /\ Visit("delete", BucketsToDelete)
          /\ UNCHANGED <<job, stage, mem, dir, disk>>
    /\ UNCHANGED <<identity, labs, buckets, owned>>

\* delete_bucket(): by name, absent is fine; a failure may hide a deletion.
DeleteBucket(w) ==
    /\ pc = "delete" /\ w \in todo
    /\ todo' = todo \ {w} /\ at' = w
    /\ \/ /\ buckets' = [buckets EXCEPT ![w] = "none"]
          /\ pc' = "unrecord" /\ UNCHANGED failed
       \/ /\ buckets' \in {buckets, [buckets EXCEPT ![w] = "none"]}
          /\ failed' = failed \cup {w} /\ UNCHANGED pc
    /\ UNCHANGED <<job, stage, mem, identity, dir, disk, labs, owned>>

\* mark_deleted() follows a deletion that was answered.
MarkDeleted ==
    /\ pc = "unrecord"
    /\ owned' = owned \ {at}
    /\ pc' = "delete"
    /\ UNCHANGED <<job, stage, loop, mem, identity, dir, disk, labs, buckets>>

DeleteEnds_IgnoresFailures ==
    /\ pc = "delete" /\ todo = {}
    /\ pc' = "rmdir" /\ mem' = [mem EXCEPT !.created = failed, !.pending = NoList]
    /\ UNCHANGED <<job, stage, loop, dir, disk, identity, labs, buckets, owned>>

DeleteEnds ==
    /\ pc = "delete" /\ todo = {}
    /\ LET runtime == [mem EXCEPT !.created = failed]
       IN  \/ /\ failed # {}
              /\ LeaveWith(CleanupFailed(runtime, failed))
           \/ /\ failed = {}
              /\ pc' = "rmdir"
              /\ mem' = IF job = "teardown" THEN [runtime EXCEPT !.pending = NoList]
                                            ELSE runtime
              /\ UNCHANGED <<job, stage, loop, dir, disk>>
    /\ UNCHANGED <<identity, labs, buckets, owned>>

\* The directory goes last.
DirectoryRemoved ==
    /\ pc = "rmdir"
    /\ dir' = FALSE /\ disk' = NoRuntime
    /\ mem' = IF job = "teardown" THEN [mem EXCEPT !.state = "torn_down"] ELSE NoRuntime
    /\ Leave
    /\ UNCHANGED <<identity, labs, buckets, owned>>

DirectoryRemains ==
    /\ pc = "rmdir"
    /\ LeaveWith(CleanupFailed(mem, mem.pending))
    /\ UNCHANGED <<identity, labs, buckets, owned>>

-----------------------------------------------------------------------------

Next ==
    \/ \E caller \in {"provision", "staged"} : Build(caller)
    \/ BuildWrites \/ Attach \/ Exit \/ Crash \/ MarkQuarantined
    \/ StartChain \/ StageRefused \/ SkipStage \/ EnterStage
    \/ DeployRefused \/ SlotsFree \/ DeployEnds
    \/ BucketRefused \/ RecordBucket \/ SidecarStarts \/ SidecarFails
    \/ ObserveEnds \/ Probe
    \/ Teardown \/ DownEnds \/ MarkDeleted \/ DeleteEnds
    \/ DirectoryRemoved \/ DirectoryRemains
    \/ \E w \in Workers : DeployWorker(w) \/ EnsureBucket(w)
                          \/ DownWorker(w) \/ DeleteBucket(w)

Spec == Init /\ [][Next]_vars

-----------------------------------------------------------------------------
(* Properties.                                                             *)

\* Every variable holds a value the code can put there.
TypeOK ==
    /\ pc \in Pcs /\ job \in {"provision", "staged", "teardown"}
    /\ stage \in Stages
    /\ todo \subseteq Workers /\ at \in Workers /\ failed \subseteq Workers
    /\ mem \in {NoRuntime} \cup Runtimes /\ identity \in Backends
    /\ disk \in {NoRuntime} \cup Runtimes /\ dir \in BOOLEAN
    /\ disk # NoRuntime => dir /\ disk.created = {}
    /\ labs \in [Workers -> Backends \cup {NoBackend, Foreign}]
    /\ buckets \in [Workers -> {"none", "user", "own", "old"}]
    /\ owned \subseteq Workers

\* A teardown that reports success has removed every lab and every bucket
\* the runtime made, whatever failures, retries and restarts came before
\* (RuntimePool.teardown sets torn_down only at its end).
TeardownIsExact ==
    mem # NoRuntime /\ mem.state = "torn_down" =>
        /\ \A w \in Workers : labs[w] \notin Backends
        /\ \A w \in Workers : buckets[w] \in {"none", "user"}
        /\ owned = {}

\* Between calls, a lab on the host belongs to a runtime whose runtime.json
\* makes a later process's teardown() remove it physically.
LabsOnRecord ==
    pc = "idle" /\ (\E w \in Workers : labs[w] \in Backends) =>
        disk # NoRuntime /\ HasPhysical(disk)

\* Between calls, a bucket of the ownership manifest belongs to a runtime
\* that is still there and whose teardown() will look at the manifest.
OwnedOnRecord ==
    pc = "idle" /\ owned # {} => disk # NoRuntime /\ HasPhysical(disk)

\* A retry after a failed cleanup works from cleanup_pending_buckets instead
\* of the manifest: the list misses no bucket the manifest still holds.
RetryCoversOwned ==
    \A runtime \in {mem, disk} \ {NoRuntime} :
        pc = "idle" /\ runtime.state = "cleanup_failed" /\ runtime.pending # NoList
            => owned \subseteq runtime.pending

\* A warm runtime reads no bucket an earlier runtime of its name filled.
FreshTelemetry ==
    pc = "idle" /\ mem # NoRuntime /\ mem.state = "warm" =>
        \A w \in Workers : buckets[w] # "old"

UserBucketsKeptStep ==
    \A w \in Workers : buckets[w] = "user" =>
      buckets'[w] = "user" /\ w \notin owned'

\* A bucket that was there before is neither adopted nor deleted, however
\* often stages, compensation and teardown are retried.
UserBucketsKept == [][UserBucketsKeptStep]_vars

\* No stage works on a lab that another backend deployed, across restarts
\* that change the backend.
OneBackend ==
    pc \in {"observe", "record", "sidecar", "probe"} =>
        \A w \in Workers : labs[w] \in {NoBackend, identity}

\* A runtime in the state create() leaves has no physical lab.
ReservedHasNoLab ==
    pc = "idle" /\ mem # NoRuntime /\ ~HasPhysical(mem) =>
        \A w \in Workers : labs[w] \notin Backends

ForeignLabsKeptStep == \A w \in Workers : labs[w] = Foreign => labs'[w] = Foreign

\* Cleanup is precise: it never removes a lab this runtime did not deploy.
ForeignLabsKept == [][ForeignLabsKeptStep]_vars

=============================================================================
