----------------------- MODULE RuntimeLifecycle_proofs -----------------------
(***************************************************************************)
(* Theorems about RuntimeLifecycle and their proofs, for any set of        *)
(* workers and any number of backends.                                     *)
(*                                                                         *)
(* The argument: what runtime.json says is what the process knows, up to   *)
(* the two fields a call writes late; a bucket enters the manifest only    *)
(* behind a deploy stage that runtime.json records; and a cleanup removes  *)
(* the directory only when its two loops have left nothing behind.         *)
(***************************************************************************)
EXTENDS RuntimeLifecycle, TLAPS

\* The names that stand for the absence of something are no values of their own.
LifecycleAssumption ==
    /\ NoBackend \notin Backends /\ Foreign \notin Backends
    /\ NoRuntime \notin Runtimes /\ NoList \notin SUBSET Workers
    /\ Crashes \in BOOLEAN /\ LostReplies \in BOOLEAN
    /\ ResumeQuarantined \in BOOLEAN /\ ForeignLabs \in BOOLEAN

ChainPcs == {"stage", "slots", "deploying", "observe", "record", "sidecar", "probe"}
CleanPcs == {"down", "delete", "unrecord", "rmdir"}

\* A call works on a runtime, and each place of it belongs to one kind of call.
CallInv ==
    /\ pc # "idle" => mem # NoRuntime /\ mem.state # "torn_down" /\ dir
    /\ pc = "write" => mem = Fresh /\ disk = NoRuntime /\ job # "teardown"
    /\ pc \in ChainPcs =>
         /\ job # "teardown"
         /\ stage # "deploy" => mem.stages["deploy"] = "completed"
    /\ pc \in {"slots", "deploying"} => stage = "deploy" /\ mem.stages["deploy"] # "completed"
    /\ pc \in {"observe", "record", "sidecar"} => stage = "observability"
    /\ pc = "probe" => stage \in {"pingmesh", "warm"}
    /\ pc \in CleanPcs => job # "staged"

\* runtime.json says what the process knows, until the directory goes.
SyncInv ==
    /\ disk # NoRuntime => disk.state # "torn_down"
    /\ mem # NoRuntime /\ mem.state # "torn_down" /\ pc # "write" =>
         /\ disk # NoRuntime
         /\ disk.state = mem.state /\ disk.stages = mem.stages
         /\ disk.backend = mem.backend /\ disk.quarantined = mem.quarantined

\* A runtime, in memory or on disk, does not list a worker's bucket for deletion.
Spares(r, w) ==
    r # NoRuntime => w \notin r.created /\ (r.pending # NoList => w \notin r.pending)

\* No list of buckets to delete names a user's bucket.
UserInv ==
    \A w \in Workers : buckets[w] = "user" =>
        /\ w \notin owned
        /\ Spares(mem, w) /\ Spares(disk, w)
        /\ pc \in {"delete", "unrecord"} => w \notin todo \cup failed
        /\ pc = "record" => at # w

\* The labs of a deployed runtime are of the backend it recorded.
OfItsBackend(r) ==
    r # NoRuntime /\ r.stages["deploy"] = "completed" =>
        \A w \in Workers : labs[w] \in {NoBackend, r.backend}

BackendInv ==
    /\ pc \in ChainPcs \ {"stage"} => mem.backend = identity
    /\ pc = "deploying" => \A w \in Workers : labs[w] \in {NoBackend, identity}
    /\ OfItsBackend(mem) /\ OfItsBackend(disk)

\* A failed cleanup quarantines, and no stage works on a quarantined runtime.
Confined(r) == r # NoRuntime /\ r.state = "cleanup_failed" => r.quarantined

QuarantineInv ==
    /\ Confined(mem) /\ Confined(disk)
    /\ pc \in ChainPcs => ~mem.quarantined

\* The manifest's buckets have a runtime.json that leads a teardown to them,
\* and every cleanup has them on its list until they are deleted.
Covers(r) ==
    r # NoRuntime /\ r.state = "cleanup_failed" /\ r.pending # NoList => owned \subseteq r.pending

OwnedInv ==
    /\ owned # {} => disk # NoRuntime /\ HasPhysical(disk)
    /\ job = "provision" /\ pc # "idle" => owned \subseteq mem.created
    /\ pc = "rmdir" => owned = {}
    /\ pc = "delete" => owned \subseteq todo \cup failed
    /\ pc = "unrecord" => owned \subseteq todo \cup failed \cup {at}
    /\ Covers(mem) /\ Covers(disk)

\* The labs have one too, once deploy has ended, and a cleanup has visited
\* every worker before it goes on.
LabInv ==
    /\ (\E w \in Workers : labs[w] \in Backends) =>
         pc = "deploying" \/ (disk # NoRuntime /\ HasPhysical(disk))
    /\ pc = "deploying" => mem.started
    /\ job = "provision" /\ pc \in ChainPcs /\ (\E w \in Workers : labs[w] \in Backends) => mem.started
    /\ pc = "down" => \A w \in Workers : labs[w] \in Backends => w \in todo \cup failed
    /\ pc \in {"delete", "unrecord", "rmdir"} => \A w \in Workers : labs[w] \notin Backends
    /\ mem # NoRuntime /\ mem.state = "torn_down" => \A w \in Workers : labs[w] \notin Backends

\* Every bucket that a runtime made is in the manifest, or about to be.
BucketInv ==
    /\ \A w \in Workers : buckets[w] = "own" => w \in owned \/ (pc = "record" /\ at = w)
    /\ \A w \in Workers : buckets[w] # "old"
    /\ pc = "unrecord" => buckets[at] = "none"
    /\ mem # NoRuntime /\ mem.state = "torn_down" => owned = {}

\* What holds of every behaviour, ...
IInv == TypeOK /\ CallInv /\ SyncInv /\ UserInv /\ BackendInv

\* ... what holds when no caller runs stages on a quarantined runtime, ...
OInv == QuarantineInv /\ OwnedInv

\* ... and, besides, when no process dies inside a call.
LInv == LabInv /\ ReservedHasNoLab

-----------------------------------------------------------------------------
(* The steps that end in one of several ways, as those ways                *)

FailedResult    == [mem EXCEPT !.stages[stage] = "failed"]
CompletedResult == [mem EXCEPT !.stages[stage] = "completed", !.state = StateAfter[stage]]

\* A stage raised or, before its stage, the chain: the caller sees it, or
\* provision() compensates with the labs or, when it deployed none, without.
ToCaller == job # "provision" /\ pc' = "idle" /\ UNCHANGED <<job, stage, loop>>
ToDown(r) ==
    /\ job = "provision" /\ r.started
    /\ pc' = "down" /\ todo' = Workers /\ failed' = {} /\ UNCHANGED <<job, stage, at>>
ToDelete(r) ==
    /\ job = "provision" /\ ~r.started
    /\ pc' = "delete" /\ todo' = r.created /\ failed' = {} /\ UNCHANGED <<job, stage, at>>

Refused == pc = "stage" /\ UNCHANGED <<mem, identity, world>>
RefusedToCaller == Refused /\ ToCaller
RefusedToDown == Refused /\ ToDown(mem)
RefusedToDelete == Refused /\ ToDelete(mem)

Failing ==
    /\ pc \in {"slots", "deploying", "observe", "sidecar", "probe"}
    /\ Persist(FailedResult)
    /\ UNCHANGED <<identity, labs, buckets, owned>>
FailsToCaller == Failing /\ ToCaller
FailsToDown == Failing /\ ToDown(mem)
FailsToDelete == Failing /\ ToDelete(mem)

\* A stage completed: the last one of the chain, or one before it.
Completing ==
    /\ pc \in {"deploying", "observe", "probe"}
    /\ Persist(CompletedResult)
    /\ UNCHANGED <<job, loop, identity, labs, buckets, owned>>
CompletesLast == Completing /\ stage = "warm" /\ pc' = "idle" /\ UNCHANGED stage
CompletesMore == Completing /\ stage # "warm" /\ pc' = "stage" /\ stage' = NextStage[stage]

SkipsLast ==
    /\ Admitted /\ stage = "warm" /\ pc' = "idle"
    /\ UNCHANGED <<job, stage, loop, mem, identity, world>>
SkipsMore ==
    /\ Admitted /\ mem.stages[stage] = "completed"
    /\ stage # "warm" /\ pc' = "stage" /\ stage' = NextStage[stage]
    /\ UNCHANGED <<job, loop, mem, identity, world>>

\* A stage is entered with its backend on record.
Entering ==
    /\ Admitted /\ mem.stages[stage] # "completed"
    /\ mem' = [mem EXCEPT !.backend = identity] /\ dir'
    /\ disk' \in Runtimes /\ disk'.created = {} /\ disk'.backend = identity
    /\ disk'.state = mem.state /\ disk'.stages = mem.stages
    /\ disk'.quarantined = mem.quarantined /\ disk'.pending \in {mem.pending, disk.pending}
    /\ UNCHANGED <<job, stage, identity, labs, buckets, owned>>
EntersDeploy == Entering /\ stage = "deploy" /\ pc' = "slots" /\ UNCHANGED loop
EntersObserve ==
    /\ Entering /\ stage = "observability" /\ pc' = "observe"
    /\ todo' = Workers /\ failed' = {} /\ UNCHANGED at
EntersProbe == Entering /\ stage \in {"pingmesh", "warm"} /\ pc' = "probe" /\ UNCHANGED loop

\* A worker's deployment leaves a lab, or none.
LeavesLab(w) ==
    /\ pc = "deploying" /\ w \in todo /\ todo' = todo \ {w}
    /\ labs' = [labs EXCEPT ![w] = identity] /\ failed' \in {failed, failed \cup {w}}
    /\ UNCHANGED <<pc, job, stage, at, mem, identity, dir, disk, buckets, owned>>
LeavesNoLab(w) ==
    /\ pc = "deploying" /\ w \in todo /\ todo' = todo \ {w} /\ failed' = failed \cup {w}
    /\ UNCHANGED <<pc, job, stage, at, mem, identity, dir, disk, labs, buckets, owned>>

\* A bucket is there, is made, or is made and the answer is lost.
BucketThere(w) ==
    /\ pc = "observe" /\ w \in todo /\ at' = w /\ pc' = "sidecar"
    /\ UNCHANGED <<job, stage, todo, failed, mem, identity, world>>
BucketMade(w) ==
    /\ pc = "observe" /\ w \in todo /\ at' = w /\ pc' = "record"
    /\ buckets[w] = "none" /\ buckets' = [buckets EXCEPT ![w] = "own"]
    /\ UNCHANGED <<job, stage, todo, failed, mem, identity, dir, disk, labs, owned>>
BucketUnanswered(w) ==
    /\ LostReplies
    /\ pc = "observe" /\ w \in todo /\ at' = w /\ pc' = "sidecar"
    /\ buckets[w] = "none" /\ buckets' = [buckets EXCEPT ![w] = "own"]
    /\ UNCHANGED <<job, stage, todo, failed, mem, identity, dir, disk, labs, owned>>

\* A teardown of something physical, or of a reserved directory only.
TeardownVisits ==
    /\ pc = "idle" /\ mem # NoRuntime /\ mem.state # "torn_down" /\ HasPhysical(mem)
    /\ job' = "teardown" /\ pc' = "down" /\ todo' = Workers /\ failed' = {}
    /\ UNCHANGED <<stage, at, mem, identity, world>>
TeardownRemoves ==
    /\ pc = "idle" /\ mem # NoRuntime /\ mem.state # "torn_down" /\ ~HasPhysical(mem)
    /\ job' = "teardown" /\ pc' = "rmdir" /\ UNCHANGED <<stage, loop, mem, identity, world>>

\* A lab is gone, or its worker failed with the lab still there, or without.
LabGone(w) ==
    /\ pc = "down" /\ w \in todo /\ todo' = todo \ {w}
    /\ labs' = [labs EXCEPT ![w] = NoBackend] /\ failed' \in {failed, failed \cup {w}}
    /\ UNCHANGED <<pc, job, stage, at, mem, identity, dir, disk, buckets, owned>>
LabLeft(w) ==
    /\ pc = "down" /\ w \in todo /\ todo' = todo \ {w} /\ failed' = failed \cup {w}
    /\ UNCHANGED <<pc, job, stage, at, mem, identity, dir, disk, labs, buckets, owned>>

DownDone ==
    /\ pc = "down" /\ todo = {} /\ failed = {}
    /\ pc' = "delete" /\ todo' = BucketsToDelete /\ failed' = {}
    /\ UNCHANGED <<job, stage, at, mem, identity, world>>

\* A bucket is deleted, or its deletion failed with the bucket still there or not.
BucketDeleted(w) ==
    /\ pc = "delete" /\ w \in todo /\ todo' = todo \ {w} /\ at' = w
    /\ buckets' = [buckets EXCEPT ![w] = "none"] /\ pc' = "unrecord"
    /\ UNCHANGED <<failed, job, stage, mem, identity, dir, disk, labs, owned>>
BucketDoubtful(w) ==
    /\ pc = "delete" /\ w \in todo /\ todo' = todo \ {w} /\ at' = w
    /\ buckets' = [buckets EXCEPT ![w] = "none"] /\ failed' = failed \cup {w}
    /\ UNCHANGED <<pc, job, stage, mem, identity, dir, disk, labs, owned>>
BucketLeft(w) ==
    /\ pc = "delete" /\ w \in todo /\ todo' = todo \ {w} /\ at' = w
    /\ failed' = failed \cup {w}
    /\ UNCHANGED <<pc, job, stage, mem, identity, world>>

\* The end of the deletions, in a teardown and in a compensation.
DeleteDone ==
    /\ pc = "delete" /\ todo = {} /\ failed = {} /\ pc' = "rmdir"
    /\ mem' = [mem EXCEPT !.created = {}, !.pending = IF job = "teardown" THEN NoList ELSE @]
    /\ UNCHANGED <<job, stage, loop, identity, world>>

\* A cleanup fails: in the labs, in the buckets, or in the directory.
CleanupLeaves(r) ==
    /\ disk' = [r EXCEPT !.created = {}] /\ dir' /\ pc' = "idle"
    /\ UNCHANGED <<job, stage, loop, identity, labs, buckets, owned>>
DownFailed(r) ==
    /\ pc = "down" /\ todo = {}
    /\ r = CleanupFailed(mem, IF job = "provision" THEN mem.created ELSE owned)
DeleteFailed(r) ==
    /\ pc = "delete" /\ todo = {}
    /\ r = CleanupFailed([mem EXCEPT !.created = failed], failed)
RemovalFailed(r) == pc = "rmdir" /\ r = CleanupFailed(mem, mem.pending)
DownFailsIn(r) == DownFailed(r) /\ CleanupLeaves(r) /\ mem' \in {NoRuntime, r}
DeleteFailsIn(r) == DeleteFailed(r) /\ CleanupLeaves(r) /\ mem' \in {NoRuntime, r}
RemovalFailsIn(r) == RemovalFailed(r) /\ CleanupLeaves(r) /\ mem' \in {NoRuntime, r}

\* The directory is removed by a teardown, or by a compensation.
RemovedByTeardown ==
    /\ pc = "rmdir" /\ dir' = FALSE /\ disk' = NoRuntime /\ pc' = "idle"
    /\ mem' = [mem EXCEPT !.state = "torn_down"]
    /\ UNCHANGED <<job, stage, loop, identity, labs, buckets, owned>>
RemovedByProvision ==
    /\ pc = "rmdir" /\ dir' = FALSE /\ disk' = NoRuntime /\ pc' = "idle" /\ mem' = NoRuntime
    /\ UNCHANGED <<job, stage, loop, identity, labs, buckets, owned>>

\* A process dies; a removal it was busy with has taken runtime.json, or not.
CrashKeepsDisk ==
    /\ Crashes /\ pc' = "idle" /\ mem' = NoRuntime /\ identity' \in Backends
    /\ UNCHANGED <<job, stage, loop, world>>
CrashLosesDisk ==
    /\ Crashes /\ pc = "rmdir" /\ disk' = NoRuntime
    /\ pc' = "idle" /\ mem' = NoRuntime /\ identity' \in Backends
    /\ UNCHANGED <<job, stage, loop, dir, labs, buckets, owned>>

\* What Persist writes.
LEMMA Persisted ==
    ASSUME NEW r \in Runtimes, Persist(r), LifecycleAssumption
    PROVE  /\ mem' = r /\ dir' = TRUE /\ disk' \in Runtimes /\ disk' # NoRuntime
           /\ disk'.created = {} /\ disk'.state = r.state /\ disk'.stages = r.stages
           /\ disk'.started = r.started /\ disk'.backend = r.backend
           /\ disk'.quarantined = r.quarantined /\ disk'.pending = r.pending
BY DEF Persist, Runtimes, LifecycleAssumption

\* A runtime stays one when a stage, a cleanup or the process writes its field.
LEMMA RuntimeTypes ==
    ASSUME TypeOK, LifecycleAssumption, mem # NoRuntime
    PROVE  /\ mem \in Runtimes
           /\ FailedResult \in Runtimes /\ CompletedResult \in Runtimes
           /\ \A b \in Backends : [mem EXCEPT !.backend = b] \in Runtimes
BY ZenonT(40) DEF TypeOK, Runtimes, FailedResult, CompletedResult, StateAfter, States, Stages

\* Every step is one of the simple ones or one of these ways.
LEMMA StepKinds ==
    ASSUME IInv, LifecycleAssumption, Next
    PROVE  \/ \E caller \in {"provision", "staged"} : Build(caller)
           \/ \E w \in Workers :
                \/ LeavesLab(w) \/ LeavesNoLab(w) \/ BucketThere(w) \/ BucketMade(w)
                \/ BucketUnanswered(w) \/ LabGone(w) \/ LabLeft(w) \/ BucketDeleted(w)
                \/ BucketDoubtful(w) \/ BucketLeft(w)
           \/ \E r \in Runtimes : DownFailsIn(r) \/ DeleteFailsIn(r) \/ RemovalFailsIn(r)
           \/ Attach \/ Exit \/ MarkQuarantined \/ StartChain
           \/ BuildWrites \/ RecordBucket \/ SidecarStarts \/ MarkDeleted
           \/ SlotsFree \/ CrashKeepsDisk \/ CrashLosesDisk \/ RefusedToCaller
           \/ RefusedToDown \/ RefusedToDelete \/ FailsToCaller \/ FailsToDown
           \/ FailsToDelete \/ CompletesLast \/ CompletesMore \/ SkipsLast
           \/ SkipsMore \/ EntersDeploy \/ EntersObserve \/ EntersProbe
           \/ TeardownVisits \/ TeardownRemoves \/ DownDone \/ DeleteDone
           \/ RemovedByTeardown \/ RemovedByProvision
<1>. USE DEF world, loop
<1>1. ASSUME StageRefused  PROVE RefusedToCaller \/ RefusedToDown \/ RefusedToDelete
  BY <1>1 DEF StageRefused, ChainRaises, Visit, Refused, RefusedToCaller, RefusedToDown,
              RefusedToDelete, ToCaller, ToDown, ToDelete
<1>2. ASSUME pc \in {"slots", "deploying", "observe", "sidecar", "probe"}, StageFails(mem),
             UNCHANGED <<identity, labs, buckets, owned>>
      PROVE  FailsToCaller \/ FailsToDown \/ FailsToDelete
  <2>1. mem \in Runtimes
    BY <1>2, RuntimeTypes DEF IInv, CallInv
  <2>2. FailedResult.started = mem.started /\ FailedResult.created = mem.created
    BY <2>1 DEF FailedResult, Runtimes
  <2>3. Persist(FailedResult) /\ ChainRaises(FailedResult)
    BY <1>2 DEF StageFails, FailedResult
  <2>. QED
    BY <1>2, <2>2, <2>3 DEF ChainRaises, Visit, Failing, FailsToCaller, FailsToDown,
       FailsToDelete, ToCaller, ToDown, ToDelete
<1>3. ASSUME pc \in {"deploying", "observe", "probe"}, StageCompletes(mem),
             UNCHANGED <<identity, labs, buckets, owned>>
      PROVE  CompletesLast \/ CompletesMore
  BY <1>3 DEF StageCompletes, Advance, Completing, CompletedResult, CompletesLast, CompletesMore
<1>4. ASSUME SkipStage  PROVE SkipsLast \/ SkipsMore
  BY <1>4 DEF SkipStage, Advance, SkipsLast, SkipsMore
<1>5. ASSUME EnterStage  PROVE EntersDeploy \/ EntersObserve \/ EntersProbe
  <2>1. mem \in Runtimes /\ disk \in Runtimes /\ disk # NoRuntime /\ disk.created = {} /\ dir
        /\ disk.state = mem.state /\ disk.stages = mem.stages
        /\ disk.backend = mem.backend /\ disk.quarantined = mem.quarantined
    BY <1>5, RuntimeTypes DEF IInv, TypeOK, CallInv, SyncInv, EnterStage, Admitted
  <2>2. identity \in Backends /\ stage \in Stages
    BY DEF IInv, TypeOK
  <2>3. Entering
    <3>1. CASE Untouched(mem)
      <4>1. Persist([mem EXCEPT !.backend = identity])
        BY <1>5, <3>1 DEF EnterStage, PinBackend
      <4>2. [mem EXCEPT !.backend = identity] \in Runtimes
        BY <2>1, <2>2 DEF Runtimes
      <4>3. /\ mem' = [mem EXCEPT !.backend = identity] /\ dir' = TRUE
            /\ disk' = [[mem EXCEPT !.backend = identity] EXCEPT !.created = {}]
        BY <4>1 DEF Persist
      <4>4. /\ disk' \in Runtimes /\ disk'.created = {} /\ disk'.backend = identity
            /\ disk'.state = mem.state /\ disk'.stages = mem.stages
            /\ disk'.quarantined = mem.quarantined /\ disk'.pending = mem.pending
        BY <2>1, <2>2, <4>3 DEF Runtimes
      <4>. QED  BY <1>5, <4>3, <4>4 DEF EnterStage, Entering
    <3>2. CASE ~Untouched(mem)
      <4>1. mem' = mem /\ dir' = dir /\ disk' = disk /\ mem.backend = identity
        BY <1>5, <3>2 DEF EnterStage, PinBackend, Admitted
      <4>2. mem = [mem EXCEPT !.backend = identity]
        BY <2>1, <4>1 DEF Runtimes
      <4>. QED  BY <1>5, <2>1, <4>1, <4>2 DEF EnterStage, Entering
    <3>. QED  BY <3>1, <3>2
  <2>4. CASE stage = "deploy"
    BY <1>5, <2>3, <2>4 DEF EnterStage, EntersDeploy
  <2>5. CASE stage = "observability"
    BY <1>5, <2>3, <2>5 DEF EnterStage, Visit, EntersObserve
  <2>6. CASE stage \in {"pingmesh", "warm"}
    BY <1>5, <2>3, <2>6 DEF EnterStage, EntersProbe
  <2>. QED  BY <2>2, <2>4, <2>5, <2>6 DEF Stages
<1>6. ASSUME NEW w \in Workers, DeployWorker(w)  PROVE LeavesLab(w) \/ LeavesNoLab(w)
  BY <1>6 DEF DeployWorker, LeavesLab, LeavesNoLab
<1>7. ASSUME NEW w \in Workers, EnsureBucket(w)
      PROVE  BucketThere(w) \/ BucketMade(w) \/ BucketUnanswered(w)
  BY <1>7 DEF EnsureBucket, BucketThere, BucketMade, BucketUnanswered, LifecycleAssumption
<1>8. ASSUME Teardown  PROVE TeardownVisits \/ TeardownRemoves
  BY <1>8 DEF Teardown, Visit, TeardownVisits, TeardownRemoves
<1>9. ASSUME NEW w \in Workers, DownWorker(w)  PROVE LabGone(w) \/ LabLeft(w)
  BY <1>9 DEF DownWorker, LabGone, LabLeft
<1>10. ASSUME NEW w \in Workers, DeleteBucket(w)
       PROVE  BucketDeleted(w) \/ BucketDoubtful(w) \/ BucketLeft(w)
  BY <1>10 DEF DeleteBucket, BucketDeleted, BucketDoubtful, BucketLeft
<1>11. ASSUME pc \in CleanPcs, NEW X \in SUBSET Workers, NEW p \in {NoList} \cup SUBSET Workers
       PROVE  /\ mem \in Runtimes
              /\ CleanupFailed(mem, p) \in Runtimes
              /\ CleanupFailed([mem EXCEPT !.created = X], p) \in Runtimes
  <2>1. mem \in Runtimes
    BY <1>11, RuntimeTypes DEF IInv, CallInv, CleanPcs
  <2>. QED  BY <2>1, <1>11 DEF CleanupFailed, Runtimes, States
<1>12. ASSUME DownEnds
       PROVE  DownDone \/ \E r \in Runtimes : DownFailsIn(r)
  <2>1. pc = "down" /\ todo = {} /\ UNCHANGED <<identity, labs, buckets, owned>>
    BY <1>12 DEF DownEnds
  <2>. DEFINE p == IF job = "provision" THEN mem.created ELSE owned
              r == CleanupFailed(mem, p)
  <2>2. p \in SUBSET Workers /\ r \in Runtimes
    <3>1. mem \in Runtimes
      BY <2>1, RuntimeTypes DEF IInv, CallInv, CleanPcs
    <3>2. p \in SUBSET Workers
      BY <3>1 DEF IInv, TypeOK, Runtimes
    <3>. QED  BY <2>1, <3>2, <1>11 DEF CleanPcs
  <2>3. CASE failed # {} /\ LeaveWith(r)
    <3>. HIDE DEF r
    <3>1. CleanupLeaves(r) /\ mem' \in {NoRuntime, r}
      BY <2>1, <2>3 DEF LeaveWith, Leave, CleanupLeaves
    <3>2. DownFailed(r)
      BY <2>1 DEF DownFailed, r
    <3>. QED  BY <2>2, <3>1, <3>2 DEF DownFailsIn
  <2>4. CASE failed = {} /\ Visit("delete", BucketsToDelete) /\ UNCHANGED <<job, stage, mem, dir, disk>>
    BY <2>1, <2>4 DEF DownDone, Visit
  <2>. QED  BY <1>12, <2>3, <2>4 DEF DownEnds
<1>13. ASSUME DeleteEnds
       PROVE  DeleteDone \/ \E r \in Runtimes : DeleteFailsIn(r)
  <2>1. pc = "delete" /\ todo = {} /\ UNCHANGED <<identity, labs, buckets, owned>>
    BY <1>13 DEF DeleteEnds
  <2>. DEFINE m == [mem EXCEPT !.created = failed]
              r == CleanupFailed(m, failed)
  <2>2. mem \in Runtimes /\ r \in Runtimes
    <3>1. failed \in SUBSET Workers
      BY DEF IInv, TypeOK
    <3>. QED  BY <2>1, <3>1, <1>11 DEF CleanPcs
  <2>3. CASE failed # {} /\ LeaveWith(r)
    <3>. HIDE DEF r
    <3>1. CleanupLeaves(r) /\ mem' \in {NoRuntime, r}
      BY <2>1, <2>3 DEF LeaveWith, Leave, CleanupLeaves
    <3>2. DeleteFailed(r)
      BY <2>1 DEF DeleteFailed, r
    <3>. QED  BY <2>2, <3>1, <3>2 DEF DeleteFailsIn
  <2>4. CASE /\ failed = {} /\ pc' = "rmdir"
             /\ mem' = IF job = "teardown" THEN [m EXCEPT !.pending = NoList] ELSE m
             /\ UNCHANGED <<job, stage, loop, dir, disk>>
    <3>1. mem' = [mem EXCEPT !.created = {}, !.pending = IF job = "teardown" THEN NoList ELSE @]
      BY <2>2, <2>4 DEF Runtimes
    <3>. QED  BY <2>1, <2>4, <3>1 DEF DeleteDone
  <2>. QED  BY <1>13, <2>3, <2>4 DEF DeleteEnds
<1>14. ASSUME DirectoryRemains  PROVE \E r \in Runtimes : RemovalFailsIn(r)
  <2>1. pc = "rmdir" /\ UNCHANGED <<identity, labs, buckets, owned>>
    BY <1>14 DEF DirectoryRemains
  <2>. DEFINE r == CleanupFailed(mem, mem.pending)
  <2>2. r \in Runtimes
    <3>1. mem \in Runtimes
      BY <2>1, RuntimeTypes DEF IInv, CallInv
    <3>2. mem.pending \in {NoList} \cup SUBSET Workers
      BY <3>1 DEF Runtimes
    <3>. QED  BY <2>1, <3>2, <1>11 DEF CleanPcs
  <2>3. LeaveWith(r)
    BY <1>14 DEF DirectoryRemains
  <2>. HIDE DEF r
  <2>4. CleanupLeaves(r) /\ mem' \in {NoRuntime, r}
    BY <2>1, <2>3 DEF LeaveWith, Leave, CleanupLeaves
  <2>5. RemovalFailed(r)
    BY <2>1 DEF RemovalFailed, r
  <2>. QED  BY <2>2, <2>4, <2>5 DEF RemovalFailsIn
<1>15. ASSUME DirectoryRemoved  PROVE RemovedByTeardown \/ RemovedByProvision
  BY <1>15 DEF DirectoryRemoved, Leave, RemovedByTeardown, RemovedByProvision
<1>16. ASSUME Crash  PROVE CrashKeepsDisk \/ CrashLosesDisk
  BY <1>16 DEF Crash, CrashKeepsDisk, CrashLosesDisk
<1>17. ASSUME DeployRefused \/ BucketRefused \/ SidecarFails \/ ObserveEnds \/ DeployEnds \/ Probe
       PROVE  \/ FailsToCaller \/ FailsToDown \/ FailsToDelete
              \/ CompletesLast \/ CompletesMore
  BY <1>2, <1>3, <1>17 DEF DeployRefused, BucketRefused, SidecarFails, ObserveEnds, DeployEnds, Probe
<1>. QED
  BY <1>1, <1>4, <1>5, <1>6, <1>7, <1>8, <1>9, <1>10, <1>12, <1>13, <1>14, <1>15, <1>16, <1>17,
     Zenon DEF Next

-----------------------------------------------------------------------------
(* What the steps write, field by field                                    *)

\* The process's runtime and its runtime.json are written together.
Written ==
    /\ mem' \in Runtimes /\ mem' # NoRuntime /\ disk' \in Runtimes /\ disk' # NoRuntime
    /\ dir' = TRUE /\ disk'.created = {} /\ disk'.state = mem'.state
    /\ disk'.stages = mem'.stages /\ disk'.started = mem'.started
    /\ disk'.backend = mem'.backend /\ disk'.quarantined = mem'.quarantined
    /\ disk'.pending = mem'.pending

\* A stage failed.
FailWrites ==
    /\ mem \in Runtimes /\ mem # NoRuntime /\ Written /\ mem'.state = mem.state
    /\ mem'.stages[stage] = "failed"
    /\ stage # "deploy" => mem'.stages["deploy"] = mem.stages["deploy"]
    /\ mem'.started = mem.started /\ mem'.backend = mem.backend
    /\ mem'.quarantined = mem.quarantined /\ mem'.pending = mem.pending
    /\ mem'.created = mem.created

\* A failing stage writes that.
LEMMA WriteFails ==
    ASSUME IInv, LifecycleAssumption, Failing
    PROVE  FailWrites
<1>1. mem \in Runtimes /\ mem # NoRuntime /\ FailedResult \in Runtimes
  BY RuntimeTypes DEF IInv, CallInv, Failing
<1>2. mem' = FailedResult /\ Written
  BY <1>1, Persisted DEF Failing, Written, LifecycleAssumption
<1>3. stage \in Stages
  BY DEF IInv, TypeOK
<1>. QED  BY <1>1, <1>2, <1>3 DEF FailedResult, Runtimes, FailWrites, Stages

\* A stage completed.
CompletionWrites ==
    /\ mem \in Runtimes /\ mem # NoRuntime /\ Written /\ mem'.state = StateAfter[stage]
    /\ mem'.stages[stage] = "completed"
    /\ stage # "deploy" => mem'.stages["deploy"] = mem.stages["deploy"]
    /\ mem'.started = mem.started /\ mem'.backend = mem.backend
    /\ mem'.quarantined = mem.quarantined /\ mem'.pending = mem.pending
    /\ mem'.created = mem.created

\* A completing stage writes that.
LEMMA WriteCompletes ==
    ASSUME IInv, LifecycleAssumption, Completing
    PROVE  CompletionWrites
<1>1. mem \in Runtimes /\ mem # NoRuntime /\ CompletedResult \in Runtimes
  BY RuntimeTypes DEF IInv, CallInv, Completing
<1>2. mem' = CompletedResult /\ Written
  BY <1>1, Persisted DEF Completing, Written, LifecycleAssumption
<1>3. stage \in Stages
  BY DEF IInv, TypeOK
<1>. QED  BY <1>1, <1>2, <1>3 DEF CompletedResult, Runtimes, CompletionWrites, Stages

\* The runtime is new.
FirstWrites ==
    mem = Fresh /\ mem \in Runtimes /\ Written /\ mem' = mem

\* _build_runtime() writes that.
LEMMA WriteFirst ==
    ASSUME IInv, LifecycleAssumption, BuildWrites
    PROVE  FirstWrites
<1>1. mem \in Runtimes /\ mem = Fresh
  BY RuntimeTypes DEF IInv, CallInv, BuildWrites
<1>. QED  BY <1>1, Persisted DEF BuildWrites, Written, LifecycleAssumption, FirstWrites

\* mark_quarantined() was called.
QuarantineWrites ==
    /\ mem \in Runtimes /\ mem # NoRuntime /\ Written /\ mem'.state = "quarantined"
    /\ mem'.quarantined = TRUE /\ mem'.stages = mem.stages
    /\ mem'.started = mem.started /\ mem'.backend = mem.backend
    /\ mem'.pending = mem.pending /\ mem'.created = mem.created

\* mark_quarantined() writes that.
LEMMA WriteQuarantine ==
    ASSUME IInv, LifecycleAssumption, MarkQuarantined
    PROVE  QuarantineWrites
<1>. DEFINE r == [mem EXCEPT !.state = "quarantined", !.quarantined = TRUE]
<1>1. mem \in Runtimes /\ mem # NoRuntime
  BY RuntimeTypes DEF IInv, MarkQuarantined
<1>2. r \in Runtimes
  BY <1>1 DEF Runtimes, States
<1>3. mem' = r /\ Written
  BY <1>2, Persisted DEF MarkQuarantined, Written, LifecycleAssumption
<1>. QED  BY <1>1, <1>3 DEF Runtimes, QuarantineWrites

\* A stage is entered.
BackendWrites ==
    /\ mem \in Runtimes /\ mem # NoRuntime /\ mem' \in Runtimes /\ mem' # NoRuntime
    /\ disk' # NoRuntime
    /\ mem'.state = mem.state /\ mem'.stages = mem.stages /\ mem'.started = mem.started
    /\ mem'.backend = identity /\ mem'.quarantined = mem.quarantined
    /\ mem'.pending = mem.pending /\ mem'.created = mem.created

\* _run_stage() writes that, before the stage.
LEMMA WriteBackend ==
    ASSUME IInv, LifecycleAssumption, Entering
    PROVE  BackendWrites
<1>1. mem \in Runtimes /\ mem # NoRuntime /\ identity \in Backends
  BY RuntimeTypes DEF IInv, TypeOK, CallInv, Entering, Admitted
<1>2. mem' = [mem EXCEPT !.backend = identity]
  BY DEF Entering
<1>3. mem' \in Runtimes
  BY <1>1, <1>2 DEF Runtimes
<1>. QED  BY <1>1, <1>2, <1>3 DEF Entering, Runtimes, LifecycleAssumption, BackendWrites

\* A bucket is listed, a deployment is started, the lists are cleared.
LEMMA MemoryWrites ==
    ASSUME IInv, LifecycleAssumption, RecordBucket \/ SlotsFree \/ DeleteDone
    PROVE  /\ mem \in Runtimes /\ mem # NoRuntime /\ mem' \in Runtimes /\ mem' # NoRuntime
           /\ mem'.state = mem.state /\ mem'.stages = mem.stages
           /\ mem'.backend = mem.backend /\ mem'.quarantined = mem.quarantined
           /\ RecordBucket => /\ mem'.created = mem.created \cup {at}
                              /\ mem'.started = mem.started /\ mem'.pending = mem.pending
           /\ SlotsFree => /\ mem'.started = TRUE
                           /\ mem'.created = mem.created /\ mem'.pending = mem.pending
           /\ DeleteDone => /\ mem'.created = {} /\ mem'.started = mem.started
                            /\ mem'.pending \in {NoList, mem.pending}
<1>1. mem \in Runtimes /\ mem # NoRuntime
  BY RuntimeTypes DEF IInv, CallInv, RecordBucket, SlotsFree, DeleteDone
<1>2. at \in Workers
  BY DEF IInv, TypeOK
<1>3. CASE RecordBucket
  <2>1. mem' = [mem EXCEPT !.created = @ \cup {at}] /\ pc = "record"
    BY <1>3 DEF RecordBucket
  <2>2. mem' \in Runtimes
    BY <1>1, <1>2, <2>1 DEF Runtimes
  <2>3. ~SlotsFree /\ ~DeleteDone
    BY <2>1 DEF SlotsFree, DeleteDone
  <2>. QED  BY <1>1, <2>1, <2>2, <2>3 DEF Runtimes, LifecycleAssumption
<1>4. CASE SlotsFree
  <2>1. mem' = [mem EXCEPT !.started = TRUE] /\ pc = "slots"
    BY <1>4 DEF SlotsFree
  <2>2. mem' \in Runtimes
    BY <1>1, <2>1 DEF Runtimes
  <2>3. ~RecordBucket /\ ~DeleteDone
    BY <2>1 DEF RecordBucket, DeleteDone
  <2>. QED  BY <1>1, <2>1, <2>2, <2>3 DEF Runtimes, LifecycleAssumption
<1>5. CASE DeleteDone
  <2>1. /\ pc = "delete"
        /\ mem' = [mem EXCEPT !.created = {}, !.pending = IF job = "teardown" THEN NoList ELSE @]
    BY <1>5 DEF DeleteDone
  <2>2. mem' \in Runtimes
    BY <1>1, <2>1 DEF Runtimes
  <2>3. ~RecordBucket /\ ~SlotsFree
    BY <2>1 DEF RecordBucket, SlotsFree
  <2>. QED  BY <1>1, <2>1, <2>2, <2>3 DEF Runtimes, LifecycleAssumption
<1>. QED  BY <1>3, <1>4, <1>5

\* A cleanup fails in r: what r says, and what runtime.json then says.
LEMMA CleanupWrites ==
    ASSUME IInv, LifecycleAssumption, NEW r \in Runtimes,
           DownFailsIn(r) \/ DeleteFailsIn(r) \/ RemovalFailsIn(r)
    PROVE  /\ mem \in Runtimes /\ mem # NoRuntime /\ r # NoRuntime /\ mem' \in {NoRuntime, r}
           /\ r.state = "cleanup_failed" /\ r.quarantined = TRUE
           /\ r.stages = mem.stages /\ r.backend = mem.backend /\ r.started = mem.started
           /\ DownFailsIn(r) =>
                /\ r.created = mem.created
                /\ r.pending = IF job = "provision" THEN mem.created ELSE owned
           /\ DeleteFailsIn(r) => r.created = failed /\ r.pending = failed
           /\ RemovalFailsIn(r) => r.created = mem.created /\ r.pending = mem.pending
           /\ disk' \in Runtimes /\ disk' # NoRuntime /\ disk'.created = {} /\ dir' = TRUE
           /\ disk'.state = "cleanup_failed" /\ disk'.quarantined = TRUE
           /\ disk'.stages = r.stages /\ disk'.backend = r.backend /\ disk'.pending = r.pending
<1>1. mem \in Runtimes /\ mem # NoRuntime /\ failed \in SUBSET Workers
  BY RuntimeTypes DEF IInv, TypeOK, CallInv, DownFailsIn, DeleteFailsIn, RemovalFailsIn, DownFailed,
     DeleteFailed, RemovalFailed
<1>2. CleanupLeaves(r) /\ mem' \in {NoRuntime, r} /\ r # NoRuntime
  BY DEF DownFailsIn, DeleteFailsIn, RemovalFailsIn, LifecycleAssumption
<1>3. /\ disk' \in Runtimes /\ disk' # NoRuntime /\ disk'.created = {} /\ dir' = TRUE
      /\ disk'.state = r.state /\ disk'.quarantined = r.quarantined
      /\ disk'.stages = r.stages /\ disk'.backend = r.backend /\ disk'.pending = r.pending
  <2>1. disk' = [r EXCEPT !.created = {}] /\ dir' = TRUE
    BY <1>2 DEF CleanupLeaves
  <2>2. disk' \in Runtimes
    BY <2>1 DEF Runtimes
  <2>. QED  BY <2>1, <2>2 DEF Runtimes, LifecycleAssumption
<1>4. ASSUME DownFailsIn(r)
      PROVE  /\ r.state = "cleanup_failed" /\ r.quarantined = TRUE
             /\ r.stages = mem.stages /\ r.backend = mem.backend /\ r.started = mem.started
             /\ r.created = mem.created
             /\ r.pending = IF job = "provision" THEN mem.created ELSE owned
             /\ pc = "down"
  BY <1>1, <1>4 DEF DownFailsIn, DownFailed, CleanupFailed, Runtimes
<1>5. ASSUME DeleteFailsIn(r)
      PROVE  /\ r.state = "cleanup_failed" /\ r.quarantined = TRUE
             /\ r.stages = mem.stages /\ r.backend = mem.backend /\ r.started = mem.started
             /\ r.created = failed /\ r.pending = failed /\ pc = "delete"
  BY <1>1, <1>5 DEF DeleteFailsIn, DeleteFailed, CleanupFailed, Runtimes
<1>6. ASSUME RemovalFailsIn(r)
      PROVE  /\ r.state = "cleanup_failed" /\ r.quarantined = TRUE
             /\ r.stages = mem.stages /\ r.backend = mem.backend /\ r.started = mem.started
             /\ r.created = mem.created /\ r.pending = mem.pending /\ pc = "rmdir"
  BY <1>1, <1>6 DEF RemovalFailsIn, RemovalFailed, CleanupFailed, Runtimes
<1>. QED  BY <1>1, <1>2, <1>3, <1>4, <1>5, <1>6

\* A teardown ends: only the state of the process's runtime changes.
RemovalWrites ==
    /\ mem \in Runtimes /\ mem # NoRuntime /\ mem' \in Runtimes /\ mem' # NoRuntime
    /\ mem'.state = "torn_down" /\ mem'.stages = mem.stages /\ mem'.backend = mem.backend
    /\ mem'.quarantined = mem.quarantined /\ mem'.pending = mem.pending
    /\ mem'.created = mem.created

\* The end of a teardown writes that.
LEMMA TeardownWrites ==
    ASSUME IInv, LifecycleAssumption, RemovedByTeardown
    PROVE  RemovalWrites
<1>1. mem \in Runtimes /\ mem # NoRuntime
  BY RuntimeTypes DEF IInv, CallInv, RemovedByTeardown
<1>2. mem' = [mem EXCEPT !.state = "torn_down"]
  BY DEF RemovedByTeardown
<1>3. mem' \in Runtimes
  BY <1>1, <1>2 DEF Runtimes, States
<1>. QED  BY <1>1, <1>2, <1>3 DEF Runtimes, LifecycleAssumption, RemovalWrites

\* The same steps, with what they write.
StageFailsToCaller == FailsToCaller /\ FailWrites
StageFailsToDown == FailsToDown /\ FailWrites
StageFailsToDelete == FailsToDelete /\ FailWrites
StageEndsLast == CompletesLast /\ CompletionWrites
StageEndsMore == CompletesMore /\ CompletionWrites
StageEntersDeploy == EntersDeploy /\ BackendWrites
StageEntersObserve == EntersObserve /\ BackendWrites
StageEntersProbe == EntersProbe /\ BackendWrites
WritesNew == BuildWrites /\ FirstWrites
WritesQuarantine == MarkQuarantined /\ QuarantineWrites
TeardownCompletes == RemovedByTeardown /\ RemovalWrites

MemoryKept ==
    /\ mem \in Runtimes /\ mem # NoRuntime /\ mem' \in Runtimes /\ mem' # NoRuntime
    /\ mem'.state = mem.state /\ mem'.stages = mem.stages
    /\ mem'.backend = mem.backend /\ mem'.quarantined = mem.quarantined
RecordsBucket ==
    /\ RecordBucket /\ MemoryKept /\ mem'.created = mem.created \cup {at}
    /\ mem'.started = mem.started /\ mem'.pending = mem.pending
FindsSlotsFree ==
    /\ SlotsFree /\ MemoryKept /\ mem'.started = TRUE
    /\ mem'.created = mem.created /\ mem'.pending = mem.pending
ClearsLists ==
    /\ DeleteDone /\ MemoryKept /\ mem'.created = {} /\ mem'.started = mem.started
    /\ mem'.pending \in {NoList, mem.pending}

CleanupLeft(r) ==
    /\ mem \in Runtimes /\ mem # NoRuntime /\ r # NoRuntime /\ mem' \in {NoRuntime, r}
    /\ r.state = "cleanup_failed" /\ r.quarantined = TRUE
    /\ r.stages = mem.stages /\ r.backend = mem.backend /\ r.started = mem.started
    /\ disk' \in Runtimes /\ disk' # NoRuntime /\ disk'.created = {} /\ dir' = TRUE
    /\ disk'.state = "cleanup_failed" /\ disk'.quarantined = TRUE
    /\ disk'.stages = r.stages /\ disk'.backend = r.backend /\ disk'.pending = r.pending
LeavesLabs(r) ==
    /\ DownFailsIn(r) /\ CleanupLeft(r) /\ r.created = mem.created
    /\ r.pending = IF job = "provision" THEN mem.created ELSE owned
LeavesBuckets(r) ==
    DeleteFailsIn(r) /\ CleanupLeft(r) /\ r.created = failed /\ r.pending = failed
LeavesDirectory(r) ==
    RemovalFailsIn(r) /\ CleanupLeft(r) /\ r.created = mem.created /\ r.pending = mem.pending

\* Every step is one of these, which say what they write.
LEMMA StepCases ==
    ASSUME IInv, LifecycleAssumption, Next
    PROVE  \/ \E caller \in {"provision", "staged"} : Build(caller)
           \/ \E w \in Workers :
                \/ LeavesLab(w) \/ LeavesNoLab(w) \/ BucketThere(w) \/ BucketMade(w)
                \/ BucketUnanswered(w) \/ LabGone(w) \/ LabLeft(w) \/ BucketDeleted(w)
                \/ BucketDoubtful(w) \/ BucketLeft(w)
           \/ \E r \in Runtimes : LeavesLabs(r) \/ LeavesBuckets(r) \/ LeavesDirectory(r)
           \/ Attach \/ Exit \/ WritesQuarantine \/ StartChain
           \/ WritesNew \/ RecordsBucket \/ SidecarStarts \/ MarkDeleted
           \/ FindsSlotsFree \/ CrashKeepsDisk \/ CrashLosesDisk \/ RefusedToCaller
           \/ RefusedToDown \/ RefusedToDelete \/ StageFailsToCaller \/ StageFailsToDown
           \/ StageFailsToDelete \/ StageEndsLast \/ StageEndsMore \/ SkipsLast
           \/ SkipsMore \/ StageEntersDeploy \/ StageEntersObserve \/ StageEntersProbe
           \/ TeardownVisits \/ TeardownRemoves \/ DownDone \/ ClearsLists
           \/ TeardownCompletes \/ RemovedByProvision
<1>1. FailsToCaller \/ FailsToDown \/ FailsToDelete => FailWrites
  BY WriteFails DEF FailsToCaller, FailsToDown, FailsToDelete
<1>2. CompletesLast \/ CompletesMore => CompletionWrites
  BY WriteCompletes DEF CompletesLast, CompletesMore
<1>3. EntersDeploy \/ EntersObserve \/ EntersProbe => BackendWrites
  BY WriteBackend DEF EntersDeploy, EntersObserve, EntersProbe
<1>4. (RecordBucket => RecordsBucket) /\ (SlotsFree => FindsSlotsFree) /\ (DeleteDone => ClearsLists)
  BY MemoryWrites, Zenon DEF RecordsBucket, FindsSlotsFree, ClearsLists, MemoryKept
<1>5. ASSUME NEW r \in Runtimes
      PROVE  /\ DownFailsIn(r) => LeavesLabs(r)
             /\ DeleteFailsIn(r) => LeavesBuckets(r)
             /\ RemovalFailsIn(r) => LeavesDirectory(r)
  BY <1>5, CleanupWrites, Zenon DEF LeavesLabs, LeavesBuckets, LeavesDirectory, CleanupLeft
<1>. QED
  BY StepKinds, WriteFirst, WriteQuarantine, TeardownWrites, <1>1, <1>2, <1>3, <1>4, <1>5, Zenon
     DEF StageFailsToCaller, StageFailsToDown, StageFailsToDelete, StageEndsLast, StageEndsMore,
         StageEntersDeploy, StageEntersObserve, StageEntersProbe, WritesNew, WritesQuarantine,
         TeardownCompletes

\* Every variable keeps its type.
LEMMA TypeStep ==
    ASSUME IInv, LifecycleAssumption, Next
    PROVE  TypeOK'
<1>. USE DEF TypeOK, Pcs, CallInv, LifecycleAssumption,
           IInv, world, loop
<1>1. ASSUME NEW caller \in {"provision", "staged"}, Build(caller)  PROVE TypeOK'
  BY <1>1 DEF Build, Fresh, Runtimes, States, Stages
<1>2. ASSUME NEW w \in Workers, LeavesLab(w)  PROVE TypeOK'
  BY <1>2 DEF LeavesLab
<1>3. ASSUME NEW w \in Workers, LeavesNoLab(w)  PROVE TypeOK'
  BY <1>3 DEF LeavesNoLab
<1>4. ASSUME NEW w \in Workers, BucketThere(w)  PROVE TypeOK'
  BY <1>4 DEF BucketThere
<1>5. ASSUME NEW w \in Workers, BucketMade(w)  PROVE TypeOK'
  BY <1>5 DEF BucketMade
<1>6. ASSUME NEW w \in Workers, BucketUnanswered(w)  PROVE TypeOK'
  BY <1>6 DEF BucketUnanswered
<1>7. ASSUME NEW w \in Workers, LabGone(w)  PROVE TypeOK'
  BY <1>7 DEF LabGone
<1>8. ASSUME NEW w \in Workers, LabLeft(w)  PROVE TypeOK'
  BY <1>8 DEF LabLeft
<1>9. ASSUME NEW w \in Workers, BucketDeleted(w)  PROVE TypeOK'
  BY <1>9 DEF BucketDeleted
<1>10. ASSUME NEW w \in Workers, BucketDoubtful(w)  PROVE TypeOK'
  BY <1>10 DEF BucketDoubtful
<1>11. ASSUME NEW w \in Workers, BucketLeft(w)  PROVE TypeOK'
  BY <1>11 DEF BucketLeft
<1>12. ASSUME NEW r \in Runtimes, LeavesLabs(r)  PROVE TypeOK'
  BY <1>12 DEF LeavesLabs, DownFailsIn, DownFailed, CleanupLeaves, CleanupLeft
<1>13. ASSUME NEW r \in Runtimes, LeavesBuckets(r)  PROVE TypeOK'
  BY <1>13 DEF LeavesBuckets, DeleteFailsIn, DeleteFailed, CleanupLeaves, CleanupLeft
<1>14. ASSUME NEW r \in Runtimes, LeavesDirectory(r)  PROVE TypeOK'
  BY <1>14 DEF LeavesDirectory, RemovalFailsIn, RemovalFailed, CleanupLeaves, CleanupLeft
<1>15. CASE Attach
  BY <1>15 DEF Attach
<1>16. CASE Exit
  BY <1>16 DEF Exit
<1>17. CASE WritesQuarantine
  BY <1>17 DEF WritesQuarantine, MarkQuarantined, QuarantineWrites, Written
<1>18. CASE StartChain
  BY <1>18 DEF StartChain, Stages
<1>19. CASE WritesNew
  BY <1>19 DEF WritesNew, BuildWrites, FirstWrites, Written, Stages
<1>20. CASE RecordsBucket
  BY <1>20 DEF RecordsBucket, RecordBucket, MemoryKept
<1>21. CASE SidecarStarts
  BY <1>21 DEF SidecarStarts
<1>22. CASE MarkDeleted
  BY <1>22 DEF MarkDeleted
<1>23. CASE FindsSlotsFree
  BY <1>23 DEF FindsSlotsFree, SlotsFree, MemoryKept, Visit
<1>24. CASE CrashKeepsDisk
  BY <1>24 DEF CrashKeepsDisk
<1>25. CASE CrashLosesDisk
  BY <1>25 DEF CrashLosesDisk
<1>26. CASE RefusedToCaller
  BY <1>26 DEF RefusedToCaller, ToCaller, Refused
<1>27. CASE RefusedToDown
  BY <1>27 DEF RefusedToDown, ToDown, Refused
<1>28. CASE RefusedToDelete
  BY <1>28 DEF RefusedToDelete, ToDelete, Refused, Runtimes
<1>29. CASE StageFailsToCaller
  BY <1>29 DEF StageFailsToCaller, FailsToCaller, ToCaller, Failing, FailWrites, Written
<1>30. CASE StageFailsToDown
  BY <1>30 DEF StageFailsToDown, FailsToDown, ToDown, Failing, FailWrites, Written
<1>31. CASE StageFailsToDelete
  BY <1>31 DEF StageFailsToDelete, FailsToDelete, ToDelete, Failing, FailWrites, Written, Runtimes
<1>32. CASE StageEndsLast
  BY <1>32 DEF StageEndsLast, CompletesLast, Completing, CompletionWrites, Written, Stages
<1>33. CASE StageEndsMore
  <2>1. stage' \in Stages
    BY <1>33 DEF StageEndsMore, CompletesMore, NextStage, Stages
  <2>. QED  BY <1>33, <2>1 DEF StageEndsMore, CompletesMore, Completing, CompletionWrites, Written
<1>34. CASE SkipsLast
  BY <1>34 DEF SkipsLast, Admitted
<1>35. CASE SkipsMore
  BY <1>35 DEF SkipsMore, Admitted, NextStage, Stages
<1>36. CASE StageEntersDeploy
  BY <1>36 DEF StageEntersDeploy, EntersDeploy, Entering, BackendWrites, Admitted
<1>37. CASE StageEntersObserve
  BY <1>37 DEF StageEntersObserve, EntersObserve, Entering, BackendWrites, Admitted
<1>38. CASE StageEntersProbe
  BY <1>38 DEF StageEntersProbe, EntersProbe, Entering, BackendWrites, Admitted
<1>39. CASE TeardownVisits
  BY <1>39 DEF TeardownVisits
<1>40. CASE TeardownRemoves
  BY <1>40 DEF TeardownRemoves
<1>41. CASE DownDone
  BY <1>41 DEF DownDone, Runtimes, BucketsToDelete
<1>42. CASE ClearsLists
  BY <1>42 DEF ClearsLists, DeleteDone, MemoryKept
<1>43. CASE TeardownCompletes
  BY <1>43 DEF TeardownCompletes, RemovedByTeardown, RemovalWrites
<1>44. CASE RemovedByProvision
  BY <1>44 DEF RemovedByProvision
<1>. HIDE DEF TypeOK, Pcs, CallInv, LifecycleAssumption
<1>. QED
  BY StepCases, <1>1, <1>2, <1>3, <1>4, <1>5, <1>6, <1>7, <1>8, <1>9, <1>10, <1>11, <1>12, <1>13, <1>14, <1>15, <1>16, <1>17, <1>18, <1>19, <1>20, <1>21, <1>22, <1>23, <1>24, <1>25, <1>26, <1>27, <1>28, <1>29, <1>30, <1>31, <1>32, <1>33, <1>34, <1>35, <1>36, <1>37, <1>38, <1>39, <1>40, <1>41, <1>42, <1>43, <1>44, Zenon

\* A call works on a runtime, and keeps to its kind.
LEMMA CallStep ==
    ASSUME IInv, LifecycleAssumption, Next
    PROVE  CallInv'
<1>. USE DEF TypeOK, CallInv, LifecycleAssumption, ChainPcs, CleanPcs, SyncInv,
           IInv, world, loop
<1>1. ASSUME NEW caller \in {"provision", "staged"}, Build(caller)  PROVE CallInv'
  <2>1. Fresh \in Runtimes
    BY DEF Fresh, Runtimes, States
  <2>2. mem' = Fresh /\ mem' # NoRuntime /\ disk' = NoRuntime
    BY <1>1, <2>1 DEF Build
  <2>. QED  BY <1>1, <2>2 DEF Build, Fresh
<1>2. ASSUME NEW w \in Workers, LeavesLab(w)  PROVE CallInv'
  BY <1>2 DEF LeavesLab
<1>3. ASSUME NEW w \in Workers, LeavesNoLab(w)  PROVE CallInv'
  BY <1>3 DEF LeavesNoLab
<1>4. ASSUME NEW w \in Workers, BucketThere(w)  PROVE CallInv'
  BY <1>4 DEF BucketThere
<1>5. ASSUME NEW w \in Workers, BucketMade(w)  PROVE CallInv'
  BY <1>5 DEF BucketMade
<1>6. ASSUME NEW w \in Workers, BucketUnanswered(w)  PROVE CallInv'
  BY <1>6 DEF BucketUnanswered
<1>7. ASSUME NEW w \in Workers, LabGone(w)  PROVE CallInv'
  BY <1>7 DEF LabGone
<1>8. ASSUME NEW w \in Workers, LabLeft(w)  PROVE CallInv'
  BY <1>8 DEF LabLeft
<1>9. ASSUME NEW w \in Workers, BucketDeleted(w)  PROVE CallInv'
  BY <1>9 DEF BucketDeleted
<1>10. ASSUME NEW w \in Workers, BucketDoubtful(w)  PROVE CallInv'
  BY <1>10 DEF BucketDoubtful
<1>11. ASSUME NEW w \in Workers, BucketLeft(w)  PROVE CallInv'
  BY <1>11 DEF BucketLeft
<1>12. ASSUME NEW r \in Runtimes, LeavesLabs(r)  PROVE CallInv'
  BY <1>12 DEF LeavesLabs, DownFailsIn, DownFailed, CleanupLeaves, CleanupLeft
<1>13. ASSUME NEW r \in Runtimes, LeavesBuckets(r)  PROVE CallInv'
  BY <1>13 DEF LeavesBuckets, DeleteFailsIn, DeleteFailed, CleanupLeaves, CleanupLeft
<1>14. ASSUME NEW r \in Runtimes, LeavesDirectory(r)  PROVE CallInv'
  BY <1>14 DEF LeavesDirectory, RemovalFailsIn, RemovalFailed, CleanupLeaves, CleanupLeft
<1>15. CASE Attach
  BY <1>15 DEF Attach
<1>16. CASE Exit
  BY <1>16 DEF Exit
<1>17. CASE WritesQuarantine
  BY <1>17 DEF WritesQuarantine, MarkQuarantined, QuarantineWrites, Written
<1>18. CASE StartChain
  BY <1>18 DEF StartChain
<1>19. CASE WritesNew
  BY <1>19 DEF WritesNew, BuildWrites, FirstWrites, Written
<1>20. CASE RecordsBucket
  BY <1>20 DEF RecordsBucket, RecordBucket, MemoryKept
<1>21. CASE SidecarStarts
  BY <1>21 DEF SidecarStarts
<1>22. CASE MarkDeleted
  BY <1>22 DEF MarkDeleted
<1>23. CASE FindsSlotsFree
  BY <1>23 DEF FindsSlotsFree, SlotsFree, MemoryKept, Visit
<1>24. CASE CrashKeepsDisk
  BY <1>24 DEF CrashKeepsDisk
<1>25. CASE CrashLosesDisk
  BY <1>25 DEF CrashLosesDisk
<1>26. CASE RefusedToCaller
  BY <1>26 DEF RefusedToCaller, ToCaller, Refused
<1>27. CASE RefusedToDown
  BY <1>27 DEF RefusedToDown, ToDown, Refused
<1>28. CASE RefusedToDelete
  BY <1>28 DEF RefusedToDelete, ToDelete, Refused
<1>29. CASE StageFailsToCaller
  BY <1>29 DEF StageFailsToCaller, FailsToCaller, ToCaller, Failing, FailWrites, Written
<1>30. CASE StageFailsToDown
  BY <1>30 DEF StageFailsToDown, FailsToDown, ToDown, Failing, FailWrites, Written
<1>31. CASE StageFailsToDelete
  BY <1>31 DEF StageFailsToDelete, FailsToDelete, ToDelete, Failing, FailWrites, Written
<1>32. CASE StageEndsLast
  BY <1>32 DEF StageEndsLast, CompletesLast, Completing, CompletionWrites, Written
<1>33. CASE StageEndsMore
  <2>1. mem'.stages["deploy"] = "completed" /\ mem'.state # "torn_down"
    BY <1>33 DEF StageEndsMore, CompletesMore, Completing, CompletionWrites, StateAfter, Stages
  <2>. QED  BY <1>33, <2>1 DEF StageEndsMore, CompletesMore, Completing, CompletionWrites, Written
<1>34. CASE SkipsLast
  BY <1>34 DEF SkipsLast, Admitted
<1>35. CASE SkipsMore
  BY <1>35 DEF SkipsMore, Admitted, NextStage, Stages
<1>36. CASE StageEntersDeploy
  BY <1>36 DEF StageEntersDeploy, EntersDeploy, Entering, BackendWrites, Admitted
<1>37. CASE StageEntersObserve
  BY <1>37 DEF StageEntersObserve, EntersObserve, Entering, BackendWrites, Admitted
<1>38. CASE StageEntersProbe
  BY <1>38 DEF StageEntersProbe, EntersProbe, Entering, BackendWrites, Admitted
<1>39. CASE TeardownVisits
  BY <1>39 DEF TeardownVisits
<1>40. CASE TeardownRemoves
  BY <1>40 DEF TeardownRemoves
<1>41. CASE DownDone
  BY <1>41 DEF DownDone
<1>42. CASE ClearsLists
  BY <1>42 DEF ClearsLists, DeleteDone, MemoryKept
<1>43. CASE TeardownCompletes
  BY <1>43 DEF TeardownCompletes, RemovedByTeardown, RemovalWrites
<1>44. CASE RemovedByProvision
  BY <1>44 DEF RemovedByProvision
<1>. HIDE DEF TypeOK, CallInv, LifecycleAssumption, ChainPcs, CleanPcs, SyncInv
<1>. QED
  BY StepCases, <1>1, <1>2, <1>3, <1>4, <1>5, <1>6, <1>7, <1>8, <1>9, <1>10, <1>11, <1>12, <1>13, <1>14, <1>15, <1>16, <1>17, <1>18, <1>19, <1>20, <1>21, <1>22, <1>23, <1>24, <1>25, <1>26, <1>27, <1>28, <1>29, <1>30, <1>31, <1>32, <1>33, <1>34, <1>35, <1>36, <1>37, <1>38, <1>39, <1>40, <1>41, <1>42, <1>43, <1>44, Zenon

\* runtime.json says what the process knows.
LEMMA SyncStep ==
    ASSUME IInv, LifecycleAssumption, Next
    PROVE  SyncInv'
<1>. USE DEF SyncInv, TypeOK, CallInv, LifecycleAssumption, ChainPcs, CleanPcs,
           IInv, world, loop
<1>1. ASSUME NEW caller \in {"provision", "staged"}, Build(caller)  PROVE SyncInv'
  BY <1>1 DEF Build
<1>2. ASSUME NEW w \in Workers, LeavesLab(w)  PROVE SyncInv'
  BY <1>2 DEF LeavesLab
<1>3. ASSUME NEW w \in Workers, LeavesNoLab(w)  PROVE SyncInv'
  BY <1>3 DEF LeavesNoLab
<1>4. ASSUME NEW w \in Workers, BucketThere(w)  PROVE SyncInv'
  BY <1>4 DEF BucketThere
<1>5. ASSUME NEW w \in Workers, BucketMade(w)  PROVE SyncInv'
  BY <1>5 DEF BucketMade
<1>6. ASSUME NEW w \in Workers, BucketUnanswered(w)  PROVE SyncInv'
  BY <1>6 DEF BucketUnanswered
<1>7. ASSUME NEW w \in Workers, LabGone(w)  PROVE SyncInv'
  BY <1>7 DEF LabGone
<1>8. ASSUME NEW w \in Workers, LabLeft(w)  PROVE SyncInv'
  BY <1>8 DEF LabLeft
<1>9. ASSUME NEW w \in Workers, BucketDeleted(w)  PROVE SyncInv'
  BY <1>9 DEF BucketDeleted
<1>10. ASSUME NEW w \in Workers, BucketDoubtful(w)  PROVE SyncInv'
  BY <1>10 DEF BucketDoubtful
<1>11. ASSUME NEW w \in Workers, BucketLeft(w)  PROVE SyncInv'
  BY <1>11 DEF BucketLeft
<1>12. ASSUME NEW r \in Runtimes, LeavesLabs(r)  PROVE SyncInv'
  BY <1>12 DEF LeavesLabs, DownFailsIn, DownFailed, CleanupLeaves, CleanupLeft
<1>13. ASSUME NEW r \in Runtimes, LeavesBuckets(r)  PROVE SyncInv'
  BY <1>13 DEF LeavesBuckets, DeleteFailsIn, DeleteFailed, CleanupLeaves, CleanupLeft
<1>14. ASSUME NEW r \in Runtimes, LeavesDirectory(r)  PROVE SyncInv'
  BY <1>14 DEF LeavesDirectory, RemovalFailsIn, RemovalFailed, CleanupLeaves, CleanupLeft
<1>15. CASE Attach
  BY <1>15 DEF Attach
<1>16. CASE Exit
  BY <1>16 DEF Exit
<1>17. CASE WritesQuarantine
  BY <1>17 DEF WritesQuarantine, MarkQuarantined, QuarantineWrites, Written
<1>18. CASE StartChain
  BY <1>18 DEF StartChain
<1>19. CASE WritesNew
  BY <1>19 DEF WritesNew, BuildWrites, FirstWrites, Written, Fresh
<1>20. CASE RecordsBucket
  BY <1>20 DEF RecordsBucket, RecordBucket, MemoryKept
<1>21. CASE SidecarStarts
  BY <1>21 DEF SidecarStarts
<1>22. CASE MarkDeleted
  BY <1>22 DEF MarkDeleted
<1>23. CASE FindsSlotsFree
  BY <1>23 DEF FindsSlotsFree, SlotsFree, MemoryKept, Visit
<1>24. CASE CrashKeepsDisk
  BY <1>24 DEF CrashKeepsDisk
<1>25. CASE CrashLosesDisk
  BY <1>25 DEF CrashLosesDisk
<1>26. CASE RefusedToCaller
  BY <1>26 DEF RefusedToCaller, ToCaller, Refused
<1>27. CASE RefusedToDown
  BY <1>27 DEF RefusedToDown, ToDown, Refused
<1>28. CASE RefusedToDelete
  BY <1>28 DEF RefusedToDelete, ToDelete, Refused
<1>29. CASE StageFailsToCaller
  BY <1>29 DEF StageFailsToCaller, FailsToCaller, ToCaller, Failing, FailWrites, Written
<1>30. CASE StageFailsToDown
  BY <1>30 DEF StageFailsToDown, FailsToDown, ToDown, Failing, FailWrites, Written
<1>31. CASE StageFailsToDelete
  BY <1>31 DEF StageFailsToDelete, FailsToDelete, ToDelete, Failing, FailWrites, Written
<1>32. CASE StageEndsLast
  BY <1>32 DEF StageEndsLast, CompletesLast, Completing, CompletionWrites, Written, StateAfter, Stages
<1>33. CASE StageEndsMore
  BY <1>33 DEF StageEndsMore, CompletesMore, Completing, CompletionWrites, Written, StateAfter, Stages, NextStage
<1>34. CASE SkipsLast
  BY <1>34 DEF SkipsLast, Admitted
<1>35. CASE SkipsMore
  BY <1>35 DEF SkipsMore, Admitted, NextStage, Stages
<1>36. CASE StageEntersDeploy
  BY <1>36 DEF StageEntersDeploy, EntersDeploy, Entering, BackendWrites, Admitted
<1>37. CASE StageEntersObserve
  BY <1>37 DEF StageEntersObserve, EntersObserve, Entering, BackendWrites, Admitted
<1>38. CASE StageEntersProbe
  BY <1>38 DEF StageEntersProbe, EntersProbe, Entering, BackendWrites, Admitted
<1>39. CASE TeardownVisits
  BY <1>39 DEF TeardownVisits
<1>40. CASE TeardownRemoves
  BY <1>40 DEF TeardownRemoves
<1>41. CASE DownDone
  BY <1>41 DEF DownDone
<1>42. CASE ClearsLists
  BY <1>42 DEF ClearsLists, DeleteDone, MemoryKept
<1>43. CASE TeardownCompletes
  BY <1>43 DEF TeardownCompletes, RemovedByTeardown, RemovalWrites
<1>44. CASE RemovedByProvision
  BY <1>44 DEF RemovedByProvision
<1>. HIDE DEF SyncInv, TypeOK, CallInv, LifecycleAssumption, ChainPcs, CleanPcs
<1>. QED
  BY StepCases, <1>1, <1>2, <1>3, <1>4, <1>5, <1>6, <1>7, <1>8, <1>9, <1>10, <1>11, <1>12, <1>13, <1>14, <1>15, <1>16, <1>17, <1>18, <1>19, <1>20, <1>21, <1>22, <1>23, <1>24, <1>25, <1>26, <1>27, <1>28, <1>29, <1>30, <1>31, <1>32, <1>33, <1>34, <1>35, <1>36, <1>37, <1>38, <1>39, <1>40, <1>41, <1>42, <1>43, <1>44, Zenon

\* No list of buckets to delete names a user's bucket.
LEMMA UserStep ==
    ASSUME IInv, LifecycleAssumption, Next
    PROVE  UserInv'
<1>. USE DEF UserInv, Spares, SyncInv, TypeOK, CallInv, LifecycleAssumption, ChainPcs, CleanPcs,
           IInv, world, loop
<1>1. ASSUME NEW caller \in {"provision", "staged"}, Build(caller)  PROVE UserInv'
  BY <1>1 DEF Build, Fresh
<1>2. ASSUME NEW w \in Workers, LeavesLab(w)  PROVE UserInv'
  BY <1>2 DEF LeavesLab
<1>3. ASSUME NEW w \in Workers, LeavesNoLab(w)  PROVE UserInv'
  BY <1>3 DEF LeavesNoLab
<1>4. ASSUME NEW w \in Workers, BucketThere(w)  PROVE UserInv'
  BY <1>4 DEF BucketThere
<1>5. ASSUME NEW w \in Workers, BucketMade(w)  PROVE UserInv'
  BY <1>5 DEF BucketMade
<1>6. ASSUME NEW w \in Workers, BucketUnanswered(w)  PROVE UserInv'
  BY <1>6 DEF BucketUnanswered
<1>7. ASSUME NEW w \in Workers, LabGone(w)  PROVE UserInv'
  BY <1>7 DEF LabGone
<1>8. ASSUME NEW w \in Workers, LabLeft(w)  PROVE UserInv'
  BY <1>8 DEF LabLeft
<1>9. ASSUME NEW w \in Workers, BucketDeleted(w)  PROVE UserInv'
  BY <1>9 DEF BucketDeleted
<1>10. ASSUME NEW w \in Workers, BucketDoubtful(w)  PROVE UserInv'
  BY <1>10 DEF BucketDoubtful
<1>11. ASSUME NEW w \in Workers, BucketLeft(w)  PROVE UserInv'
  BY <1>11 DEF BucketLeft
<1>12. ASSUME NEW r \in Runtimes, LeavesLabs(r)  PROVE UserInv'
  BY <1>12 DEF LeavesLabs, DownFailsIn, DownFailed, CleanupLeaves, CleanupLeft
<1>13. ASSUME NEW r \in Runtimes, LeavesBuckets(r)  PROVE UserInv'
  BY <1>13 DEF LeavesBuckets, DeleteFailsIn, DeleteFailed, CleanupLeaves, CleanupLeft
<1>14. ASSUME NEW r \in Runtimes, LeavesDirectory(r)  PROVE UserInv'
  BY <1>14 DEF LeavesDirectory, RemovalFailsIn, RemovalFailed, CleanupLeaves, CleanupLeft
<1>15. CASE Attach
  BY <1>15 DEF Attach
<1>16. CASE Exit
  BY <1>16 DEF Exit
<1>17. CASE WritesQuarantine
  BY <1>17 DEF WritesQuarantine, MarkQuarantined, QuarantineWrites, Written
<1>18. CASE StartChain
  BY <1>18 DEF StartChain
<1>19. CASE WritesNew
  BY <1>19 DEF WritesNew, BuildWrites, FirstWrites, Written
<1>20. CASE RecordsBucket
  BY <1>20 DEF RecordsBucket, RecordBucket, MemoryKept
<1>21. CASE SidecarStarts
  BY <1>21 DEF SidecarStarts
<1>22. CASE MarkDeleted
  BY <1>22 DEF MarkDeleted
<1>23. CASE FindsSlotsFree
  BY <1>23 DEF FindsSlotsFree, SlotsFree, MemoryKept, Visit
<1>24. CASE CrashKeepsDisk
  BY <1>24 DEF CrashKeepsDisk
<1>25. CASE CrashLosesDisk
  BY <1>25 DEF CrashLosesDisk
<1>26. CASE RefusedToCaller
  BY <1>26 DEF RefusedToCaller, ToCaller, Refused
<1>27. CASE RefusedToDown
  BY <1>27 DEF RefusedToDown, ToDown, Refused
<1>28. CASE RefusedToDelete
  BY <1>28 DEF RefusedToDelete, ToDelete, Refused
<1>29. CASE StageFailsToCaller
  BY <1>29 DEF StageFailsToCaller, FailsToCaller, ToCaller, Failing, FailWrites, Written
<1>30. CASE StageFailsToDown
  BY <1>30 DEF StageFailsToDown, FailsToDown, ToDown, Failing, FailWrites, Written
<1>31. CASE StageFailsToDelete
  BY <1>31 DEF StageFailsToDelete, FailsToDelete, ToDelete, Failing, FailWrites, Written
<1>32. CASE StageEndsLast
  BY <1>32 DEF StageEndsLast, CompletesLast, Completing, CompletionWrites, Written
<1>33. CASE StageEndsMore
  BY <1>33 DEF StageEndsMore, CompletesMore, Completing, CompletionWrites, Written, NextStage, Stages
<1>34. CASE SkipsLast
  BY <1>34 DEF SkipsLast, Admitted
<1>35. CASE SkipsMore
  BY <1>35 DEF SkipsMore, Admitted, NextStage, Stages
<1>36. CASE StageEntersDeploy
  BY <1>36 DEF StageEntersDeploy, EntersDeploy, Entering, BackendWrites, Admitted
<1>37. CASE StageEntersObserve
  BY <1>37 DEF StageEntersObserve, EntersObserve, Entering, BackendWrites, Admitted
<1>38. CASE StageEntersProbe
  BY <1>38 DEF StageEntersProbe, EntersProbe, Entering, BackendWrites, Admitted
<1>39. CASE TeardownVisits
  BY <1>39 DEF TeardownVisits
<1>40. CASE TeardownRemoves
  BY <1>40 DEF TeardownRemoves
<1>41. CASE DownDone
  BY <1>41 DEF DownDone, BucketsToDelete
<1>42. CASE ClearsLists
  BY <1>42 DEF ClearsLists, DeleteDone, MemoryKept
<1>43. CASE TeardownCompletes
  BY <1>43 DEF TeardownCompletes, RemovedByTeardown, RemovalWrites
<1>44. CASE RemovedByProvision
  BY <1>44 DEF RemovedByProvision
<1>. HIDE DEF UserInv, Spares, SyncInv, TypeOK, CallInv, LifecycleAssumption, ChainPcs, CleanPcs
<1>. QED
  BY StepCases, <1>1, <1>2, <1>3, <1>4, <1>5, <1>6, <1>7, <1>8, <1>9, <1>10, <1>11, <1>12, <1>13, <1>14, <1>15, <1>16, <1>17, <1>18, <1>19, <1>20, <1>21, <1>22, <1>23, <1>24, <1>25, <1>26, <1>27, <1>28, <1>29, <1>30, <1>31, <1>32, <1>33, <1>34, <1>35, <1>36, <1>37, <1>38, <1>39, <1>40, <1>41, <1>42, <1>43, <1>44, Zenon

\* The labs of a deployed runtime are of the backend it recorded.
LEMMA BackendStep ==
    ASSUME IInv, LifecycleAssumption, Next
    PROVE  BackendInv'
<1>. USE DEF BackendInv, OfItsBackend, SyncInv, TypeOK, CallInv, LifecycleAssumption, ChainPcs, CleanPcs,
           IInv, world, loop
<1>1. ASSUME NEW caller \in {"provision", "staged"}, Build(caller)  PROVE BackendInv'
  BY <1>1 DEF Build, Fresh, Stages
<1>2. ASSUME NEW w \in Workers, LeavesLab(w)  PROVE BackendInv'
  BY <1>2 DEF LeavesLab
<1>3. ASSUME NEW w \in Workers, LeavesNoLab(w)  PROVE BackendInv'
  BY <1>3 DEF LeavesNoLab
<1>4. ASSUME NEW w \in Workers, BucketThere(w)  PROVE BackendInv'
  BY <1>4 DEF BucketThere
<1>5. ASSUME NEW w \in Workers, BucketMade(w)  PROVE BackendInv'
  BY <1>5 DEF BucketMade
<1>6. ASSUME NEW w \in Workers, BucketUnanswered(w)  PROVE BackendInv'
  BY <1>6 DEF BucketUnanswered
<1>7. ASSUME NEW w \in Workers, LabGone(w)  PROVE BackendInv'
  BY <1>7 DEF LabGone
<1>8. ASSUME NEW w \in Workers, LabLeft(w)  PROVE BackendInv'
  BY <1>8 DEF LabLeft
<1>9. ASSUME NEW w \in Workers, BucketDeleted(w)  PROVE BackendInv'
  BY <1>9 DEF BucketDeleted
<1>10. ASSUME NEW w \in Workers, BucketDoubtful(w)  PROVE BackendInv'
  BY <1>10 DEF BucketDoubtful
<1>11. ASSUME NEW w \in Workers, BucketLeft(w)  PROVE BackendInv'
  BY <1>11 DEF BucketLeft
<1>12. ASSUME NEW r \in Runtimes, LeavesLabs(r)  PROVE BackendInv'
  BY <1>12 DEF LeavesLabs, DownFailsIn, DownFailed, CleanupLeaves, CleanupLeft
<1>13. ASSUME NEW r \in Runtimes, LeavesBuckets(r)  PROVE BackendInv'
  BY <1>13 DEF LeavesBuckets, DeleteFailsIn, DeleteFailed, CleanupLeaves, CleanupLeft
<1>14. ASSUME NEW r \in Runtimes, LeavesDirectory(r)  PROVE BackendInv'
  BY <1>14 DEF LeavesDirectory, RemovalFailsIn, RemovalFailed, CleanupLeaves, CleanupLeft
<1>15. CASE Attach
  BY <1>15 DEF Attach
<1>16. CASE Exit
  BY <1>16 DEF Exit
<1>17. CASE WritesQuarantine
  BY <1>17 DEF WritesQuarantine, MarkQuarantined, QuarantineWrites, Written
<1>18. CASE StartChain
  BY <1>18 DEF StartChain
<1>19. CASE WritesNew
  BY <1>19 DEF WritesNew, BuildWrites, FirstWrites, Written
<1>20. CASE RecordsBucket
  BY <1>20 DEF RecordsBucket, RecordBucket, MemoryKept
<1>21. CASE SidecarStarts
  BY <1>21 DEF SidecarStarts
<1>22. CASE MarkDeleted
  BY <1>22 DEF MarkDeleted
<1>23. CASE FindsSlotsFree
  BY <1>23 DEF FindsSlotsFree, SlotsFree, MemoryKept, Visit
<1>24. CASE CrashKeepsDisk
  BY <1>24 DEF CrashKeepsDisk
<1>25. CASE CrashLosesDisk
  BY <1>25 DEF CrashLosesDisk
<1>26. CASE RefusedToCaller
  BY <1>26 DEF RefusedToCaller, ToCaller, Refused
<1>27. CASE RefusedToDown
  BY <1>27 DEF RefusedToDown, ToDown, Refused
<1>28. CASE RefusedToDelete
  BY <1>28 DEF RefusedToDelete, ToDelete, Refused
<1>29. CASE StageFailsToCaller
  BY <1>29 DEF StageFailsToCaller, FailsToCaller, ToCaller, Failing, FailWrites, Written
<1>30. CASE StageFailsToDown
  BY <1>30 DEF StageFailsToDown, FailsToDown, ToDown, Failing, FailWrites, Written
<1>31. CASE StageFailsToDelete
  BY <1>31 DEF StageFailsToDelete, FailsToDelete, ToDelete, Failing, FailWrites, Written
<1>32. CASE StageEndsLast
  BY <1>32 DEF StageEndsLast, CompletesLast, Completing, CompletionWrites, Written
<1>33. CASE StageEndsMore
  BY <1>33 DEF StageEndsMore, CompletesMore, Completing, CompletionWrites, Written, NextStage, Stages
<1>34. CASE SkipsLast
  BY <1>34 DEF SkipsLast, Admitted
<1>35. CASE SkipsMore
  BY <1>35 DEF SkipsMore, Admitted, NextStage, Stages
<1>36. CASE StageEntersDeploy
  BY <1>36 DEF StageEntersDeploy, EntersDeploy, Entering, BackendWrites, Admitted
<1>37. CASE StageEntersObserve
  <2>1. mem.backend = identity /\ mem.stages["deploy"] = "completed"
    BY <1>37 DEF StageEntersObserve, EntersObserve, Entering, Admitted, Untouched, Stages
  <2>. QED  BY <1>37, <2>1 DEF StageEntersObserve, EntersObserve, Entering, BackendWrites
<1>38. CASE StageEntersProbe
  <2>1. mem.backend = identity /\ mem.stages["deploy"] = "completed"
    BY <1>38 DEF StageEntersProbe, EntersProbe, Entering, Admitted, Untouched, Stages
  <2>. QED  BY <1>38, <2>1 DEF StageEntersProbe, EntersProbe, Entering, BackendWrites
<1>39. CASE TeardownVisits
  BY <1>39 DEF TeardownVisits
<1>40. CASE TeardownRemoves
  BY <1>40 DEF TeardownRemoves
<1>41. CASE DownDone
  BY <1>41 DEF DownDone
<1>42. CASE ClearsLists
  BY <1>42 DEF ClearsLists, DeleteDone, MemoryKept
<1>43. CASE TeardownCompletes
  BY <1>43 DEF TeardownCompletes, RemovedByTeardown, RemovalWrites
<1>44. CASE RemovedByProvision
  BY <1>44 DEF RemovedByProvision
<1>. HIDE DEF BackendInv, OfItsBackend, SyncInv, TypeOK, CallInv, LifecycleAssumption, ChainPcs, CleanPcs
<1>. QED
  BY StepCases, <1>1, <1>2, <1>3, <1>4, <1>5, <1>6, <1>7, <1>8, <1>9, <1>10, <1>11, <1>12, <1>13, <1>14, <1>15, <1>16, <1>17, <1>18, <1>19, <1>20, <1>21, <1>22, <1>23, <1>24, <1>25, <1>26, <1>27, <1>28, <1>29, <1>30, <1>31, <1>32, <1>33, <1>34, <1>35, <1>36, <1>37, <1>38, <1>39, <1>40, <1>41, <1>42, <1>43, <1>44, Zenon

\* No stage works on a runtime whose cleanup failed.
LEMMA QuarantineStep ==
    ASSUME IInv, LifecycleAssumption, ~ResumeQuarantined, QuarantineInv, Next
    PROVE  QuarantineInv'
<1>. USE DEF QuarantineInv, Confined, TypeOK, CallInv, LifecycleAssumption, ChainPcs, CleanPcs,
           IInv, world, loop
<1>1. ASSUME NEW caller \in {"provision", "staged"}, Build(caller)  PROVE QuarantineInv'
  BY <1>1 DEF Build, Fresh
<1>2. ASSUME NEW w \in Workers, LeavesLab(w)  PROVE QuarantineInv'
  BY <1>2 DEF LeavesLab
<1>3. ASSUME NEW w \in Workers, LeavesNoLab(w)  PROVE QuarantineInv'
  BY <1>3 DEF LeavesNoLab
<1>4. ASSUME NEW w \in Workers, BucketThere(w)  PROVE QuarantineInv'
  BY <1>4 DEF BucketThere
<1>5. ASSUME NEW w \in Workers, BucketMade(w)  PROVE QuarantineInv'
  BY <1>5 DEF BucketMade
<1>6. ASSUME NEW w \in Workers, BucketUnanswered(w)  PROVE QuarantineInv'
  BY <1>6 DEF BucketUnanswered
<1>7. ASSUME NEW w \in Workers, LabGone(w)  PROVE QuarantineInv'
  BY <1>7 DEF LabGone
<1>8. ASSUME NEW w \in Workers, LabLeft(w)  PROVE QuarantineInv'
  BY <1>8 DEF LabLeft
<1>9. ASSUME NEW w \in Workers, BucketDeleted(w)  PROVE QuarantineInv'
  BY <1>9 DEF BucketDeleted
<1>10. ASSUME NEW w \in Workers, BucketDoubtful(w)  PROVE QuarantineInv'
  BY <1>10 DEF BucketDoubtful
<1>11. ASSUME NEW w \in Workers, BucketLeft(w)  PROVE QuarantineInv'
  BY <1>11 DEF BucketLeft
<1>12. ASSUME NEW r \in Runtimes, LeavesLabs(r)  PROVE QuarantineInv'
  BY <1>12 DEF LeavesLabs, DownFailsIn, DownFailed, CleanupLeaves, CleanupLeft
<1>13. ASSUME NEW r \in Runtimes, LeavesBuckets(r)  PROVE QuarantineInv'
  BY <1>13 DEF LeavesBuckets, DeleteFailsIn, DeleteFailed, CleanupLeaves, CleanupLeft
<1>14. ASSUME NEW r \in Runtimes, LeavesDirectory(r)  PROVE QuarantineInv'
  BY <1>14 DEF LeavesDirectory, RemovalFailsIn, RemovalFailed, CleanupLeaves, CleanupLeft
<1>15. CASE Attach
  BY <1>15 DEF Attach
<1>16. CASE Exit
  BY <1>16 DEF Exit
<1>17. CASE WritesQuarantine
  BY <1>17 DEF WritesQuarantine, MarkQuarantined, QuarantineWrites, Written
<1>18. CASE StartChain
  BY <1>18 DEF StartChain
<1>19. CASE WritesNew
  BY <1>19 DEF WritesNew, BuildWrites, FirstWrites, Written, Fresh
<1>20. CASE RecordsBucket
  BY <1>20 DEF RecordsBucket, RecordBucket, MemoryKept
<1>21. CASE SidecarStarts
  BY <1>21 DEF SidecarStarts
<1>22. CASE MarkDeleted
  BY <1>22 DEF MarkDeleted
<1>23. CASE FindsSlotsFree
  BY <1>23 DEF FindsSlotsFree, SlotsFree, MemoryKept, Visit
<1>24. CASE CrashKeepsDisk
  BY <1>24 DEF CrashKeepsDisk
<1>25. CASE CrashLosesDisk
  BY <1>25 DEF CrashLosesDisk
<1>26. CASE RefusedToCaller
  BY <1>26 DEF RefusedToCaller, ToCaller, Refused
<1>27. CASE RefusedToDown
  BY <1>27 DEF RefusedToDown, ToDown, Refused
<1>28. CASE RefusedToDelete
  BY <1>28 DEF RefusedToDelete, ToDelete, Refused
<1>29. CASE StageFailsToCaller
  BY <1>29 DEF StageFailsToCaller, FailsToCaller, ToCaller, Failing, FailWrites, Written
<1>30. CASE StageFailsToDown
  BY <1>30 DEF StageFailsToDown, FailsToDown, ToDown, Failing, FailWrites, Written
<1>31. CASE StageFailsToDelete
  BY <1>31 DEF StageFailsToDelete, FailsToDelete, ToDelete, Failing, FailWrites, Written
<1>32. CASE StageEndsLast
  BY <1>32 DEF StageEndsLast, CompletesLast, Completing, CompletionWrites, Written, StateAfter, Stages
<1>33. CASE StageEndsMore
  BY <1>33 DEF StageEndsMore, CompletesMore, Completing, CompletionWrites, Written, StateAfter, Stages, NextStage
<1>34. CASE SkipsLast
  BY <1>34 DEF SkipsLast, Admitted
<1>35. CASE SkipsMore
  BY <1>35 DEF SkipsMore, Admitted, NextStage, Stages
<1>36. CASE StageEntersDeploy
  BY <1>36 DEF StageEntersDeploy, EntersDeploy, Entering, BackendWrites, Admitted
<1>37. CASE StageEntersObserve
  BY <1>37 DEF StageEntersObserve, EntersObserve, Entering, BackendWrites, Admitted
<1>38. CASE StageEntersProbe
  BY <1>38 DEF StageEntersProbe, EntersProbe, Entering, BackendWrites, Admitted
<1>39. CASE TeardownVisits
  BY <1>39 DEF TeardownVisits
<1>40. CASE TeardownRemoves
  BY <1>40 DEF TeardownRemoves
<1>41. CASE DownDone
  BY <1>41 DEF DownDone
<1>42. CASE ClearsLists
  BY <1>42 DEF ClearsLists, DeleteDone, MemoryKept
<1>43. CASE TeardownCompletes
  BY <1>43 DEF TeardownCompletes, RemovedByTeardown, RemovalWrites
<1>44. CASE RemovedByProvision
  BY <1>44 DEF RemovedByProvision
<1>. HIDE DEF QuarantineInv, Confined, TypeOK, CallInv, LifecycleAssumption, ChainPcs, CleanPcs
<1>. QED
  BY StepCases, <1>1, <1>2, <1>3, <1>4, <1>5, <1>6, <1>7, <1>8, <1>9, <1>10, <1>11, <1>12, <1>13, <1>14, <1>15, <1>16, <1>17, <1>18, <1>19, <1>20, <1>21, <1>22, <1>23, <1>24, <1>25, <1>26, <1>27, <1>28, <1>29, <1>30, <1>31, <1>32, <1>33, <1>34, <1>35, <1>36, <1>37, <1>38, <1>39, <1>40, <1>41, <1>42, <1>43, <1>44, Zenon

\* The buckets of the manifest stay within reach of a teardown.
LEMMA OwnedStep ==
    ASSUME IInv, LifecycleAssumption, ~ResumeQuarantined, QuarantineInv, OwnedInv, Next
    PROVE  OwnedInv'
<1>. USE DEF OwnedInv, QuarantineInv, Covers, Confined, HasPhysical, SyncInv, TypeOK, CallInv, LifecycleAssumption, ChainPcs, CleanPcs,
           IInv, world, loop
<1>1. ASSUME NEW caller \in {"provision", "staged"}, Build(caller)  PROVE OwnedInv'
  BY <1>1 DEF Build, Fresh
<1>2. ASSUME NEW w \in Workers, LeavesLab(w)  PROVE OwnedInv'
  BY <1>2 DEF LeavesLab
<1>3. ASSUME NEW w \in Workers, LeavesNoLab(w)  PROVE OwnedInv'
  BY <1>3 DEF LeavesNoLab
<1>4. ASSUME NEW w \in Workers, BucketThere(w)  PROVE OwnedInv'
  BY <1>4 DEF BucketThere
<1>5. ASSUME NEW w \in Workers, BucketMade(w)  PROVE OwnedInv'
  BY <1>5 DEF BucketMade
<1>6. ASSUME NEW w \in Workers, BucketUnanswered(w)  PROVE OwnedInv'
  BY <1>6 DEF BucketUnanswered
<1>7. ASSUME NEW w \in Workers, LabGone(w)  PROVE OwnedInv'
  BY <1>7 DEF LabGone
<1>8. ASSUME NEW w \in Workers, LabLeft(w)  PROVE OwnedInv'
  BY <1>8 DEF LabLeft
<1>9. ASSUME NEW w \in Workers, BucketDeleted(w)  PROVE OwnedInv'
  BY <1>9 DEF BucketDeleted
<1>10. ASSUME NEW w \in Workers, BucketDoubtful(w)  PROVE OwnedInv'
  BY <1>10 DEF BucketDoubtful
<1>11. ASSUME NEW w \in Workers, BucketLeft(w)  PROVE OwnedInv'
  BY <1>11 DEF BucketLeft
<1>12. ASSUME NEW r \in Runtimes, LeavesLabs(r)  PROVE OwnedInv'
  BY <1>12 DEF LeavesLabs, DownFailsIn, DownFailed, CleanupLeaves, CleanupLeft
<1>13. ASSUME NEW r \in Runtimes, LeavesBuckets(r)  PROVE OwnedInv'
  BY <1>13 DEF LeavesBuckets, DeleteFailsIn, DeleteFailed, CleanupLeaves, CleanupLeft
<1>14. ASSUME NEW r \in Runtimes, LeavesDirectory(r)  PROVE OwnedInv'
  BY <1>14 DEF LeavesDirectory, RemovalFailsIn, RemovalFailed, CleanupLeaves, CleanupLeft
<1>15. CASE Attach
  BY <1>15 DEF Attach
<1>16. CASE Exit
  BY <1>16 DEF Exit
<1>17. CASE WritesQuarantine
  BY <1>17 DEF WritesQuarantine, MarkQuarantined, QuarantineWrites, Written
<1>18. CASE StartChain
  BY <1>18 DEF StartChain
<1>19. CASE WritesNew
  BY <1>19 DEF WritesNew, BuildWrites, FirstWrites, Written, Fresh
<1>20. CASE RecordsBucket
  BY <1>20 DEF RecordsBucket, RecordBucket, MemoryKept
<1>21. CASE SidecarStarts
  BY <1>21 DEF SidecarStarts
<1>22. CASE MarkDeleted
  BY <1>22 DEF MarkDeleted
<1>23. CASE FindsSlotsFree
  BY <1>23 DEF FindsSlotsFree, SlotsFree, MemoryKept, Visit
<1>24. CASE CrashKeepsDisk
  BY <1>24 DEF CrashKeepsDisk
<1>25. CASE CrashLosesDisk
  BY <1>25 DEF CrashLosesDisk
<1>26. CASE RefusedToCaller
  BY <1>26 DEF RefusedToCaller, ToCaller, Refused
<1>27. CASE RefusedToDown
  BY <1>27 DEF RefusedToDown, ToDown, Refused
<1>28. CASE RefusedToDelete
  BY <1>28 DEF RefusedToDelete, ToDelete, Refused
<1>29. CASE StageFailsToCaller
  BY <1>29 DEF StageFailsToCaller, FailsToCaller, ToCaller, Failing, FailWrites, Written
<1>30. CASE StageFailsToDown
  BY <1>30 DEF StageFailsToDown, FailsToDown, ToDown, Failing, FailWrites, Written
<1>31. CASE StageFailsToDelete
  BY <1>31 DEF StageFailsToDelete, FailsToDelete, ToDelete, Failing, FailWrites, Written
<1>32. CASE StageEndsLast
  BY <1>32 DEF StageEndsLast, CompletesLast, Completing, CompletionWrites, Written, StateAfter, Stages
<1>33. CASE StageEndsMore
  BY <1>33 DEF StageEndsMore, CompletesMore, Completing, CompletionWrites, Written, StateAfter, Stages, NextStage
<1>34. CASE SkipsLast
  BY <1>34 DEF SkipsLast, Admitted
<1>35. CASE SkipsMore
  BY <1>35 DEF SkipsMore, Admitted, NextStage, Stages
<1>36. CASE StageEntersDeploy
  BY <1>36 DEF StageEntersDeploy, EntersDeploy, Entering, BackendWrites, Admitted
<1>37. CASE StageEntersObserve
  BY <1>37 DEF StageEntersObserve, EntersObserve, Entering, BackendWrites, Admitted
<1>38. CASE StageEntersProbe
  BY <1>38 DEF StageEntersProbe, EntersProbe, Entering, BackendWrites, Admitted
<1>39. CASE TeardownVisits
  BY <1>39 DEF TeardownVisits
<1>40. CASE TeardownRemoves
  BY <1>40 DEF TeardownRemoves
<1>41. CASE DownDone
  BY <1>41 DEF DownDone, BucketsToDelete
<1>42. CASE ClearsLists
  BY <1>42 DEF ClearsLists, DeleteDone, MemoryKept
<1>43. CASE TeardownCompletes
  BY <1>43 DEF TeardownCompletes, RemovedByTeardown, RemovalWrites
<1>44. CASE RemovedByProvision
  BY <1>44 DEF RemovedByProvision
<1>. HIDE DEF OwnedInv, QuarantineInv, Covers, Confined, HasPhysical, SyncInv, TypeOK, CallInv, LifecycleAssumption, ChainPcs, CleanPcs
<1>. QED
  BY StepCases, <1>1, <1>2, <1>3, <1>4, <1>5, <1>6, <1>7, <1>8, <1>9, <1>10, <1>11, <1>12, <1>13, <1>14, <1>15, <1>16, <1>17, <1>18, <1>19, <1>20, <1>21, <1>22, <1>23, <1>24, <1>25, <1>26, <1>27, <1>28, <1>29, <1>30, <1>31, <1>32, <1>33, <1>34, <1>35, <1>36, <1>37, <1>38, <1>39, <1>40, <1>41, <1>42, <1>43, <1>44, Zenon

\* The labs stay within reach of a teardown.
LEMMA LabStep ==
    ASSUME IInv, LifecycleAssumption, ~Crashes, LabInv, ReservedHasNoLab, Next
    PROVE  LabInv'
<1>. USE DEF LabInv, HasPhysical, SyncInv, OfItsBackend, BackendInv, ReservedHasNoLab, TypeOK, CallInv, LifecycleAssumption, ChainPcs, CleanPcs,
           IInv, world, loop
<1>1. ASSUME NEW caller \in {"provision", "staged"}, Build(caller)  PROVE LabInv'
  BY <1>1 DEF Build, Fresh
<1>2. ASSUME NEW w \in Workers, LeavesLab(w)  PROVE LabInv'
  BY <1>2 DEF LeavesLab
<1>3. ASSUME NEW w \in Workers, LeavesNoLab(w)  PROVE LabInv'
  BY <1>3 DEF LeavesNoLab
<1>4. ASSUME NEW w \in Workers, BucketThere(w)  PROVE LabInv'
  BY <1>4 DEF BucketThere
<1>5. ASSUME NEW w \in Workers, BucketMade(w)  PROVE LabInv'
  BY <1>5 DEF BucketMade
<1>6. ASSUME NEW w \in Workers, BucketUnanswered(w)  PROVE LabInv'
  BY <1>6 DEF BucketUnanswered
<1>7. ASSUME NEW w \in Workers, LabGone(w)  PROVE LabInv'
  BY <1>7 DEF LabGone
<1>8. ASSUME NEW w \in Workers, LabLeft(w)  PROVE LabInv'
  BY <1>8 DEF LabLeft
<1>9. ASSUME NEW w \in Workers, BucketDeleted(w)  PROVE LabInv'
  BY <1>9 DEF BucketDeleted
<1>10. ASSUME NEW w \in Workers, BucketDoubtful(w)  PROVE LabInv'
  BY <1>10 DEF BucketDoubtful
<1>11. ASSUME NEW w \in Workers, BucketLeft(w)  PROVE LabInv'
  BY <1>11 DEF BucketLeft
<1>12. ASSUME NEW r \in Runtimes, LeavesLabs(r)  PROVE LabInv'
  BY <1>12 DEF LeavesLabs, DownFailsIn, DownFailed, CleanupLeaves, CleanupLeft
<1>13. ASSUME NEW r \in Runtimes, LeavesBuckets(r)  PROVE LabInv'
  BY <1>13 DEF LeavesBuckets, DeleteFailsIn, DeleteFailed, CleanupLeaves, CleanupLeft
<1>14. ASSUME NEW r \in Runtimes, LeavesDirectory(r)  PROVE LabInv'
  BY <1>14 DEF LeavesDirectory, RemovalFailsIn, RemovalFailed, CleanupLeaves, CleanupLeft
<1>15. CASE Attach
  BY <1>15 DEF Attach
<1>16. CASE Exit
  BY <1>16 DEF Exit
<1>17. CASE WritesQuarantine
  BY <1>17 DEF WritesQuarantine, MarkQuarantined, QuarantineWrites, Written
<1>18. CASE StartChain
  BY <1>18 DEF StartChain
<1>19. CASE WritesNew
  BY <1>19 DEF WritesNew, BuildWrites, FirstWrites, Written, Fresh
<1>20. CASE RecordsBucket
  BY <1>20 DEF RecordsBucket, RecordBucket, MemoryKept
<1>21. CASE SidecarStarts
  BY <1>21 DEF SidecarStarts
<1>22. CASE MarkDeleted
  BY <1>22 DEF MarkDeleted
<1>23. CASE FindsSlotsFree
  BY <1>23 DEF FindsSlotsFree, SlotsFree, MemoryKept, Visit
<1>24. CASE CrashKeepsDisk
  BY <1>24 DEF CrashKeepsDisk
<1>25. CASE CrashLosesDisk
  BY <1>25 DEF CrashLosesDisk
<1>26. CASE RefusedToCaller
  BY <1>26 DEF RefusedToCaller, ToCaller, Refused
<1>27. CASE RefusedToDown
  BY <1>27 DEF RefusedToDown, ToDown, Refused
<1>28. CASE RefusedToDelete
  BY <1>28 DEF RefusedToDelete, ToDelete, Refused
<1>29. CASE StageFailsToCaller
  BY <1>29 DEF StageFailsToCaller, FailsToCaller, ToCaller, Failing, FailWrites, Written
<1>30. CASE StageFailsToDown
  BY <1>30 DEF StageFailsToDown, FailsToDown, ToDown, Failing, FailWrites, Written
<1>31. CASE StageFailsToDelete
  BY <1>31 DEF StageFailsToDelete, FailsToDelete, ToDelete, Failing, FailWrites, Written
<1>32. CASE StageEndsLast
  BY <1>32 DEF StageEndsLast, CompletesLast, Completing, CompletionWrites, Written, StateAfter, Stages
<1>33. CASE StageEndsMore
  BY <1>33 DEF StageEndsMore, CompletesMore, Completing, CompletionWrites, Written, StateAfter, Stages, NextStage
<1>34. CASE SkipsLast
  BY <1>34 DEF SkipsLast, Admitted
<1>35. CASE SkipsMore
  BY <1>35 DEF SkipsMore, Admitted, NextStage, Stages
<1>36. CASE StageEntersDeploy
  BY <1>36 DEF StageEntersDeploy, EntersDeploy, Entering, BackendWrites, Admitted
<1>37. CASE StageEntersObserve
  BY <1>37 DEF StageEntersObserve, EntersObserve, Entering, BackendWrites, Admitted
<1>38. CASE StageEntersProbe
  BY <1>38 DEF StageEntersProbe, EntersProbe, Entering, BackendWrites, Admitted
<1>39. CASE TeardownVisits
  BY <1>39 DEF TeardownVisits
<1>40. CASE TeardownRemoves
  BY <1>40 DEF TeardownRemoves
<1>41. CASE DownDone
  BY <1>41 DEF DownDone
<1>42. CASE ClearsLists
  BY <1>42 DEF ClearsLists, DeleteDone, MemoryKept
<1>43. CASE TeardownCompletes
  BY <1>43 DEF TeardownCompletes, RemovedByTeardown, RemovalWrites
<1>44. CASE RemovedByProvision
  BY <1>44 DEF RemovedByProvision
<1>. HIDE DEF LabInv, HasPhysical, SyncInv, OfItsBackend, BackendInv, ReservedHasNoLab, TypeOK, CallInv, LifecycleAssumption, ChainPcs, CleanPcs
<1>. QED
  BY StepCases, <1>1, <1>2, <1>3, <1>4, <1>5, <1>6, <1>7, <1>8, <1>9, <1>10, <1>11, <1>12, <1>13, <1>14, <1>15, <1>16, <1>17, <1>18, <1>19, <1>20, <1>21, <1>22, <1>23, <1>24, <1>25, <1>26, <1>27, <1>28, <1>29, <1>30, <1>31, <1>32, <1>33, <1>34, <1>35, <1>36, <1>37, <1>38, <1>39, <1>40, <1>41, <1>42, <1>43, <1>44, Zenon

\* A runtime that was only reserved has no lab.
LEMMA ReservedStep ==
    ASSUME IInv, LifecycleAssumption, ~Crashes, LabInv, ReservedHasNoLab, Next
    PROVE  ReservedHasNoLab'
<1>. USE DEF LabInv, HasPhysical, SyncInv, ReservedHasNoLab, TypeOK, CallInv, LifecycleAssumption, ChainPcs, CleanPcs,
           IInv, world, loop
<1>1. ASSUME NEW caller \in {"provision", "staged"}, Build(caller)  PROVE ReservedHasNoLab'
  BY <1>1 DEF Build, Fresh
<1>2. ASSUME NEW w \in Workers, LeavesLab(w)  PROVE ReservedHasNoLab'
  BY <1>2 DEF LeavesLab
<1>3. ASSUME NEW w \in Workers, LeavesNoLab(w)  PROVE ReservedHasNoLab'
  BY <1>3 DEF LeavesNoLab
<1>4. ASSUME NEW w \in Workers, BucketThere(w)  PROVE ReservedHasNoLab'
  BY <1>4 DEF BucketThere
<1>5. ASSUME NEW w \in Workers, BucketMade(w)  PROVE ReservedHasNoLab'
  BY <1>5 DEF BucketMade
<1>6. ASSUME NEW w \in Workers, BucketUnanswered(w)  PROVE ReservedHasNoLab'
  BY <1>6 DEF BucketUnanswered
<1>7. ASSUME NEW w \in Workers, LabGone(w)  PROVE ReservedHasNoLab'
  BY <1>7 DEF LabGone
<1>8. ASSUME NEW w \in Workers, LabLeft(w)  PROVE ReservedHasNoLab'
  BY <1>8 DEF LabLeft
<1>9. ASSUME NEW w \in Workers, BucketDeleted(w)  PROVE ReservedHasNoLab'
  BY <1>9 DEF BucketDeleted
<1>10. ASSUME NEW w \in Workers, BucketDoubtful(w)  PROVE ReservedHasNoLab'
  BY <1>10 DEF BucketDoubtful
<1>11. ASSUME NEW w \in Workers, BucketLeft(w)  PROVE ReservedHasNoLab'
  BY <1>11 DEF BucketLeft
<1>12. ASSUME NEW r \in Runtimes, LeavesLabs(r)  PROVE ReservedHasNoLab'
  BY <1>12 DEF LeavesLabs, DownFailsIn, DownFailed, CleanupLeaves, CleanupLeft
<1>13. ASSUME NEW r \in Runtimes, LeavesBuckets(r)  PROVE ReservedHasNoLab'
  BY <1>13 DEF LeavesBuckets, DeleteFailsIn, DeleteFailed, CleanupLeaves, CleanupLeft
<1>14. ASSUME NEW r \in Runtimes, LeavesDirectory(r)  PROVE ReservedHasNoLab'
  BY <1>14 DEF LeavesDirectory, RemovalFailsIn, RemovalFailed, CleanupLeaves, CleanupLeft
<1>15. CASE Attach
  BY <1>15 DEF Attach
<1>16. CASE Exit
  BY <1>16 DEF Exit
<1>17. CASE WritesQuarantine
  BY <1>17 DEF WritesQuarantine, MarkQuarantined, QuarantineWrites, Written
<1>18. CASE StartChain
  BY <1>18 DEF StartChain
<1>19. CASE WritesNew
  BY <1>19 DEF WritesNew, BuildWrites, FirstWrites, Written, Fresh
<1>20. CASE RecordsBucket
  BY <1>20 DEF RecordsBucket, RecordBucket, MemoryKept
<1>21. CASE SidecarStarts
  BY <1>21 DEF SidecarStarts
<1>22. CASE MarkDeleted
  BY <1>22 DEF MarkDeleted
<1>23. CASE FindsSlotsFree
  BY <1>23 DEF FindsSlotsFree, SlotsFree, MemoryKept, Visit
<1>24. CASE CrashKeepsDisk
  BY <1>24 DEF CrashKeepsDisk
<1>25. CASE CrashLosesDisk
  BY <1>25 DEF CrashLosesDisk
<1>26. CASE RefusedToCaller
  BY <1>26 DEF RefusedToCaller, ToCaller, Refused
<1>27. CASE RefusedToDown
  BY <1>27 DEF RefusedToDown, ToDown, Refused
<1>28. CASE RefusedToDelete
  BY <1>28 DEF RefusedToDelete, ToDelete, Refused
<1>29. CASE StageFailsToCaller
  BY <1>29 DEF StageFailsToCaller, FailsToCaller, ToCaller, Failing, FailWrites, Written
<1>30. CASE StageFailsToDown
  BY <1>30 DEF StageFailsToDown, FailsToDown, ToDown, Failing, FailWrites, Written
<1>31. CASE StageFailsToDelete
  BY <1>31 DEF StageFailsToDelete, FailsToDelete, ToDelete, Failing, FailWrites, Written
<1>32. CASE StageEndsLast
  BY <1>32 DEF StageEndsLast, CompletesLast, Completing, CompletionWrites, Written, StateAfter, Stages
<1>33. CASE StageEndsMore
  BY <1>33 DEF StageEndsMore, CompletesMore, Completing, CompletionWrites, Written, StateAfter, Stages, NextStage
<1>34. CASE SkipsLast
  BY <1>34 DEF SkipsLast, Admitted
<1>35. CASE SkipsMore
  BY <1>35 DEF SkipsMore, Admitted, NextStage, Stages
<1>36. CASE StageEntersDeploy
  BY <1>36 DEF StageEntersDeploy, EntersDeploy, Entering, BackendWrites, Admitted
<1>37. CASE StageEntersObserve
  BY <1>37 DEF StageEntersObserve, EntersObserve, Entering, BackendWrites, Admitted
<1>38. CASE StageEntersProbe
  BY <1>38 DEF StageEntersProbe, EntersProbe, Entering, BackendWrites, Admitted
<1>39. CASE TeardownVisits
  BY <1>39 DEF TeardownVisits
<1>40. CASE TeardownRemoves
  BY <1>40 DEF TeardownRemoves
<1>41. CASE DownDone
  BY <1>41 DEF DownDone
<1>42. CASE ClearsLists
  BY <1>42 DEF ClearsLists, DeleteDone, MemoryKept
<1>43. CASE TeardownCompletes
  BY <1>43 DEF TeardownCompletes, RemovedByTeardown, RemovalWrites
<1>44. CASE RemovedByProvision
  BY <1>44 DEF RemovedByProvision
<1>. HIDE DEF LabInv, HasPhysical, SyncInv, ReservedHasNoLab, TypeOK, CallInv, LifecycleAssumption, ChainPcs, CleanPcs
<1>. QED
  BY StepCases, <1>1, <1>2, <1>3, <1>4, <1>5, <1>6, <1>7, <1>8, <1>9, <1>10, <1>11, <1>12, <1>13, <1>14, <1>15, <1>16, <1>17, <1>18, <1>19, <1>20, <1>21, <1>22, <1>23, <1>24, <1>25, <1>26, <1>27, <1>28, <1>29, <1>30, <1>31, <1>32, <1>33, <1>34, <1>35, <1>36, <1>37, <1>38, <1>39, <1>40, <1>41, <1>42, <1>43, <1>44, Zenon

\* The manifest has every bucket that a runtime made.
LEMMA BucketStep ==
    ASSUME IInv, LifecycleAssumption, ~Crashes, ~LostReplies, ~ResumeQuarantined, OwnedInv, BucketInv, Next
    PROVE  BucketInv'
<1>. USE DEF BucketInv, OwnedInv, SyncInv, HasPhysical, TypeOK, CallInv, LifecycleAssumption, ChainPcs, CleanPcs,
           IInv, world, loop
<1>1. ASSUME NEW caller \in {"provision", "staged"}, Build(caller)  PROVE BucketInv'
  BY <1>1 DEF Build, Fresh
<1>2. ASSUME NEW w \in Workers, LeavesLab(w)  PROVE BucketInv'
  BY <1>2 DEF LeavesLab
<1>3. ASSUME NEW w \in Workers, LeavesNoLab(w)  PROVE BucketInv'
  BY <1>3 DEF LeavesNoLab
<1>4. ASSUME NEW w \in Workers, BucketThere(w)  PROVE BucketInv'
  BY <1>4 DEF BucketThere
<1>5. ASSUME NEW w \in Workers, BucketMade(w)  PROVE BucketInv'
  BY <1>5 DEF BucketMade
<1>6. ASSUME NEW w \in Workers, BucketUnanswered(w)  PROVE BucketInv'
  BY <1>6 DEF BucketUnanswered
<1>7. ASSUME NEW w \in Workers, LabGone(w)  PROVE BucketInv'
  BY <1>7 DEF LabGone
<1>8. ASSUME NEW w \in Workers, LabLeft(w)  PROVE BucketInv'
  BY <1>8 DEF LabLeft
<1>9. ASSUME NEW w \in Workers, BucketDeleted(w)  PROVE BucketInv'
  BY <1>9 DEF BucketDeleted
<1>10. ASSUME NEW w \in Workers, BucketDoubtful(w)  PROVE BucketInv'
  BY <1>10 DEF BucketDoubtful
<1>11. ASSUME NEW w \in Workers, BucketLeft(w)  PROVE BucketInv'
  BY <1>11 DEF BucketLeft
<1>12. ASSUME NEW r \in Runtimes, LeavesLabs(r)  PROVE BucketInv'
  BY <1>12 DEF LeavesLabs, DownFailsIn, DownFailed, CleanupLeaves, CleanupLeft
<1>13. ASSUME NEW r \in Runtimes, LeavesBuckets(r)  PROVE BucketInv'
  BY <1>13 DEF LeavesBuckets, DeleteFailsIn, DeleteFailed, CleanupLeaves, CleanupLeft
<1>14. ASSUME NEW r \in Runtimes, LeavesDirectory(r)  PROVE BucketInv'
  BY <1>14 DEF LeavesDirectory, RemovalFailsIn, RemovalFailed, CleanupLeaves, CleanupLeft
<1>15. CASE Attach
  BY <1>15 DEF Attach
<1>16. CASE Exit
  BY <1>16 DEF Exit
<1>17. CASE WritesQuarantine
  BY <1>17 DEF WritesQuarantine, MarkQuarantined, QuarantineWrites, Written
<1>18. CASE StartChain
  BY <1>18 DEF StartChain
<1>19. CASE WritesNew
  BY <1>19 DEF WritesNew, BuildWrites, FirstWrites, Written, Fresh
<1>20. CASE RecordsBucket
  BY <1>20 DEF RecordsBucket, RecordBucket, MemoryKept
<1>21. CASE SidecarStarts
  BY <1>21 DEF SidecarStarts
<1>22. CASE MarkDeleted
  BY <1>22 DEF MarkDeleted
<1>23. CASE FindsSlotsFree
  BY <1>23 DEF FindsSlotsFree, SlotsFree, MemoryKept, Visit
<1>24. CASE CrashKeepsDisk
  BY <1>24 DEF CrashKeepsDisk
<1>25. CASE CrashLosesDisk
  BY <1>25 DEF CrashLosesDisk
<1>26. CASE RefusedToCaller
  BY <1>26 DEF RefusedToCaller, ToCaller, Refused
<1>27. CASE RefusedToDown
  BY <1>27 DEF RefusedToDown, ToDown, Refused
<1>28. CASE RefusedToDelete
  BY <1>28 DEF RefusedToDelete, ToDelete, Refused
<1>29. CASE StageFailsToCaller
  BY <1>29 DEF StageFailsToCaller, FailsToCaller, ToCaller, Failing, FailWrites, Written
<1>30. CASE StageFailsToDown
  BY <1>30 DEF StageFailsToDown, FailsToDown, ToDown, Failing, FailWrites, Written
<1>31. CASE StageFailsToDelete
  BY <1>31 DEF StageFailsToDelete, FailsToDelete, ToDelete, Failing, FailWrites, Written
<1>32. CASE StageEndsLast
  BY <1>32 DEF StageEndsLast, CompletesLast, Completing, CompletionWrites, Written, StateAfter, Stages
<1>33. CASE StageEndsMore
  BY <1>33 DEF StageEndsMore, CompletesMore, Completing, CompletionWrites, Written, StateAfter, Stages, NextStage
<1>34. CASE SkipsLast
  BY <1>34 DEF SkipsLast, Admitted
<1>35. CASE SkipsMore
  BY <1>35 DEF SkipsMore, Admitted, NextStage, Stages
<1>36. CASE StageEntersDeploy
  BY <1>36 DEF StageEntersDeploy, EntersDeploy, Entering, BackendWrites, Admitted
<1>37. CASE StageEntersObserve
  BY <1>37 DEF StageEntersObserve, EntersObserve, Entering, BackendWrites, Admitted
<1>38. CASE StageEntersProbe
  BY <1>38 DEF StageEntersProbe, EntersProbe, Entering, BackendWrites, Admitted
<1>39. CASE TeardownVisits
  BY <1>39 DEF TeardownVisits
<1>40. CASE TeardownRemoves
  BY <1>40 DEF TeardownRemoves
<1>41. CASE DownDone
  BY <1>41 DEF DownDone
<1>42. CASE ClearsLists
  BY <1>42 DEF ClearsLists, DeleteDone, MemoryKept
<1>43. CASE TeardownCompletes
  BY <1>43 DEF TeardownCompletes, RemovedByTeardown, RemovalWrites
<1>44. CASE RemovedByProvision
  BY <1>44 DEF RemovedByProvision
<1>. HIDE DEF BucketInv, OwnedInv, SyncInv, HasPhysical, TypeOK, CallInv, LifecycleAssumption, ChainPcs, CleanPcs
<1>. QED
  BY StepCases, <1>1, <1>2, <1>3, <1>4, <1>5, <1>6, <1>7, <1>8, <1>9, <1>10, <1>11, <1>12, <1>13, <1>14, <1>15, <1>16, <1>17, <1>18, <1>19, <1>20, <1>21, <1>22, <1>23, <1>24, <1>25, <1>26, <1>27, <1>28, <1>29, <1>30, <1>31, <1>32, <1>33, <1>34, <1>35, <1>36, <1>37, <1>38, <1>39, <1>40, <1>41, <1>42, <1>43, <1>44, Zenon

\* A user's bucket stays, and stays the user's.
LEMMA UserBucketStep ==
    ASSUME IInv, LifecycleAssumption, Next
    PROVE  UserBucketsKeptStep
<1>. USE DEF UserBucketsKeptStep, UserInv, TypeOK,
           IInv, world, loop
<1>1. ASSUME NEW caller \in {"provision", "staged"}, Build(caller)  PROVE UserBucketsKeptStep
  BY <1>1 DEF Build
<1>2. ASSUME NEW w \in Workers, LeavesLab(w)  PROVE UserBucketsKeptStep
  BY <1>2 DEF LeavesLab
<1>3. ASSUME NEW w \in Workers, LeavesNoLab(w)  PROVE UserBucketsKeptStep
  BY <1>3 DEF LeavesNoLab
<1>4. ASSUME NEW w \in Workers, BucketThere(w)  PROVE UserBucketsKeptStep
  BY <1>4 DEF BucketThere
<1>5. ASSUME NEW w \in Workers, BucketMade(w)  PROVE UserBucketsKeptStep
  BY <1>5 DEF BucketMade
<1>6. ASSUME NEW w \in Workers, BucketUnanswered(w)  PROVE UserBucketsKeptStep
  BY <1>6 DEF BucketUnanswered
<1>7. ASSUME NEW w \in Workers, LabGone(w)  PROVE UserBucketsKeptStep
  BY <1>7 DEF LabGone
<1>8. ASSUME NEW w \in Workers, LabLeft(w)  PROVE UserBucketsKeptStep
  BY <1>8 DEF LabLeft
<1>9. ASSUME NEW w \in Workers, BucketDeleted(w)  PROVE UserBucketsKeptStep
  BY <1>9 DEF BucketDeleted
<1>10. ASSUME NEW w \in Workers, BucketDoubtful(w)  PROVE UserBucketsKeptStep
  BY <1>10 DEF BucketDoubtful
<1>11. ASSUME NEW w \in Workers, BucketLeft(w)  PROVE UserBucketsKeptStep
  BY <1>11 DEF BucketLeft
<1>12. ASSUME NEW r \in Runtimes, LeavesLabs(r)  PROVE UserBucketsKeptStep
  BY <1>12 DEF LeavesLabs, DownFailsIn, DownFailed, CleanupLeaves, CleanupLeft
<1>13. ASSUME NEW r \in Runtimes, LeavesBuckets(r)  PROVE UserBucketsKeptStep
  BY <1>13 DEF LeavesBuckets, DeleteFailsIn, DeleteFailed, CleanupLeaves, CleanupLeft
<1>14. ASSUME NEW r \in Runtimes, LeavesDirectory(r)  PROVE UserBucketsKeptStep
  BY <1>14 DEF LeavesDirectory, RemovalFailsIn, RemovalFailed, CleanupLeaves, CleanupLeft
<1>15. CASE RecordsBucket
  BY <1>15 DEF RecordsBucket, RecordBucket, MemoryKept
<1>16. CASE MarkDeleted
  BY <1>16 DEF MarkDeleted
<1>17. CASE \/ Attach \/ Exit \/ WritesQuarantine \/ StartChain
          \/ WritesNew \/ SidecarStarts \/ FindsSlotsFree \/ CrashKeepsDisk
          \/ CrashLosesDisk \/ RefusedToCaller \/ RefusedToDown \/ RefusedToDelete
          \/ StageFailsToCaller \/ StageFailsToDown \/ StageFailsToDelete \/ StageEndsLast
          \/ StageEndsMore \/ SkipsLast \/ SkipsMore \/ StageEntersDeploy
          \/ StageEntersObserve \/ StageEntersProbe \/ TeardownVisits \/ TeardownRemoves
          \/ DownDone \/ ClearsLists \/ TeardownCompletes \/ RemovedByProvision
  BY <1>17 DEF Attach, Exit, WritesQuarantine, StartChain, WritesNew, SidecarStarts, FindsSlotsFree, CrashKeepsDisk, CrashLosesDisk, RefusedToCaller, RefusedToDown, RefusedToDelete, StageFailsToCaller, StageFailsToDown, StageFailsToDelete, StageEndsLast, StageEndsMore, SkipsLast, SkipsMore, StageEntersDeploy, StageEntersObserve, StageEntersProbe, TeardownVisits, TeardownRemoves, DownDone, ClearsLists, TeardownCompletes, RemovedByProvision, MarkQuarantined, QuarantineWrites, Written, BuildWrites, FirstWrites, SlotsFree, MemoryKept, Visit, ToCaller, Refused, ToDown, ToDelete, FailsToCaller, Failing, FailWrites, FailsToDown, FailsToDelete, CompletesLast, Completing, CompletionWrites, CompletesMore, Admitted, EntersDeploy, Entering, BackendWrites, EntersObserve, EntersProbe, DeleteDone, RemovedByTeardown, RemovalWrites
<1>. HIDE DEF UserBucketsKeptStep, UserInv, TypeOK
<1>. QED
  BY StepCases, <1>1, <1>2, <1>3, <1>4, <1>5, <1>6, <1>7, <1>8, <1>9, <1>10, <1>11, <1>12, <1>13, <1>14, <1>15, <1>16, <1>17, Zenon

-----------------------------------------------------------------------------
(* The theorems                                                            *)

\* A host without a runtime satisfies every invariant.
LEMMA InitInv ==
    ASSUME LifecycleAssumption, Init
    PROVE  IInv /\ OInv /\ LInv /\ BucketInv
<1>1. TypeOK
  BY DEF Init, TypeOK, Pcs, Stages
<1>2. CallInv /\ SyncInv /\ UserInv /\ BackendInv
  BY DEF Init, CallInv, SyncInv, UserInv, Spares, BackendInv, OfItsBackend, ChainPcs, CleanPcs
<1>3. QuarantineInv /\ OwnedInv
  BY DEF Init, QuarantineInv, Confined, OwnedInv, Covers, ChainPcs
<1>4. \A w \in Workers : labs[w] \notin Backends
  BY DEF Init, LifecycleAssumption
<1>5. LabInv /\ ReservedHasNoLab
  BY <1>4 DEF Init, LabInv, ReservedHasNoLab, ChainPcs
<1>6. BucketInv
  BY DEF Init, BucketInv
<1>. QED  BY <1>1, <1>2, <1>3, <1>5, <1>6 DEF IInv, OInv, LInv

\* A step that changes nothing keeps them.
LEMMA StutterInv ==
    ASSUME UNCHANGED vars
    PROVE  (IInv => IInv') /\ (OInv => OInv') /\ (LInv => LInv') /\ (BucketInv => BucketInv')
<1>. USE DEF vars
<1>1. (TypeOK => TypeOK') /\ (CallInv => CallInv') /\ (SyncInv => SyncInv')
  BY DEF TypeOK, CallInv, SyncInv
<1>2. (UserInv => UserInv') /\ (BackendInv => BackendInv')
  BY DEF UserInv, Spares, BackendInv, OfItsBackend
<1>3. (QuarantineInv => QuarantineInv') /\ (OwnedInv => OwnedInv')
  BY DEF QuarantineInv, Confined, OwnedInv, Covers, HasPhysical
<1>4. (LabInv => LabInv') /\ (ReservedHasNoLab => ReservedHasNoLab') /\ (BucketInv => BucketInv')
  BY DEF LabInv, ReservedHasNoLab, BucketInv, HasPhysical
<1>. QED  BY <1>1, <1>2, <1>3, <1>4 DEF IInv, OInv, LInv

\* One step, by what may go wrong during it.
LEMMA NextInv ==
    ASSUME LifecycleAssumption, IInv, Next
    PROVE  /\ IInv' /\ UserBucketsKeptStep
           /\ OInv /\ ~ResumeQuarantined => OInv'
           /\ LInv /\ ~Crashes => LInv'
           /\ OInv /\ LInv /\ BucketInv /\ ~ResumeQuarantined /\ ~Crashes /\ ~LostReplies => BucketInv'
<1>1. IInv'
  BY TypeStep, CallStep, SyncStep, UserStep, BackendStep, Zenon DEF IInv
<1>2. OInv /\ ~ResumeQuarantined => OInv'
  BY QuarantineStep, OwnedStep, Zenon DEF OInv
<1>3. LInv /\ ~Crashes => LInv'
  BY LabStep, ReservedStep, Zenon DEF LInv
<1>4. OInv /\ LInv /\ BucketInv /\ ~ResumeQuarantined /\ ~Crashes /\ ~LostReplies => BucketInv'
  BY BucketStep, Zenon DEF OInv, LInv
<1>. QED  BY <1>1, <1>2, <1>3, <1>4, UserBucketStep

\* What the invariants say to a reader of the module.
LEMMA InvImplies ==
    /\ IInv => TypeOK /\ OneBackend
    /\ OInv => OwnedOnRecord /\ RetryCoversOwned
    /\ LInv => LabsOnRecord /\ ReservedHasNoLab
    /\ BucketInv => FreshTelemetry
    /\ IInv /\ LInv /\ BucketInv => TeardownIsExact
<1>1. IInv => TypeOK /\ OneBackend
  BY DEF IInv, CallInv, BackendInv, OfItsBackend, OneBackend, ChainPcs
<1>2. OInv => OwnedOnRecord /\ RetryCoversOwned
  BY DEF OInv, OwnedInv, Covers, OwnedOnRecord, RetryCoversOwned
<1>3. LInv => LabsOnRecord /\ ReservedHasNoLab
  BY DEF LInv, LabInv, LabsOnRecord
<1>4. BucketInv => FreshTelemetry
  BY DEF BucketInv, FreshTelemetry
<1>5. IInv /\ LInv /\ BucketInv => TeardownIsExact
  <2>. SUFFICES ASSUME IInv, LInv, BucketInv, mem # NoRuntime, mem.state = "torn_down"
                PROVE  /\ \A w \in Workers : labs[w] \notin Backends
                       /\ \A w \in Workers : buckets[w] \in {"none", "user"}
                       /\ owned = {}
    BY DEF TeardownIsExact
  <2>1. pc = "idle"
    BY DEF IInv, CallInv
  <2>. QED  BY <2>1 DEF IInv, TypeOK, LInv, LabInv, BucketInv
<1>. QED  BY <1>1, <1>2, <1>3, <1>4, <1>5

\* However calls, failures, retries and the deaths of processes interleave,
\* runtime.json and the process agree, no list of buckets to delete names a
\* user's bucket, and a deployed runtime's labs are of one backend.
THEOREM LifecycleInvariant ==
    ASSUME LifecycleAssumption
    PROVE  Spec => []IInv
<1>1. Init => IInv
  BY InitInv
<1>2. IInv /\ [Next]_vars => IInv'
  BY NextInv, StutterInv
<1>. QED  BY <1>1, <1>2, PTL DEF Spec

\* Every variable keeps its type.
THEOREM LifecycleTypes ==
    ASSUME LifecycleAssumption
    PROVE  Spec => []TypeOK
BY InvImplies, LifecycleInvariant, PTL

\* A bucket that was there before a runtime of its name is neither adopted nor
\* deleted, through every retry, compensation, lost answer and crash
\* (ensure_bucket, record_created and _delete_buckets).
THEOREM UsersBucketsAreKept ==
    ASSUME LifecycleAssumption
    PROVE  Spec => UserBucketsKept
<1>1. IInv /\ [Next]_vars => [UserBucketsKeptStep]_vars
  BY NextInv
<1>. QED  BY <1>1, LifecycleInvariant, PTL DEF Spec, UserBucketsKept

\* No stage works on a lab that another backend deployed, whatever backend the
\* restarted process runs (_run_stage, _backend_identity).
THEOREM BackendsDoNotMix ==
    ASSUME LifecycleAssumption
    PROVE  Spec => []OneBackend
BY InvImplies, LifecycleInvariant, PTL

\* As long as nobody runs stages on a quarantined runtime, even the death of a
\* process inside a call leaves every bucket of the manifest within reach.
THEOREM OwnershipInvariant ==
    ASSUME LifecycleAssumption, ~ResumeQuarantined
    PROVE  Spec => [](IInv /\ OInv)
<1>1. Init => IInv /\ OInv
  BY InitInv
<1>2. IInv /\ OInv /\ [Next]_vars => IInv' /\ OInv'
  BY NextInv, StutterInv
<1>. QED  BY <1>1, <1>2, PTL DEF Spec

\* Between calls, a bucket of the ownership manifest belongs to a runtime that
\* is still there and whose teardown looks at the manifest, whatever process
\* died inside whatever call.
THEOREM BucketsStayOnRecord ==
    ASSUME LifecycleAssumption, ~ResumeQuarantined
    PROVE  Spec => []OwnedOnRecord
BY InvImplies, OwnershipInvariant, PTL

\* A teardown that retries a failed cleanup works from cleanup_pending_buckets;
\* the list misses no bucket that the manifest still has.
THEOREM RetriesMissNothing ==
    ASSUME LifecycleAssumption, ~ResumeQuarantined
    PROVE  Spec => []RetryCoversOwned
BY InvImplies, OwnershipInvariant, PTL

\* When no process dies inside a call, the labs are on record as well.
THEOREM LabInvariant ==
    ASSUME LifecycleAssumption, ~Crashes
    PROVE  Spec => [](IInv /\ LInv)
<1>1. Init => IInv /\ LInv
  BY InitInv
<1>2. IInv /\ LInv /\ [Next]_vars => IInv' /\ LInv'
  BY NextInv, StutterInv
<1>. QED  BY <1>1, <1>2, PTL DEF Spec

\* Between calls, a lab on the host belongs to a runtime whose runtime.json
\* makes a later process's teardown remove it physically.
THEOREM LabsStayOnRecord ==
    ASSUME LifecycleAssumption, ~Crashes
    PROVE  Spec => []LabsOnRecord
BY InvImplies, LabInvariant, PTL

\* A runtime in the state that create() leaves has no physical lab, so that
\* teardown may skip the physical part.
THEOREM ReservedOnly ==
    ASSUME LifecycleAssumption, ~Crashes
    PROVE  Spec => []ReservedHasNoLab
BY InvImplies, LabInvariant, PTL

\* When, besides, InfluxDB loses no answer and no caller resumes a quarantined
\* runtime, every bucket that a runtime made is in the manifest.
THEOREM BucketInvariant ==
    ASSUME LifecycleAssumption, ~Crashes, ~LostReplies, ~ResumeQuarantined
    PROVE  Spec => [](IInv /\ OInv /\ LInv /\ BucketInv)
<1>1. Init => IInv /\ OInv /\ LInv /\ BucketInv
  BY InitInv
<1>2. IInv /\ OInv /\ LInv /\ BucketInv /\ [Next]_vars => IInv' /\ OInv' /\ LInv' /\ BucketInv'
  BY NextInv, StutterInv
<1>. QED  BY <1>1, <1>2, PTL DEF Spec

\* A teardown that reports success has removed every lab and every bucket the
\* runtime made, whatever failures and retries came before (teardown).
THEOREM TeardownsAreExact ==
    ASSUME LifecycleAssumption, ~Crashes, ~LostReplies, ~ResumeQuarantined
    PROVE  Spec => []TeardownIsExact
BY InvImplies, BucketInvariant, PTL

\* A warm runtime reads no bucket that an earlier runtime of its name filled.
THEOREM TelemetryIsFresh ==
    ASSUME LifecycleAssumption, ~Crashes, ~LostReplies, ~ResumeQuarantined
    PROVE  Spec => []FreshTelemetry
BY InvImplies, BucketInvariant, PTL
=============================================================================
