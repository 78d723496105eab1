--------------------------- MODULE HostDeployment ---------------------------
(***************************************************************************)
(* Several processes that deploy labs on one host (runtime/deployment.py,  *)
(* runtime/lifecycle.py, observability/lifecycle.py): the deploy lock, the *)
(* choice of management subnets, the BGP collector with its pid file, the  *)
(* Telegraf sidecar, and the removal of a lab command by command, outside  *)
(* the lock.  A pool deploys its labs on subnets it chooses; a process     *)
(* that is no pool deploys one lab on a given subnet.  A subnet is the set *)
(* of third octets it spans, a network that is not there the empty set.    *)
(* What Docker and Containerlab do to the host is external.                *)
(***************************************************************************)
EXTENDS Naturals, Sequences, SequencesExt, FiniteSets, FiniteSetsExt

CONSTANTS Procs, Labs,
          LabsOf,    \* the labs of each process, in worker order
          Pools,     \* the processes that run RuntimeLifecycle._deploy
          Stride,    \* management_subnet_stride of each process's scale
          Start,     \* third octet of its first candidate; of its given subnet
          LastOctet, \* 254 in the code
          Jobs,      \* worker_deploy_parallelism
          Foreign,   \* a network somebody else has on the host
          Pids,
          Crashes    \* may a process die

\* A lab is of one process, and a process that is no pool has one; strides are
\* at least 1, octets and process identifiers natural numbers, and the pid file
\* that is not there is no process.
ASSUME HostAssumption ==
    /\ \A p \in Procs : /\ LabsOf[p] \in Seq(Labs) /\ LabsOf[p] # <<>>
                        /\ Stride[p] \in Nat \ {0} /\ Start[p] \in Nat
                        /\ \A j, k \in DOMAIN LabsOf[p] : LabsOf[p][j] = LabsOf[p][k] => j = k
    /\ \A p, q \in Procs : p # q => ToSet(LabsOf[p]) \cap ToSet(LabsOf[q]) = {}
    /\ Pools \subseteq Procs /\ \A p \in Procs \ Pools : Len(LabsOf[p]) = 1
    /\ "none" \notin Procs /\ {"other", "free"} \cap Labs = {}
    /\ LastOctet \in Nat /\ Jobs \in Nat \ {0} /\ Foreign \subseteq Nat
    /\ Pids \subseteq Nat \ {0} /\ IsFiniteSet(Pids) /\ Crashes \in BOOLEAN

VARIABLES lock,     \* the holder of the lock file, or "none"
          net,      \* the management network of each lab
          up,       \* labs that have containers
          tele,     \* labs that have a Telegraf container
          proc,     \* what runs under each process id: a lab's collector, "other", "free"
          pidfile,  \* bgp_collector.pid of each lab, 0 if there is none
          c,        \* the call each process is in
          orphan,   \* subnets of deploy commands that outlived their process
          orphaned, \* labs that ever had such a command
          unread    \* what the queries of a lab's teardown overlooked (history)
host == <<net, up, tele, proc, pidfile, orphan, orphaned, unread>>
vars == <<lock, net, up, tele, proc, pidfile, c, orphan, orphaned, unread>>

Own(p) == ToSet(LabsOf[p])
Index(p, l) == CHOOSE j \in 1..Len(LabsOf[p]) : LabsOf[p][j] = l
Lab(p) == LabsOf[p][c[p].i]
Goto(p, pc) == c' = [c EXCEPT ![p].pc = pc]

Init ==
    /\ lock = "none" /\ net = [l \in Labs |-> {}] /\ up = {} /\ tele = {}
    /\ proc = [i \in Pids |-> "free"] /\ pidfile = [l \in Labs |-> 0]
    /\ c = [p \in Procs |-> [pc |-> "idle", i |-> 1, pid |-> 0, started |-> FALSE, bad |-> FALSE,
                             err |-> FALSE, rc |-> TRUE,
                             sub |-> [l \in Labs |-> {}], dep |-> [l \in Labs |-> "todo"]]]
    /\ orphan = [l \in Labs |-> {}] /\ orphaned = {} /\ unread = [l \in Labs |-> {}]

(***************************************************************************)
(* allocate_management_subnets: candidates in ascending order, without the *)
(* ones that overlap a Docker network or an earlier choice.  Docker aligns *)
(* a subnet to its prefix, and so does ip_network(strict=False).           *)
(***************************************************************************)
Used == Foreign \cup UNION {net[l] : l \in Labs}
Span(o, k) == (k * (o \div k))..(k * (o \div k) + k - 1)
Candidates(p) ==
    LET count == IF Start[p] > LastOctet THEN 0 ELSE (LastOctet - Start[p]) \div Stride[p] + 1
    IN  [j \in 1..count |-> Start[p] + (j - 1) * Stride[p]]
Selected_UsedOnly(p) ==
    LET free == SelectSeq(Candidates(p), LAMBDA o : Span(o, Stride[p]) \cap Used = {})
    IN  [j \in 1..Len(free) |-> Span(free[1], Stride[p])]
Selected(p) ==
    FoldLeft(LAMBDA chosen, o :
                 LET s == Span(o, Stride[p])
                 IN  IF s \cap (Used \cup UNION ToSet(chosen)) = {} THEN Append(chosen, s) ELSE chosen,
             <<>>, Candidates(p))

(***************************************************************************)
(* runtime_deploy_lock.  Only a pool has a control that can be cancelled   *)
(* while it waits.                                                         *)
(***************************************************************************)
Deploy(p) == c[p].pc = "idle" /\ Goto(p, "lock") /\ UNCHANGED <<lock, host>>

TakeLock_WhileHeld(p) ==
    /\ c[p].pc = "lock"
    /\ lock' = p /\ Goto(p, IF p \in Pools THEN "alloc" ELSE "check") /\ UNCHANGED host
TakeLock(p) ==
    /\ c[p].pc = "lock" /\ lock = "none"
    /\ lock' = p /\ Goto(p, IF p \in Pools THEN "alloc" ELSE "check") /\ UNCHANGED host

CancelWait(p) == c[p].pc = "lock" /\ p \in Pools /\ Goto(p, "failed") /\ UNCHANGED <<lock, host>>

Refused_KeepsLock(p) == Goto(p, "failed") /\ UNCHANGED <<lock, host>>
Refused(p) == Goto(p, "failed") /\ lock' = "none" /\ UNCHANGED host

Allocate(p) ==
    /\ c[p].pc = "alloc"
    /\ \/ /\ Len(Selected(p)) >= Len(LabsOf[p])
          /\ c' = [c EXCEPT ![p].pc = "check",
                            ![p].sub = [l \in Labs |-> IF l \in Own(p) THEN Selected(p)[Index(p, l)] ELSE {}]]
          /\ UNCHANGED <<lock, host>>
       \/ Refused(p)    \* too few are free, or Docker cannot be asked

(***************************************************************************)
(* What Docker has of a lab, and what docker ps and docker inspect find of *)
(* it: their exit code is not looked at, or any but 0 reads as "not there",*)
(* so a query that fails overlooks what it asked for.                      *)
(***************************************************************************)
Present(l) == (IF net[l] = {} THEN {} ELSE {"network"}) \cup (IF l \in up THEN {"containers"} ELSE {})
              \cup (IF l \in tele THEN {"telegraf"} ELSE {})
Found(objects) == SUBSET objects

(***************************************************************************)
(* assert_worker_slot_available for every worker; then deployment_started. *)
(***************************************************************************)
Conflicts(p) == Found(UNION {Present(l) : l \in Own(p)})
CheckSlots(p) ==
    /\ c[p].pc = "check"
    /\ \/ \E found \in Conflicts(p) :
             IF found # {} THEN Refused(p)
             ELSE /\ c' = [c EXCEPT ![p].pc = "deploy", ![p].started = TRUE,
                                    ![p].sub = IF p \in Pools THEN @ ELSE [@ EXCEPT ![LabsOf[p][1]] = Span(Start[p], Stride[p])]]
                  /\ UNCHANGED <<lock, host>>
       \/ Refused(p)    \* a query timed out

(***************************************************************************)
(* deploy_workers and deploy_worker_lab: one thread per lab, at most Jobs  *)
(* at once.  Containerlab makes the network, which Docker refuses when it  *)
(* overlaps, and then the containers; a command that fails or is killed on *)
(* cancellation leaves what it made.  With one job the first failure stops *)
(* the loop; the thread pool is left only when all its labs have ended.    *)
(***************************************************************************)
Busy(p) == {l \in Own(p) : c[p].dep[l] \in {"busy", "net"}}
Failed(p) == {l \in Own(p) : c[p].dep[l] = "bad"}
Dep(p, l, st) == c' = [c EXCEPT ![p].dep[l] = st]
Fits(l, s) == net[l] # {} \/ s \cap Used = {}

StartLab(p, l) ==
    /\ c[p].pc = "deploy" /\ c[p].dep[l] = "todo" /\ Cardinality(Busy(p)) < Jobs
    /\ Jobs = 1 => \A k \in 1..(Index(p, l) - 1) : c[p].dep[LabsOf[p][k]] = "done"
    /\ Dep(p, l, "busy") /\ UNCHANGED <<lock, host>>
CreateNetwork(p, l) ==
    /\ c[p].pc = "deploy" /\ c[p].dep[l] = "busy" /\ Fits(l, c[p].sub[l])
    /\ net' = [net EXCEPT ![l] = IF @ = {} THEN c[p].sub[l] ELSE @]
    /\ Dep(p, l, "net") /\ UNCHANGED <<lock, up, tele, proc, pidfile, orphan, orphaned, unread>>
BootLab(p, l) ==
    /\ c[p].pc = "deploy" /\ c[p].dep[l] = "net"
    /\ up' = up \cup {l}
    /\ \E st \in {"done", "bad"} : Dep(p, l, st)    \* PID 1 contract, apply_configs
    /\ UNCHANGED <<lock, net, tele, proc, pidfile, orphan, orphaned, unread>>
LabFails(p, l) ==
    /\ c[p].pc = "deploy" /\ l \in Busy(p)
    /\ up' \in IF c[p].dep[l] = "net" THEN {up, up \cup {l}} ELSE {up}
    /\ Dep(p, l, "bad") /\ UNCHANGED <<lock, net, tele, proc, pidfile, orphan, orphaned, unread>>
DeployReturns(p) ==
    /\ c[p].pc = "deploy" /\ Busy(p) = {}
    /\ IF Jobs = 1 THEN Failed(p) # {} \/ \A l \in Own(p) : c[p].dep[l] = "done"
       ELSE \A l \in Own(p) : c[p].dep[l] \in {"done", "bad"}
    /\ lock' = "none" /\ Goto(p, IF Failed(p) = {} THEN "collector" ELSE "failed") /\ UNCHANGED host

(***************************************************************************)
(* ensure_worker_observability, worker by worker: the collector is kept if *)
(* the pid file names a process with its command line, else one is started *)
(* and its id written; the Telegraf container is replaced.                 *)
(***************************************************************************)
Running(l) == pidfile[l] # 0 /\ proc[pidfile[l]] = l
CollectorKept(p) ==
    /\ c[p].pc = "collector" /\ Running(Lab(p))
    /\ Goto(p, "telegraf") /\ UNCHANGED <<lock, host>>
StartCollector_Always(p) ==
    /\ c[p].pc = "collector"
    /\ pidfile' = [pidfile EXCEPT ![Lab(p)] = 0]
    /\ \E i \in Pids : /\ proc[i] = "free" /\ proc' = [proc EXCEPT ![i] = Lab(p)]
                       /\ c' = [c EXCEPT ![p].pc = "pid", ![p].pid = i]
    /\ UNCHANGED <<lock, net, up, tele, orphan, orphaned, unread>>
StartCollector(p) ==
    /\ c[p].pc = "collector" /\ ~Running(Lab(p))
    /\ pidfile' = [pidfile EXCEPT ![Lab(p)] = 0]
    /\ \E i \in Pids : /\ proc[i] = "free" /\ proc' = [proc EXCEPT ![i] = Lab(p)]
                       /\ c' = [c EXCEPT ![p].pc = "pid", ![p].pid = i]
    /\ UNCHANGED <<lock, net, up, tele, orphan, orphaned, unread>>
WritePid(p) ==
    /\ c[p].pc = "pid"
    /\ pidfile' = [pidfile EXCEPT ![Lab(p)] = c[p].pid] /\ c' = [c EXCEPT ![p].pc = "telegraf", ![p].pid = 0]
    /\ UNCHANGED <<lock, net, up, tele, proc, orphan, orphaned, unread>>
StartTelegraf(p) ==
    /\ c[p].pc = "telegraf" /\ net[Lab(p)] # {}
    /\ tele' = tele \cup {Lab(p)}
    /\ c' = IF c[p].i < Len(LabsOf[p]) THEN [c EXCEPT ![p].pc = "collector", ![p].i = @ + 1]
            ELSE [c EXCEPT ![p].pc = "agents"]
    /\ UNCHANGED <<lock, net, up, proc, pidfile, orphan, orphaned, unread>>
\* The core, the bucket, Telegraf's removal, start or listener fails.
ObserveFails(p) ==
    /\ c[p].pc \in {"collector", "telegraf"}
    /\ tele' \in IF c[p].pc = "telegraf" THEN {tele, tele \ {Lab(p)}, tele \cup {Lab(p)}} ELSE {tele}
    /\ Goto(p, "failed") /\ UNCHANGED <<lock, net, up, proc, pidfile, orphan, orphaned, unread>>
\* Client agents and the health check, then the runtime is ready or not.
Validate(p) ==
    /\ c[p].pc = "agents"
    /\ \/ (\A l \in Own(p) : l \in up /\ net[l] # {}) /\ Goto(p, "ready")
       \/ Goto(p, "failed")
    /\ UNCHANGED <<lock, host>>
\* A pool may run the observability stage again.
ObserveAgain(p) ==
    /\ c[p].pc = "failed" /\ p \in Pools /\ \A l \in Own(p) : c[p].dep[l] = "done"
    /\ c' = [c EXCEPT ![p].pc = "collector", ![p].i = 1] /\ UNCHANGED <<lock, host>>

(***************************************************************************)
(* teardown_workers and teardown_worker_lab.  It follows a failure after   *)
(* deployment_started, or a call for a lab that is ready, was not removed, *)
(* or whose process died.  A command that fails does not stop it, one that *)
(* times out does, except the first destroy; containers that do not go     *)
(* within the timeout fail the worker, and so does what remains.           *)
(***************************************************************************)
BeginTeardown(p) ==
    /\ c[p].pc \in {"failed", "ready", "dirty", "dead"} /\ c[p].started
    /\ c' = [c EXCEPT ![p].pc = "stop", ![p].i = 1, ![p].pid = 0,
                      ![p].sub = [l \in Labs |-> {}], ![p].dep = [l \in Labs |-> "todo"]]
    /\ unread' = [l \in Labs |-> IF l \in Own(p) THEN {} ELSE unread[l]]
    /\ UNCHANGED <<lock, net, up, tele, proc, pidfile, orphan, orphaned>>

NextWorker_PastTheLast(p, failed) ==
    [c EXCEPT ![p].pc = "stop", ![p].i = @ + 1, ![p].rc = TRUE, ![p].err = FALSE, ![p].bad = @ \/ failed]
NextWorker_LastCounts(p, failed) ==
    IF c[p].i < Len(LabsOf[p]) THEN [c EXCEPT ![p].pc = "stop", ![p].i = @ + 1, ![p].rc = TRUE, ![p].err = FALSE]
    ELSE [c EXCEPT ![p].pc = IF failed THEN "dirty" ELSE "down", ![p].rc = TRUE, ![p].err = FALSE]
NextWorker(p, failed) ==
    IF c[p].i < Len(LabsOf[p]) THEN [c EXCEPT ![p].pc = "stop", ![p].i = @ + 1, ![p].rc = TRUE, ![p].err = FALSE,
                                                         ![p].bad = @ \/ failed]
    ELSE [c EXCEPT ![p].pc = IF c[p].bad \/ failed THEN "dirty" ELSE "down", ![p].rc = TRUE, ![p].err = FALSE, ![p].bad = FALSE]
\* A command ended, whatever its exit code, or it timed out, which raises.
Then(p, pc) == Goto(p, pc) \/ c' = NextWorker(p, TRUE)

StopCollector_AnyProcess(p) ==
    /\ c[p].pc = "stop"
    /\ LET l == Lab(p) IN
       /\ proc' = IF pidfile[l] # 0 THEN [proc EXCEPT ![pidfile[l]] = "free"] ELSE proc
       /\ pidfile' = [pidfile EXCEPT ![l] = 0] /\ Goto(p, "untele")
    /\ UNCHANGED <<lock, net, up, tele, orphan, orphaned, unread>>
StopCollector_FileOnly(p) ==
    /\ c[p].pc = "stop"
    /\ pidfile' = [pidfile EXCEPT ![Lab(p)] = 0] /\ Goto(p, "untele")
    /\ UNCHANGED <<lock, net, up, tele, proc, orphan, orphaned, unread>>
StopCollector(p) ==
    /\ c[p].pc = "stop"
    /\ LET l == Lab(p) IN
       \/ /\ proc' = IF Running(l) THEN [proc EXCEPT ![pidfile[l]] = "free"] ELSE proc
          /\ pidfile' = [pidfile EXCEPT ![l] = 0] /\ Goto(p, "untele")
       \/ /\ Running(l)    \* it remained after SIGKILL
          /\ c' = [c EXCEPT ![p].pc = "untele", ![p].err = TRUE] /\ UNCHANGED <<proc, pidfile>>
    /\ UNCHANGED <<lock, net, up, tele, orphan, orphaned, unread>>
RemoveTelegraf(p) ==
    /\ c[p].pc = "untele"
    /\ tele' \in {tele, tele \ {Lab(p)}} /\ Then(p, "destroy")
    /\ UNCHANGED <<lock, net, up, proc, pidfile, orphan, orphaned, unread>>

\* containerlab destroy --cleanup.  The network stays while it is in use.
Destroyed(p, rc) ==
    /\ net' \in {net, [net EXCEPT ![Lab(p)] = {}]}
    /\ up' \in IF rc THEN {up \ {Lab(p)}} ELSE {up, up \ {Lab(p)}}
Destroy(p) ==    \* a timeout counts as a failure here
    /\ c[p].pc = "destroy"
    /\ \E rc \in BOOLEAN : Destroyed(p, rc) /\ c' = [c EXCEPT ![p].pc = "rm", ![p].rc = rc]
    /\ UNCHANGED <<lock, tele, proc, pidfile, orphan, orphaned, unread>>
RemoveContainers_AnyLab(p) ==
    /\ c[p].pc = "rm"
    /\ up' = {} /\ Goto(p, "gone")
    /\ UNCHANGED <<lock, net, tele, proc, pidfile, orphan, orphaned, unread>>
RemoveContainers(p) ==
    /\ c[p].pc = "rm"
    /\ up' \in {up, up \ {Lab(p)}} /\ Then(p, "gone")
    /\ UNCHANGED <<lock, net, tele, proc, pidfile, orphan, orphaned, unread>>

Overlooked(p, objects) == unread' = [unread EXCEPT ![Lab(p)] = @ \cup objects]
WaitForRemoval(p) ==
    /\ c[p].pc = "gone"
    /\ \/ /\ Overlooked(p, Present(Lab(p)) \cap {"containers"})    \* the listing is empty
          /\ Goto(p, IF c[p].rc THEN "netrm" ELSE "again") /\ UNCHANGED up
       \/ Lab(p) \in up /\ up' = up \ {Lab(p)} /\ UNCHANGED <<c, unread>>    \* rm -f, then poll again
       \/ c' = NextWorker(p, TRUE) /\ UNCHANGED <<up, unread>>
    /\ UNCHANGED <<lock, net, tele, proc, pidfile, orphan, orphaned>>
DestroyAgain(p) ==
    /\ c[p].pc = "again"
    /\ \/ \E rc \in BOOLEAN : Destroyed(p, rc) /\ c' = [c EXCEPT ![p].pc = "netrm", ![p].rc = rc]
       \/ Destroyed(p, FALSE) /\ c' = NextWorker(p, TRUE)
    /\ UNCHANGED <<lock, tele, proc, pidfile, orphan, orphaned, unread>>
RemoveNetwork(p) ==
    /\ c[p].pc = "netrm"
    /\ net' \in {net, [net EXCEPT ![Lab(p)] = {}]} /\ Then(p, "verify")
    /\ UNCHANGED <<lock, up, tele, proc, pidfile, orphan, orphaned, unread>>
\* The network and Telegraf are looked for, the containers not again.
Verified(p, objects) ==
    \E found \in Found(Present(Lab(p)) \cap objects) :
        LET failed == c[p].err \/ ~c[p].rc \/ found # {} IN
        /\ c' = NextWorker(p, failed)
        /\ IF failed THEN UNCHANGED unread ELSE Overlooked(p, Present(Lab(p)) \cap objects)
Verify_NoNetwork(p) ==
    /\ c[p].pc = "verify" /\ Verified(p, {"telegraf"})
    /\ UNCHANGED <<lock, net, up, tele, proc, pidfile, orphan, orphaned>>
Verify(p) ==
    /\ c[p].pc = "verify"
    /\ \/ Verified(p, {"network", "telegraf"})
       \/ c' = NextWorker(p, TRUE) /\ UNCHANGED unread    \* an inspect timed out
    /\ UNCHANGED <<lock, net, up, tele, proc, pidfile, orphan, orphaned>>

(***************************************************************************)
(* The process dies: the kernel gives the lock back, while a Containerlab  *)
(* command it had started may run to its end.                              *)
(***************************************************************************)
Active(p) == c[p].pc \notin {"idle", "ready", "failed", "down", "dirty", "dead"}
Crash(p) ==
    /\ Crashes /\ Active(p) /\ Goto(p, "dead")
    /\ lock' = IF lock = p THEN "none" ELSE lock
    /\ \E left \in SUBSET (IF c[p].pc = "deploy" THEN Busy(p) ELSE {}) :
           /\ orphan' = [l \in Labs |-> IF l \in left THEN c[p].sub[l] ELSE orphan[l]]
           /\ orphaned' = orphaned \cup left
    /\ UNCHANGED <<net, up, tele, proc, pidfile, unread>>
OrphanRuns(l) ==
    /\ orphan[l] # {} /\ orphan' = [orphan EXCEPT ![l] = {}]
    /\ net' = IF Fits(l, orphan[l]) /\ net[l] = {} THEN [net EXCEPT ![l] = orphan[l]] ELSE net
    /\ up' = IF Fits(l, orphan[l]) THEN up \cup {l} ELSE up
    /\ UNCHANGED <<lock, tele, proc, pidfile, c, orphaned, unread>>

\* A collector dies; another process gets an id that a pid file still names.
CollectorDies(i) ==
    /\ proc[i] \in Labs /\ proc' = [proc EXCEPT ![i] = "free"]
    /\ UNCHANGED <<lock, net, up, tele, pidfile, c, orphan, orphaned, unread>>
PidReused(i) ==
    /\ proc[i] = "free" /\ \E l \in Labs : pidfile[l] = i
    /\ proc' = [proc EXCEPT ![i] = "other"]
    /\ UNCHANGED <<lock, net, up, tele, pidfile, c, orphan, orphaned, unread>>

DeployStep(p) == Allocate(p) \/ CheckSlots(p) \/ DeployReturns(p)
                 \/ \E l \in Own(p) : StartLab(p, l) \/ CreateNetwork(p, l) \/ BootLab(p, l) \/ LabFails(p, l)
ObserveStep(p) == CollectorKept(p) \/ StartCollector(p) \/ WritePid(p) \/ StartTelegraf(p) \/ ObserveFails(p) \/ Validate(p)
TeardownStep(p) == StopCollector(p) \/ RemoveTelegraf(p) \/ Destroy(p) \/ RemoveContainers(p)
                   \/ WaitForRemoval(p) \/ DestroyAgain(p) \/ RemoveNetwork(p) \/ Verify(p)
Next ==
    \/ \E p \in Procs : Deploy(p) \/ TakeLock(p) \/ CancelWait(p) \/ DeployStep(p) \/ ObserveStep(p) \/ ObserveAgain(p)
                        \/ BeginTeardown(p) \/ TeardownStep(p) \/ Crash(p)
    \/ \E l \in Labs : OrphanRuns(l)
    \/ \E i \in Pids : CollectorDies(i) \/ PidReused(i)

Spec == Init /\ [][Next]_vars
FairSpec == Spec /\ \A p \in Procs : WF_vars(DeployStep(p)) /\ WF_vars(ObserveStep(p)) /\ WF_vars(TeardownStep(p))
                                     /\ SF_vars(TakeLock(p))

-----------------------------------------------------------------------------
TypeOK ==
    /\ lock \in Procs \cup {"none"} /\ net \in [Labs -> SUBSET Nat] /\ up \subseteq Labs /\ tele \subseteq Labs
    /\ proc \in [Pids -> Labs \cup {"other", "free"}] /\ pidfile \in [Labs -> Pids \cup {0}]
    /\ orphaned \subseteq Labs /\ unread \in [Labs -> SUBSET {"network", "containers", "telegraf"}]
    /\ \A p \in Procs : c[p].i \in 1..Len(LabsOf[p]) /\ c[p].dep \in [Labs -> {"todo", "busy", "net", "done", "bad"}]

(***************************************************************************)
(* What a pool chose for its labs is free, and stays free, until each lab  *)
(* has its network: no other deployment, whatever its scale or its given   *)
(* subnet, takes an overlapping one meanwhile (the reason for              *)
(* runtime_deploy_lock).  A deploy command whose process died is outside   *)
(* the lock and excepted.                                                  *)
(***************************************************************************)
AllocatedIsFree ==
    \A p \in Pools : \A l \in Own(p) :
        c[p].pc \in {"check", "deploy"} /\ c[p].dep[l] \in {"todo", "busy"} /\ net[l] = {}
            => c[p].sub[l] \cap (Foreign \cup (UNION {net[k] : k \in Labs \ orphaned})
                                 \cup (UNION {c[p].sub[k] : k \in Own(p) \ {l}})) = {}

(***************************************************************************)
(* A teardown that reports success has left nothing of its labs but what   *)
(* the last query about that very object overlooked: neither a command     *)
(* that failed, nor the failure of another worker, nor an earlier attempt  *)
(* is lost on the way.  A lab whose deploy command outlives its process is *)
(* excepted.  No collector is left either, where no process dies: one that *)
(* did may have started a collector of which no pid file tells.            *)
(***************************************************************************)
NothingLeft(p) ==
    \A l \in Own(p) \ orphaned : Present(l) \subseteq unread[l] /\ (Crashes \/ \A i \in Pids : proc[i] # l)
TornDownIsClean == \A p \in Procs : c[p].pc = "down" => NothingLeft(p)

(***************************************************************************)
(* A lab has at most one collector, also when the observability stage is   *)
(* run again or the pid file is stale.                                     *)
(***************************************************************************)
OneCollector == \A l \in Labs : Cardinality({i \in Pids : proc[i] = l}) <= 1

UnrelatedSparedStep == \A i \in Pids : proc[i] = "other" => proc'[i] = "other"

(***************************************************************************)
(* A stale pid file never makes a teardown kill an unrelated process.      *)
(***************************************************************************)
UnrelatedSpared == [][UnrelatedSparedStep]_vars

(***************************************************************************)
(* A lab that is ready keeps its containers and its network until a        *)
(* teardown of it is asked for: the containers a teardown removes are      *)
(* those it owns.                                                          *)
(***************************************************************************)
ReadyLabStays == \A p \in Procs : c[p].pc = "ready" => \A l \in Own(p) : l \in up /\ net[l] # {}

(***************************************************************************)
(* What is on the host for a lab is there as long as its owner wants it: a *)
(* lab that is ready stays, with one collector at most, and a teardown     *)
(* that reports success leaves nothing of it that its queries did not      *)
(* overlook (teardown_worker_lab, ensure_worker_bgp_collector).            *)
(***************************************************************************)
LabsLastAsLongAsTheirOwner == TornDownIsClean /\ ReadyLabStays /\ OneCollector

InLine(p) == c[p].pc = "lock"
Deployed(p) == c[p].pc \in {"ready", "failed", "dirty", "down"}

(***************************************************************************)
(* A deployment that waits for the lock ends: no failure, refusal or       *)
(* cancellation of another one keeps the lock.                             *)
(***************************************************************************)
DeploymentEnds == \A p \in Procs : InLine(p) ~> Deployed(p)
=============================================================================
