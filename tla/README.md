# NetOpsBench: verification project

TLA+ models of the stateful core of NetOpsBench and of its planning and evidence
algorithms, the TLC runs that check them on small instances, and machine-checked proofs
(TLAPS) for all of its state machines but the pingmesh window. Paths below are relative to `src/netopsbench/platform/` unless
they start with `src/`. `PROJECT.json` maps every definition to the lines it models and
lists the runs, the mutants, the hazards, the findings and the theorems.

## 1. The system and its parts

NetOpsBench provisions SONiC/Containerlab labs, injects network faults, lets an agent
diagnose them and scores the answer. Its own state and control live in these parts.

| Part | State it keeps | Operations | Module |
|---|---|---|---|
| Lease pool (`simulator/runtime.py`) | list of warm runtimes with `in_use`, `quarantined`, `lease_deadline`; one condition variable | acquire, release, refresh, quarantine, reap_orphans, drain | `RuntimeLeasePool` |
| Incident, session, HTTP service (`incident/engine.py`, `simulator/service.py`, `environment.py`, `src/netopsbench/sdk/simulators.py`) | incident and cleanup status, slots with locks, tombstones, registry | prepare, open, call_tool, submit, close; create, step, delete, pruning | `SimulatorService` |
| Runtime manager, bucket ownership (`runtime/manager.py`, `lifecycle.py`, `observability/ownership.py`, `influxdb.py`) | `RuntimePool` in memory, `runtime.json`, manifest of buckets, labs, directory | provision, create, stages, mark_quarantined, attach, teardown | `RuntimeLifecycle` |
| Worker deployment, sidecars (`runtime/deployment.py`, `observability/lifecycle.py`) | deploy lock, networks, containers, pid files | allocate subnets, deploy, observe, tear down, compensate | `HostDeployment` |
| Traffic control (`traffic/controller.py`, `client_agent/`, `src/native/client-agent/src/traffic.rs`) | plan generation and sender of each client | deploy, reset, load, enable, status, disable | `TrafficControl` |
| Fault handlers (`faults/injector.py`, `services/`, `handlers/`) | active faults, periodic controllers, journals | inject, recover, recover_all | `LinkFaults`, `ConfigFaults`, `DeviceLifecycle` |
| Health (`runtime/health.py`) | probes in a thread pool under one deadline | the stages of a check | `HealthCheck` |
| Scenario execution (`scenario/executor.py`, `incident_backend.py`, `episode_runner.py`, `baseline.py`) | phase of the case, hand-off window | prepare, inject, observe, diagnose, clean up | `ScenarioExecution`, `BaselineHandoff` |
| Dispatch (`session/dispatch.py`, `orchestrator.py`) | worker threads, quarantine, report, metadata | run, cancel, quarantine, finalize | `SessionDispatch` |
| Acceptance (`session/acceptance.py`, `runtime/resources.py`) | `acceptance.json`, the lab in use | phases, checkpoint, resume, rebuild, release | `Acceptance` |
| BGP evidence (`observability/bgp_collector.py`, `toolkit/_core/observability/bgp_ops.py`) | tracker, segmented spool, InfluxDB | poll, write, seal, delete; query | `BgpCollector`, `BgpEvents` |
| Pingmesh evidence (`pingmesh/_detector_*.py`, `detector.py`, `scenario/observation.py`, `effects.py`) | the window, its rows and its baseline | wait, audit, gate, compare, excuse | `PingmeshIngestion`, `PingmeshAnalysis`, `FlapEvidence` |
| Planners (`topology/`, `pingmesh/planner.py`, `traffic/generator.py`, `scenario/generator.py`, `candidates.py`) | none | build, plan, place, admit | `FabricPlan`, `PingmeshPlan`, `Placement`, `TrafficPlan` |
| Scoring (`src/netopsbench/evaluator`, `incident/scoring.py`) | results of a session | truth, score, judge, report | `Scoring` |
| Toolkit, reports, plots, CLI, agents | files and output | queries, formatting | not modelled (section 7) |

Interactions: a request thread of the service steps an environment; the environment
drives a session of a prepared incident; the incident's backend leases a runtime from the
pool; the pool provisions and tears down through the runtime manager; the manager deploys
labs and creates buckets. Dispatch uses the same runtimes and the same incident engine
from worker threads; each worker's executor drives traffic, faults and health of its lab
and judges them by the pingmesh and BGP evidence. Everything outside Python (Docker,
Containerlab, InfluxDB, devices) may fail, be slow, or do its work and lose the answer.

Hard behaviour: threads in the service and in the pool with three kinds of locks; leases
that expire under their holder; cleanup that fails half way and is retried, also by a
later process; crashes between an effect on the host and its record on disk; requests
applied after they were given up; commands that fail with a part of their effect;
controllers that run beside the recovery of their fault; evidence that arrives late and in
any order. The `hazards` list of `PROJECT.json` places each at its line.

## 2. Modules

Each component has one module; a definition `Op_Variant` placed before `Op` is a mutated
form that must break a property and is used by no specification.

**`RuntimeLeasePool`** — `RuntimeLeasePool` and the lease side of
`RuntimeEpisodeBackend` and `PreparedIncident`. A method that runs under the pool's lock
is one action. `acquire` is split where it gives the lock up or takes long: `AcquireTurn`
(one turn of its loop, `reap_orphans` and `_make_capacity_for` included), `WaitTimesOut`
(`Condition.wait`), and the `"provisioning"` phase, during which the lock is held and no
other pool method runs while time passes. Failing teardowns are the subset `gone` of the
records that really left. `owed` is a history variable: until when a session opened on a
live lease, with its cleanup grace, may use the runtime. `Records` bounds how many
runtimes are ever provisioned, `MaxTime` the clock.

**`SimulatorService`** — what requests do to environments. Threads take the slot lock
(`lock`), the service lock is inside single actions, `PreparedIncident.close` is the pair
`CloseBegin`/`CloseEnd` with a wait while another thread is inside. The shutdown works
through the slot table under the slot locks and then, as `SimulatorManager.close`, through
its registry without them; `late` remembers which environments were outside the table the
shutdown took. Tombstones are a sequence in the order of `terminal_at`, so expiry by age
and the cap both remove a prefix.

**`RuntimeLifecycle`** — one runtime name over several processes. `mem` is the
`RuntimePool` of the process, `disk` its `runtime.json` (without
`_provision_created_buckets`, which is not persisted), `labs`, `buckets`, `owned` and `dir`
what is on the host. A worker stands for its lab and its bucket. Every effect on the host
is a step of its own: a lab, a bucket, its record in the manifest, a deletion, its removal
from the manifest, the directory; with `Crashes` a process may die between any two of
them. `buckets[w]` says who made the bucket: the user, this runtime, or an earlier runtime
of the name. Callers are those of the repository: `provision()`, or `create()` and the
chain of stages, resumed after `attach()` unless the runtime is quarantined. The result of
a failed `teardown` stage is not kept in `stages`: no decision reads it. Management
subnets, logs and the second write at the end of `provision()` are left out.

**`HostDeployment`** — several processes on one host. The deploy lock is held from the
choice of the subnets to the last network; removal runs command by command outside it, as
in the code. A command of Containerlab may outlive its process (`orphan`); what it then
does is outside the lock and excepted by `orphaned`. A timeout stops a worker's teardown,
except at the first destroy. `_container_exists`, `_network_exists` and
`_lab_container_names` take a command that fails for an object that is not there: a query
finds any part of what there is (`Found`), in the slot check, in the wait for the removal
and in the last verification. The history variable `unread` keeps what the last query of
a teardown about an object overlooked. Process ids are used again (`Pids`).

**`TrafficControl`** — agents and controller of one lab. A phase sends one request to each
client in parallel; each attempt is answered, applied with its answer lost, lost, or
applied late (`MaxLate`). `StatusLoopEnds` is the end of READY_TIMEOUT_SECONDS.

**`LinkFaults`**, **`ConfigFaults`**, **`DeviceLifecycle`** — the three ways a fault is
made and undone: both endpoints of a link with a flapping controller in its own thread; a
journal of operations undone backwards, or one change that is read back; a container that
is stopped with its interfaces parked. Any command fails with all, a part or none of its
effect. `MayExpire` lets the deadline of the injection pass inside a handler.
After a failed activation the recovery of a device reports that it may be retried, but the
retry finds the container running and is final: the model keeps this.

**`HealthCheck`** — the stages of one check; a stage probes in a pool of `PoolSize`
threads and probes again only what was not good, while the lab changes.

**`ScenarioExecution`** — one worker's executor over many cases, with ages and budgets
that saturate instead of a clock. It implements **`BaselineHandoff`**, the abstract
single-consumer hand-off: `slot` is mapped to the published window, `taken` to the windows
that were used or dropped.

**`SessionDispatch`** — sessions one after another, one thread per worker, cancellation,
quarantine, report and metadata. `MayRaise` lets saving or scoring a result raise.
`AssignScenarios` gives the share of a worker in closed form: every `NWorkers`-th scenario,
as the round robin of `assign_scenarios_to_workers` deals them.

**`Acceptance`** — `result` in memory and `disk`, its last checkpoint; a process may die
anywhere and be resumed or rebuilt; the resource monitor raises an emergency at any time,
the first time before the process has attached the retained lab. `p.active` is
`active_runtime`, the lab the process has a hold of: set by the attach (or by the deploy),
after which an emergency ends in a release; without it the process ends as it is.

**`BgpCollector`**, **`BgpEvents`** — the spool with sizes in units, sealed and active
segments, markers and crashes; and `query_bgp_events` with its fast and its slow path over
any history of polls, where a poll may fail or the collector be dead. A write that seals a
segment first is three steps (marker, rename, append); `round.writing` is its device. `last`
is a history variable: what the batches in the spool show of each session (`Shown`), or
"lost" after a dropped one.

**`PingmeshIngestion`**, **`PingmeshAnalysis`**, **`FlapEvidence`** — when a window is
ready; what is reported from it against a baseline that passed the gate (loss shares are
compared as cross products); which failures a held or flapping link excuses. Instances
with a client that restarts deliver each client's rows in order: a restart *and* rows out
of order could make `ready` unsound, which the code does not exclude.

**`FabricPlan`**, **`PingmeshPlan`**, **`Placement`**, **`TrafficPlan`** — the builders and
planners, step by step as the code computes them; the properties compute the same things
from their definition (paths, pairs, sums). The pools an allocation can exhaust are small
constants. Rates are exact in units of 1/2856 packet per second; float rounding is left
out. The shuffle of placement is any qualifying choice, its hash a fixed order per seed.

**`Scoring`** — every case scored as the session does and as the SDK's evaluator does;
names are pairs of a thing and a spelling, scores thousandths.

**Proof modules.** `RuntimeLeasePool_proofs`, `SimulatorService_proofs`,
`RuntimeLifecycle_proofs`, `HostDeployment_proofs`, `ScenarioExecution_proofs` and
`SessionDispatch_proofs` extend the module they are named after. `MCLab_proofs` and
`MCCampaign_proofs` extend the suites of the runs `lab` and `campaign`: they hold the proofs
of `TrafficControl`, `LinkFaults`, `ConfigFaults`, `DeviceLifecycle`, `HealthCheck` and
`BgpCollector`, and of `Acceptance` and `Scoring`; they take over those of the component
modules through an instance over the slots of the suite, and conclude what the runs check.

**MC modules.** `MCLeasePool`, `MCService` and `MCHost` are about one component. The others
(`MCLab`, `MCCampaign`, `MCEvidence`, `MCPlanning` and the two liveness modules) are suites: the variable `part` says which instance a behaviour is about and never changes;
the instances share the slots `s1`, `s2`, … for their variables, in the order in which the
component declares them. A suite's property is the conjunction of the named properties of
its components; each is stated, with a comment, in the component's module. The sizes of the
instances of `MCLab` and `MCCampaign` that the proofs are about are constants of the suite,
given in its cfg, with the assumptions `LabAssumption`, `CollectorAssumption` and
`CampaignAssumption`: counts and sizes are naturals, there is at least one worker, scale,
backend and try, a router is polled once a round, and a name for the absence of something is
no value of its own. TLC evaluates them in every run.

## 3. Runs

| Run | Instances | Shows |
|---|---|---|
| `lease_pool` | 3 incidents, 3 runtimes, 2 scales, limit 2, clock 4 | types, exclusive leases, capacity, lease covers session, no lost wakeup |
| `service` | 3 threads, 2 environments, 1 tombstone | recovery once, one outcome, no tool during recovery, no incident forgotten, tombstones bounded; no deadlock |
| `campaign` | a runtime of 2 workers and 2 backends, without and with crashes and lost replies; 2 workers with 4 scenarios in 2 sessions, and with results that raise; 2 scales × 2 backends × 2 cases over 3 processes; every diagnosis of one case; reports of 3 cases | `TeardownIsComplete`, `NothingOffTheRecord`, `CleanLabPerCase`, `EveryCaseIsAccountedFor`, `ScoreIsEarned`, `ReportAddsUp`, `OthersAreSpared` |
| `host` | two processes with one lab each and 2 process ids, that may be killed | types, `LabsLastAsLongAsTheirOwner`, `UnrelatedSpared` |
| `host_pool` | a pool of 2 labs in 2 threads beside a lab of a wider scale | `AllocatedIsFree`, `TornDownIsClean` |
| `lab` | 3 clients in 2 generations (2 with one late request), 2 link faults of 2 kinds, 3 with client routes, 2 of 6 configuration faults, 2 devices, 2 devices and 2 clients in one probe thread, 2 cases, a collector of 2 routers with a spool of 4 units and one crash | `TrafficIsOwned`, `FaultsAreUndone`, `FaultsStayRecoverable`, `CleanIsProven`, `BaselineIsSound`, `StepsAreSound`, `EvidenceIsKept`; `ScenarioExecution` implements `BaselineHandoff` |
| `evidence` | 5 cycles delivered in any order, 7 in order; windows of 5 rows over 2 paths or 2 port batches; gates of 4 rows; flaps over 8 ticks; all histories of 5 BGP polls, 3 sets of full snapshots, 2 scopes | `NothingIsMissed`, `NothingIsInvented` |
| `planning` | every CLOS up to 4×4 and fat-trees around the limits; probe policies; placements with 3 seeds; rates from ample to prohibitive | `FabricIsSoundAndCovered`, `PlacedWhereItShows`, `TrafficIsAdmissible` |
| `service_liveness` | 3 incidents on one slot; 3 threads on one environment; 2 deployments | `ServiceAnswers` |
| `lab_liveness` | one small instance of each part of a lab and of its campaigns | types, `WorkEnds` |
| `session_dirty`, `lifecycle_interrupted` | small | disagreements between the code and its comments (section 6) |

Bounds. In the pool, two slots and three incidents of two scales are the smallest instance
with a waiter, an eviction and a holder whose lease was reaped, at once; a third runtime
lets a torn-down one be replaced. A clock of 4 with a time to live of 2 and a grace of 1
lets a lease be granted, extended, run out and be granted again. In the service, three
threads are a step, a competing step or delete, and a shutdown; two environments exceed
the tombstone cap of one. The lifecycle needs no counters: failures, retries, restarts and
reuse of the name are unbounded, and two workers are enough for one to fail while the
other succeeds. Two processes on a host are enough for every pair of steps to interleave;
the subnets of the larger one overlap several of the smaller one. Two generations of
traffic, two faults of one link and two cases are the smallest numbers in which something
of the first can meet the second; a third client, or a third fault, adds the one that is
neither failing nor failed. Three acceptance processes are a crash, a resume and a rebuild
of what the resume left. A spool of 4 units holds one batch with its event beside a sealed
segment and its marker: a second event fills it, so that batches are refused, dropped and
polled anew; the second router is the one whose result waits meanwhile. Five polls are a state before, three within and one after a
window. A window of five rows has two in each slice and one in the gap. `Placement` needs
two clients per rack, two racks and two ways; the shapes go on to three and four.

`CHECK_DEADLOCK FALSE` is used where the modelled world may stop: the pool when its clock
ends, a runtime name, a host or a lab when nobody starts anything further, a campaign at
its end. The service, the evidence and the planners are checked for deadlock.

Fairness. Each handler that has begun a step finishes it, and time passes (weak
fairness). `ServiceAnswers` assumes strong fairness of each request thread and of each
process at the deploy lock: backend calls return (tools, recovery and commands have
timeouts), and a thread waiting for a lock that is free again and again gets it in the
end; neither Python's locks nor `flock` promise an order, but each sees finitely many
holders before it is done. `WorkEnds` assumes strong fairness for two ends: a status loop
of the traffic controller stops by its own timeout, and InfluxDB, asked again and again
whether a sealed segment arrived, answers some time. Nobody is assumed to send a request,
to inject or recover a fault, to start or resume a process; the lab need not converge and
an agent need not answer. Since `part` is constant, a fairness condition that joins
actions of two parts is the same as one for each.

## 4. Proofs

Each theorem holds for every value of the constants that satisfies the assumption named
with it, in every behaviour of the module's `Spec`. The pattern is the same throughout: an
inductive invariant (`IInv`, or several layers of one), `InitInv`, a lemma per action,
`NextInv`, `StutterInv`, and a lemma that says what the invariant means for the properties.

**Lease pool** (`LeaseAssumption`: finitely many runtimes, natural timing constants).

- `TypeCorrect`: the types.
- `LeaseIsExclusive`: two incidents never hold one runtime. `ExclusiveLease` is not
  inductive: a grant must be known to pick a record nobody refers to. `IInv` adds that an
  incident has a record exactly between grant and end (`PhaseInv`), that leased records
  are listed and not quarantined and fresh ones are neither (`LeasedInv`), that a record
  still referred to is leased or quarantined, hence never available (`HoldInv`), and that
  the pool's lock has one owner (`LockInv`).
- `CapacityIsKept` and `WakeupsAreNotLost`: proved together (`CInv`) on top of `IInv`.
  The delicate step is a turn of acquire that evicts: `NothingIdle` shows that a turn which
  ends without room has tried every idle record, using `RemoveSubset` for the count.
- `LeaseOutlivesSession`: under `SessionsFit` (every session limit plus the grace is within
  the time to live) no runtime is reaped inside a session. `LInv` relates the deadline of a
  lease to what is owed; `SessionsFit` is what `SimulatorConfig` validates, and section 6
  shows that it is needed.

**Service** (`ServiceAssumption`: any sets of threads and environments). All five safety
properties of the run `service`. `RecoveryOnce` is not inductive: that a thread may finish
an incident says nothing of who else is about to. `IInv` adds that a thread which steps or
deletes holds the lock of its slot and a locked slot has a live environment (`LockInv`),
that a count of finishes and the states of incident and cleanup go together (`FinishInv`),
that an environment leaves its slot only finished (`RetiredInv`), and what the shutdown may
still meet without the locks: the environments outside the list it took (`KeptInv`,
`ShutInv`). The tombstones are distinct (`TombInv`), so that dropping a prefix of the
sequence drops as many slots.

**Lifecycle** (`LifecycleAssumption`: the names for "none" are no values of their own; any
numbers of workers and backends). Four layers, by what may go wrong.

- `IInv`, whatever happens, deaths and lost replies included: what `runtime.json` says is
  what the process knows, but for two fields that a call writes late (`SyncInv`), and no
  list of buckets to delete names a bucket of the user (`UserInv`). Gives
  `UsersBucketsAreKept` and `BackendsDoNotMix`.
- `OInv`, if nobody runs stages on a quarantined runtime: each bucket in the manifest has a
  deployed runtime on record and is on the list of any cleanup under way (`OwnedInv`).
  Gives `BucketsStayOnRecord` and `RetriesMissNothing`. The assumption is that of `attach()`'s
  callers in the repository; section 6 shows what happens without it.
- `LInv`, if besides no process dies inside a call: a lab has a record that leads a teardown
  to it. Gives `LabsStayOnRecord` and `ReservedOnly`; with deaths it is false, which the run
  `lifecycle_interrupted` shows.
- `BucketInv`, if besides no reply of InfluxDB is lost: every bucket the runtime made is in
  the manifest. Gives `TeardownsAreExact` and `TelemetryIsFresh`.

**Scenario execution** (`ScenarioAssumption`: the bounds and limits are naturals). `IInv`
rests on counting: restarts only count up (`CountInv`), so a window that saw one is of a
scope the lab has left for good (`ScopeInv`); windows carry the number of their case, and
what was taken a smaller one (`TakenInv`). Gives that baselines are clean, current and young
enough, that a fault left behind is reported, and that a clean end is proven
(`CleanEndsAreProven`). `HandoffIsSingleConsumer` is the refinement: every step of the
executor is a step of `BaselineHandoff` or leaves its state alone.

**Sessions** (`SessionAssumption`: at least one worker; any numbers of scenarios and
sessions).

- `FailedCleanupsAreRemembered`, from `IInv`: a thread runs only in a running session and a
  reported failure is on the runtime's list.
- `CasesStartClean`, with `~MayRaise`: `LabInv` says that a dirty lab belongs to a case under
  way or to a runtime that is warm no longer. With exceptions it is false (`session_dirty`).
- `ReportsCoverTheSession` and `RunsAreAccountedFor`. `CaseInv` says that the summaries of a
  worker are those of the first scenarios of its share and the rest is still to do, so that
  an empty rest means that all are summarized; the shares are the classes modulo the number of workers
  (`ShareIs`, `OneDivision`), so that no two workers summarize one scenario. `RowsInv` says
  that the rows are the summaries of all workers appended. What `FlattenSeq` computes is a
  recursion over its argument: `FlattenAppends` and `FlattenHolds` prove what is needed of
  it, for sequences of any length, by the first prefix for which it would fail.

**Host** (`HostAssumption`: any processes and labs, each lab of one process, any stride of the
subnets, any number of deploy threads, finitely many process ids; with and without kills).
`HostInv` holds whatever commands fail and whichever processes die: who chooses subnets or
makes networks holds the lock (`Locked`); what outlived its process is known as such
(`OrphansAreKnown`); a pid file names the collector that runs (`Collectors`); the subnets of
a pool that are not networks yet overlap nothing on the host (`Reserved`); a teardown knows
at each place what is gone (`TornDown`); a ready lab is up (`ReadyIsUp`). From it
`SubnetsAreFree`, `UnrelatedAreSpared` and `LabsLast`, which joins `TeardownsAreClean`,
`ReadyLabsStay` and `OneCollectorEach`. That a torn-down lab has no collector is claimed
where no process dies: one that does between starting a collector and writing its pid file
leaves one that nobody finds. Networks, containers and Telegraf are claimed to be gone but
for what the last query about that object overlooked (`unread`): `TornDown` carries at each
place of a teardown which objects are gone or were overlooked, so where no query fails
nothing is left. `AllocatedIsFree` is checked without kills (`host_pool`) and
proved with them. What
`allocate_management_subnets` selects is a fold over the candidates; `SelectedAreApart` is
proved by the first set of candidates for which it would fail.

**The lab** (`MCLab_proofs`; `LabAssumption`, `CollectorAssumption`). `LabInvariant` joins the
invariants of the parts, for any devices, clients, routers, sizes and numbers of faults,
generations, cases and crashes:

- traffic: who runs which plan follows from the phase of the controller and from what it
  reported (`TrafficPhases`, `TrafficPlans`, `TrafficSends`, `TrafficAgents`). With one request
  that is applied late only `OneSender` holds: a late load can bring back an old plan, but
  stops its sender, and where no load is late (`NoLateLoad`) there is one plan, which is all
  a late enable can start;
- link faults: `Walk` says at each place of a call over the two ends what is done and what is
  left to do; a fault nobody tracks has no controller (`LinkWatched`), and an untracked link
  is up (`LinkUp`) with its routes (`RoutesKept`: a snapshot of a tracked fault holds every
  route that is missing). The deadline of an injection does not pass inside a handler here
  (`MayExpire` is FALSE, as in the run);
- configuration faults: the journal covers what is changed, the fault owns what it removes;
  the device fault: a container out of service has its interfaces kept;
- health check: a probe is of a pending item of this stage, so a snapshot is of the good
  probe;
- BGP collector: `Tracks` says that a result which is not written yet is one step ahead of
  what the spool shows, with the event of that step; `FilesAre`, that a marker is in one file
  only, that its repetitions after a crash have only markers between them (`Contiguous`), and
  that one which is in InfluxDB was read with all the lines before it; `Sizes`, that a write
  under way was admitted without its marker, which is where the one marker of excess comes
  from. The proof corrected the history variable of the model: a neighbour that was never
  seen and is missing in a dropped batch is not known to be gone;
- the executor, through an instance of its own proofs.

From it all that the run checks: `TrafficIsOwned`, `FaultsAreUndone`, `FaultsStayRecoverable`,
`CleanIsProven`, `BaselineIsSound`, `StepsAreSound`, `EvidenceIsKept` and `SingleConsumer`.

**The campaign** (`MCCampaign_proofs`, `CampaignAssumption`). `CampaignInvariant` joins the
lifecycle (once with the assumptions of all four layers, once with deaths and the first
two), the sessions (once without, once with exceptions), the acceptance campaign and the
scored cases, for any numbers of workers, scenarios, scales, backends, cases and processes.
For acceptance, `AcceptRecord` says that the process knows at least what the file says and
that a lab is named in the file before it can be deployed, `AcceptPassed` what "passed" rests
on at each place of the phase, `AcceptOnce` that a case is run only while its count is zero,
and `AcceptFrees` that the last steps of a process have looked at the emergency. For the
scores, the loop over the accepted places is unrolled: a fault has one place or the two ends
of a link, so two turns are all there are (`Scored`); topology, diagnoses and the answers
of the judge are arbitrary. From it `TypeOK`, `TeardownIsComplete`, `NothingOffTheRecord`,
`CleanLabPerCase`, `EveryCaseIsAccountedFor`, `ScoreIsEarned` and `OthersAreSpared`, as the run
states them: all of its properties but `ReportAddsUp`. The lifecycle with deaths is taken
with lost replies of InfluxDB as well: no user's bucket is touched, the buckets of the
manifest stay on record and retries miss none. That a teardown is exact and telemetry
fresh needs requests that are answered, and is claimed of the lifecycle without deaths.

The instances in which the proof modules and the runs take a component are two; lemmas such
as `PlainNext` and `SessionNext` show, action by action, that they mean the same system.

Only model-checked:

- liveness (`ServiceAnswers`, `WorkEnds`): fairness and ENABLED are outside the prover's
  reach;
- what recursive functions and folds compute over data of any size (`NothingIsMissed`,
  `NothingIsInvented`, the properties of the planners, and `ReportAddsUp`
  with its rounded quotients): the prover has no induction over data, and where a recursion
  could be unrolled or its first failure picked, as above, this was done;
- the types that `lab_liveness` checks (`TypeOK`), of which the invariants above need and
  prove only parts, and what happens where a deadline passes inside a handler.

## 5. Plan

Modelled in this order: the pool with its proofs, the service, the lifecycle, traffic,
faults, scenario execution, dispatch, acceptance, evidence, planners, scoring. Left:

1. Composition: dispatch over scenario execution with `mark_quarantined`, and several
   runtimes that share the manifest of buckets.
2. The effect thresholds of the remaining fault types over measured data.

## 6. Findings

Listed, with a run each:

- **An exception after a failed cleanup skips the quarantine** (`session_dirty`).
  `_run_worker` saves and scores the result before it marks the worker; if that raises, the
  runtime stays warm and the next session runs a case on the dirty lab.
- **An interrupted deploy looks like a reservation** (`lifecycle_interrupted`).
  `deployment_started` and the stage result reach `runtime.json` only when the stage
  returns; after a crash `teardown()` skips the labs and deletes the directory.

Further disagreements. Each is a property of its module that the constants in brackets
violate; the runs above use constants, or an exception named in the property, without them.

- *Lease* (`LeaseCoversSession`; `SessionSeconds` + `Grace` > `TTL`): the first tool call's
  `refresh()` sets a lease that `open_session` had extended back to the time to live.
- *Lifecycle*: a bucket whose creation was not answered is never owned (`FreshTelemetry`,
  `TeardownIsExact`; `LostReplies`). A retried teardown trusts a list older than the stages run in between
  (`TeardownIsExact`; `ResumeQuarantined`). Teardown after a refused deployment destroys the
  lab that refused it (`ForeignLabsKept`; `ForeignLabs`); `provision()` avoids this.
- *Traffic*: a load request applied after it was given up brings an old plan back
  (`OnePlan`; `MaxLate = 1`). A failed start drops the failures of its resets, and a stop
  then reports success while a client sends (`ReleasedIsSilent`).
- *Links*: the record of a failed flapping injection has no route snapshots, so its recovery
  loses the client's routes (`RoutesBack`; `"link_flapping"` with a client end). A deadline that
  passes in the readback loop leaves an untracked endpoint down (`LinkBack`; `MayExpire`).
- *Configuration*: undoing an address misconfiguration goes on after an error and may remove
  the last address (`KeepsAnAddress`).
- *Devices*: a deadline inside the stop readback leaves a stopped device on no record
  (`DeviceBack`; `MayExpire`).
- *Acceptance*: an emergency that the monitor's first sample declares is met at
  `control.remaining()` before the retained lab is attached; `active_runtime` is unset, and
  the process ends with the lab in place (`EmergencyFrees` for any lab instead of the one it
  has a hold of).
- *Collector*: batch and marker are each checked against the limit, never both together
  (`SpoolBounded`). Once the spool is full, every round fails before ingested segments are
  deleted, and it never drains (`FullSpoolDrains`).
- *BGP query*: with sparse snapshots the row before the window may predate a recovery
  (`NoInventedTransition`). The first poll of a new collector writes a heartbeat although it
  compared nothing, and a collector that dies and returns within the window leaves the
  heartbeats on both sides of it (`HeartbeatsProve`): what changed meanwhile is not
  reported, so `NothingIsMissed` asks it of a collector without restarts.
- *Scoring*: the SDK's evaluator takes the fault type `"none"` for a fault
  (`SdkHealthyByVerdict`). Peer locations are accepted for two of the six documented fault
  types (`PeerIsAccepted`).
- *Host*: a failed `docker inspect` or `docker ps` reads as "removed" and as "free"
  (`_container_exists`, `_network_exists`, `_lab_container_names`). A failed removal whose
  read-back fails too leaves Telegraf, the network or containers behind a teardown that
  reports success (`NothingLeft` without `unread`), and a slot check may take a busy slot
  for a free one. A process that dies between starting the collector and writing its pid leaves a
  collector no teardown finds (`TornDownIsClean` excepts it). A compensation's last commands
  remove a lab of the same name that another process deployed meanwhile (`ReadyLabStays`; two
  processes with one lab name).

Noted without a property: with a stabilization gap an anomaly of both slices can be absent
from the whole window and is then not reported (`PersistentIsSeen` is about adjacent
slices). The smallest bandwidth is 100 kbit/s, so a client limit below about 8 packets per
second gives an empty plan that is valid. An outage that the controller has not verified
when the window is judged refuses a sound observation (excepted in `NoFalseRefusal`). The
comparison of a validation fabric is excepted from the controls, as the code says.

## 7. Not modelled

Reports, traces and export (file formats; the trace recorder appends under one lock),
the command line, the agents and prompts, and the plots: no state, or pure input and
output. In parts: the engine cache of the SDK's simulator manager; Flux text and parsing;
pacing and sockets of the native agent (only its request handlers and its probe records); Telegraf's and the
devices' configuration text; effect thresholds over measured data; Macro-F1, figures by
difficulty and averages of tokens and time, and language-model exceptions other than
those the judge catches; the toolkit's queries other than `query_bgp_events`. The limit of
50 entries of a flapping history is not reached by the instances. The capacity estimate of
acceptance is its verdict. `PROJECT.json` gives the reason per part.
