---------------------------- MODULE HealthCheck ----------------------------
(***************************************************************************)
(* runtime/health.py: one health check of a worker.  Its stages run one    *)
(* after another under one deadline; a stage probes its items in a thread  *)
(* pool (_parallel_check) and probes again only what was not good, while   *)
(* the lab goes on changing.                                               *)
(*                                                                         *)
(* A definition named Op_Variant is a mutated form of Op: replacing Op by  *)
(* it must break a property.  No specification uses it.                    *)
(***************************************************************************)
EXTENDS Naturals, FiniteSets

CONSTANTS
    Devices,    \* routing devices that must have converged
    Clients,    \* clients whose Pingmesh agent must be ready
    Checks,     \* observability checks: pingmesh, bgp, interfaces, syslog
    Retries,    \* attempts of a stage that polls
    PoolSize    \* threads of the pool

Stages == <<"telegraf", "containers", "network", "ping", "agents", "observability">>

\* The items a stage probes; the first two stages ask once.
Items(n) ==
    CASE Stages[n] = "network" -> Devices
      [] Stages[n] = "agents" -> Clients
      [] Stages[n] = "observability" -> Checks
      [] OTHER -> {Stages[n]}

Attempts(n) == IF Stages[n] \in {"telegraf", "containers"} THEN 1 ELSE Retries

All == UNION {Items(n) : n \in 1 .. 6}

VARIABLES
    good,       \* whether an item is good right now
    stage,      \* the stage the check is in
    pending,    \* the items of the stage that were not yet seen good
    tries,      \* attempts left in the stage
    job,        \* the probe of an item in this round
    snapshot,   \* the route snapshot of the devices
    expired,    \* the deadline has passed
    answer      \* "none" while the check runs

vars == <<good, stage, pending, tries, job, snapshot, expired, answer>>

Init ==
    /\ good \in [All -> BOOLEAN]
    /\ stage = 1 /\ pending = Items(1) /\ tries = Attempts(1)
    /\ job = [i \in All |-> "none"]
    /\ snapshot = [d \in Devices |-> "none"]
    /\ expired = FALSE /\ answer = "none"

\* The lab changes, and time passes.
Change(i) ==
    /\ answer = "none" /\ i \in Items(stage)
    /\ good' = [good EXCEPT ![i] = ~@]
    /\ UNCHANGED <<stage, pending, tries, job, snapshot, expired, answer>>

Expire ==
    /\ ~expired /\ expired' = TRUE
    /\ UNCHANGED <<good, stage, pending, tries, job, snapshot, answer>>

-----------------------------------------------------------------------------
(* _parallel_check().                                                      *)

Busy == {i \in All : job[i] = "running"}

\* The items are submitted one by one, the deadline before each.
Submit(i) ==
    /\ answer = "none" /\ i \in pending /\ job[i] = "none" /\ ~expired
    /\ job' = [job EXCEPT ![i] = "queued"]
    /\ UNCHANGED <<good, stage, pending, tries, snapshot, expired, answer>>

\* A thread takes a probe; the deadline has the first word.
StartProbe(i) ==
    /\ job[i] = "queued" /\ Cardinality(Busy) < PoolSize
    /\ job' = [job EXCEPT ![i] = IF expired THEN "raised" ELSE "running"]
    /\ UNCHANGED <<good, stage, pending, tries, snapshot, expired, answer>>

Read == {"good", "bad"}

\* What the probe of an item may read: a command that fails reads as bad.
Reading(i) == IF good[i] THEN Read ELSE {"bad"}

\* A device's probe also writes its route snapshot.
Recorded(i, r) == IF i \in Devices THEN [snapshot EXCEPT ![i] = r] ELSE snapshot

EndProbe(i) ==
    /\ job[i] = "running"
    /\ \E r \in Reading(i) :
          /\ snapshot' = Recorded(i, r)
          /\ job' = [job EXCEPT ![i] = IF expired THEN "raised" ELSE r]
    /\ UNCHANGED <<good, stage, pending, tries, expired, answer>>

Shutdown_DoesNotWait ==
    job' = [i \in All |-> IF job[i] = "running" THEN "running" ELSE "none"]

\* The pool is shut down: queued probes are cancelled, running ones awaited.
Shutdown == Busy = {} /\ job' = [i \in All |-> "none"]

-----------------------------------------------------------------------------
(* The loop of a stage.                                                    *)

\* The next stage begins with all of its items.
Enter(n) == stage' = n /\ pending' = Items(n) /\ tries' = Attempts(n) /\ answer' = answer

Ends(a) == answer' = a /\ UNCHANGED <<stage, pending, tries>>

Left_FirstAnswer == IF \E i \in pending : job[i] = "good" THEN {} ELSE pending

\* Only what was not good is probed again.
Left == {i \in pending : job[i] # "good"}

LastAttempt == tries = 1

\* Every probe of the round has answered in time.
RoundEnds ==
    /\ answer = "none" /\ ~expired
    /\ \A i \in pending : job[i] \in Read
    /\ Shutdown
    /\ IF Left = {}
       THEN IF stage = 6 THEN Ends("healthy") ELSE Enter(stage + 1)
       ELSE IF LastAttempt THEN Ends("errors")
       ELSE /\ pending' = Left /\ tries' = tries - 1 /\ UNCHANGED <<stage, answer>>
    /\ UNCHANGED <<good, snapshot, expired>>

\* A deadline anywhere in the stage: TimeoutError becomes the one error.
DeadlineExceeded ==
    /\ answer = "none" /\ expired /\ Shutdown /\ Ends("deadline")
    /\ UNCHANGED <<good, snapshot, expired>>

-----------------------------------------------------------------------------
Probe(i) == Submit(i) \/ StartProbe(i) \/ EndProbe(i)

Next ==
    \/ Expire \/ RoundEnds \/ DeadlineExceeded
    \/ \E i \in All : Change(i) \/ Probe(i)

Spec == Init /\ [][Next]_vars

\* The threads of the check run on and the clock does; the lab may do anything.
FairSpec ==
    /\ Spec /\ WF_vars(Expire) /\ WF_vars(RoundEnds) /\ WF_vars(DeadlineExceeded)
    /\ \A i \in All : WF_vars(EndProbe(i))

-----------------------------------------------------------------------------
(* Properties.                                                             *)

\* The type of the state.
TypeOK ==
    /\ good \in [All -> BOOLEAN] /\ stage \in 1 .. 6
    /\ pending \subseteq Items(stage) /\ tries \in 1 .. Retries
    /\ job \in [All -> {"none", "queued", "running", "raised"} \cup Read]
    /\ snapshot \in [Devices -> {"none"} \cup Read]
    /\ expired \in BOOLEAN /\ answer \in {"none", "healthy", "errors", "deadline"}

\* A worker is called healthy only if every device converged in a probe of
\* this check, and the snapshot that the caller judges routes by is the one of
\* that very probe.
SnapshotIsOfTheGoodProbe ==
    stage > 3 => \A d \in Devices : snapshot[d] = "good"

\* When the check has answered, none of its probes is left to run: the caller
\* may inject or tear down at once.
QuietAfterAnswer == answer # "none" => \A i \in All : job[i] \notin {"queued", "running"}

Answered == answer # "none"

\* The check ends although an item may never be good or a probe never answer
\* in time.
CheckEnds == ~Answered ~> Answered
=============================================================================
