-------------------------- MODULE RuntimeLeasePool --------------------------
(***************************************************************************)
(* The pool of warm runtimes behind the interactive simulator              *)
(* (platform/simulator/runtime.py) together with the life of the incidents *)
(* that lease from it (RuntimeEpisodeBackend, and the part of              *)
(* PreparedIncident that decides when a lease is taken, refreshed and      *)
(* given back).                                                            *)
(*                                                                         *)
(* A record is one WarmRuntime object.  A holder is one incident with its  *)
(* RuntimeEpisodeBackend: it acquires at most once.  Every method of       *)
(* RuntimeLeasePool runs under one re-entrant lock, so it is one step; the *)
(* exception is acquire, which releases the lock in Condition.wait and     *)
(* keeps it during the provisioning of a runtime: while a holder is        *)
(* "provisioning" no other pool operation can run, but time passes.        *)
(*                                                                         *)
(* A record leaves the pool when its runtime was torn down; teardown may   *)
(* fail, and the record then stays in the pool, quarantined.               *)
(*                                                                         *)
(* A definition named Op_Variant is a mutated form of Op: replacing Op by  *)
(* it must break a property.  No specification uses it.                    *)
(***************************************************************************)
EXTENDS Integers, FiniteSets

CONSTANTS
    Holders,         \* incidents, one RuntimeEpisodeBackend each
    Records,         \* WarmRuntime objects; bounds how many are ever provisioned
    Scales,          \* topology scales a scenario can ask for
    NoRecord,        \* RuntimeEpisodeBackend.record is None
    MaxActive,       \* SimulatorConfig.max_active_runtimes
    TTL,             \* SimulatorConfig.orphan_lease_ttl_seconds
    Grace,           \* the 300 s of cleanup grace added by refresh
    SessionSeconds,  \* the max_agent_seconds that sessions are opened with
    LeaseWait,       \* _LEASE_WAIT_TIMEOUT_SECONDS
    MaxTime          \* bound on the modelled clock

ASSUME LeaseAssumption ==
    /\ NoRecord \notin Records
    /\ Scales # {}
    /\ MaxActive \in Nat \ {0}
    /\ TTL \in Nat \ {0}
    /\ Grace \in Nat
    /\ SessionSeconds \subseteq Nat
    /\ LeaseWait \in Nat
    /\ MaxTime \in Nat
    /\ IsFiniteSet(Records)

VARIABLES
    now,            \* time.monotonic()
    fresh,          \* records not provisioned yet
    pool,           \* records listed in RuntimeLeasePool._runtimes
    scaleOf,        \* the scale each record was provisioned for
    in_use,         \* records with in_use = True
    quarantined,    \* records with quarantined = True
    lease_deadline, \* WarmRuntime.lease_deadline, 0 when there is no lease
    phase,          \* where each incident is in its life
    held,           \* RuntimeEpisodeBackend.record
    wants,          \* the scale of the incident's scenario
    deadline,       \* acquire: when the wait for a lease is given up
    wakeAt,         \* acquire: when the current Condition.wait times out
    owed,           \* latest limit plus grace of the sessions opened on a live lease
    drained         \* drain has run

leaseVars  == <<fresh, pool, scaleOf, in_use, quarantined, lease_deadline>>
holderVars == <<phase, held, wants, deadline, wakeAt, owed>>
vars == <<now, leaseVars, holderVars, drained>>

Phases == {"new", "acquiring", "asleep", "provisioning",
           "preparing", "active", "closing", "done"}

TypeOK ==
    /\ now \in Nat
    /\ fresh \subseteq Records /\ pool \subseteq Records
    /\ in_use \subseteq Records /\ quarantined \subseteq Records
    /\ scaleOf \in [Records -> Scales]
    /\ lease_deadline \in [Records -> Nat]
    /\ phase \in [Holders -> Phases]
    /\ held \in [Holders -> Records \cup {NoRecord}]
    /\ wants \in [Holders -> Scales]
    /\ deadline \in [Holders -> Nat]
    /\ wakeAt \in [Holders -> Nat]
    /\ owed \in [Holders -> Nat]
    /\ drained \in BOOLEAN

Init ==
    /\ now = 1
    /\ fresh = Records /\ pool = {} /\ in_use = {} /\ quarantined = {}
    /\ scaleOf = [r \in Records |-> CHOOSE s \in Scales : TRUE]
    /\ lease_deadline = [r \in Records |-> 0]
    /\ phase = [h \in Holders |-> "new"]
    /\ held = [h \in Holders |-> NoRecord]
    /\ wants \in [Holders -> Scales]
    /\ deadline = [h \in Holders |-> 0]
    /\ wakeAt = [h \in Holders |-> 0]
    /\ owed = [h \in Holders |-> 0]
    /\ drained = FALSE

-----------------------------------------------------------------------------
(* The pool's lock, its condition and the sets its methods search.         *)

\* The lock is free: nobody is inside RuntimeManager.provision.
Unlocked == \A h \in Holders : phase[h] # "provisioning"

\* Condition.notify_all: every sleeping acquire runs its loop again.
NotifyAll == [h \in Holders |-> IF phase[h] = "asleep" THEN "acquiring" ELSE phase[h]]

\* acquire and _make_capacity_for compare _runtime_count with the limit.
HasRoom_OffByOne(listed) == Cardinality(listed) <= MaxActive
HasRoom(listed) == Cardinality(listed) < MaxActive

\* What acquire may hand out: listed, not in use, not quarantined.
Available_Quarantined(listed, used, bad) == listed \ used
Available(listed, used, bad) == listed \ (used \cup bad)

\* reap_orphans: leases that ran out.
Stale == {r \in pool \cap in_use : lease_deadline[r] # 0 /\ now > lease_deadline[r]}

\* The lease deadlines after every record of R was quarantined or released.
Unleased_Sentinel(R) == [r \in Records |-> IF r \in R THEN -1 ELSE lease_deadline[r]]
Unleased(R) == [r \in Records |-> IF r \in R THEN 0 ELSE lease_deadline[r]]

\* _make_capacity_for: the records of other scales it tries to tear down.
Evictable(scale, listed, used, bad) ==
    IF HasRoom(listed) THEN {}
    ELSE {r \in Available(listed, used, bad) : scaleOf[r] # scale}

\* The loop of _make_capacity_for: it stops at the first success that leaves
\* room, so either enough teardowns succeeded or every candidate was tried.
EvictionOutcome(candidates, tried, gone, listed) ==
    LET excess == Cardinality(listed) - MaxActive + 1
    IN  \/ candidates = {}
        \/ Cardinality(gone) = excess
        \/ Cardinality(gone) < excess /\ tried = candidates

\* _next_wait_timeout: sleep until the wait is given up or a lease runs out.
NextWake_Forever(giveUp, listed, used, leases) ==
    LET ends == {MaxTime + 1} \cup {leases[r] : r \in {q \in listed \cap used : leases[q] > now}}
    IN  CHOOSE t \in ends : \A u \in ends : t <= u
NextWake(giveUp, listed, used, leases) ==
    LET ends == {giveUp} \cup {leases[r] : r \in {q \in listed \cap used : leases[q] > now}}
    IN  CHOOSE t \in ends : \A u \in ends : t <= u

-----------------------------------------------------------------------------
(* acquire                                                                 *)

\* RuntimeEpisodeBackend.prepare calls acquire for the scenario's scale; the
\* bound on the clock leaves room for the whole wait.
StartAcquire(h) ==
    /\ phase[h] = "new"
    /\ now + LeaseWait <= MaxTime
    /\ phase' = [phase EXCEPT ![h] = "acquiring"]
    /\ deadline' = [deadline EXCEPT ![h] = now + LeaseWait]
    /\ UNCHANGED <<now, leaseVars, held, wants, wakeAt, owed, drained>>

\* How one turn of the loop ends once the expired leases are reaped: `listed',
\* `used', `bad' and `leases' are the pool's fields at that point.
Grant(h, r, listed, used, bad, leases) ==
    /\ r \in Available(listed, used, bad) /\ scaleOf[r] = wants[h]
    /\ pool' = listed /\ quarantined' = bad
    /\ in_use' = used \cup {r}
    /\ lease_deadline' = [leases EXCEPT ![r] = now + TTL]
    /\ phase' = [(IF Stale # {} THEN NotifyAll ELSE phase) EXCEPT ![h] = "preparing"]
    /\ held' = [held EXCEPT ![h] = r]
    /\ deadline' = [deadline EXCEPT ![h] = 0]
    /\ UNCHANGED wakeAt

\* No record of the scale is free: evict others, then provision, give up or wait.
GrowOrWait(h, listed, used, bad, leases) ==
    /\ \A r \in Available(listed, used, bad) : scaleOf[r] # wants[h]
    /\ \E tried \in SUBSET Evictable(wants[h], listed, used, bad) : \E gone \in SUBSET tried :
        /\ EvictionOutcome(Evictable(wants[h], listed, used, bad), tried, gone, listed)
        /\ pool' = listed \ gone
        /\ quarantined' = bad \cup tried
        /\ in_use' = used
        /\ lease_deadline' = leases
        /\ LET others == IF Stale \cup tried # {} THEN NotifyAll ELSE phase
               next == IF HasRoom(listed \ gone) THEN "provisioning"
                       ELSE IF now >= deadline[h] THEN "done" ELSE "asleep"
           IN  /\ phase' = [others EXCEPT ![h] = next]
               /\ deadline' = [deadline EXCEPT ![h] = IF next = "asleep" THEN @ ELSE 0]
               /\ wakeAt' = [wakeAt EXCEPT ![h] =
                     IF next = "asleep" THEN NextWake(deadline[h], listed \ gone, used, leases) ELSE 0]
    /\ UNCHANGED held

\* One turn of acquire's loop, under the lock; reap_orphans comes first, and
\* `torn' are the reaped records whose teardown succeeded.
AcquireTurn(h) ==
    /\ phase[h] = "acquiring" /\ Unlocked
    /\ \E torn \in SUBSET Stale :
        LET listed == pool \ torn
            used   == in_use \ Stale
            bad    == quarantined \cup Stale
        IN  \/ \E r \in Records : Grant(h, r, listed, used, bad, Unleased(Stale))
            \/ GrowOrWait(h, listed, used, bad, Unleased(Stale))
    /\ UNCHANGED <<now, fresh, scaleOf, wants, owed, drained>>

\* Condition.wait returns on its own.
WaitTimesOut(h) ==
    /\ phase[h] = "asleep" /\ now >= wakeAt[h] /\ Unlocked
    /\ phase' = [phase EXCEPT ![h] = "acquiring"]
    /\ wakeAt' = [wakeAt EXCEPT ![h] = 0]
    /\ UNCHANGED <<now, leaseVars, held, wants, deadline, owed, drained>>

\* _provision succeeded: the new record is listed and leased at once.
Provisioned(h, r) ==
    /\ phase[h] = "provisioning"
    /\ r \in fresh
    /\ fresh' = fresh \ {r}
    /\ pool' = pool \cup {r}
    /\ scaleOf' = [scaleOf EXCEPT ![r] = wants[h]]
    /\ in_use' = in_use \cup {r}
    /\ lease_deadline' = [lease_deadline EXCEPT ![r] = now + TTL]
    /\ phase' = [phase EXCEPT ![h] = "preparing"]
    /\ held' = [held EXCEPT ![h] = r]
    /\ UNCHANGED <<now, quarantined, wants, deadline, wakeAt, owed, drained>>

\* _provision raised: the exception leaves acquire, and the incident is broken.
ProvisionFailed(h) ==
    /\ phase[h] = "provisioning"
    /\ phase' = [phase EXCEPT ![h] = "done"]
    /\ UNCHANGED <<now, leaseVars, held, wants, deadline, wakeAt, owed, drained>>

-----------------------------------------------------------------------------
(* release, quarantine, refresh, drain                                     *)

Release(r) ==
    /\ in_use' = in_use \ {r}
    /\ lease_deadline' = Unleased({r})
    /\ UNCHANGED <<fresh, pool, scaleOf, quarantined>>

\* `gone' are the records of R whose teardown succeeded.
Quarantine(R, gone) ==
    /\ quarantined' = quarantined \cup R
    /\ in_use' = in_use \ R
    /\ lease_deadline' = Unleased(R)
    /\ pool' = pool \ gone
    /\ UNCHANGED <<fresh, scaleOf>>

\* The incident drops its record and is done; the others are notified.
HolderDone_Silent(h) ==
    /\ held' = [held EXCEPT ![h] = NoRecord]
    /\ phase' = [phase EXCEPT ![h] = "done"]
    /\ owed' = [owed EXCEPT ![h] = 0]
    /\ UNCHANGED <<now, wants, deadline, wakeAt, drained>>
HolderDone(h) ==
    /\ held' = [held EXCEPT ![h] = NoRecord]
    /\ phase' = [NotifyAll EXCEPT ![h] = "done"]
    /\ owed' = [owed EXCEPT ![h] = 0]
    /\ UNCHANGED <<now, wants, deadline, wakeAt, drained>>

\* prepare: the scenario does not fit the topology, or the healthy baseline is
\* not ready yet.  The runtime itself is fine and goes back to the pool.
PrepareReleases(h) ==
    /\ phase[h] = "preparing" /\ Unlocked
    /\ Release(held[h])
    /\ HolderDone(h)

\* prepare raised anything else: the engine finishes the backend as broken.
PrepareBreaks(h) ==
    /\ phase[h] = "preparing" /\ Unlocked
    /\ \E gone \in SUBSET {held[h]} : Quarantine({held[h]}, gone)
    /\ HolderDone(h)

PrepareSucceeds(h) ==
    /\ phase[h] = "preparing"
    /\ phase' = [phase EXCEPT ![h] = "active"]
    /\ UNCHANGED <<now, leaseVars, held, wants, deadline, wakeAt, owed, drained>>

\* RuntimeLeasePool.refresh.
Refresh_NoMax(r, min_seconds) ==
    lease_deadline' =
        IF r \in in_use /\ r \notin quarantined
        THEN [lease_deadline EXCEPT ![r] = now + min_seconds + Grace] ELSE lease_deadline
Refresh(r, min_seconds) ==
    lease_deadline' =
        IF r \in in_use /\ r \notin quarantined
        THEN [lease_deadline EXCEPT ![r] =
                 now + (IF TTL >= min_seconds + Grace THEN TTL ELSE min_seconds + Grace)]
        ELSE lease_deadline

\* PreparedIncident.open_session; the session may run until now + seconds.  A
\* lease that was reaped during a long prepare is not brought back.
OpenSession(h, seconds) ==
    /\ phase[h] = "active" /\ Unlocked
    /\ Refresh(held[h], seconds)
    /\ owed' = IF held[h] \in in_use /\ now + seconds + Grace > owed[h]
               THEN [owed EXCEPT ![h] = now + seconds + Grace] ELSE owed
    /\ UNCHANGED <<now, fresh, pool, scaleOf, in_use, quarantined,
                   phase, held, wants, deadline, wakeAt, drained>>

\* Tool calls and evaluate refresh the lease; the refresh after a slow tool
\* call may come when another thread has begun to close the incident.
UseSession(h) ==
    /\ phase[h] \in {"active", "closing"} /\ Unlocked
    /\ Refresh(held[h], 0)
    /\ UNCHANGED <<now, fresh, pool, scaleOf, in_use, quarantined, holderVars, drained>>

\* PreparedIncident.close: the fault is recovered while the lease runs on.
CloseIncident(h) ==
    /\ phase[h] = "active"
    /\ phase' = [phase EXCEPT ![h] = "closing"]
    /\ UNCHANGED <<now, leaseVars, held, wants, deadline, wakeAt, owed, drained>>

\* RuntimeEpisodeBackend.finish after a clean recovery.
FinishClean(h) ==
    /\ phase[h] = "closing" /\ Unlocked
    /\ Release(held[h])
    /\ HolderDone(h)

\* RuntimeEpisodeBackend.finish after the recovery failed.
FinishBroken(h) ==
    /\ phase[h] = "closing" /\ Unlocked
    /\ \E gone \in SUBSET {held[h]} : Quarantine({held[h]}, gone)
    /\ HolderDone(h)

\* drain: everything is torn down, leased or not; failures are only collected.
Drain ==
    /\ Unlocked
    /\ \E gone \in SUBSET pool : Quarantine(pool, gone)
    /\ phase' = IF pool = {} THEN phase ELSE NotifyAll
    /\ drained' = TRUE
    /\ UNCHANGED <<now, held, wants, deadline, wakeAt, owed>>

Tick ==
    /\ now < MaxTime
    /\ now' = now + 1
    /\ UNCHANGED <<leaseVars, holderVars, drained>>

HolderStep(h) ==
    \/ StartAcquire(h) \/ AcquireTurn(h) \/ WaitTimesOut(h)
    \/ \E r \in Records : Provisioned(h, r)
    \/ ProvisionFailed(h)
    \/ PrepareReleases(h) \/ PrepareBreaks(h) \/ PrepareSucceeds(h)
    \/ \E s \in SessionSeconds : OpenSession(h, s)
    \/ UseSession(h) \/ CloseIncident(h)
    \/ FinishClean(h) \/ FinishBroken(h)

Next == (\E h \in Holders : HolderStep(h)) \/ Drain \/ Tick

Spec == Init /\ [][Next]_vars

\* What the code guarantees: time passes, a thread that can run acquire's loop
\* does, a wait ends at its timeout, and provisioning returns or raises.
Fairness ==
    /\ WF_vars(Tick)
    /\ \A h \in Holders :
        /\ WF_vars(AcquireTurn(h))
        /\ WF_vars(WaitTimesOut(h))
        /\ WF_vars(ProvisionFailed(h) \/ \E r \in Records : Provisioned(h, r))

FairSpec == Spec /\ Fairness

-----------------------------------------------------------------------------
(* Properties                                                              *)

\* "Grant one exclusive episode lease at a time": two incidents never hold the
\* same warm runtime, not even when the first lease was reaped under its holder
\* and that holder finishes later.
ExclusiveLease ==
    \A g, h \in Holders : g # h /\ held[g] = held[h] => held[g] = NoRecord

\* The pool never owns more runtimes than max_active_runtimes, the one being
\* provisioned and those whose teardown failed included.
WithinCapacity ==
    Cardinality(pool) + (IF Unlocked THEN 0 ELSE 1) <= MaxActive

\* A lease outlives every session opened on it by the cleanup grace: until then
\* reap_orphans cannot take the runtime from an open or closing incident.
LeaseCoversSession ==
    \A h \in Holders :
        /\ phase[h] \in {"active", "closing"}
        /\ now <= owed[h]
        /\ ~drained
        => /\ held[h] \in pool \cap in_use
           /\ held[h] \notin quarantined

\* No wakeup of acquire is lost: while a thread sleeps the pool is full and
\* holds no idle runtime, of its own scale or of one it could evict.
NoLostWakeup ==
    \A h \in Holders :
        phase[h] = "asleep" =>
            /\ Available(pool, in_use, quarantined) = {}
            /\ Cardinality(pool) >= MaxActive

InAcquire(h) == phase[h] \in {"acquiring", "asleep", "provisioning"}
AcquireReturned(h) == phase[h] \in {"preparing", "done"}

\* acquire comes to an end: with a lease, or with an error at its deadline.
AcquireEnds == \A h \in Holders : InAcquire(h) ~> AcquireReturned(h)
=============================================================================
