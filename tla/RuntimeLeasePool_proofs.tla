----------------------- MODULE RuntimeLeasePool_proofs -----------------------
(* Theorems about RuntimeLeasePool and their proofs.                       *)
EXTENDS RuntimeLeasePool, FiniteSetTheorems, WellFoundedInduction, TLAPS

\* An incident holds a record exactly from the grant of its lease to its end.
PhaseInv ==
    \A h \in Holders : held[h] # NoRecord <=> phase[h] \in {"preparing", "active", "closing"}

\* A leased record is listed and not quarantined; a fresh one is not listed.
LeasedInv ==
    /\ in_use \subseteq pool \ quarantined
    /\ fresh \cap (pool \cup quarantined) = {}

\* A record an incident still refers to was provisioned and is leased, or it
\* was quarantined: it is never one that acquire can hand out.
HoldInv ==
    \A h \in Holders : held[h] # NoRecord =>
        held[h] \notin fresh /\ held[h] \in in_use \cup quarantined

\* The pool's lock has at most one owner.
LockInv ==
    \A g, h \in Holders : phase[g] = "provisioning" /\ phase[h] = "provisioning" => g = h

\* The lease of an incident whose sessions may still run ends after them.
CoverInv ==
    \A h \in Holders :
        /\ held[h] = NoRecord => owed[h] = 0
        /\ owed[h] <= now + TTL
        /\ held[h] # NoRecord /\ now <= owed[h] /\ ~drained =>
             held[h] \in in_use /\ owed[h] <= lease_deadline[held[h]]

\* The clock starts at 1, so a deadline of 0 is never ahead.
ClockInv == now >= 1

IInv == TypeOK /\ PhaseInv /\ LeasedInv /\ HoldInv /\ ExclusiveLease /\ LockInv

CInv == WithinCapacity /\ NoLostWakeup

LInv == ClockInv /\ CoverInv

-----------------------------------------------------------------------------
(* Lemmas about the operators                                              *)

\* A non-empty set of naturals has a least element.
LEMMA LeastNat ==
    ASSUME NEW S, S \subseteq Nat, S # {}
    PROVE  /\ (CHOOSE t \in S : \A u \in S : t <= u) \in S
           /\ \A u \in S : (CHOOSE t \in S : \A u2 \in S : t <= u2) <= u
<1>. DEFINE R == {ss \in Nat \X Nat : ss[1] < ss[2]}
<1>1. IsWellFoundedOn(R, Nat)
  BY NatLessThanWellFounded, Zenon DEF OpToRel
<1>2. PICK x \in S : \A y \in S : ~ (<<y, x>> \in R)
  <2>. HIDE DEF R
  <2>. QED  BY <1>1, WFMin, Zenon
<1>3. \A y \in S : x <= y
  <2>. SUFFICES ASSUME NEW y \in S, y < x  PROVE FALSE
    OBVIOUS
  <2>1. <<y, x>> \in Nat \X Nat /\ <<y, x>>[1] < <<y, x>>[2]
    OBVIOUS
  <2>2. <<y, x>> \in R
    BY <2>1, Zenon
  <2>. QED  BY <1>2, <2>2, Zenon
<1>. QED  BY <1>3

\* _next_wait_timeout yields a point in time: at the latest the end of the wait.
LEMMA NextWakeType ==
    ASSUME NEW giveUp \in Nat, NEW listed, NEW used,
           NEW leases \in [Records -> Nat], listed \subseteq Records
    PROVE  NextWake(giveUp, listed, used, leases) \in Nat
<1>. DEFINE ends == {giveUp} \cup {leases[r] : r \in {q \in listed \cap used : leases[q] > now}}
<1>1. ends \subseteq Nat /\ ends # {}
  OBVIOUS
<1>2. (CHOOSE t \in ends : \A u \in ends : t <= u) \in ends
  BY <1>1, LeastNat
<1>. QED  BY <1>1, <1>2 DEF NextWake

\* Taking the torn-down records off the list frees that many slots.
LEMMA RemoveSubset ==
    ASSUME NEW S, IsFiniteSet(S), NEW T \in SUBSET S
    PROVE  /\ IsFiniteSet(S \ T) /\ Cardinality(S \ T) \in Nat
           /\ IsFiniteSet(T) /\ Cardinality(T) \in Nat
           /\ Cardinality(S) \in Nat
           /\ Cardinality(S \ T) = Cardinality(S) - Cardinality(T)
<1>1. IsFiniteSet(S \ T) /\ IsFiniteSet(T)
  BY FS_Subset
<1>2. (S \ T) \cap S = S \ T /\ S \cap T = T
  OBVIOUS
<1>3. Cardinality(S \ T) = Cardinality(S) - Cardinality(S \cap T)
  BY FS_Difference
<1>. QED  BY <1>1, <1>2, <1>3, FS_CardinalityType

-----------------------------------------------------------------------------
(* The two ways a turn of acquire's loop ends, with its choices named      *)

\* The turn reaped the stale leases, tore `torn' down and leased r.
TurnGrants(h, torn, r) ==
    /\ Grant(h, r, pool \ torn, in_use \ Stale, quarantined \cup Stale, Unleased(Stale))
    /\ UNCHANGED <<now, fresh, scaleOf, wants, owed, drained>>

\* The turn also tried to evict `tried', tore `gone' down and ended in `next'.
TurnGrows(h, torn, tried, gone, next) ==
    LET listed == pool \ torn
        used   == in_use \ Stale
        bad    == quarantined \cup Stale
    IN  /\ \A r \in Available(listed, used, bad) : scaleOf[r] # wants[h]
        /\ tried \subseteq Evictable(wants[h], listed, used, bad)
        /\ EvictionOutcome(Evictable(wants[h], listed, used, bad), tried, gone, listed)
        /\ pool' = listed \ gone /\ quarantined' = bad \cup tried
        /\ in_use' = used /\ lease_deadline' = Unleased(Stale)
        /\ next \in {"provisioning", "done", "asleep"}
        /\ next = "provisioning" <=> HasRoom(listed \ gone)
        /\ phase' = [(IF Stale \cup tried # {} THEN NotifyAll ELSE phase) EXCEPT ![h] = next]
        /\ deadline' = [deadline EXCEPT ![h] = IF next = "asleep" THEN @ ELSE 0]
        /\ wakeAt' = [wakeAt EXCEPT ![h] = IF next = "asleep"
              THEN NextWake(deadline[h], listed \ gone, used, Unleased(Stale)) ELSE 0]
        /\ UNCHANGED <<now, fresh, scaleOf, wants, held, owed, drained>>

\* A turn of acquire's loop grants a listed record or ends one of the other ways,
\* with the pool's fields spelled out.
LEMMA TurnCases ==
    ASSUME NEW h \in Holders, AcquireTurn(h)
    PROVE  \/ \E torn \in SUBSET Stale, r \in Records : TurnGrants(h, torn, r)
           \/ \E torn \in SUBSET Stale : \E tried : \E gone \in SUBSET tried : \E next :
                TurnGrows(h, torn, tried, gone, next)
<1>1. PICK torn \in SUBSET Stale :
         \/ \E r \in Records : Grant(h, r, pool \ torn, in_use \ Stale,
                                       quarantined \cup Stale, Unleased(Stale))
         \/ GrowOrWait(h, pool \ torn, in_use \ Stale,
                       quarantined \cup Stale, Unleased(Stale))
  BY DEF AcquireTurn
<1>2. UNCHANGED <<now, fresh, scaleOf, wants, owed, drained>>
  BY DEF AcquireTurn
<1>3. CASE \E r \in Records : Grant(h, r, pool \ torn, in_use \ Stale,
                                     quarantined \cup Stale, Unleased(Stale))
  BY <1>2, <1>3 DEF TurnGrants
<1>4. CASE GrowOrWait(h, pool \ torn, in_use \ Stale, quarantined \cup Stale, Unleased(Stale))
  BY <1>2, <1>4 DEF GrowOrWait, TurnGrows
<1>. QED  BY <1>1, <1>3, <1>4

-----------------------------------------------------------------------------
(* Type correctness                                                        *)

\* The fields of a new pool have their types.
LEMMA TypeInit == Init => TypeOK
<1>. SUFFICES ASSUME Init PROVE TypeOK
  OBVIOUS
<1>1. (CHOOSE s \in Scales : TRUE) \in Scales
  BY LeaseAssumption
<1>. QED  BY <1>1, LeaseAssumption DEF Init, TypeOK, Phases

\* A turn of acquire's loop keeps the types, whichever way it ends.
LEMMA TypeTurn ==
    ASSUME TypeOK, NEW h \in Holders, AcquireTurn(h)
    PROVE  TypeOK'
<1>1. Stale \subseteq Records /\ Unleased(Stale) \in [Records -> Nat] /\ now + TTL \in Nat
  BY LeaseAssumption DEF TypeOK, Stale, Unleased
<1>2. NotifyAll \in [Holders -> Phases] /\ phase \in [Holders -> Phases]
  BY DEF NotifyAll, TypeOK, Phases
<1>3. ASSUME NEW torn \in SUBSET Stale, NEW r \in Records, TurnGrants(h, torn, r)
      PROVE  TypeOK'
  BY <1>1, <1>2, <1>3 DEF TurnGrants, Grant, TypeOK, Phases
<1>4. ASSUME NEW torn \in SUBSET Stale, NEW tried, NEW gone \in SUBSET tried, NEW next,
             TurnGrows(h, torn, tried, gone, next)
      PROVE  TypeOK'
  <2>1. tried \subseteq Records
    BY <1>4 DEF TurnGrows, Evictable, Available, TypeOK
  <2>2. NextWake(deadline[h], (pool \ torn) \ gone, in_use \ Stale, Unleased(Stale)) \in Nat
    BY <1>1, NextWakeType DEF TypeOK
  <2>3. wakeAt' \in [Holders -> Nat] /\ deadline' \in [Holders -> Nat]
    BY <1>4, <2>2 DEF TurnGrows, TypeOK
  <2>4. phase' \in [Holders -> Phases]
    BY <1>2, <1>4 DEF TurnGrows, Phases
  <2>. QED  BY <1>1, <1>4, <2>1, <2>3, <2>4 DEF TurnGrows, TypeOK
<1>. QED  BY <1>3, <1>4, TurnCases

\* Every operation keeps the types; a holder in prepare, use or close has a record.
LEMMA TypeStep == TypeOK /\ PhaseInv /\ [Next]_vars => TypeOK'
<1>. SUFFICES ASSUME TypeOK, PhaseInv, [Next]_vars PROVE TypeOK'
  OBVIOUS
<1>. USE LeaseAssumption
<1>1. \A R : Unleased(R) \in [Records -> Nat]
  BY DEF Unleased, TypeOK
<1>2. NotifyAll \in [Holders -> Phases]
  BY DEF NotifyAll, TypeOK, Phases
<1>3. ASSUME NEW h \in Holders, HolderStep(h) PROVE TypeOK'
  <2>0. phase[h] \in {"preparing", "active", "closing"} => held[h] \in Records
    BY DEF PhaseInv, TypeOK
  <2>1. CASE StartAcquire(h)
    BY <2>1 DEF StartAcquire, TypeOK, Phases, leaseVars
  <2>2. CASE AcquireTurn(h)
    BY <2>2, TypeTurn
  <2>3. CASE WaitTimesOut(h)
    BY <2>3 DEF WaitTimesOut, TypeOK, Phases, leaseVars
  <2>4. ASSUME NEW r \in Records, Provisioned(h, r) PROVE TypeOK'
    BY <2>4 DEF Provisioned, TypeOK, Phases
  <2>5. CASE ProvisionFailed(h)
    BY <2>5 DEF ProvisionFailed, TypeOK, Phases, leaseVars
  <2>6. CASE PrepareReleases(h) \/ FinishClean(h)
    BY <1>1, <1>2, <2>6 DEF PrepareReleases, FinishClean, Release, HolderDone, TypeOK, Phases
  <2>7. CASE PrepareBreaks(h) \/ FinishBroken(h)
    BY <1>1, <1>2, <2>0, <2>7 DEF PrepareBreaks, FinishBroken, Quarantine, HolderDone, TypeOK, Phases
  <2>8. CASE PrepareSucceeds(h) \/ CloseIncident(h)
    BY <2>8 DEF PrepareSucceeds, CloseIncident, TypeOK, Phases, leaseVars
  <2>9. ASSUME NEW s \in SessionSeconds, OpenSession(h, s) PROVE TypeOK'
    BY <2>9 DEF OpenSession, Refresh, TypeOK, Phases
  <2>10. CASE UseSession(h)
    BY <2>10 DEF UseSession, Refresh, TypeOK, Phases, holderVars
  <2>. QED  BY <1>3, <2>1, <2>2, <2>3, <2>4, <2>5, <2>6, <2>7, <2>8, <2>9, <2>10 DEF HolderStep
<1>4. CASE Drain
  BY <1>1, <1>2, <1>4 DEF Drain, Quarantine, TypeOK
<1>5. CASE Tick
  BY <1>5 DEF Tick, TypeOK, leaseVars, holderVars
<1>6. CASE UNCHANGED vars
  BY <1>6 DEF vars, TypeOK, leaseVars, holderVars
<1>. QED  BY <1>3, <1>4, <1>5, <1>6 DEF Next

-----------------------------------------------------------------------------
(* The exclusive lease                                                     *)

\* A new pool satisfies the inductive invariant of the exclusive lease.
LEMMA SafetyInit == Init => IInv
<1>. SUFFICES ASSUME Init PROVE IInv
  OBVIOUS
<1>1. PhaseInv /\ LeasedInv /\ HoldInv /\ ExclusiveLease /\ LockInv
  BY DEF Init, PhaseInv, LeasedInv, HoldInv, ExclusiveLease, LockInv
<1>. QED  BY <1>1, TypeInit DEF IInv

\* Every operation keeps the inductive invariant: the only step that adds a
\* reference to a record is a grant, and no holder refers to what it can hand out.
LEMMA SafetyStep == IInv /\ [Next]_vars => IInv'
<1>. SUFFICES ASSUME IInv, [Next]_vars PROVE IInv'
  OBVIOUS
<1>. DEFINE Inv == PhaseInv /\ LeasedInv /\ HoldInv /\ ExclusiveLease /\ LockInv
<1>. USE LeaseAssumption DEF PhaseInv, LeasedInv, HoldInv, ExclusiveLease, LockInv
<1>0. TypeOK /\ TypeOK' /\ PhaseInv /\ LeasedInv /\ HoldInv /\ ExclusiveLease /\ LockInv
  BY TypeStep DEF IInv
<1>1. \A h \in Holders :
        /\ NotifyAll[h] = "provisioning" <=> phase[h] = "provisioning"
        /\ NotifyAll[h] \in {"preparing", "active", "closing"} <=> phase[h] \in {"preparing", "active", "closing"}
  BY DEF NotifyAll
<1>2. NotifyAll \in [Holders -> Phases]
  BY <1>0 DEF NotifyAll, TypeOK, Phases
<1>3. ASSUME NEW h \in Holders, HolderStep(h) PROVE Inv'
  <2>0. phase[h] \in {"preparing", "active", "closing"} => held[h] \in Records
    BY <1>0 DEF TypeOK
  <2>1. CASE StartAcquire(h)
    BY <1>0, <2>1 DEF StartAcquire, TypeOK, Phases, leaseVars
  <2>2. CASE AcquireTurn(h)
    <3>1. ASSUME NEW torn \in SUBSET Stale, NEW r \in Records, TurnGrants(h, torn, r)
          PROVE  Inv'
      BY <1>0, <1>1, <1>2, <2>2, <3>1
         DEF TurnGrants, Grant, Available, AcquireTurn, Unlocked, TypeOK, Stale
    <3>2. ASSUME NEW torn \in SUBSET Stale, NEW tried, NEW gone \in SUBSET tried, NEW next,
                 TurnGrows(h, torn, tried, gone, next)
          PROVE  Inv'
      BY <1>0, <1>1, <1>2, <2>2, <3>2
         DEF TurnGrows, Evictable, Available, AcquireTurn, Unlocked, TypeOK, Stale
    <3>. QED  BY <2>2, <3>1, <3>2, TurnCases
  <2>3. CASE WaitTimesOut(h)
    BY <1>0, <2>3 DEF WaitTimesOut, TypeOK, Phases, leaseVars
  <2>4. ASSUME NEW r \in Records, Provisioned(h, r) PROVE Inv'
    BY <1>0, <2>4 DEF Provisioned, TypeOK, Phases
  <2>5. CASE ProvisionFailed(h)
    BY <1>0, <2>5 DEF ProvisionFailed, TypeOK, Phases, leaseVars
  <2>6. CASE PrepareReleases(h) \/ FinishClean(h)
    BY <1>0, <1>1, <1>2, <2>0, <2>6 DEF PrepareReleases, FinishClean, Release, HolderDone, TypeOK
  <2>7. CASE PrepareBreaks(h) \/ FinishBroken(h)
    BY <1>0, <1>1, <1>2, <2>0, <2>7, SMTT(30) DEF PrepareBreaks, FinishBroken, Quarantine, HolderDone, TypeOK
  <2>8. CASE PrepareSucceeds(h) \/ CloseIncident(h)
    BY <1>0, <2>8 DEF PrepareSucceeds, CloseIncident, TypeOK, Phases, leaseVars
  <2>9. ASSUME NEW s \in SessionSeconds, OpenSession(h, s) PROVE Inv'
    BY <1>0, <2>9 DEF OpenSession
  <2>10. CASE UseSession(h)
    BY <1>0, <2>10 DEF UseSession, holderVars
  <2>. QED  BY <1>3, <2>1, <2>2, <2>3, <2>4, <2>5, <2>6, <2>7, <2>8, <2>9, <2>10 DEF HolderStep
<1>4. ASSUME Drain PROVE Inv'
  BY <1>0, <1>1, <1>2, <1>4 DEF Drain, Quarantine, TypeOK
<1>5. ASSUME Tick PROVE Inv'
  BY <1>0, <1>5 DEF Tick, leaseVars, holderVars
<1>6. ASSUME UNCHANGED vars PROVE Inv'
  BY <1>0, <1>6 DEF vars, leaseVars, holderVars
<1>. QED  BY <1>0, <1>3, <1>4, <1>5, <1>6 DEF Next, IInv

\* The types of the pool's fields and of the incidents' state are kept by every
\* operation of RuntimeLeasePool and RuntimeEpisodeBackend.
THEOREM TypeCorrect == Spec => []TypeOK
<1>1. IInv => TypeOK
  BY DEF IInv
<1>. QED  BY <1>1, SafetyInit, SafetyStep, PTL DEF Spec

\* acquire never leases a warm runtime to an incident while another incident
\* refers to it, for any number of incidents, runtimes, scales and any limits.
THEOREM LeaseIsExclusive == Spec => []ExclusiveLease
<1>1. IInv => ExclusiveLease
  BY DEF IInv
<1>. QED  BY <1>1, SafetyInit, SafetyStep, PTL DEF Spec

-----------------------------------------------------------------------------
(* Capacity and wakeups                                                    *)

\* The pool is finite, and a pool that only lost records is not larger.
LEMMA PoolSize ==
    ASSUME TypeOK, NEW P \in SUBSET pool
    PROVE  /\ IsFiniteSet(pool) /\ Cardinality(pool) \in Nat
           /\ IsFiniteSet(P) /\ Cardinality(P) \in Nat
           /\ Cardinality(P) <= Cardinality(pool)
<1>1. IsFiniteSet(pool)
  BY FS_Subset, LeaseAssumption DEF TypeOK
<1>2. IsFiniteSet(P) /\ Cardinality(P) <= Cardinality(pool)
  BY <1>1, FS_Subset
<1>. QED  BY <1>1, <1>2, FS_CardinalityType

\* A turn that finds no room has tried every record it could evict, so nothing
\* idle is left when its thread goes to sleep.
LEMMA NothingIdle ==
    ASSUME IInv, NEW h \in Holders, NEW torn \in SUBSET Stale,
           NEW tried, NEW gone \in SUBSET tried, NEW next,
           TurnGrows(h, torn, tried, gone, next), next # "provisioning"
    PROVE  /\ Available(pool', in_use', quarantined') = {}
           /\ Cardinality(pool') >= MaxActive
<1>. DEFINE listed == pool \ torn
            used == in_use \ Stale
            bad == quarantined \cup Stale
            cands == Evictable(wants[h], listed, used, bad)
<1>. USE LeaseAssumption
<1>1. /\ pool' = listed \ gone /\ in_use' = used /\ quarantined' = bad \cup tried
      /\ ~ HasRoom(listed \ gone)
      /\ tried \subseteq cands
      /\ EvictionOutcome(cands, tried, gone, listed)
      /\ \A r \in Available(listed, used, bad) : scaleOf[r] # wants[h]
  BY DEF TurnGrows
<1>2. gone \subseteq listed /\ listed \subseteq pool
  BY <1>1 DEF Evictable, Available
<1>3. /\ Cardinality(listed) \in Nat /\ Cardinality(gone) \in Nat
      /\ Cardinality(listed \ gone) = Cardinality(listed) - Cardinality(gone)
      /\ Cardinality(listed \ gone) \in Nat
  BY <1>2, PoolSize, RemoveSubset DEF IInv
<1>4. Cardinality(listed \ gone) >= MaxActive
  BY <1>1, <1>3 DEF HasRoom
<1>5. ~ HasRoom(listed)
  BY <1>3, <1>4 DEF HasRoom
<1>6. Cardinality(gone) # Cardinality(listed) - MaxActive + 1
  BY <1>3, <1>4
<1>7. tried = cands
  BY <1>1, <1>6 DEF EvictionOutcome
<1>8. cands = Available(listed, used, bad)
  BY <1>1, <1>5 DEF Evictable, Available
<1>. QED  BY <1>1, <1>4, <1>7, <1>8 DEF Available

\* An empty pool is within capacity and nobody sleeps.
LEMMA CapacityInit == Init => CInv
<1>1. Init => Cardinality(pool) = 0 /\ Unlocked
  BY FS_EmptySet DEF Init, Unlocked
<1>. QED  BY <1>1, LeaseAssumption DEF Init, CInv, WithinCapacity, NoLostWakeup

\* Every operation keeps the capacity and wakes the sleepers it must wake.
LEMMA CapacityStep == IInv /\ CInv /\ [Next]_vars => CInv'
<1>. SUFFICES ASSUME IInv, CInv, [Next]_vars PROVE CInv'
  OBVIOUS
<1>. USE LeaseAssumption
<1>0. TypeOK /\ TypeOK' /\ LeasedInv /\ LockInv /\ WithinCapacity /\ NoLostWakeup
  BY SafetyStep DEF IInv, CInv
<1>1. IsFiniteSet(pool) /\ Cardinality(pool) \in Nat
  BY <1>0, PoolSize
<1>2. ASSUME pool' \subseteq pool
      PROVE  Cardinality(pool') \in Nat /\ Cardinality(pool') <= Cardinality(pool)
  BY <1>0, <1>2, PoolSize
<1>3. \A h \in Holders : NotifyAll[h] # "asleep" /\ (NotifyAll[h] = "provisioning" <=> phase[h] = "provisioning")
  BY DEF NotifyAll
<1>4. NotifyAll \in [Holders -> Phases]
  BY <1>0 DEF NotifyAll, TypeOK, Phases
<1>5. ASSUME NEW h \in Holders, HolderStep(h) PROVE CInv'
  <2>1. CASE StartAcquire(h) \/ WaitTimesOut(h) \/ ProvisionFailed(h) \/ PrepareSucceeds(h) \/ CloseIncident(h)
    BY <1>0, <1>1, <2>1
       DEF StartAcquire, WaitTimesOut, ProvisionFailed, PrepareSucceeds, CloseIncident, TypeOK,
           leaseVars, CInv, WithinCapacity, NoLostWakeup, Unlocked, Available
  <2>2. CASE AcquireTurn(h)
    <3>0. Unlocked
      BY <2>2 DEF AcquireTurn
    <3>1. ASSUME NEW torn \in SUBSET Stale, NEW r \in Records, TurnGrants(h, torn, r)
          PROVE  CInv'
      <4>1. Unlocked'
        BY <1>0, <1>3, <1>4, <3>0, <3>1 DEF TurnGrants, Grant, Unlocked, TypeOK
      <4>2. WithinCapacity'
        BY <1>0, <1>1, <1>2, <3>0, <3>1, <4>1 DEF TurnGrants, Grant, WithinCapacity
      <4>3. NoLostWakeup'
        <5>1. CASE Stale = {}
          BY <1>0, <3>1, <5>1 DEF TurnGrants, Grant, NoLostWakeup, Available, TypeOK
        <5>2. CASE Stale # {}
          BY <1>0, <1>3, <1>4, <3>1, <5>2 DEF TurnGrants, Grant, NoLostWakeup
        <5>. QED  BY <5>1, <5>2
      <4>. QED  BY <4>2, <4>3 DEF CInv
    <3>2. ASSUME NEW torn \in SUBSET Stale, NEW tried, NEW gone \in SUBSET tried, NEW next,
                 TurnGrows(h, torn, tried, gone, next)
          PROVE  CInv'
      <4>1. pool' \subseteq pool /\ (next = "provisioning" <=> Cardinality(pool') < MaxActive)
        BY <3>2 DEF TurnGrows, HasRoom
      <4>2. next # "provisioning" => Unlocked'
        BY <1>0, <1>3, <1>4, <3>0, <3>2 DEF TurnGrows, Unlocked, TypeOK
      <4>3. WithinCapacity'
        BY <1>0, <1>1, <1>2, <3>0, <4>1, <4>2 DEF WithinCapacity
      <4>4. ASSUME NEW g \in Holders, phase'[g] = "asleep"
            PROVE  Available(pool', in_use', quarantined') = {} /\ Cardinality(pool') >= MaxActive
        <5>1. CASE g = h
          <6>1. next = "asleep"
            BY <1>0, <1>4, <3>2, <4>4, <5>1 DEF TurnGrows, TypeOK
          <6>. QED  BY <3>2, <6>1, NothingIdle
        <5>2. CASE g # h
          <6>1. Stale = {} /\ tried = {} /\ phase[g] = "asleep"
            BY <1>0, <1>3, <1>4, <3>2, <4>4, <5>2 DEF TurnGrows, TypeOK
          <6>2. pool' = pool /\ in_use' = in_use /\ quarantined' = quarantined
            BY <3>2, <6>1 DEF TurnGrows
          <6>. QED  BY <1>0, <6>1, <6>2 DEF NoLostWakeup
        <5>. QED  BY <5>1, <5>2
      <4>5. NoLostWakeup'
        BY <4>4 DEF NoLostWakeup, Available
      <4>. QED  BY <4>3, <4>5 DEF CInv
    <3>. QED  BY <2>2, <3>1, <3>2, TurnCases
  <2>3. ASSUME NEW r \in Records, Provisioned(h, r) PROVE CInv'
    <3>1. ~ Unlocked /\ Unlocked'
      BY <1>0, <2>3 DEF Provisioned, Unlocked, LockInv, TypeOK
    <3>2. Cardinality(pool') \in Nat /\ Cardinality(pool') <= Cardinality(pool) + 1
      <4>1. pool' = pool \cup {r}
        BY <2>3 DEF Provisioned
      <4>2. /\ IsFiniteSet(pool \cup {r})
            /\ Cardinality(pool \cup {r}) = IF r \in pool THEN Cardinality(pool) ELSE Cardinality(pool) + 1
        BY <1>1, FS_AddElement
      <4>. QED  BY <1>1, <4>1, <4>2
    <3>3. WithinCapacity'
      BY <1>0, <1>1, <3>1, <3>2 DEF WithinCapacity
    <3>4. NoLostWakeup'
      <4>1. Cardinality(pool) < MaxActive
        BY <1>0, <1>1, <3>1 DEF WithinCapacity
      <4>. QED  BY <1>0, <1>1, <2>3, <4>1 DEF Provisioned, NoLostWakeup, TypeOK
    <3>. QED  BY <3>3, <3>4 DEF CInv
  <2>4. CASE PrepareReleases(h) \/ FinishClean(h)
    <3>1. pool' = pool /\ HolderDone(h) /\ Unlocked
      BY <2>4 DEF PrepareReleases, FinishClean, Release
    <3>2. Unlocked' /\ \A g \in Holders : phase'[g] # "asleep"
      BY <1>3, <1>4, <3>1 DEF HolderDone, Unlocked
    <3>. QED  BY <1>0, <3>1, <3>2 DEF CInv, WithinCapacity, NoLostWakeup
  <2>5. CASE PrepareBreaks(h) \/ FinishBroken(h)
    <3>1. pool' \subseteq pool /\ HolderDone(h) /\ Unlocked
      BY <2>5 DEF PrepareBreaks, FinishBroken, Quarantine
    <3>2. Unlocked' /\ \A g \in Holders : phase'[g] # "asleep"
      BY <1>3, <1>4, <3>1 DEF HolderDone, Unlocked
    <3>. QED  BY <1>0, <1>1, <1>2, <3>1, <3>2 DEF CInv, WithinCapacity, NoLostWakeup
  <2>6. ASSUME NEW s \in SessionSeconds, OpenSession(h, s) PROVE CInv'
    BY <1>0, <2>6 DEF OpenSession, CInv, WithinCapacity, NoLostWakeup, Unlocked, Available
  <2>7. CASE UseSession(h)
    BY <1>0, <2>7 DEF UseSession, holderVars, CInv, WithinCapacity, NoLostWakeup, Unlocked, Available
  <2>. QED  BY <1>5, <2>1, <2>2, <2>3, <2>4, <2>5, <2>6, <2>7 DEF HolderStep
<1>6. CASE Drain
  <2>1. pool' \subseteq pool /\ Unlocked
    BY <1>6 DEF Drain, Quarantine
  <2>2. Unlocked'
    BY <1>3, <1>6, <2>1 DEF Drain, Unlocked
  <2>3. WithinCapacity'
    BY <1>0, <1>1, <1>2, <2>1, <2>2 DEF WithinCapacity
  <2>4. NoLostWakeup'
    <3>1. CASE pool = {}
      BY <1>0, <1>6, <3>1, FS_EmptySet DEF Drain, NoLostWakeup
    <3>2. CASE pool # {}
      BY <1>3, <1>6, <3>2 DEF Drain, NoLostWakeup
    <3>. QED  BY <3>1, <3>2
  <2>. QED  BY <2>3, <2>4 DEF CInv
<1>7. CASE Tick
  BY <1>0, <1>7 DEF Tick, leaseVars, holderVars, CInv, WithinCapacity, NoLostWakeup, Unlocked, Available
<1>8. CASE UNCHANGED vars
  BY <1>0, <1>8 DEF vars, leaseVars, holderVars, CInv, WithinCapacity, NoLostWakeup, Unlocked, Available
<1>. QED  BY <1>5, <1>6, <1>7, <1>8 DEF Next

\* The pool never lists more runtimes than max_active_runtimes, counting the
\* one being provisioned and those whose teardown failed.
THEOREM CapacityIsKept == Spec => []WithinCapacity
<1>1. CInv => WithinCapacity
  BY DEF CInv
<1>. QED  BY <1>1, SafetyInit, SafetyStep, CapacityInit, CapacityStep, PTL DEF Spec

\* A thread sleeps in acquire only while the pool is full of leased or
\* quarantined runtimes: every release, quarantine and drain wakes it.
THEOREM WakeupsAreNotLost == Spec => []NoLostWakeup
<1>1. CInv => NoLostWakeup
  BY DEF CInv
<1>. QED  BY <1>1, SafetyInit, SafetyStep, CapacityInit, CapacityStep, PTL DEF Spec

-----------------------------------------------------------------------------
(* Leases outlive sessions                                                 *)

\* What SimulatorConfig.validate_lease_deadline checks of one configuration,
\* here of every session's: the pool's lease time covers limit and grace.
SessionsFit == \A s \in SessionSeconds : s + Grace <= TTL

\* No session is open at the start.
LEMMA CoverInit == Init => LInv
BY LeaseAssumption DEF Init, LInv, ClockInv, CoverInv

\* Every operation keeps the lease ahead of the sessions opened on it, when the
\* time to live covers each session limit plus the grace.
LEMMA CoverStep == SessionsFit /\ IInv /\ LInv /\ [Next]_vars => LInv'
<1>. SUFFICES ASSUME SessionsFit, IInv, LInv, [Next]_vars PROVE LInv'
  OBVIOUS
<1>. USE LeaseAssumption DEF LInv, ClockInv, CoverInv
<1>0. TypeOK /\ PhaseInv /\ LeasedInv /\ HoldInv /\ ExclusiveLease
  BY DEF IInv
<1>1. ASSUME NEW h \in Holders, HolderStep(h) PROVE LInv'
  <2>1. CASE StartAcquire(h) \/ WaitTimesOut(h) \/ ProvisionFailed(h) \/ PrepareSucceeds(h) \/ CloseIncident(h)
    BY <1>0, <2>1
       DEF StartAcquire, WaitTimesOut, ProvisionFailed, PrepareSucceeds, CloseIncident, TypeOK, leaseVars
  <2>2. CASE AcquireTurn(h)
    <3>0. phase[h] = "acquiring" /\ held[h] = NoRecord /\ owed[h] = 0
      BY <1>0, <2>2 DEF AcquireTurn, PhaseInv
    <3>1. ASSUME NEW torn \in SUBSET Stale, NEW r \in Records, TurnGrants(h, torn, r)
          PROVE  LInv'
      BY <1>0, <3>0, <3>1 DEF TurnGrants, Grant, Available, HoldInv, Unleased, Stale, TypeOK
    <3>2. ASSUME NEW torn \in SUBSET Stale, NEW tried, NEW gone \in SUBSET tried, NEW next,
                 TurnGrows(h, torn, tried, gone, next)
          PROVE  LInv'
      BY <1>0, <3>0, <3>2 DEF TurnGrows, HoldInv, Unleased, Stale, TypeOK
    <3>. QED  BY <2>2, <3>1, <3>2, TurnCases
  <2>3. ASSUME NEW r \in Records, Provisioned(h, r) PROVE LInv'
    BY <1>0, <2>3 DEF Provisioned, TypeOK, PhaseInv, HoldInv
  <2>4. CASE PrepareReleases(h) \/ FinishClean(h)
    BY <1>0, <2>4 DEF PrepareReleases, FinishClean, Release, HolderDone, Unleased, TypeOK, PhaseInv, ExclusiveLease
  <2>5. CASE PrepareBreaks(h) \/ FinishBroken(h)
    BY <1>0, <2>5 DEF PrepareBreaks, FinishBroken, Quarantine, HolderDone, Unleased, TypeOK, PhaseInv, ExclusiveLease
  <2>6. ASSUME NEW s \in SessionSeconds, OpenSession(h, s) PROVE LInv'
    BY <1>0, <2>6 DEF OpenSession, Refresh, SessionsFit, TypeOK, PhaseInv, LeasedInv, ExclusiveLease
  <2>7. CASE UseSession(h)
    BY <1>0, <2>7 DEF UseSession, Refresh, holderVars, TypeOK, PhaseInv, LeasedInv, ExclusiveLease
  <2>. QED  BY <1>1, <2>1, <2>2, <2>3, <2>4, <2>5, <2>6, <2>7 DEF HolderStep
<1>2. CASE Drain
  BY <1>0, <1>2 DEF Drain, TypeOK
<1>3. CASE Tick
  BY <1>0, <1>3 DEF Tick, leaseVars, holderVars, TypeOK
<1>4. CASE UNCHANGED vars
  BY <1>4 DEF vars, leaseVars, holderVars
<1>. QED  BY <1>1, <1>2, <1>3, <1>4 DEF Next

\* If every session's limit plus the cleanup grace fits into the pool's lease
\* time, reap_orphans never takes the runtime of an incident whose session was
\* opened on a live lease and may still run or be cleaned up.
THEOREM LeaseOutlivesSession == SessionsFit => (Spec => []LeaseCoversSession)
<1>. SUFFICES ASSUME SessionsFit PROVE Spec => []LeaseCoversSession
  OBVIOUS
<1>1. IInv /\ LInv => LeaseCoversSession
  BY DEF IInv, LInv, CoverInv, PhaseInv, LeasedInv, LeaseCoversSession
<1>2. SessionsFit
  OBVIOUS
<1>. QED  BY <1>1, <1>2, SafetyInit, SafetyStep, CoverInit, CoverStep, PTL DEF Spec

=============================================================================
