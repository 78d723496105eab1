----------------------- MODULE SimulatorService_proofs -----------------------
(***************************************************************************)
(* Theorems about SimulatorService and their proofs.                       *)
(*                                                                         *)
(* The argument: a thread that works on an environment for a step or a     *)
(* delete holds the lock of its slot, and a locked slot has a live         *)
(* environment; an environment leaves its slot only after its incident is  *)
(* finished.  SimulatorManager.close works without the locks, so what it   *)
(* may meet there is bounded by the list that the shutdown took before.    *)
(***************************************************************************)
EXTENDS SimulatorService, SequenceTheorems, TLAPS

Creating(t) == pc[t] \in {"resetting", "opening", "listing"}
Stepping(t) == pc[t] \in {"acting", "tool", "evaluating"}
Closing(t)  == pc[t] \in {"closing", "finishing", "closed"}

\* What a thread does, and for which kind of request.
ThreadInv ==
    \A t \in Threads :
        /\ Creating(t) => env[t] \in Envs /\ op[t] = "create"
        /\ pc[t] = "locking" \/ Stepping(t) => env[t] \in Envs /\ op[t] \in Actions
        /\ pc[t] = "deleting" => env[t] \in Envs /\ op[t] = "delete"
        /\ Closing(t) => env[t] \in Envs /\ op[t] \in Actions \cup {"delete", "shutdown"}
        /\ pc[t] \in {"shut_slots", "shut_envs"} => env[t] = NoEnv /\ op[t] = "shutdown"
        /\ pc[t] = "idle" => op[t] = "none"

\* A locked slot has an environment, and a step or a delete works under the lock.
LockInv ==
    /\ \A e \in Envs : lock[e] # NoThread => e \in hasEnv
    /\ \A t \in Threads :
         Stepping(t) \/ (Closing(t) /\ op[t] # "shutdown") => lock[env[t]] = t

\* A slot with an environment has a session, and a slot in use an incident.
SlotInv ==
    /\ hasEnv \cap terminal = {}
    /\ \A e \in hasEnv : session[e] # "none"
    /\ \A e \in Envs : incident[e] \in {"none", "preparing"} =>
         session[e] = "none" /\ e \notin hasEnv \cup terminal \cup listed

\* One thread creates an environment, nobody else has its slot yet, and what is
\* closed was prepared.
CreateInv ==
    /\ \A t \in Threads : Closing(t) => incident[env[t]] \notin {"none", "preparing"}
    /\ \A t \in Threads : Creating(t) =>
         /\ env[t] \notin hasEnv \cup terminal \cup listed
         /\ pc[t] = "resetting" <=> incident[env[t]] = "preparing"
         /\ pc[t] \in {"resetting", "opening"} => session[env[t]] = "none"
         /\ session[env[t]] # "terminal" /\ incident[env[t]] # "none"
    /\ \A t, u \in Threads : Creating(t) /\ Creating(u) /\ env[t] = env[u] => t = u

\* The backend is finished by one thread, and its status says that it was.
FinishInv ==
    /\ \A e \in Envs :
         /\ finishes[e] = IF cleanup[e] = "not_started" THEN 0 ELSE 1
         /\ incident[e] \in {"closed", "broken"} <=> cleanup[e] # "not_started"
    /\ \A t \in Threads :
         /\ pc[t] = "finishing" => incident[env[t]] = "closing"
         /\ pc[t] = "closed" => cleanup[env[t]] # "not_started"
    /\ \A t, u \in Threads :
         pc[t] = "finishing" /\ pc[u] = "finishing" /\ env[t] = env[u] => t = u

\* A terminal result makes its slot terminal.
OutcomeInv == \A e \in Envs : outcomes[e] <= 1 /\ (outcomes[e] # 0 => e \in terminal)

\* An environment leaves its slot only after its backend was finished ...
RetiredInv ==
    \A e \in Envs :
        /\ session[e] # "none" /\ e \notin hasEnv
        /\ \A t \in Threads : ~(Creating(t) /\ env[t] = e)
        => finishes[e] = 1

\* ... and a slot with an environment leaves the table only to be closed.
Kept(e) ==
    \/ e \in todo
    \/ \E t \in Threads : env[t] = e /\ op[t] \in {"delete", "shutdown"}
    \/ finishes[e] = 1
KeptInv == \A e \in hasEnv \ listed : Kept(e)

\* One thread shuts down; the slots of its list that still have an environment
\* are ahead of it, and there is none when it goes on without the locks.
ShutInv ==
    /\ shutdown = "no" => late = {} /\ todo = {} /\ \A t \in Threads : op[t] # "shutdown"
    /\ shutdown # "no" =>
         \A e \in Envs \ late :
            incident[e] # "none" /\ \A t \in Threads : ~(Creating(t) /\ env[t] = e)
    /\ \A t, u \in Threads : op[t] = "shutdown" /\ op[u] = "shutdown" => t = u
    /\ \A t \in Threads : op[t] = "shutdown" =>
         /\ pc[t] = "shut_slots" => hasEnv \ late \subseteq todo
         /\ Closing(t) /\ lock[env[t]] = t => hasEnv \ late \subseteq todo \cup {env[t]}
         /\ Closing(t) /\ lock[env[t]] # t => hasEnv \subseteq late
         /\ pc[t] = "shut_envs" => hasEnv \subseteq late

\* No id twice in a sequence.
Distinct(ts) == \A i, j \in 1..Len(ts) : ts[i] = ts[j] => i = j

\* No slot has two tombstones.
TombInv == Distinct(tombs)

IInv ==
    /\ TypeOK /\ ThreadInv /\ LockInv /\ SlotInv /\ CreateInv /\ FinishInv
    /\ OutcomeInv /\ RetiredInv /\ KeptInv /\ ShutInv /\ ToolsSeeTheIncident
    /\ TombstonesBounded /\ TombInv

-----------------------------------------------------------------------------
(* Lemmas about the tombstones                                             *)

\* A new tombstone at the end.
LEMMA AppendTombstone ==
    ASSUME NEW ts \in Seq(Envs), NEW e \in Envs, e \notin Ids(ts), Distinct(ts)
    PROVE  /\ Append(ts, e) \in Seq(Envs) /\ Distinct(Append(ts, e))
           /\ Ids(Append(ts, e)) = Ids(ts) \cup {e}
<1>1. /\ Append(ts, e) \in Seq(Envs) /\ Len(Append(ts, e)) = Len(ts) + 1 /\ Len(ts) \in Nat
      /\ \A i \in 1..Len(ts) : Append(ts, e)[i] = ts[i]
      /\ Append(ts, e)[Len(ts) + 1] = e
  BY AppendProperties
<1>. DEFINE as == Append(ts, e)
<1>. HIDE DEF as
<1>2. Distinct(as)
  BY <1>1 DEF Distinct, Ids, as
<1>3. Ids(as) \subseteq Ids(ts) \cup {e}
  BY <1>1 DEF Ids, as
<1>4. Ids(ts) \cup {e} \subseteq Ids(as)
  BY <1>1 DEF Ids, as
<1>. QED  BY <1>1, <1>2, <1>3, <1>4 DEF as

\* _prune_terminal_environments keeps the newest tombstones, at most the cap, and
\* drops from the table exactly the ids of the others.
LEMMA PruneTombstones ==
    ASSUME NEW slots \in SUBSET Envs, NEW ts \in Seq(Envs), NEW dead,
           Distinct(ts), Ids(ts) = slots \cap dead, Prune(slots, ts)
    PROVE  /\ tombs' \in Seq(Envs) /\ Len(tombs') <= MaxTombstones /\ Distinct(tombs')
           /\ Ids(tombs') = listed' \cap dead
           /\ listed' \subseteq slots /\ slots \ listed' \subseteq dead
<1>1. PICK k \in 0..Len(ts) :
        /\ Len(ts) - k <= MaxTombstones
        /\ tombs' = SubSeq(ts, k + 1, Len(ts))
        /\ listed' = slots \ Ids(SubSeq(ts, 1, k))
  BY DEF Prune
<1>. DEFINE old == SubSeq(ts, 1, k)
            new == SubSeq(ts, k + 1, Len(ts))
<1>2. /\ Len(ts) \in Nat /\ k \in Nat /\ k <= Len(ts)
      /\ \A i \in 1..Len(ts) : ts[i] \in Envs
  BY LenProperties
<1>3. /\ old \in Seq(Envs) /\ Len(old) = k /\ \A i \in 1..k : old[i] = ts[i]
  BY <1>2, SubSeqProperties, SMTT(30)
<1>4. /\ new \in Seq(Envs) /\ Len(new) = Len(ts) - k
      /\ \A i \in 1..(Len(ts) - k) : new[i] = ts[k + i]
  BY <1>2, SubSeqProperties, SMTT(30)
<1>. HIDE DEF old, new
<1>5. Distinct(new)
  BY <1>2, <1>4 DEF Distinct
<1>6. Ids(ts) = Ids(old) \cup Ids(new)
  <2>1. Ids(old) \subseteq Ids(ts)
    BY <1>2, <1>3 DEF Ids
  <2>2. Ids(new) \subseteq Ids(ts)
    BY <1>2, <1>4 DEF Ids
  <2>3. ASSUME NEW i \in 1..Len(ts)  PROVE ts[i] \in Ids(old) \cup Ids(new)
    <3>1. CASE i <= k
      BY <3>1, <1>2, <1>3 DEF Ids
    <3>2. CASE i > k
      <4>1. i - k \in 1..Len(new) /\ new[i - k] = ts[i]
        BY <3>2, <1>2, <1>4
      <4>. QED  BY <4>1 DEF Ids
    <3>. QED  BY <3>1, <3>2, <1>2
  <2>. QED  BY <2>1, <2>2, <2>3 DEF Ids
<1>7. Ids(old) \cap Ids(new) = {}
  BY <1>2, <1>3, <1>4 DEF Ids, Distinct
<1>8. Ids(new) = listed' \cap dead /\ listed' \subseteq slots /\ slots \ listed' \subseteq dead
  BY <1>1, <1>6, <1>7 DEF old
<1>. QED  BY <1>1, <1>2, <1>4, <1>5, <1>8 DEF new

\* The tombstone of a deleted slot is taken out of the middle.
LEMMA RemoveTombstone ==
    ASSUME NEW ts \in Seq(Envs), Distinct(ts), NEW k \in 1..Len(ts)
    PROVE  LET rest == SubSeq(ts, 1, k - 1) \o SubSeq(ts, k + 1, Len(ts)) IN
           /\ rest \in Seq(Envs) /\ Len(rest) <= Len(ts) /\ Distinct(rest)
           /\ Ids(rest) = Ids(ts) \ {ts[k]}
<1>. DEFINE old == SubSeq(ts, 1, k - 1)
            new == SubSeq(ts, k + 1, Len(ts))
            rest == old \o new
<1>1. /\ Len(ts) \in Nat /\ k \in Nat /\ 1 <= k /\ k <= Len(ts)
      /\ \A i \in 1..Len(ts) : ts[i] \in Envs
  BY LenProperties
<1>2. /\ old \in Seq(Envs) /\ Len(old) = k - 1 /\ \A i \in 1..(k - 1) : old[i] = ts[i]
  BY <1>1, SubSeqProperties, SMTT(30)
<1>3. /\ new \in Seq(Envs) /\ Len(new) = Len(ts) - k
      /\ \A i \in 1..(Len(ts) - k) : new[i] = ts[k + i]
  BY <1>1, SubSeqProperties, SMTT(30)
<1>. HIDE DEF old, new
<1>9. /\ rest \in Seq(Envs) /\ Len(rest) = Len(old) + Len(new)
      /\ \A i \in 1..(Len(old) + Len(new)) :
           rest[i] = IF i <= Len(old) THEN old[i] ELSE new[i - Len(old)]
  BY <1>2, <1>3, ConcatProperties, Zenon
<1>. HIDE DEF rest
<1>4. /\ rest \in Seq(Envs) /\ Len(rest) = Len(ts) - 1
      /\ \A i \in 1..(Len(ts) - 1) : rest[i] = IF i < k THEN ts[i] ELSE ts[i + 1]
  <2>1. rest \in Seq(Envs) /\ Len(rest) = Len(ts) - 1
    BY <1>1, <1>2, <1>3, <1>9
  <2>2. ASSUME NEW i \in 1..(Len(ts) - 1), i < k  PROVE rest[i] = ts[i]
    <3>1. i \in 1..(Len(old) + Len(new)) /\ i <= Len(old) /\ i \in 1..(k - 1)
      BY <2>2, <1>1, <1>2, <1>3
    <3>2. rest[i] = old[i]
      BY <3>1, <1>9, Zenon
    <3>. QED  BY <3>1, <3>2, <1>2
  <2>3. ASSUME NEW i \in 1..(Len(ts) - 1), ~(i < k)  PROVE rest[i] = ts[i + 1]
    <3>1. i - (k - 1) \in 1..(Len(ts) - k) /\ k + (i - (k - 1)) = i + 1
      BY <2>3, <1>1
    <3>2. i \in 1..(Len(old) + Len(new)) /\ ~(i <= Len(old))
      BY <2>3, <1>1, <1>2, <1>3
    <3>4. rest[i] = new[i - (k - 1)]
      BY <3>2, <1>2, <1>9, Zenon
    <3>3. new[i - (k - 1)] = ts[k + (i - (k - 1))]
      BY <3>1, <1>3
    <3>. QED  BY <3>1, <3>3, <3>4
  <2>. QED  BY <2>1, <2>2, <2>3
<1>5. Distinct(rest)
  BY <1>1, <1>4 DEF Distinct
<1>6. Ids(rest) \subseteq Ids(ts) \ {ts[k]}
  BY <1>1, <1>4 DEF Ids, Distinct
<1>7. Ids(ts) \ {ts[k]} \subseteq Ids(rest)
  <2>. SUFFICES ASSUME NEW i \in 1..Len(ts), i # k  PROVE ts[i] \in Ids(rest)
    BY DEF Ids
  <2>1. CASE i < k
    BY <2>1, <1>1, <1>4 DEF Ids
  <2>2. CASE i > k
    <3>1. i - 1 \in 1..Len(rest) /\ rest[i - 1] = ts[i]
      BY <2>2, <1>1, <1>4
    <3>. QED  BY <3>1 DEF Ids
  <2>. QED  BY <2>1, <2>2, <1>1
<1>8. /\ rest \in Seq(Envs) /\ Len(rest) <= Len(ts) /\ Distinct(rest)
      /\ Ids(rest) = Ids(ts) \ {ts[k]}
  BY <1>1, <1>4, <1>5, <1>6, <1>7
<1>. QED  BY <1>8, Zenon DEF rest, old, new

-----------------------------------------------------------------------------
(* The table after a step that prunes it                                   *)

\* `slots' was pruned: what is left of it, and its tombstones.
Pruned(slots) ==
    /\ tombs' \in Seq(Envs) /\ Len(tombs') <= MaxTombstones /\ Distinct(tombs')
    /\ Ids(tombs') = listed' \cap terminal'
    /\ listed' \subseteq slots /\ slots \ listed' \subseteq terminal'

\* A thread that works under the lock works on a live slot.
LEMMA HolderIsLive ==
    ASSUME IInv, NEW t \in Threads, Stepping(t) \/ (Closing(t) /\ op[t] # "shutdown")
    PROVE  /\ env[t] \in Envs /\ lock[env[t]] = t /\ env[t] \in hasEnv \ terminal
           /\ session[env[t]] # "none" /\ incident[env[t]] \notin {"none", "preparing"}
<1>1. env[t] \in Envs /\ lock[env[t]] = t
  BY DEF IInv, ThreadInv, LockInv
<1>2. env[t] \in hasEnv
  BY <1>1, ServiceAssumption DEF IInv, LockInv
<1>. QED  BY <1>1, <1>2 DEF IInv, SlotInv

\* A new slot is listed, as a tombstone when its incident is broken.
LEMMA ListSlotPrunes ==
    ASSUME IInv, NEW t \in Threads, ListSlot(t)
    PROVE  Pruned(listed \cup {env[t]})
<1>. DEFINE e == env[t]
<1>1. e \in Envs /\ e \notin listed /\ e \notin terminal
  BY DEF IInv, ListSlot, ThreadInv, CreateInv, Creating
<1>2. tombs \in Seq(Envs) /\ listed \in SUBSET Envs /\ Distinct(tombs) /\ Ids(tombs) = listed \cap terminal
  BY DEF IInv, TypeOK, TombInv, TombstonesBounded
<1>3. CASE session[e] = "active"
  <2>1. terminal' = terminal /\ Prune(listed \cup {e}, tombs)
    BY <1>3 DEF ListSlot
  <2>2. Ids(tombs) = (listed \cup {e}) \cap terminal' /\ listed \cup {e} \in SUBSET Envs
    BY <1>1, <1>2, <2>1
  <2>. HIDE DEF e
  <2>. QED  BY <1>2, <2>1, <2>2, PruneTombstones, Zenon DEF Pruned, e
<1>4. CASE session[e] # "active"
  <2>1. terminal' = terminal \cup {e} /\ Prune(listed \cup {e}, Append(tombs, e))
    BY <1>4 DEF ListSlot
  <2>2. /\ Append(tombs, e) \in Seq(Envs) /\ Distinct(Append(tombs, e))
        /\ Ids(Append(tombs, e)) = Ids(tombs) \cup {e}
    BY <1>1, <1>2, AppendTombstone
  <2>3. Ids(Append(tombs, e)) = (listed \cup {e}) \cap terminal' /\ listed \cup {e} \in SUBSET Envs
    BY <1>1, <1>2, <2>1, <2>2
  <2>. DEFINE ts == Append(tombs, e)
              slots == listed \cup {e}
  <2>4. slots \in SUBSET Envs /\ ts \in Seq(Envs) /\ Distinct(ts) /\ Ids(ts) = slots \cap terminal' /\ Prune(slots, ts)
    BY <2>1, <2>2, <2>3
  <2>. HIDE DEF ts, slots
  <2>5. Pruned(slots)
    BY <2>4, PruneTombstones, Zenon DEF Pruned
  <2>. QED  BY <2>5 DEF slots
<1>. QED  BY <1>3, <1>4

\* A request finds its slot in a table that was pruned.
LEMMA LookupPrunes ==
    ASSUME IInv, NEW t \in Threads, NEW e \in Envs, NEW a \in Actions, Lookup(t, e, a)
    PROVE  Pruned(listed)
<1>1. terminal' = terminal /\ Prune(listed, tombs)
  BY DEF Lookup
<1>2. tombs \in Seq(Envs) /\ listed \in SUBSET Envs /\ Distinct(tombs) /\ Ids(tombs) = listed \cap terminal
  BY DEF IInv, TypeOK, TombInv, TombstonesBounded
<1>. QED  BY <1>1, <1>2, PruneTombstones, Zenon DEF Pruned

\* A step with a terminal result makes its slot a tombstone, if it is still listed.
LEMMA TerminatePrunes ==
    ASSUME IInv, NEW t \in Threads, Terminate(t)
    PROVE  Pruned(listed)
<1>. DEFINE e == env[t]
<1>1. e \in Envs /\ e \notin terminal
  BY HolderIsLive DEF Terminate, Closing, Actions
<1>2. tombs \in Seq(Envs) /\ listed \in SUBSET Envs /\ Distinct(tombs) /\ Ids(tombs) = listed \cap terminal
  BY DEF IInv, TypeOK, TombInv, TombstonesBounded
<1>3. CASE e \notin listed
  <2>1. terminal' = terminal \cup {e} /\ Prune(listed, tombs)
    BY <1>3 DEF Terminate
  <2>2. Ids(tombs) = listed \cap terminal'
    BY <1>2, <1>3, <2>1
  <2>. QED  BY <1>2, <2>1, <2>2, PruneTombstones, Zenon DEF Pruned
<1>4. CASE e \in listed
  <2>1. terminal' = terminal \cup {e} /\ Prune(listed, Append(tombs, e))
    BY <1>4 DEF Terminate
  <2>2. /\ Append(tombs, e) \in Seq(Envs) /\ Distinct(Append(tombs, e))
        /\ Ids(Append(tombs, e)) = Ids(tombs) \cup {e}
    BY <1>1, <1>2, AppendTombstone
  <2>3. Ids(Append(tombs, e)) = listed \cap terminal'
    BY <1>2, <1>4, <2>1, <2>2
  <2>. DEFINE ts == Append(tombs, e)
  <2>4. ts \in Seq(Envs) /\ Distinct(ts) /\ Ids(ts) = listed \cap terminal' /\ Prune(listed, ts)
    BY <2>1, <2>2, <2>3
  <2>. HIDE DEF ts
  <2>. QED  BY <1>2, <2>4, PruneTombstones, Zenon DEF Pruned
<1>. QED  BY <1>3, <1>4

\* A deleted slot leaves the table with its tombstone.
LEMMA DeleteTakesTombstone ==
    ASSUME IInv, NEW t \in Threads, NEW e \in Envs, Delete(t, e)
    PROVE  /\ tombs' \in Seq(Envs) /\ Len(tombs') <= MaxTombstones /\ Distinct(tombs')
           /\ Ids(tombs') = listed' \cap terminal'
<1>1. /\ tombs \in Seq(Envs) /\ Distinct(tombs) /\ Ids(tombs) = listed \cap terminal
      /\ Len(tombs) <= MaxTombstones /\ Len(tombs) \in Nat
  BY LenProperties DEF IInv, TypeOK, TombInv, TombstonesBounded
<1>2. terminal' = terminal /\ listed' = listed \ {e}
  BY DEF Delete
<1>3. CASE e \notin Ids(tombs) /\ UNCHANGED tombs
  BY <1>1, <1>2, <1>3
<1>4. ASSUME NEW i \in 1..Len(tombs), tombs[i] = e,
             tombs' = SubSeq(tombs, 1, i - 1) \o SubSeq(tombs, i + 1, Len(tombs))
      PROVE  /\ tombs' \in Seq(Envs) /\ Len(tombs') <= MaxTombstones /\ Distinct(tombs')
             /\ Ids(tombs') = listed' \cap terminal'
  <2>1. /\ tombs' \in Seq(Envs) /\ Len(tombs') <= Len(tombs) /\ Distinct(tombs')
        /\ Ids(tombs') = Ids(tombs) \ {e}
    BY <1>1, <1>4, RemoveTombstone, Zenon
  <2>2. Len(tombs') \in Nat
    BY <2>1, LenProperties
  <2>. QED  BY <1>1, <1>2, <2>1, <2>2, ServiceAssumption
<1>. QED  BY <1>3, <1>4 DEF Delete

-----------------------------------------------------------------------------
(* The actions that end in one of two ways, as the two ways                *)

\* A request finds its slot in the pruned table, or answers a 404.
LookupFinds(t, e, a) ==
    /\ e \in listed' /\ pc[t] = "idle" /\ incident[e] # "none"
    /\ Pruned(listed)
    /\ pc' = [pc EXCEPT ![t] = "locking"]
    /\ env' = [env EXCEPT ![t] = e]
    /\ op' = [op EXCEPT ![t] = a]
    /\ UNCHANGED <<hasEnv, terminal, lock, incidentVars, shutVars>>
LookupMisses(t) ==
    /\ pc[t] = "idle"
    /\ Pruned(listed)
    /\ UNCHANGED <<hasEnv, terminal, lock, incidentVars, shutVars, pc, env, op>>

\* A slot with a live environment is listed, or the tombstone of a broken one.
ListsLive(t) ==
    /\ pc[t] = "listing" /\ session[env[t]] = "active"
    /\ hasEnv' = hasEnv \cup {env[t]}
    /\ Pruned(listed \cup {env[t]})
    /\ Return(t)
    /\ UNCHANGED <<terminal, lock, incidentVars, shutVars>>
ListsBroken(t) ==
    /\ pc[t] = "listing" /\ session[env[t]] # "active"
    /\ terminal' = terminal \cup {env[t]}
    /\ Pruned(listed \cup {env[t]})
    /\ Return(t)
    /\ UNCHANGED <<hasEnv, lock, incidentVars, shutVars>>

\* The session is opened, or the incident was closed meanwhile.
SessionOpens(t) ==
    /\ pc[t] = "opening" /\ incident[env[t]] = "active"
    /\ session' = [session EXCEPT ![env[t]] = "active"]
    /\ Goto(t, "listing")
    /\ UNCHANGED <<slotVars, incident, cleanup, finishes, calls, outcomes, shutVars>>
SessionFails(t) ==
    /\ pc[t] = "opening"
    /\ Return(t)
    /\ UNCHANGED <<slotVars, incidentVars, shutVars>>

\* A step takes the lock of a live slot, or answers a 409.
EntersSlot(t) ==
    /\ pc[t] = "locking" /\ lock[env[t]] = NoThread /\ env[t] \in hasEnv \ terminal
    /\ lock' = [lock EXCEPT ![env[t]] = t]
    /\ Goto(t, "acting")
    /\ UNCHANGED <<listed, hasEnv, terminal, tombs, incidentVars, shutVars>>
FindsSlotDead(t) ==
    /\ pc[t] = "locking" /\ env[t] \notin hasEnv \ terminal
    /\ Return(t)
    /\ UNCHANGED <<slotVars, incidentVars, shutVars>>

\* A tool call runs, or is answered as invalid.
ToolRuns(t) ==
    /\ SessionUsable(t)
    /\ calls' = [calls EXCEPT ![env[t]] = @ + 1]
    /\ Goto(t, "tool")
    /\ UNCHANGED <<slotVars, incident, cleanup, finishes, session, outcomes, shutVars>>
ToolInvalid(t) ==
    /\ SessionUsable(t)
    /\ lock' = [lock EXCEPT ![env[t]] = NoThread]
    /\ calls' = [calls EXCEPT ![env[t]] = @ + 1]
    /\ Return(t)
    /\ UNCHANGED <<listed, hasEnv, terminal, tombs, incident, cleanup, finishes, session, outcomes, shutVars>>

\* The submission is evaluated, or evaluate raises.
SubmitEvaluated(t) ==
    /\ pc[t] = "evaluating" /\ incident[env[t]] = "active"
    /\ session' = [session EXCEPT ![env[t]] = "terminal"]
    /\ Goto(t, "closing")
    /\ UNCHANGED <<slotVars, incident, cleanup, finishes, calls, outcomes, shutVars>>
SubmitFails(t) ==
    /\ pc[t] = "evaluating"
    /\ lock' = [lock EXCEPT ![env[t]] = NoThread]
    /\ Return(t)
    /\ UNCHANGED <<listed, hasEnv, terminal, tombs, incidentVars, shutVars>>

\* PreparedIncident.close has nothing to do, or starts to finish the backend.
CloseSkips(t) ==
    /\ pc[t] = "closing" /\ incident[env[t]] # "closing" /\ Finished(env[t])
    /\ Goto(t, "closed")
    /\ UNCHANGED <<slotVars, incidentVars, shutVars>>
CloseStarts(t) ==
    /\ pc[t] = "closing" /\ incident[env[t]] # "closing" /\ ~Finished(env[t])
    /\ incident' = [incident EXCEPT ![env[t]] = "closing"]
    /\ Goto(t, "finishing")
    /\ UNCHANGED <<slotVars, cleanup, finishes, session, calls, outcomes, shutVars>>

\* backend.finish returned, or raised.
FinishSucceeds(t) ==
    /\ pc[t] = "finishing"
    /\ registered' = registered \ {env[t]}
    /\ incident' = [incident EXCEPT ![env[t]] = "closed"]
    /\ cleanup' = [cleanup EXCEPT ![env[t]] = "succeeded"]
    /\ finishes' = [finishes EXCEPT ![env[t]] = @ + 1]
    /\ Goto(t, "closed")
    /\ UNCHANGED <<slotVars, session, calls, outcomes, todo, shutdown, late>>
FinishFails(t) ==
    /\ pc[t] = "finishing"
    /\ registered' = registered \ {env[t]}
    /\ incident' = [incident EXCEPT ![env[t]] = "broken"]
    /\ cleanup' = [cleanup EXCEPT ![env[t]] = "failed"]
    /\ finishes' = [finishes EXCEPT ![env[t]] = @ + 1]
    /\ Goto(t, "closed")
    /\ UNCHANGED <<slotVars, session, calls, outcomes, todo, shutdown, late>>

\* A terminal result.
Terminated(t) ==
    /\ pc[t] = "closed" /\ op[t] \in Actions
    /\ hasEnv' = hasEnv \ {env[t]}
    /\ terminal' = terminal \cup {env[t]}
    /\ lock' = [lock EXCEPT ![env[t]] = NoThread]
    /\ outcomes' = [outcomes EXCEPT ![env[t]] = @ + 1]
    /\ Pruned(listed)
    /\ Return(t)
    /\ UNCHANGED <<incident, cleanup, finishes, session, calls, shutVars>>

\* A delete takes the slot and its tombstone from the table.
Deleted(t, e) ==
    /\ pc[t] = "idle" /\ e \in listed
    /\ listed' = listed \ {e}
    /\ Distinct(tombs') /\ tombs' \in Seq(Envs) /\ Len(tombs') <= MaxTombstones
    /\ Ids(tombs') = listed' \cap terminal'
    /\ pc' = [pc EXCEPT ![t] = "deleting"]
    /\ env' = [env EXCEPT ![t] = e]
    /\ op' = [op EXCEPT ![t] = "delete"]
    /\ UNCHANGED <<hasEnv, terminal, lock, incidentVars, shutVars>>

\* A delete takes the lock of a live slot, or finds it empty.
DeleteCloses(t) ==
    /\ pc[t] = "deleting" /\ lock[env[t]] = NoThread /\ env[t] \in hasEnv
    /\ lock' = [lock EXCEPT ![env[t]] = t]
    /\ Goto(t, "closing")
    /\ UNCHANGED <<listed, hasEnv, terminal, tombs, incidentVars, shutVars>>
DeleteFindsEmpty(t) ==
    /\ pc[t] = "deleting" /\ env[t] \notin hasEnv
    /\ Return(t)
    /\ UNCHANGED <<slotVars, incidentVars, shutVars>>

\* The shutdown takes a slot of its list, or finds it without an environment.
ShutdownTakesSlot(t, e) ==
    /\ pc[t] = "shut_slots" /\ lock[e] = NoThread /\ e \in todo /\ e \in hasEnv
    /\ lock' = [lock EXCEPT ![e] = t]
    /\ todo' = todo \ {e}
    /\ pc' = [pc EXCEPT ![t] = "closing"]
    /\ env' = [env EXCEPT ![t] = e]
    /\ UNCHANGED <<listed, hasEnv, terminal, tombs, incidentVars, registered, shutdown, late, op>>
ShutdownSkipsSlot(t, e) ==
    /\ pc[t] = "shut_slots" /\ e \notin hasEnv
    /\ todo' = todo \ {e}
    /\ UNCHANGED <<slotVars, incidentVars, registered, shutdown, late, pc, env, op>>

\* The manager forgets an environment that is not prepared, or closes it.
ShutdownForgets(t, e) ==
    /\ pc[t] = "shut_envs" /\ e \in todo /\ incident[e] \in {"none", "preparing"}
    /\ registered' = registered \ {e}
    /\ todo' = todo \ {e}
    /\ UNCHANGED <<slotVars, incidentVars, shutdown, late, pc, env, op>>
ShutdownTakesEnv(t, e) ==
    /\ pc[t] = "shut_envs" /\ e \in todo /\ incident[e] \notin {"none", "preparing"}
    /\ todo' = todo \ {e}
    /\ pc' = [pc EXCEPT ![t] = "closing"]
    /\ env' = [env EXCEPT ![t] = e]
    /\ UNCHANGED <<slotVars, incidentVars, registered, shutdown, late, op>>

\* The shutdown closed a slot of its list, or an environment of the manager's.
ShutdownReleases(t) ==
    /\ pc[t] = "closed" /\ op[t] = "shutdown" /\ lock[env[t]] = t
    /\ hasEnv' = hasEnv \ {env[t]}
    /\ lock' = [lock EXCEPT ![env[t]] = NoThread]
    /\ pc' = [pc EXCEPT ![t] = "shut_slots"]
    /\ env' = [env EXCEPT ![t] = NoEnv]
    /\ UNCHANGED <<listed, terminal, tombs, incidentVars, shutVars, op>>
ShutdownGoesOn(t) ==
    /\ pc[t] = "closed" /\ op[t] = "shutdown" /\ lock[env[t]] # t
    /\ pc' = [pc EXCEPT ![t] = "shut_envs"]
    /\ env' = [env EXCEPT ![t] = NoEnv]
    /\ UNCHANGED <<slotVars, incidentVars, shutVars, op>>

\* Every step of a thread is one of the simple ones or one of these.
LEMMA StepCases ==
    ASSUME IInv, NEW t \in Threads, NewRequest(t) \/ RequestStep(t)
    PROVE  \/ \E e \in Envs, a \in Actions : LookupFinds(t, e, a)
           \/ \E e \in Envs :
                \/ Create(t, e) \/ Deleted(t, e) \/ ShutdownTakesSlot(t, e)
                \/ ShutdownSkipsSlot(t, e) \/ ShutdownForgets(t, e) \/ ShutdownTakesEnv(t, e)
           \/ IncidentReady(t) \/ IncidentBroken(t) \/ SessionOpens(t) \/ SessionFails(t)
           \/ ListsLive(t) \/ ListsBroken(t) \/ EntersSlot(t) \/ FindsSlotDead(t)
           \/ Refuse(t) \/ EndSession(t) \/ ToolRuns(t) \/ ToolInvalid(t)
           \/ ToolReturns(t) \/ StartSubmit(t) \/ SubmitEvaluated(t) \/ SubmitFails(t)
           \/ CloseSkips(t) \/ CloseStarts(t) \/ FinishSucceeds(t) \/ FinishFails(t)
           \/ Terminated(t) \/ DeleteCloses(t) \/ DeleteFindsEmpty(t) \/ DeleteEnds(t)
           \/ ShutdownBegin(t) \/ ShutdownManager(t) \/ ShutdownReleases(t) \/ ShutdownGoesOn(t)
           \/ ShutdownEnd(t) \/ LookupMisses(t)
<1>. USE DEF slotVars, incidentVars, shutVars, Goto, Begin, Return, Unlock
<1>1. ASSUME NEW e \in Envs, NEW a \in Actions, Lookup(t, e, a)
      PROVE  LookupFinds(t, e, a) \/ LookupMisses(t)
  BY <1>1, LookupPrunes DEF Lookup, LookupFinds, LookupMisses
<1>2. ASSUME ListSlot(t)
      PROVE  ListsLive(t) \/ ListsBroken(t)
  BY <1>2, ListSlotPrunes DEF ListSlot, ListsLive, ListsBroken
<1>3. ASSUME OpenSession(t)
      PROVE  SessionOpens(t) \/ SessionFails(t)
  BY <1>3 DEF OpenSession, SessionOpens, SessionFails
<1>4. ASSUME EnterSlot(t)
      PROVE  EntersSlot(t) \/ FindsSlotDead(t)
  BY <1>4 DEF EnterSlot, EntersSlot, FindsSlotDead
<1>5. ASSUME StartTool(t)
      PROVE  ToolRuns(t) \/ ToolInvalid(t)
  BY <1>5 DEF StartTool, ToolRuns, ToolInvalid
<1>6. ASSUME Evaluate(t)
      PROVE  SubmitEvaluated(t) \/ SubmitFails(t)
  BY <1>6 DEF Evaluate, SubmitEvaluated, SubmitFails
<1>7. ASSUME CloseBegin(t)
      PROVE  CloseSkips(t) \/ CloseStarts(t)
  BY <1>7 DEF CloseBegin, CloseSkips, CloseStarts
<1>8. ASSUME CloseEnd(t)
      PROVE  FinishSucceeds(t) \/ FinishFails(t)
  BY <1>8 DEF CloseEnd, FinishSucceeds, FinishFails
<1>9. ASSUME Terminate(t)
      PROVE  Terminated(t)
  BY <1>9, TerminatePrunes DEF Terminate, Terminated
<1>10. ASSUME NEW e \in Envs, Delete(t, e)
      PROVE  Deleted(t, e)
  BY <1>10, DeleteTakesTombstone DEF Delete, Deleted
<1>11. ASSUME DeleteEnters(t)
      PROVE  DeleteCloses(t) \/ DeleteFindsEmpty(t)
  BY <1>11 DEF DeleteEnters, DeleteCloses, DeleteFindsEmpty
<1>12. ASSUME NEW e \in Envs, ShutdownSlot(t, e)
      PROVE  ShutdownTakesSlot(t, e) \/ ShutdownSkipsSlot(t, e)
  BY <1>12 DEF ShutdownSlot, ShutdownTakesSlot, ShutdownSkipsSlot
<1>13. ASSUME NEW e \in Envs, ShutdownEnv(t, e)
      PROVE  ShutdownForgets(t, e) \/ ShutdownTakesEnv(t, e)
  BY <1>13 DEF ShutdownEnv, ShutdownForgets, ShutdownTakesEnv
<1>14. ASSUME ShutdownClosed(t)
      PROVE  ShutdownReleases(t) \/ ShutdownGoesOn(t)
  BY <1>14 DEF ShutdownClosed, ShutdownReleases, ShutdownGoesOn
<1>. QED
  BY <1>1, <1>2, <1>3, <1>4, <1>5, <1>6, <1>7, <1>8, <1>9, <1>10, <1>11, <1>12, <1>13, <1>14, Zenon DEF NewRequest, RequestStep

-----------------------------------------------------------------------------
(* Each part of the invariant is kept by every step of every thread        *)

\* Every variable keeps its type.
LEMMA TypeStep ==
    ASSUME IInv, NEW t \in Threads, NewRequest(t) \/ RequestStep(t)
    PROVE  TypeOK'
<1>. USE DEF IInv, TypeOK, ThreadInv, PCs, Creating, Stepping, Closing, Actions,
           Goto, Begin, Return, Unlock, slotVars, incidentVars, shutVars
<1>1. ASSUME NEW e \in Envs, NEW a \in Actions, LookupFinds(t, e, a)  PROVE TypeOK'
  BY <1>1 DEF LookupFinds, Pruned
<1>2. ASSUME NEW e \in Envs, Create(t, e)  PROVE TypeOK'
  BY <1>2 DEF Create
<1>3. ASSUME NEW e \in Envs, Deleted(t, e)  PROVE TypeOK'
  BY <1>3 DEF Deleted
<1>4. ASSUME NEW e \in Envs, ShutdownTakesSlot(t, e)  PROVE TypeOK'
  BY <1>4 DEF ShutdownTakesSlot
<1>5. ASSUME NEW e \in Envs, ShutdownSkipsSlot(t, e)  PROVE TypeOK'
  BY <1>5 DEF ShutdownSkipsSlot
<1>6. ASSUME NEW e \in Envs, ShutdownForgets(t, e)  PROVE TypeOK'
  BY <1>6 DEF ShutdownForgets
<1>7. ASSUME NEW e \in Envs, ShutdownTakesEnv(t, e)  PROVE TypeOK'
  BY <1>7 DEF ShutdownTakesEnv
<1>8. CASE IncidentReady(t)
  BY <1>8 DEF IncidentReady
<1>9. CASE IncidentBroken(t)
  BY <1>9 DEF IncidentBroken
<1>10. CASE SessionOpens(t)
  BY <1>10 DEF SessionOpens
<1>11. CASE SessionFails(t)
  BY <1>11 DEF SessionFails
<1>12. CASE ListsLive(t)
  BY <1>12 DEF ListsLive, Pruned
<1>13. CASE ListsBroken(t)
  BY <1>13 DEF ListsBroken, Pruned
<1>14. CASE EntersSlot(t)
  BY <1>14 DEF EntersSlot
<1>15. CASE FindsSlotDead(t)
  BY <1>15 DEF FindsSlotDead
<1>16. CASE Refuse(t)
  BY <1>16 DEF Refuse
<1>17. CASE EndSession(t)
  BY <1>17 DEF EndSession, SessionUsable
<1>18. CASE ToolRuns(t)
  BY <1>18 DEF ToolRuns, SessionUsable
<1>19. CASE ToolInvalid(t)
  BY <1>19 DEF ToolInvalid, SessionUsable
<1>20. CASE ToolReturns(t)
  BY <1>20 DEF ToolReturns
<1>21. CASE StartSubmit(t)
  BY <1>21 DEF StartSubmit, SessionUsable
<1>22. CASE SubmitEvaluated(t)
  BY <1>22 DEF SubmitEvaluated
<1>23. CASE SubmitFails(t)
  BY <1>23 DEF SubmitFails
<1>24. CASE CloseSkips(t)
  BY <1>24 DEF CloseSkips, Finished
<1>25. CASE CloseStarts(t)
  BY <1>25 DEF CloseStarts, Finished
<1>26. CASE FinishSucceeds(t)
  BY <1>26 DEF FinishSucceeds
<1>27. CASE FinishFails(t)
  BY <1>27 DEF FinishFails
<1>28. CASE Terminated(t)
  <2>1. /\ env[t] \in Envs /\ env[t] \in hasEnv \ terminal
        /\ incident[env[t]] \notin {"none", "preparing"}
    BY <1>28, HolderIsLive DEF Terminated
  <2>2. outcomes[env[t]] + 1 \in Nat
    BY <2>1
  <2>. QED  BY <1>28, <2>1, <2>2 DEF Terminated, Pruned
<1>29. CASE DeleteCloses(t)
  BY <1>29 DEF DeleteCloses
<1>30. CASE DeleteFindsEmpty(t)
  BY <1>30 DEF DeleteFindsEmpty
<1>31. CASE DeleteEnds(t)
  BY <1>31 DEF DeleteEnds
<1>32. CASE ShutdownBegin(t)
  BY <1>32 DEF ShutdownBegin
<1>33. CASE ShutdownManager(t)
  BY <1>33 DEF ShutdownManager
<1>34. CASE ShutdownReleases(t)
  BY <1>34 DEF ShutdownReleases
<1>35. CASE ShutdownGoesOn(t)
  BY <1>35 DEF ShutdownGoesOn
<1>36. CASE ShutdownEnd(t)
  BY <1>36 DEF ShutdownEnd
<1>37. CASE LookupMisses(t)
  BY <1>37 DEF LookupMisses, Pruned
<1>. HIDE DEF IInv, TypeOK, ThreadInv, PCs, Creating, Stepping, Closing, Actions
<1>. QED
  BY StepCases, <1>1, <1>2, <1>3, <1>4, <1>5, <1>6, <1>7, <1>8, <1>9, <1>10, <1>11, <1>12, <1>13, <1>14, <1>15, <1>16, <1>17, <1>18, <1>19, <1>20, <1>21, <1>22, <1>23, <1>24, <1>25, <1>26, <1>27, <1>28, <1>29, <1>30, <1>31, <1>32, <1>33, <1>34, <1>35, <1>36, <1>37, Zenon

\* A thread keeps to the course of its request.
LEMMA ThreadStep ==
    ASSUME IInv, NEW t \in Threads, NewRequest(t) \/ RequestStep(t)
    PROVE  ThreadInv'
<1>. USE DEF IInv, TypeOK, ThreadInv, Creating, Stepping, Closing, Actions,
           Goto, Begin, Return, Unlock, slotVars, incidentVars, shutVars
<1>1. ASSUME NEW e \in Envs, NEW a \in Actions, LookupFinds(t, e, a)  PROVE ThreadInv'
  BY <1>1 DEF LookupFinds, Pruned
<1>2. ASSUME NEW e \in Envs, Create(t, e)  PROVE ThreadInv'
  BY <1>2 DEF Create
<1>3. ASSUME NEW e \in Envs, Deleted(t, e)  PROVE ThreadInv'
  BY <1>3 DEF Deleted
<1>4. ASSUME NEW e \in Envs, ShutdownTakesSlot(t, e)  PROVE ThreadInv'
  BY <1>4 DEF ShutdownTakesSlot
<1>5. ASSUME NEW e \in Envs, ShutdownSkipsSlot(t, e)  PROVE ThreadInv'
  BY <1>5 DEF ShutdownSkipsSlot
<1>6. ASSUME NEW e \in Envs, ShutdownForgets(t, e)  PROVE ThreadInv'
  BY <1>6 DEF ShutdownForgets
<1>7. ASSUME NEW e \in Envs, ShutdownTakesEnv(t, e)  PROVE ThreadInv'
  BY <1>7 DEF ShutdownTakesEnv
<1>8. CASE IncidentReady(t)
  BY <1>8 DEF IncidentReady
<1>9. CASE IncidentBroken(t)
  BY <1>9 DEF IncidentBroken
<1>10. CASE SessionOpens(t)
  BY <1>10 DEF SessionOpens
<1>11. CASE SessionFails(t)
  BY <1>11 DEF SessionFails
<1>12. CASE ListsLive(t)
  BY <1>12 DEF ListsLive, Pruned
<1>13. CASE ListsBroken(t)
  BY <1>13 DEF ListsBroken, Pruned
<1>14. CASE EntersSlot(t)
  BY <1>14 DEF EntersSlot
<1>15. CASE FindsSlotDead(t)
  BY <1>15 DEF FindsSlotDead
<1>16. CASE Refuse(t)
  BY <1>16 DEF Refuse
<1>17. CASE EndSession(t)
  BY <1>17 DEF EndSession, SessionUsable
<1>18. CASE ToolRuns(t)
  BY <1>18 DEF ToolRuns, SessionUsable
<1>19. CASE ToolInvalid(t)
  BY <1>19 DEF ToolInvalid, SessionUsable
<1>20. CASE ToolReturns(t)
  BY <1>20 DEF ToolReturns
<1>21. CASE StartSubmit(t)
  BY <1>21 DEF StartSubmit, SessionUsable
<1>22. CASE SubmitEvaluated(t)
  BY <1>22 DEF SubmitEvaluated
<1>23. CASE SubmitFails(t)
  BY <1>23 DEF SubmitFails
<1>24. CASE CloseSkips(t)
  BY <1>24 DEF CloseSkips, Finished
<1>25. CASE CloseStarts(t)
  BY <1>25 DEF CloseStarts, Finished
<1>26. CASE FinishSucceeds(t)
  BY <1>26 DEF FinishSucceeds
<1>27. CASE FinishFails(t)
  BY <1>27 DEF FinishFails
<1>28. CASE Terminated(t)
  BY <1>28 DEF Terminated, Pruned
<1>29. CASE DeleteCloses(t)
  BY <1>29 DEF DeleteCloses
<1>30. CASE DeleteFindsEmpty(t)
  BY <1>30 DEF DeleteFindsEmpty
<1>31. CASE DeleteEnds(t)
  BY <1>31 DEF DeleteEnds
<1>32. CASE ShutdownBegin(t)
  BY <1>32 DEF ShutdownBegin
<1>33. CASE ShutdownManager(t)
  BY <1>33 DEF ShutdownManager
<1>34. CASE ShutdownReleases(t)
  BY <1>34 DEF ShutdownReleases
<1>35. CASE ShutdownGoesOn(t)
  BY <1>35 DEF ShutdownGoesOn
<1>36. CASE ShutdownEnd(t)
  BY <1>36 DEF ShutdownEnd
<1>37. CASE LookupMisses(t)
  BY <1>37 DEF LookupMisses, Pruned
<1>. HIDE DEF IInv, TypeOK, ThreadInv, Creating, Stepping, Closing, Actions
<1>. QED
  BY StepCases, <1>1, <1>2, <1>3, <1>4, <1>5, <1>6, <1>7, <1>8, <1>9, <1>10, <1>11, <1>12, <1>13, <1>14, <1>15, <1>16, <1>17, <1>18, <1>19, <1>20, <1>21, <1>22, <1>23, <1>24, <1>25, <1>26, <1>27, <1>28, <1>29, <1>30, <1>31, <1>32, <1>33, <1>34, <1>35, <1>36, <1>37, Zenon

\* The lock of a slot protects its environment.
LEMMA LockStep ==
    ASSUME IInv, NEW t \in Threads, NewRequest(t) \/ RequestStep(t)
    PROVE  LockInv'
<1>. USE DEF IInv, TypeOK, ThreadInv, LockInv, Creating, Stepping, Closing, Actions,
           Goto, Begin, Return, Unlock, slotVars, incidentVars, shutVars
<1>1. ASSUME NEW e \in Envs, NEW a \in Actions, LookupFinds(t, e, a)  PROVE LockInv'
  BY <1>1, ServiceAssumption DEF LookupFinds, Pruned
<1>2. ASSUME NEW e \in Envs, Create(t, e)  PROVE LockInv'
  BY <1>2, ServiceAssumption DEF Create
<1>3. ASSUME NEW e \in Envs, Deleted(t, e)  PROVE LockInv'
  BY <1>3, ServiceAssumption DEF Deleted
<1>4. ASSUME NEW e \in Envs, ShutdownTakesSlot(t, e)  PROVE LockInv'
  BY <1>4, ServiceAssumption DEF ShutdownTakesSlot
<1>5. ASSUME NEW e \in Envs, ShutdownSkipsSlot(t, e)  PROVE LockInv'
  BY <1>5, ServiceAssumption DEF ShutdownSkipsSlot
<1>6. ASSUME NEW e \in Envs, ShutdownForgets(t, e)  PROVE LockInv'
  BY <1>6, ServiceAssumption DEF ShutdownForgets
<1>7. ASSUME NEW e \in Envs, ShutdownTakesEnv(t, e)  PROVE LockInv'
  BY <1>7, ServiceAssumption DEF ShutdownTakesEnv
<1>8. CASE IncidentReady(t)
  BY <1>8, ServiceAssumption DEF IncidentReady
<1>9. CASE IncidentBroken(t)
  BY <1>9, ServiceAssumption DEF IncidentBroken
<1>10. CASE SessionOpens(t)
  BY <1>10, ServiceAssumption DEF SessionOpens
<1>11. CASE SessionFails(t)
  BY <1>11, ServiceAssumption DEF SessionFails
<1>12. CASE ListsLive(t)
  BY <1>12, ServiceAssumption DEF ListsLive, Pruned
<1>13. CASE ListsBroken(t)
  BY <1>13, ServiceAssumption DEF ListsBroken, Pruned
<1>14. CASE EntersSlot(t)
  BY <1>14, ServiceAssumption DEF EntersSlot
<1>15. CASE FindsSlotDead(t)
  BY <1>15, ServiceAssumption DEF FindsSlotDead
<1>16. CASE Refuse(t)
  BY <1>16, ServiceAssumption DEF Refuse
<1>17. CASE EndSession(t)
  BY <1>17, ServiceAssumption DEF EndSession, SessionUsable
<1>18. CASE ToolRuns(t)
  BY <1>18, ServiceAssumption DEF ToolRuns, SessionUsable
<1>19. CASE ToolInvalid(t)
  BY <1>19, ServiceAssumption DEF ToolInvalid, SessionUsable
<1>20. CASE ToolReturns(t)
  BY <1>20, ServiceAssumption DEF ToolReturns
<1>21. CASE StartSubmit(t)
  BY <1>21, ServiceAssumption DEF StartSubmit, SessionUsable
<1>22. CASE SubmitEvaluated(t)
  BY <1>22, ServiceAssumption DEF SubmitEvaluated
<1>23. CASE SubmitFails(t)
  BY <1>23, ServiceAssumption DEF SubmitFails
<1>24. CASE CloseSkips(t)
  BY <1>24, ServiceAssumption DEF CloseSkips, Finished
<1>25. CASE CloseStarts(t)
  BY <1>25, ServiceAssumption DEF CloseStarts, Finished
<1>26. CASE FinishSucceeds(t)
  BY <1>26, ServiceAssumption DEF FinishSucceeds
<1>27. CASE FinishFails(t)
  BY <1>27, ServiceAssumption DEF FinishFails
<1>28. CASE Terminated(t)
  BY <1>28, ServiceAssumption DEF Terminated, Pruned
<1>29. CASE DeleteCloses(t)
  BY <1>29, ServiceAssumption DEF DeleteCloses
<1>30. CASE DeleteFindsEmpty(t)
  BY <1>30, ServiceAssumption DEF DeleteFindsEmpty
<1>31. CASE DeleteEnds(t)
  BY <1>31, ServiceAssumption DEF DeleteEnds
<1>32. CASE ShutdownBegin(t)
  BY <1>32, ServiceAssumption DEF ShutdownBegin
<1>33. CASE ShutdownManager(t)
  BY <1>33, ServiceAssumption DEF ShutdownManager
<1>34. CASE ShutdownReleases(t)
  BY <1>34, ServiceAssumption DEF ShutdownReleases
<1>35. CASE ShutdownGoesOn(t)
  BY <1>35, ServiceAssumption DEF ShutdownGoesOn
<1>36. CASE ShutdownEnd(t)
  BY <1>36, ServiceAssumption DEF ShutdownEnd
<1>37. CASE LookupMisses(t)
  BY <1>37, ServiceAssumption DEF LookupMisses, Pruned
<1>. HIDE DEF IInv, TypeOK, ThreadInv, LockInv, Creating, Stepping, Closing, Actions
<1>. QED
  BY StepCases, <1>1, <1>2, <1>3, <1>4, <1>5, <1>6, <1>7, <1>8, <1>9, <1>10, <1>11, <1>12, <1>13, <1>14, <1>15, <1>16, <1>17, <1>18, <1>19, <1>20, <1>21, <1>22, <1>23, <1>24, <1>25, <1>26, <1>27, <1>28, <1>29, <1>30, <1>31, <1>32, <1>33, <1>34, <1>35, <1>36, <1>37, Zenon

\* A slot gets its environment with a session, and gives it up when it is terminal.
LEMMA SlotStep ==
    ASSUME IInv, NEW t \in Threads, NewRequest(t) \/ RequestStep(t)
    PROVE  SlotInv'
<1>. USE DEF IInv, TypeOK, ThreadInv, LockInv, SlotInv, CreateInv, Creating, Stepping, Closing, Actions,
           Goto, Begin, Return, Unlock, slotVars, incidentVars, shutVars
<1>1. ASSUME NEW e \in Envs, NEW a \in Actions, LookupFinds(t, e, a)  PROVE SlotInv'
  BY <1>1, ServiceAssumption DEF LookupFinds, Pruned
<1>2. ASSUME NEW e \in Envs, Create(t, e)  PROVE SlotInv'
  BY <1>2, ServiceAssumption DEF Create
<1>3. ASSUME NEW e \in Envs, Deleted(t, e)  PROVE SlotInv'
  BY <1>3, ServiceAssumption DEF Deleted
<1>4. ASSUME NEW e \in Envs, ShutdownTakesSlot(t, e)  PROVE SlotInv'
  BY <1>4, ServiceAssumption DEF ShutdownTakesSlot
<1>5. ASSUME NEW e \in Envs, ShutdownSkipsSlot(t, e)  PROVE SlotInv'
  BY <1>5, ServiceAssumption DEF ShutdownSkipsSlot
<1>6. ASSUME NEW e \in Envs, ShutdownForgets(t, e)  PROVE SlotInv'
  BY <1>6, ServiceAssumption DEF ShutdownForgets
<1>7. ASSUME NEW e \in Envs, ShutdownTakesEnv(t, e)  PROVE SlotInv'
  BY <1>7, ServiceAssumption DEF ShutdownTakesEnv
<1>8. CASE IncidentReady(t)
  BY <1>8, ServiceAssumption DEF IncidentReady
<1>9. CASE IncidentBroken(t)
  BY <1>9, ServiceAssumption DEF IncidentBroken
<1>10. CASE SessionOpens(t)
  BY <1>10, ServiceAssumption DEF SessionOpens
<1>11. CASE SessionFails(t)
  BY <1>11, ServiceAssumption DEF SessionFails
<1>12. CASE ListsLive(t)
  BY <1>12, ServiceAssumption DEF ListsLive, Pruned
<1>13. CASE ListsBroken(t)
  BY <1>13, ServiceAssumption DEF ListsBroken, Pruned
<1>14. CASE EntersSlot(t)
  BY <1>14, ServiceAssumption DEF EntersSlot
<1>15. CASE FindsSlotDead(t)
  BY <1>15, ServiceAssumption DEF FindsSlotDead
<1>16. CASE Refuse(t)
  BY <1>16, ServiceAssumption DEF Refuse
<1>17. CASE EndSession(t)
  BY <1>17, ServiceAssumption DEF EndSession, SessionUsable
<1>18. CASE ToolRuns(t)
  BY <1>18, ServiceAssumption DEF ToolRuns, SessionUsable
<1>19. CASE ToolInvalid(t)
  BY <1>19, ServiceAssumption DEF ToolInvalid, SessionUsable
<1>20. CASE ToolReturns(t)
  BY <1>20, ServiceAssumption DEF ToolReturns
<1>21. CASE StartSubmit(t)
  BY <1>21, ServiceAssumption DEF StartSubmit, SessionUsable
<1>22. CASE SubmitEvaluated(t)
  BY <1>22, ServiceAssumption DEF SubmitEvaluated
<1>23. CASE SubmitFails(t)
  BY <1>23, ServiceAssumption DEF SubmitFails
<1>24. CASE CloseSkips(t)
  BY <1>24, ServiceAssumption DEF CloseSkips, Finished
<1>25. CASE CloseStarts(t)
  BY <1>25, ServiceAssumption DEF CloseStarts, Finished
<1>26. CASE FinishSucceeds(t)
  BY <1>26, ServiceAssumption DEF FinishSucceeds
<1>27. CASE FinishFails(t)
  BY <1>27, ServiceAssumption DEF FinishFails
<1>28. CASE Terminated(t)
  <2>1. /\ env[t] \in Envs /\ env[t] \in hasEnv \ terminal
        /\ incident[env[t]] \notin {"none", "preparing"}
    BY <1>28, HolderIsLive DEF Terminated
  <2>. QED  BY <1>28, <2>1 DEF Terminated, Pruned
<1>29. CASE DeleteCloses(t)
  BY <1>29, ServiceAssumption DEF DeleteCloses
<1>30. CASE DeleteFindsEmpty(t)
  BY <1>30, ServiceAssumption DEF DeleteFindsEmpty
<1>31. CASE DeleteEnds(t)
  BY <1>31, ServiceAssumption DEF DeleteEnds
<1>32. CASE ShutdownBegin(t)
  BY <1>32, ServiceAssumption DEF ShutdownBegin
<1>33. CASE ShutdownManager(t)
  BY <1>33, ServiceAssumption DEF ShutdownManager
<1>34. CASE ShutdownReleases(t)
  BY <1>34, ServiceAssumption DEF ShutdownReleases
<1>35. CASE ShutdownGoesOn(t)
  BY <1>35, ServiceAssumption DEF ShutdownGoesOn
<1>36. CASE ShutdownEnd(t)
  BY <1>36, ServiceAssumption DEF ShutdownEnd
<1>37. CASE LookupMisses(t)
  BY <1>37, ServiceAssumption DEF LookupMisses, Pruned
<1>. HIDE DEF IInv, TypeOK, ThreadInv, LockInv, SlotInv, CreateInv, Creating, Stepping, Closing, Actions
<1>. QED
  BY StepCases, <1>1, <1>2, <1>3, <1>4, <1>5, <1>6, <1>7, <1>8, <1>9, <1>10, <1>11, <1>12, <1>13, <1>14, <1>15, <1>16, <1>17, <1>18, <1>19, <1>20, <1>21, <1>22, <1>23, <1>24, <1>25, <1>26, <1>27, <1>28, <1>29, <1>30, <1>31, <1>32, <1>33, <1>34, <1>35, <1>36, <1>37, Zenon

\* Nobody else reaches the environment that a thread is creating.
LEMMA CreateStep ==
    ASSUME IInv, NEW t \in Threads, NewRequest(t) \/ RequestStep(t)
    PROVE  CreateInv'
<1>. USE DEF IInv, TypeOK, ThreadInv, LockInv, SlotInv, CreateInv, Creating, Stepping, Closing, Actions,
           Goto, Begin, Return, Unlock, slotVars, incidentVars, shutVars
<1>1. ASSUME NEW e \in Envs, NEW a \in Actions, LookupFinds(t, e, a)  PROVE CreateInv'
  BY <1>1, ServiceAssumption DEF LookupFinds, Pruned
<1>2. ASSUME NEW e \in Envs, Create(t, e)  PROVE CreateInv'
  BY <1>2, ServiceAssumption DEF Create
<1>3. ASSUME NEW e \in Envs, Deleted(t, e)  PROVE CreateInv'
  BY <1>3, ServiceAssumption DEF Deleted
<1>4. ASSUME NEW e \in Envs, ShutdownTakesSlot(t, e)  PROVE CreateInv'
  BY <1>4, ServiceAssumption DEF ShutdownTakesSlot
<1>5. ASSUME NEW e \in Envs, ShutdownSkipsSlot(t, e)  PROVE CreateInv'
  BY <1>5, ServiceAssumption DEF ShutdownSkipsSlot
<1>6. ASSUME NEW e \in Envs, ShutdownForgets(t, e)  PROVE CreateInv'
  BY <1>6, ServiceAssumption DEF ShutdownForgets
<1>7. ASSUME NEW e \in Envs, ShutdownTakesEnv(t, e)  PROVE CreateInv'
  BY <1>7, ServiceAssumption DEF ShutdownTakesEnv
<1>8. CASE IncidentReady(t)
  BY <1>8, ServiceAssumption DEF IncidentReady
<1>9. CASE IncidentBroken(t)
  BY <1>9, ServiceAssumption DEF IncidentBroken
<1>10. CASE SessionOpens(t)
  BY <1>10, ServiceAssumption DEF SessionOpens
<1>11. CASE SessionFails(t)
  BY <1>11, ServiceAssumption DEF SessionFails
<1>12. CASE ListsLive(t)
  BY <1>12, ServiceAssumption DEF ListsLive, Pruned
<1>13. CASE ListsBroken(t)
  BY <1>13, ServiceAssumption DEF ListsBroken, Pruned
<1>14. CASE EntersSlot(t)
  BY <1>14, ServiceAssumption DEF EntersSlot
<1>15. CASE FindsSlotDead(t)
  BY <1>15, ServiceAssumption DEF FindsSlotDead
<1>16. CASE Refuse(t)
  BY <1>16, ServiceAssumption DEF Refuse
<1>17. CASE EndSession(t)
  BY <1>17, ServiceAssumption DEF EndSession, SessionUsable
<1>18. CASE ToolRuns(t)
  BY <1>18, ServiceAssumption DEF ToolRuns, SessionUsable
<1>19. CASE ToolInvalid(t)
  BY <1>19, ServiceAssumption DEF ToolInvalid, SessionUsable
<1>20. CASE ToolReturns(t)
  BY <1>20, ServiceAssumption DEF ToolReturns
<1>21. CASE StartSubmit(t)
  BY <1>21, ServiceAssumption DEF StartSubmit, SessionUsable
<1>22. CASE SubmitEvaluated(t)
  BY <1>22, ServiceAssumption DEF SubmitEvaluated
<1>23. CASE SubmitFails(t)
  BY <1>23, ServiceAssumption DEF SubmitFails
<1>24. CASE CloseSkips(t)
  BY <1>24, ServiceAssumption DEF CloseSkips, Finished
<1>25. CASE CloseStarts(t)
  BY <1>25, ServiceAssumption DEF CloseStarts, Finished
<1>26. CASE FinishSucceeds(t)
  BY <1>26, ServiceAssumption DEF FinishSucceeds
<1>27. CASE FinishFails(t)
  BY <1>27, ServiceAssumption DEF FinishFails
<1>28. CASE Terminated(t)
  <2>1. /\ env[t] \in Envs /\ env[t] \in hasEnv \ terminal
        /\ incident[env[t]] \notin {"none", "preparing"}
    BY <1>28, HolderIsLive DEF Terminated
  <2>. QED  BY <1>28, <2>1 DEF Terminated, Pruned
<1>29. CASE DeleteCloses(t)
  BY <1>29, ServiceAssumption DEF DeleteCloses
<1>30. CASE DeleteFindsEmpty(t)
  BY <1>30, ServiceAssumption DEF DeleteFindsEmpty
<1>31. CASE DeleteEnds(t)
  BY <1>31, ServiceAssumption DEF DeleteEnds
<1>32. CASE ShutdownBegin(t)
  BY <1>32, ServiceAssumption DEF ShutdownBegin
<1>33. CASE ShutdownManager(t)
  BY <1>33, ServiceAssumption DEF ShutdownManager
<1>34. CASE ShutdownReleases(t)
  BY <1>34, ServiceAssumption DEF ShutdownReleases
<1>35. CASE ShutdownGoesOn(t)
  BY <1>35, ServiceAssumption DEF ShutdownGoesOn
<1>36. CASE ShutdownEnd(t)
  BY <1>36, ServiceAssumption DEF ShutdownEnd
<1>37. CASE LookupMisses(t)
  BY <1>37, ServiceAssumption DEF LookupMisses, Pruned
<1>. HIDE DEF IInv, TypeOK, ThreadInv, LockInv, SlotInv, CreateInv, Creating, Stepping, Closing, Actions
<1>. QED
  BY StepCases, <1>1, <1>2, <1>3, <1>4, <1>5, <1>6, <1>7, <1>8, <1>9, <1>10, <1>11, <1>12, <1>13, <1>14, <1>15, <1>16, <1>17, <1>18, <1>19, <1>20, <1>21, <1>22, <1>23, <1>24, <1>25, <1>26, <1>27, <1>28, <1>29, <1>30, <1>31, <1>32, <1>33, <1>34, <1>35, <1>36, <1>37, Zenon

\* The thread that finishes a backend is alone, and nobody finishes it again.
LEMMA FinishStep ==
    ASSUME IInv, NEW t \in Threads, NewRequest(t) \/ RequestStep(t)
    PROVE  FinishInv'
<1>. USE DEF IInv, TypeOK, ThreadInv, CreateInv, FinishInv, Creating, Stepping, Closing, Actions,
           Goto, Begin, Return, Unlock, slotVars, incidentVars, shutVars
<1>1. ASSUME NEW e \in Envs, NEW a \in Actions, LookupFinds(t, e, a)  PROVE FinishInv'
  BY <1>1 DEF LookupFinds, Pruned
<1>2. ASSUME NEW e \in Envs, Create(t, e)  PROVE FinishInv'
  BY <1>2 DEF Create
<1>3. ASSUME NEW e \in Envs, Deleted(t, e)  PROVE FinishInv'
  BY <1>3 DEF Deleted
<1>4. ASSUME NEW e \in Envs, ShutdownTakesSlot(t, e)  PROVE FinishInv'
  BY <1>4 DEF ShutdownTakesSlot
<1>5. ASSUME NEW e \in Envs, ShutdownSkipsSlot(t, e)  PROVE FinishInv'
  BY <1>5 DEF ShutdownSkipsSlot
<1>6. ASSUME NEW e \in Envs, ShutdownForgets(t, e)  PROVE FinishInv'
  BY <1>6 DEF ShutdownForgets
<1>7. ASSUME NEW e \in Envs, ShutdownTakesEnv(t, e)  PROVE FinishInv'
  BY <1>7 DEF ShutdownTakesEnv
<1>8. CASE IncidentReady(t)
  BY <1>8 DEF IncidentReady
<1>9. CASE IncidentBroken(t)
  BY <1>9 DEF IncidentBroken
<1>10. CASE SessionOpens(t)
  BY <1>10 DEF SessionOpens
<1>11. CASE SessionFails(t)
  BY <1>11 DEF SessionFails
<1>12. CASE ListsLive(t)
  BY <1>12 DEF ListsLive, Pruned
<1>13. CASE ListsBroken(t)
  BY <1>13 DEF ListsBroken, Pruned
<1>14. CASE EntersSlot(t)
  BY <1>14 DEF EntersSlot
<1>15. CASE FindsSlotDead(t)
  BY <1>15 DEF FindsSlotDead
<1>16. CASE Refuse(t)
  BY <1>16 DEF Refuse
<1>17. CASE EndSession(t)
  BY <1>17 DEF EndSession, SessionUsable
<1>18. CASE ToolRuns(t)
  BY <1>18 DEF ToolRuns, SessionUsable
<1>19. CASE ToolInvalid(t)
  BY <1>19 DEF ToolInvalid, SessionUsable
<1>20. CASE ToolReturns(t)
  BY <1>20 DEF ToolReturns
<1>21. CASE StartSubmit(t)
  BY <1>21 DEF StartSubmit, SessionUsable
<1>22. CASE SubmitEvaluated(t)
  BY <1>22 DEF SubmitEvaluated
<1>23. CASE SubmitFails(t)
  BY <1>23 DEF SubmitFails
<1>24. CASE CloseSkips(t)
  BY <1>24 DEF CloseSkips, Finished
<1>25. CASE CloseStarts(t)
  BY <1>25 DEF CloseStarts, Finished
<1>26. CASE FinishSucceeds(t)
  BY <1>26 DEF FinishSucceeds
<1>27. CASE FinishFails(t)
  BY <1>27 DEF FinishFails
<1>28. CASE Terminated(t)
  BY <1>28 DEF Terminated, Pruned
<1>29. CASE DeleteCloses(t)
  BY <1>29 DEF DeleteCloses
<1>30. CASE DeleteFindsEmpty(t)
  BY <1>30 DEF DeleteFindsEmpty
<1>31. CASE DeleteEnds(t)
  BY <1>31 DEF DeleteEnds
<1>32. CASE ShutdownBegin(t)
  BY <1>32 DEF ShutdownBegin
<1>33. CASE ShutdownManager(t)
  BY <1>33 DEF ShutdownManager
<1>34. CASE ShutdownReleases(t)
  BY <1>34 DEF ShutdownReleases
<1>35. CASE ShutdownGoesOn(t)
  BY <1>35 DEF ShutdownGoesOn
<1>36. CASE ShutdownEnd(t)
  BY <1>36 DEF ShutdownEnd
<1>37. CASE LookupMisses(t)
  BY <1>37 DEF LookupMisses, Pruned
<1>. HIDE DEF IInv, TypeOK, ThreadInv, CreateInv, FinishInv, Creating, Stepping, Closing, Actions
<1>. QED
  BY StepCases, <1>1, <1>2, <1>3, <1>4, <1>5, <1>6, <1>7, <1>8, <1>9, <1>10, <1>11, <1>12, <1>13, <1>14, <1>15, <1>16, <1>17, <1>18, <1>19, <1>20, <1>21, <1>22, <1>23, <1>24, <1>25, <1>26, <1>27, <1>28, <1>29, <1>30, <1>31, <1>32, <1>33, <1>34, <1>35, <1>36, <1>37, Zenon

\* A slot that gave its outcome stays terminal.
LEMMA OutcomeStep ==
    ASSUME IInv, NEW t \in Threads, NewRequest(t) \/ RequestStep(t)
    PROVE  OutcomeInv'
<1>. USE DEF IInv, TypeOK, OutcomeInv,
           Goto, Begin, Return, Unlock, slotVars, incidentVars, shutVars
<1>1. ASSUME NEW e \in Envs, NEW a \in Actions, LookupFinds(t, e, a)  PROVE OutcomeInv'
  BY <1>1 DEF LookupFinds, Pruned
<1>2. ASSUME NEW e \in Envs, Create(t, e)  PROVE OutcomeInv'
  BY <1>2 DEF Create
<1>3. ASSUME NEW e \in Envs, Deleted(t, e)  PROVE OutcomeInv'
  BY <1>3 DEF Deleted
<1>4. ASSUME NEW e \in Envs, ShutdownTakesSlot(t, e)  PROVE OutcomeInv'
  BY <1>4 DEF ShutdownTakesSlot
<1>5. ASSUME NEW e \in Envs, ShutdownSkipsSlot(t, e)  PROVE OutcomeInv'
  BY <1>5 DEF ShutdownSkipsSlot
<1>6. ASSUME NEW e \in Envs, ShutdownForgets(t, e)  PROVE OutcomeInv'
  BY <1>6 DEF ShutdownForgets
<1>7. ASSUME NEW e \in Envs, ShutdownTakesEnv(t, e)  PROVE OutcomeInv'
  BY <1>7 DEF ShutdownTakesEnv
<1>8. CASE ListsBroken(t)
  BY <1>8 DEF ListsBroken, Pruned
<1>9. CASE Terminated(t)
  <2>1. /\ env[t] \in Envs /\ env[t] \in hasEnv \ terminal
        /\ incident[env[t]] \notin {"none", "preparing"}
    BY <1>9, HolderIsLive DEF Terminated, Closing, Actions
  <2>2. outcomes[env[t]] = 0
    BY <2>1
  <2>. QED  BY <1>9, <2>1, <2>2 DEF Terminated
<1>10. CASE \/ IncidentReady(t) \/ IncidentBroken(t) \/ SessionOpens(t) \/ SessionFails(t)
          \/ ListsLive(t) \/ EntersSlot(t) \/ FindsSlotDead(t) \/ Refuse(t)
          \/ EndSession(t) \/ ToolRuns(t) \/ ToolInvalid(t) \/ ToolReturns(t)
          \/ StartSubmit(t) \/ SubmitEvaluated(t) \/ SubmitFails(t) \/ CloseSkips(t)
          \/ CloseStarts(t) \/ FinishSucceeds(t) \/ FinishFails(t) \/ DeleteCloses(t)
          \/ DeleteFindsEmpty(t) \/ DeleteEnds(t) \/ ShutdownBegin(t) \/ ShutdownManager(t)
          \/ ShutdownReleases(t) \/ ShutdownGoesOn(t) \/ ShutdownEnd(t) \/ LookupMisses(t)
  BY <1>10 DEF IncidentReady, IncidentBroken, SessionOpens, SessionFails, ListsLive, EntersSlot, FindsSlotDead, Refuse, EndSession, ToolRuns, ToolInvalid, ToolReturns, StartSubmit, SubmitEvaluated, SubmitFails, CloseSkips, CloseStarts, FinishSucceeds, FinishFails, DeleteCloses, DeleteFindsEmpty, DeleteEnds, ShutdownBegin, ShutdownManager, ShutdownReleases, ShutdownGoesOn, ShutdownEnd, LookupMisses, SessionUsable, Finished
<1>. HIDE DEF IInv, TypeOK, OutcomeInv
<1>. QED
  BY StepCases, <1>1, <1>2, <1>3, <1>4, <1>5, <1>6, <1>7, <1>8, <1>9, <1>10, Zenon

\* An environment that leaves its slot was closed.
LEMMA RetiredStep ==
    ASSUME IInv, NEW t \in Threads, NewRequest(t) \/ RequestStep(t)
    PROVE  RetiredInv'
<1>. USE DEF IInv, TypeOK, ThreadInv, LockInv, SlotInv, CreateInv, FinishInv, RetiredInv, Creating, Stepping, Closing, Actions,
           Goto, Begin, Return, Unlock, slotVars, incidentVars, shutVars
<1>1. ASSUME NEW e \in Envs, NEW a \in Actions, LookupFinds(t, e, a)  PROVE RetiredInv'
  BY <1>1, ServiceAssumption DEF LookupFinds, Pruned
<1>2. ASSUME NEW e \in Envs, Create(t, e)  PROVE RetiredInv'
  BY <1>2, ServiceAssumption DEF Create
<1>3. ASSUME NEW e \in Envs, Deleted(t, e)  PROVE RetiredInv'
  BY <1>3, ServiceAssumption DEF Deleted
<1>4. ASSUME NEW e \in Envs, ShutdownTakesSlot(t, e)  PROVE RetiredInv'
  BY <1>4, ServiceAssumption DEF ShutdownTakesSlot
<1>5. ASSUME NEW e \in Envs, ShutdownSkipsSlot(t, e)  PROVE RetiredInv'
  BY <1>5, ServiceAssumption DEF ShutdownSkipsSlot
<1>6. ASSUME NEW e \in Envs, ShutdownForgets(t, e)  PROVE RetiredInv'
  BY <1>6, ServiceAssumption DEF ShutdownForgets
<1>7. ASSUME NEW e \in Envs, ShutdownTakesEnv(t, e)  PROVE RetiredInv'
  BY <1>7, ServiceAssumption DEF ShutdownTakesEnv
<1>8. CASE IncidentReady(t)
  BY <1>8, ServiceAssumption DEF IncidentReady
<1>9. CASE IncidentBroken(t)
  BY <1>9, ServiceAssumption DEF IncidentBroken
<1>10. CASE SessionOpens(t)
  BY <1>10, ServiceAssumption DEF SessionOpens
<1>11. CASE SessionFails(t)
  BY <1>11, ServiceAssumption DEF SessionFails
<1>12. CASE ListsLive(t)
  BY <1>12, ServiceAssumption DEF ListsLive, Pruned
<1>13. CASE ListsBroken(t)
  BY <1>13, ServiceAssumption DEF ListsBroken, Pruned
<1>14. CASE EntersSlot(t)
  BY <1>14, ServiceAssumption DEF EntersSlot
<1>15. CASE FindsSlotDead(t)
  BY <1>15, ServiceAssumption DEF FindsSlotDead
<1>16. CASE Refuse(t)
  BY <1>16, ServiceAssumption DEF Refuse
<1>17. CASE EndSession(t)
  BY <1>17, ServiceAssumption DEF EndSession, SessionUsable
<1>18. CASE ToolRuns(t)
  BY <1>18, ServiceAssumption DEF ToolRuns, SessionUsable
<1>19. CASE ToolInvalid(t)
  BY <1>19, ServiceAssumption DEF ToolInvalid, SessionUsable
<1>20. CASE ToolReturns(t)
  BY <1>20, ServiceAssumption DEF ToolReturns
<1>21. CASE StartSubmit(t)
  BY <1>21, ServiceAssumption DEF StartSubmit, SessionUsable
<1>22. CASE SubmitEvaluated(t)
  BY <1>22, ServiceAssumption DEF SubmitEvaluated
<1>23. CASE SubmitFails(t)
  BY <1>23, ServiceAssumption DEF SubmitFails
<1>24. CASE CloseSkips(t)
  BY <1>24, ServiceAssumption DEF CloseSkips, Finished
<1>25. CASE CloseStarts(t)
  BY <1>25, ServiceAssumption DEF CloseStarts, Finished
<1>26. CASE FinishSucceeds(t)
  <2>1. env[t] \in Envs /\ finishes[env[t]] = 0
    BY <1>26 DEF FinishSucceeds
  <2>2. finishes' = [finishes EXCEPT ![env[t]] = 1]
    BY <1>26, <2>1 DEF FinishSucceeds
  <2>. QED  BY <1>26, <2>2 DEF FinishSucceeds
<1>27. CASE FinishFails(t)
  <2>1. env[t] \in Envs /\ finishes[env[t]] = 0
    BY <1>27 DEF FinishFails
  <2>2. finishes' = [finishes EXCEPT ![env[t]] = 1]
    BY <1>27, <2>1 DEF FinishFails
  <2>. QED  BY <1>27, <2>2 DEF FinishFails
<1>28. CASE Terminated(t)
  BY <1>28, ServiceAssumption DEF Terminated, Pruned
<1>29. CASE DeleteCloses(t)
  BY <1>29, ServiceAssumption DEF DeleteCloses
<1>30. CASE DeleteFindsEmpty(t)
  BY <1>30, ServiceAssumption DEF DeleteFindsEmpty
<1>31. CASE DeleteEnds(t)
  BY <1>31, ServiceAssumption DEF DeleteEnds
<1>32. CASE ShutdownBegin(t)
  BY <1>32, ServiceAssumption DEF ShutdownBegin
<1>33. CASE ShutdownManager(t)
  BY <1>33, ServiceAssumption DEF ShutdownManager
<1>34. CASE ShutdownReleases(t)
  BY <1>34, ServiceAssumption DEF ShutdownReleases
<1>35. CASE ShutdownGoesOn(t)
  BY <1>35, ServiceAssumption DEF ShutdownGoesOn
<1>36. CASE ShutdownEnd(t)
  BY <1>36, ServiceAssumption DEF ShutdownEnd
<1>37. CASE LookupMisses(t)
  BY <1>37, ServiceAssumption DEF LookupMisses, Pruned
<1>. HIDE DEF IInv, TypeOK, ThreadInv, LockInv, SlotInv, CreateInv, FinishInv, RetiredInv, Creating, Stepping, Closing, Actions
<1>. QED
  BY StepCases, <1>1, <1>2, <1>3, <1>4, <1>5, <1>6, <1>7, <1>8, <1>9, <1>10, <1>11, <1>12, <1>13, <1>14, <1>15, <1>16, <1>17, <1>18, <1>19, <1>20, <1>21, <1>22, <1>23, <1>24, <1>25, <1>26, <1>27, <1>28, <1>29, <1>30, <1>31, <1>32, <1>33, <1>34, <1>35, <1>36, <1>37, Zenon

\* Who takes a slot with an environment from the table closes it.
LEMMA KeptStep ==
    ASSUME IInv, NEW t \in Threads, NewRequest(t) \/ RequestStep(t)
    PROVE  KeptInv'
<1>. USE DEF IInv, TypeOK, ThreadInv, LockInv, SlotInv, CreateInv, FinishInv, ShutInv, Kept, KeptInv, Creating, Stepping, Closing, Actions,
           Goto, Begin, Return, Unlock, slotVars, incidentVars, shutVars
<1>1. ASSUME NEW e \in Envs, NEW a \in Actions, LookupFinds(t, e, a)  PROVE KeptInv'
  <2>. SUFFICES ASSUME NEW x \in hasEnv' \ listed'  PROVE Kept(x)'
    OBVIOUS
  <2>2. CASE x \in hasEnv \ listed
    <3>1. CASE x \in todo \/ finishes[x] = 1
      BY <1>1, <3>1 DEF LookupFinds, Pruned
    <3>2. ASSUME NEW u \in Threads, env[u] = x, op[u] \in {"delete", "shutdown"}
          PROVE  Kept(x)'
      <4>1. env'[u] = x /\ op'[u] \in {"delete", "shutdown"}
        BY <1>1, <3>2, ServiceAssumption DEF LookupFinds, Pruned
      <4>. QED  BY <4>1
    <3>. QED  BY <2>2, <3>1, <3>2
  <2>. QED  BY <1>1, <2>2 DEF LookupFinds, Pruned
<1>2. ASSUME NEW e \in Envs, Create(t, e)  PROVE KeptInv'
  BY <1>2, ServiceAssumption DEF Create
<1>3. ASSUME NEW e \in Envs, Deleted(t, e)  PROVE KeptInv'
  <2>. SUFFICES ASSUME NEW x \in hasEnv' \ listed'  PROVE Kept(x)'
    OBVIOUS
  <2>1. CASE x = e
    <3>1. env'[t] = x /\ op'[t] \in {"delete", "shutdown"}
      BY <1>3, <2>1 DEF Deleted
    <3>. QED  BY <3>1
  <2>2. CASE x \in hasEnv \ listed
    <3>1. CASE x \in todo \/ finishes[x] = 1
      BY <1>3, <3>1 DEF Deleted
    <3>2. ASSUME NEW u \in Threads, env[u] = x, op[u] \in {"delete", "shutdown"}
          PROVE  Kept(x)'
      <4>1. env'[u] = x /\ op'[u] \in {"delete", "shutdown"}
        BY <1>3, <3>2, ServiceAssumption DEF Deleted
      <4>. QED  BY <4>1
    <3>. QED  BY <2>2, <3>1, <3>2
  <2>. QED  BY <1>3, <2>1, <2>2 DEF Deleted
<1>4. ASSUME NEW e \in Envs, ShutdownTakesSlot(t, e)  PROVE KeptInv'
  <2>. SUFFICES ASSUME NEW x \in hasEnv' \ listed'  PROVE Kept(x)'
    OBVIOUS
  <2>1. CASE x = e
    <3>1. env'[t] = x /\ op'[t] \in {"delete", "shutdown"}
      BY <1>4, <2>1 DEF ShutdownTakesSlot
    <3>. QED  BY <3>1
  <2>2. CASE x \in hasEnv \ listed
    <3>1. CASE x \in todo \/ finishes[x] = 1
      BY <1>4, <3>1 DEF ShutdownTakesSlot
    <3>2. ASSUME NEW u \in Threads, env[u] = x, op[u] \in {"delete", "shutdown"}
          PROVE  Kept(x)'
      <4>1. env'[u] = x /\ op'[u] \in {"delete", "shutdown"}
        BY <1>4, <3>2, ServiceAssumption DEF ShutdownTakesSlot
      <4>. QED  BY <4>1
    <3>. QED  BY <2>2, <3>1, <3>2
  <2>. QED  BY <1>4, <2>1, <2>2 DEF ShutdownTakesSlot
<1>5. ASSUME NEW e \in Envs, ShutdownSkipsSlot(t, e)  PROVE KeptInv'
  BY <1>5, ServiceAssumption DEF ShutdownSkipsSlot
<1>6. ASSUME NEW e \in Envs, ShutdownForgets(t, e)  PROVE KeptInv'
  BY <1>6, ServiceAssumption DEF ShutdownForgets
<1>7. ASSUME NEW e \in Envs, ShutdownTakesEnv(t, e)  PROVE KeptInv'
  <2>. SUFFICES ASSUME NEW x \in hasEnv' \ listed'  PROVE Kept(x)'
    OBVIOUS
  <2>1. CASE x = e
    <3>1. env'[t] = x /\ op'[t] \in {"delete", "shutdown"}
      BY <1>7, <2>1 DEF ShutdownTakesEnv
    <3>. QED  BY <3>1
  <2>2. CASE x \in hasEnv \ listed
    <3>1. CASE x \in todo \/ finishes[x] = 1
      BY <1>7, <3>1 DEF ShutdownTakesEnv
    <3>2. ASSUME NEW u \in Threads, env[u] = x, op[u] \in {"delete", "shutdown"}
          PROVE  Kept(x)'
      <4>1. env'[u] = x /\ op'[u] \in {"delete", "shutdown"}
        BY <1>7, <3>2, ServiceAssumption DEF ShutdownTakesEnv
      <4>. QED  BY <4>1
    <3>. QED  BY <2>2, <3>1, <3>2
  <2>. QED  BY <1>7, <2>1, <2>2 DEF ShutdownTakesEnv
<1>8. CASE IncidentReady(t)
  BY <1>8, ServiceAssumption DEF IncidentReady
<1>9. CASE IncidentBroken(t)
  BY <1>9, ServiceAssumption DEF IncidentBroken
<1>10. CASE SessionOpens(t)
  BY <1>10, ServiceAssumption DEF SessionOpens
<1>11. CASE SessionFails(t)
  BY <1>11, ServiceAssumption DEF SessionFails
<1>12. CASE ListsLive(t)
  BY <1>12, ServiceAssumption DEF ListsLive, Pruned
<1>13. CASE ListsBroken(t)
  <2>. SUFFICES ASSUME NEW x \in hasEnv' \ listed'  PROVE Kept(x)'
    OBVIOUS
  <2>2. CASE x \in hasEnv \ listed
    <3>1. CASE x \in todo \/ finishes[x] = 1
      BY <1>13, <3>1 DEF ListsBroken, Pruned
    <3>2. ASSUME NEW u \in Threads, env[u] = x, op[u] \in {"delete", "shutdown"}
          PROVE  Kept(x)'
      <4>1. env'[u] = x /\ op'[u] \in {"delete", "shutdown"}
        BY <1>13, <3>2, ServiceAssumption DEF ListsBroken, Pruned
      <4>. QED  BY <4>1
    <3>. QED  BY <2>2, <3>1, <3>2
  <2>. QED  BY <1>13, <2>2 DEF ListsBroken, Pruned
<1>14. CASE EntersSlot(t)
  BY <1>14, ServiceAssumption DEF EntersSlot
<1>15. CASE FindsSlotDead(t)
  BY <1>15, ServiceAssumption DEF FindsSlotDead
<1>16. CASE Refuse(t)
  BY <1>16, ServiceAssumption DEF Refuse
<1>17. CASE EndSession(t)
  BY <1>17, ServiceAssumption DEF EndSession, SessionUsable
<1>18. CASE ToolRuns(t)
  BY <1>18, ServiceAssumption DEF ToolRuns, SessionUsable
<1>19. CASE ToolInvalid(t)
  BY <1>19, ServiceAssumption DEF ToolInvalid, SessionUsable
<1>20. CASE ToolReturns(t)
  BY <1>20, ServiceAssumption DEF ToolReturns
<1>21. CASE StartSubmit(t)
  BY <1>21, ServiceAssumption DEF StartSubmit, SessionUsable
<1>22. CASE SubmitEvaluated(t)
  BY <1>22, ServiceAssumption DEF SubmitEvaluated
<1>23. CASE SubmitFails(t)
  BY <1>23, ServiceAssumption DEF SubmitFails
<1>24. CASE CloseSkips(t)
  BY <1>24, ServiceAssumption DEF CloseSkips, Finished
<1>25. CASE CloseStarts(t)
  BY <1>25, ServiceAssumption DEF CloseStarts, Finished
<1>26. CASE FinishSucceeds(t)
  BY <1>26, ServiceAssumption, SMTT(30) DEF FinishSucceeds
<1>27. CASE FinishFails(t)
  BY <1>27, ServiceAssumption DEF FinishFails
<1>28. CASE Terminated(t)
  BY <1>28, ServiceAssumption DEF Terminated, Pruned
<1>29. CASE DeleteCloses(t)
  BY <1>29, ServiceAssumption DEF DeleteCloses
<1>30. CASE DeleteFindsEmpty(t)
  BY <1>30, ServiceAssumption DEF DeleteFindsEmpty
<1>31. CASE DeleteEnds(t)
  BY <1>31, ServiceAssumption DEF DeleteEnds
<1>32. CASE ShutdownBegin(t)
  <2>. SUFFICES ASSUME NEW x \in hasEnv' \ listed'  PROVE Kept(x)'
    OBVIOUS
  <2>1. CASE x \in listed
    BY <1>32, <2>1 DEF ShutdownBegin
  <2>2. CASE x \in hasEnv \ listed
    <3>1. CASE x \in todo \/ finishes[x] = 1
      BY <1>32, <3>1 DEF ShutdownBegin
    <3>2. ASSUME NEW u \in Threads, env[u] = x, op[u] \in {"delete", "shutdown"}
          PROVE  Kept(x)'
      <4>1. env'[u] = x /\ op'[u] \in {"delete", "shutdown"}
        BY <1>32, <3>2, ServiceAssumption DEF ShutdownBegin
      <4>. QED  BY <4>1
    <3>. QED  BY <2>2, <3>1, <3>2
  <2>. QED  BY <1>32, <2>1, <2>2 DEF ShutdownBegin
<1>33. CASE ShutdownManager(t)
  BY <1>33, ServiceAssumption DEF ShutdownManager
<1>34. CASE ShutdownReleases(t)
  BY <1>34, ServiceAssumption DEF ShutdownReleases
<1>35. CASE ShutdownGoesOn(t)
  BY <1>35, ServiceAssumption DEF ShutdownGoesOn
<1>36. CASE ShutdownEnd(t)
  <2>. SUFFICES ASSUME NEW x \in hasEnv' \ listed'  PROVE Kept(x)'
    OBVIOUS
  <2>2. CASE x \in hasEnv \ listed
    <3>1. CASE x \in todo \/ finishes[x] = 1
      BY <1>36, <3>1 DEF ShutdownEnd
    <3>2. ASSUME NEW u \in Threads, env[u] = x, op[u] \in {"delete", "shutdown"}
          PROVE  Kept(x)'
      <4>1. env'[u] = x /\ op'[u] \in {"delete", "shutdown"}
        BY <1>36, <3>2, ServiceAssumption DEF ShutdownEnd
      <4>. QED  BY <4>1
    <3>. QED  BY <2>2, <3>1, <3>2
  <2>. QED  BY <1>36, <2>2 DEF ShutdownEnd
<1>37. CASE LookupMisses(t)
  BY <1>37, ServiceAssumption DEF LookupMisses, Pruned
<1>. HIDE DEF IInv, TypeOK, ThreadInv, LockInv, SlotInv, CreateInv, FinishInv, ShutInv, Kept, KeptInv, Creating, Stepping, Closing, Actions
<1>. QED
  BY StepCases, <1>1, <1>2, <1>3, <1>4, <1>5, <1>6, <1>7, <1>8, <1>9, <1>10, <1>11, <1>12, <1>13, <1>14, <1>15, <1>16, <1>17, <1>18, <1>19, <1>20, <1>21, <1>22, <1>23, <1>24, <1>25, <1>26, <1>27, <1>28, <1>29, <1>30, <1>31, <1>32, <1>33, <1>34, <1>35, <1>36, <1>37, Zenon

\* The shutdown leaves no slot of its list behind.
LEMMA ShutStep ==
    ASSUME IInv, NEW t \in Threads, NewRequest(t) \/ RequestStep(t)
    PROVE  ShutInv'
<1>. USE DEF IInv, TypeOK, ThreadInv, LockInv, SlotInv, CreateInv, ShutInv, Creating, Stepping, Closing, Actions,
           Goto, Begin, Return, Unlock, slotVars, incidentVars, shutVars
<1>1. ASSUME NEW e \in Envs, NEW a \in Actions, LookupFinds(t, e, a)  PROVE ShutInv'
  BY <1>1, ServiceAssumption DEF LookupFinds, Pruned
<1>2. ASSUME NEW e \in Envs, Create(t, e)  PROVE ShutInv'
  BY <1>2, ServiceAssumption DEF Create
<1>3. ASSUME NEW e \in Envs, Deleted(t, e)  PROVE ShutInv'
  BY <1>3, ServiceAssumption DEF Deleted
<1>4. ASSUME NEW e \in Envs, ShutdownTakesSlot(t, e)  PROVE ShutInv'
  BY <1>4, ServiceAssumption DEF ShutdownTakesSlot
<1>5. ASSUME NEW e \in Envs, ShutdownSkipsSlot(t, e)  PROVE ShutInv'
  BY <1>5, ServiceAssumption DEF ShutdownSkipsSlot
<1>6. ASSUME NEW e \in Envs, ShutdownForgets(t, e)  PROVE ShutInv'
  BY <1>6, ServiceAssumption DEF ShutdownForgets
<1>7. ASSUME NEW e \in Envs, ShutdownTakesEnv(t, e)  PROVE ShutInv'
  BY <1>7, ServiceAssumption DEF ShutdownTakesEnv
<1>8. CASE IncidentReady(t)
  BY <1>8, ServiceAssumption DEF IncidentReady
<1>9. CASE IncidentBroken(t)
  BY <1>9, ServiceAssumption DEF IncidentBroken
<1>10. CASE SessionOpens(t)
  BY <1>10, ServiceAssumption DEF SessionOpens
<1>11. CASE SessionFails(t)
  BY <1>11, ServiceAssumption DEF SessionFails
<1>12. CASE ListsLive(t)
  BY <1>12, ServiceAssumption DEF ListsLive, Pruned
<1>13. CASE ListsBroken(t)
  BY <1>13, ServiceAssumption DEF ListsBroken, Pruned
<1>14. CASE EntersSlot(t)
  BY <1>14, ServiceAssumption DEF EntersSlot
<1>15. CASE FindsSlotDead(t)
  BY <1>15, ServiceAssumption DEF FindsSlotDead
<1>16. CASE Refuse(t)
  BY <1>16, ServiceAssumption DEF Refuse
<1>17. CASE EndSession(t)
  <2>1. op[t] # "shutdown" /\ env[t] \in hasEnv
    BY <1>17, HolderIsLive DEF EndSession, SessionUsable
  <2>. QED  BY <1>17, <2>1 DEF EndSession, SessionUsable
<1>18. CASE ToolRuns(t)
  BY <1>18, ServiceAssumption DEF ToolRuns, SessionUsable
<1>19. CASE ToolInvalid(t)
  BY <1>19, ServiceAssumption DEF ToolInvalid, SessionUsable
<1>20. CASE ToolReturns(t)
  BY <1>20, ServiceAssumption DEF ToolReturns
<1>21. CASE StartSubmit(t)
  BY <1>21, ServiceAssumption DEF StartSubmit, SessionUsable
<1>22. CASE SubmitEvaluated(t)
  <2>1. op[t] # "shutdown" /\ env[t] \in hasEnv
    BY <1>22, HolderIsLive DEF SubmitEvaluated, SessionUsable
  <2>. QED  BY <1>22, <2>1 DEF SubmitEvaluated, SessionUsable
<1>23. CASE SubmitFails(t)
  BY <1>23, ServiceAssumption DEF SubmitFails
<1>24. CASE CloseSkips(t)
  BY <1>24, ServiceAssumption DEF CloseSkips, Finished
<1>25. CASE CloseStarts(t)
  BY <1>25, ServiceAssumption DEF CloseStarts, Finished
<1>26. CASE FinishSucceeds(t)
  BY <1>26, ServiceAssumption DEF FinishSucceeds
<1>27. CASE FinishFails(t)
  BY <1>27, ServiceAssumption DEF FinishFails
<1>28. CASE Terminated(t)
  BY <1>28, ServiceAssumption DEF Terminated, Pruned
<1>29. CASE DeleteCloses(t)
  BY <1>29, ServiceAssumption DEF DeleteCloses
<1>30. CASE DeleteFindsEmpty(t)
  BY <1>30, ServiceAssumption DEF DeleteFindsEmpty
<1>31. CASE DeleteEnds(t)
  BY <1>31, ServiceAssumption DEF DeleteEnds
<1>32. CASE ShutdownBegin(t)
  BY <1>32, ServiceAssumption DEF ShutdownBegin
<1>33. CASE ShutdownManager(t)
  BY <1>33, ServiceAssumption DEF ShutdownManager
<1>34. CASE ShutdownReleases(t)
  BY <1>34, ServiceAssumption DEF ShutdownReleases
<1>35. CASE ShutdownGoesOn(t)
  BY <1>35, ServiceAssumption DEF ShutdownGoesOn
<1>36. CASE ShutdownEnd(t)
  BY <1>36, ServiceAssumption DEF ShutdownEnd
<1>37. CASE LookupMisses(t)
  BY <1>37, ServiceAssumption DEF LookupMisses, Pruned
<1>. HIDE DEF IInv, TypeOK, ThreadInv, LockInv, SlotInv, CreateInv, ShutInv, Creating, Stepping, Closing, Actions
<1>. QED
  BY StepCases, <1>1, <1>2, <1>3, <1>4, <1>5, <1>6, <1>7, <1>8, <1>9, <1>10, <1>11, <1>12, <1>13, <1>14, <1>15, <1>16, <1>17, <1>18, <1>19, <1>20, <1>21, <1>22, <1>23, <1>24, <1>25, <1>26, <1>27, <1>28, <1>29, <1>30, <1>31, <1>32, <1>33, <1>34, <1>35, <1>36, <1>37, Zenon

\* No incident is closed under a tool.
LEMMA ToolStep ==
    ASSUME IInv, NEW t \in Threads, NewRequest(t) \/ RequestStep(t)
    PROVE  ToolsSeeTheIncident'
<1>. USE DEF IInv, TypeOK, ThreadInv, LockInv, SlotInv, CreateInv, ShutInv, ToolsSeeTheIncident, Creating, Stepping, Closing, Actions,
           Goto, Begin, Return, Unlock, slotVars, incidentVars, shutVars
<1>1. ASSUME NEW e \in Envs, NEW a \in Actions, LookupFinds(t, e, a)  PROVE ToolsSeeTheIncident'
  BY <1>1, ServiceAssumption DEF LookupFinds, Pruned
<1>2. ASSUME NEW e \in Envs, Create(t, e)  PROVE ToolsSeeTheIncident'
  BY <1>2, ServiceAssumption DEF Create
<1>3. ASSUME NEW e \in Envs, Deleted(t, e)  PROVE ToolsSeeTheIncident'
  BY <1>3, ServiceAssumption DEF Deleted
<1>4. ASSUME NEW e \in Envs, ShutdownTakesSlot(t, e)  PROVE ToolsSeeTheIncident'
  BY <1>4, ServiceAssumption DEF ShutdownTakesSlot
<1>5. ASSUME NEW e \in Envs, ShutdownSkipsSlot(t, e)  PROVE ToolsSeeTheIncident'
  BY <1>5, ServiceAssumption DEF ShutdownSkipsSlot
<1>6. ASSUME NEW e \in Envs, ShutdownForgets(t, e)  PROVE ToolsSeeTheIncident'
  BY <1>6, ServiceAssumption DEF ShutdownForgets
<1>7. ASSUME NEW e \in Envs, ShutdownTakesEnv(t, e)  PROVE ToolsSeeTheIncident'
  BY <1>7, ServiceAssumption DEF ShutdownTakesEnv
<1>8. CASE IncidentReady(t)
  BY <1>8, ServiceAssumption DEF IncidentReady
<1>9. CASE IncidentBroken(t)
  BY <1>9, ServiceAssumption DEF IncidentBroken
<1>10. CASE SessionOpens(t)
  BY <1>10, ServiceAssumption DEF SessionOpens
<1>11. CASE SessionFails(t)
  BY <1>11, ServiceAssumption DEF SessionFails
<1>12. CASE ListsLive(t)
  BY <1>12, ServiceAssumption DEF ListsLive, Pruned
<1>13. CASE ListsBroken(t)
  BY <1>13, ServiceAssumption DEF ListsBroken, Pruned
<1>14. CASE EntersSlot(t)
  BY <1>14, ServiceAssumption DEF EntersSlot
<1>15. CASE FindsSlotDead(t)
  BY <1>15, ServiceAssumption DEF FindsSlotDead
<1>16. CASE Refuse(t)
  BY <1>16, ServiceAssumption DEF Refuse
<1>17. CASE EndSession(t)
  BY <1>17, ServiceAssumption DEF EndSession, SessionUsable
<1>18. CASE ToolRuns(t)
  BY <1>18, ServiceAssumption DEF ToolRuns, SessionUsable
<1>19. CASE ToolInvalid(t)
  BY <1>19, ServiceAssumption DEF ToolInvalid, SessionUsable
<1>20. CASE ToolReturns(t)
  BY <1>20, ServiceAssumption DEF ToolReturns
<1>21. CASE StartSubmit(t)
  BY <1>21, ServiceAssumption DEF StartSubmit, SessionUsable
<1>22. CASE SubmitEvaluated(t)
  BY <1>22, ServiceAssumption DEF SubmitEvaluated
<1>23. CASE SubmitFails(t)
  BY <1>23, ServiceAssumption DEF SubmitFails
<1>24. CASE CloseSkips(t)
  BY <1>24, ServiceAssumption DEF CloseSkips, Finished
<1>25. CASE CloseStarts(t)
  BY <1>25, ServiceAssumption DEF CloseStarts, Finished
<1>26. CASE FinishSucceeds(t)
  BY <1>26, ServiceAssumption DEF FinishSucceeds
<1>27. CASE FinishFails(t)
  BY <1>27, ServiceAssumption DEF FinishFails
<1>28. CASE Terminated(t)
  BY <1>28, ServiceAssumption DEF Terminated, Pruned
<1>29. CASE DeleteCloses(t)
  BY <1>29, ServiceAssumption DEF DeleteCloses
<1>30. CASE DeleteFindsEmpty(t)
  BY <1>30, ServiceAssumption DEF DeleteFindsEmpty
<1>31. CASE DeleteEnds(t)
  BY <1>31, ServiceAssumption DEF DeleteEnds
<1>32. CASE ShutdownBegin(t)
  BY <1>32, ServiceAssumption DEF ShutdownBegin
<1>33. CASE ShutdownManager(t)
  BY <1>33, ServiceAssumption DEF ShutdownManager
<1>34. CASE ShutdownReleases(t)
  BY <1>34, ServiceAssumption DEF ShutdownReleases
<1>35. CASE ShutdownGoesOn(t)
  BY <1>35, ServiceAssumption DEF ShutdownGoesOn
<1>36. CASE ShutdownEnd(t)
  BY <1>36, ServiceAssumption DEF ShutdownEnd
<1>37. CASE LookupMisses(t)
  BY <1>37, ServiceAssumption DEF LookupMisses, Pruned
<1>. HIDE DEF IInv, TypeOK, ThreadInv, LockInv, SlotInv, CreateInv, ShutInv, ToolsSeeTheIncident, Creating, Stepping, Closing, Actions
<1>. QED
  BY StepCases, <1>1, <1>2, <1>3, <1>4, <1>5, <1>6, <1>7, <1>8, <1>9, <1>10, <1>11, <1>12, <1>13, <1>14, <1>15, <1>16, <1>17, <1>18, <1>19, <1>20, <1>21, <1>22, <1>23, <1>24, <1>25, <1>26, <1>27, <1>28, <1>29, <1>30, <1>31, <1>32, <1>33, <1>34, <1>35, <1>36, <1>37, Zenon

\* The tombstones are the listed terminal slots, each of them once.
LEMMA TombStep ==
    ASSUME IInv, NEW t \in Threads, NewRequest(t) \/ RequestStep(t)
    PROVE  (TombInv /\ TombstonesBounded)'
<1>. USE DEF IInv, TombInv, TombstonesBounded,
           Goto, Begin, Return, Unlock, slotVars, incidentVars, shutVars
<1>1. ASSUME NEW e \in Envs, NEW a \in Actions, LookupFinds(t, e, a)  PROVE (TombInv /\ TombstonesBounded)'
  BY <1>1 DEF LookupFinds, Pruned
<1>2. ASSUME NEW e \in Envs, Create(t, e)  PROVE (TombInv /\ TombstonesBounded)'
  BY <1>2 DEF Create
<1>3. ASSUME NEW e \in Envs, Deleted(t, e)  PROVE (TombInv /\ TombstonesBounded)'
  BY <1>3 DEF Deleted
<1>4. ASSUME NEW e \in Envs, ShutdownTakesSlot(t, e)  PROVE (TombInv /\ TombstonesBounded)'
  BY <1>4 DEF ShutdownTakesSlot
<1>5. ASSUME NEW e \in Envs, ShutdownSkipsSlot(t, e)  PROVE (TombInv /\ TombstonesBounded)'
  BY <1>5 DEF ShutdownSkipsSlot
<1>6. ASSUME NEW e \in Envs, ShutdownForgets(t, e)  PROVE (TombInv /\ TombstonesBounded)'
  BY <1>6 DEF ShutdownForgets
<1>7. ASSUME NEW e \in Envs, ShutdownTakesEnv(t, e)  PROVE (TombInv /\ TombstonesBounded)'
  BY <1>7 DEF ShutdownTakesEnv
<1>8. CASE ListsLive(t)
  BY <1>8 DEF ListsLive, Pruned
<1>9. CASE ListsBroken(t)
  BY <1>9 DEF ListsBroken, Pruned
<1>10. CASE Terminated(t)
  BY <1>10 DEF Terminated, Pruned
<1>11. CASE ShutdownBegin(t)
  <2>1. tombs' = <<>> /\ listed' = {}
    BY <1>11 DEF ShutdownBegin
  <2>2. Len(tombs') = 0 /\ Ids(tombs') = {}
    BY <2>1 DEF Ids
  <2>. QED  BY <2>1, <2>2, ServiceAssumption DEF Distinct
<1>12. CASE LookupMisses(t)
  BY <1>12 DEF LookupMisses, Pruned
<1>13. CASE \/ IncidentReady(t) \/ IncidentBroken(t) \/ SessionOpens(t) \/ SessionFails(t)
          \/ EntersSlot(t) \/ FindsSlotDead(t) \/ Refuse(t) \/ EndSession(t)
          \/ ToolRuns(t) \/ ToolInvalid(t) \/ ToolReturns(t) \/ StartSubmit(t)
          \/ SubmitEvaluated(t) \/ SubmitFails(t) \/ CloseSkips(t) \/ CloseStarts(t)
          \/ FinishSucceeds(t) \/ FinishFails(t) \/ DeleteCloses(t) \/ DeleteFindsEmpty(t)
          \/ DeleteEnds(t) \/ ShutdownManager(t) \/ ShutdownReleases(t) \/ ShutdownGoesOn(t)
          \/ ShutdownEnd(t)
  BY <1>13 DEF IncidentReady, IncidentBroken, SessionOpens, SessionFails, EntersSlot, FindsSlotDead, Refuse, EndSession, ToolRuns, ToolInvalid, ToolReturns, StartSubmit, SubmitEvaluated, SubmitFails, CloseSkips, CloseStarts, FinishSucceeds, FinishFails, DeleteCloses, DeleteFindsEmpty, DeleteEnds, ShutdownManager, ShutdownReleases, ShutdownGoesOn, ShutdownEnd, SessionUsable, Finished
<1>. HIDE DEF IInv, TombInv, TombstonesBounded
<1>. QED
  BY StepCases, <1>1, <1>2, <1>3, <1>4, <1>5, <1>6, <1>7, <1>8, <1>9, <1>10, <1>11, <1>12, <1>13, Zenon

-----------------------------------------------------------------------------
(* The theorems                                                            *)

\* A service that has served nothing satisfies the invariant.
LEMMA InitInv == Init => IInv
<1>. SUFFICES ASSUME Init  PROVE IInv
  OBVIOUS
<1>1. TypeOK
  BY DEF Init, TypeOK, Actions, PCs
<1>2. ThreadInv /\ LockInv /\ SlotInv /\ CreateInv /\ FinishInv
  BY DEF Init, ThreadInv, LockInv, SlotInv, CreateInv, FinishInv, Creating, Stepping, Closing
<1>3. OutcomeInv /\ RetiredInv /\ KeptInv /\ ShutInv
  BY DEF Init, OutcomeInv, RetiredInv, KeptInv, ShutInv, Creating, Closing
<1>4. ToolsSeeTheIncident
  BY DEF Init, ToolsSeeTheIncident
<1>5. TombInv /\ TombstonesBounded
  <2>1. Len(tombs) = 0 /\ Ids(tombs) = {} /\ listed = {}
    BY DEF Init, Ids
  <2>. QED  BY <2>1, ServiceAssumption DEF TombInv, TombstonesBounded, Distinct
<1>. QED  BY <1>1, <1>2, <1>3, <1>4, <1>5 DEF IInv

\* A step that changes nothing keeps the invariant.
LEMMA StutterInv == IInv /\ UNCHANGED vars => IInv'
<1>. SUFFICES ASSUME IInv, UNCHANGED vars  PROVE IInv'
  OBVIOUS
<1>. USE DEF vars, slotVars, incidentVars, shutVars
<1>1. TypeOK'
  BY DEF IInv, TypeOK
<1>2. ThreadInv' /\ LockInv' /\ SlotInv' /\ CreateInv' /\ FinishInv'
  BY DEF IInv, ThreadInv, LockInv, SlotInv, CreateInv, FinishInv, Creating, Stepping, Closing
<1>3. OutcomeInv' /\ RetiredInv' /\ KeptInv' /\ ShutInv'
  BY DEF IInv, OutcomeInv, RetiredInv, KeptInv, Kept, ShutInv, Creating, Closing
<1>4. ToolsSeeTheIncident'
  BY DEF IInv, ToolsSeeTheIncident
<1>5. TombInv' /\ TombstonesBounded'
  BY DEF IInv, TombInv, TombstonesBounded, Distinct, Ids
<1>. QED  BY <1>1, <1>2, <1>3, <1>4, <1>5 DEF IInv

\* However requests, deletes and a shutdown of the service interleave, its
\* invariant holds.
THEOREM ServiceInvariant == Spec => []IInv
<1>1. IInv /\ [Next]_vars => IInv'
  <2>1. ASSUME IInv, NEW t \in Threads, NewRequest(t) \/ RequestStep(t)  PROVE IInv'
    BY <2>1, TypeStep, ThreadStep, LockStep, SlotStep, CreateStep, FinishStep, OutcomeStep,
       RetiredStep, KeptStep, ShutStep, ToolStep, TombStep, Zenon DEF IInv
  <2>2. IInv /\ Next => IInv'
    BY <2>1 DEF Next
  <2>. QED  BY <2>2, StutterInv
<1>. QED  BY <1>1, InitInv, PTL DEF Spec

\* Every variable of the service keeps its type.
THEOREM ServiceTypes == Spec => []TypeOK
<1>1. IInv => TypeOK
  BY DEF IInv
<1>. QED  BY <1>1, ServiceInvariant, PTL

\* However many threads, environments and requests there are, the backend of an
\* incident is finished at most once (PreparedIncident.close).
THEOREM RecoversOnce == Spec => []RecoveryOnce
<1>1. IInv => RecoveryOnce
  BY DEF IInv, FinishInv, RecoveryOnce
<1>. QED  BY <1>1, ServiceInvariant, PTL

\* At most one step of an environment is answered with a terminal result
\* (SimulatorService.step).
THEOREM AnswersOnce == Spec => []OneOutcome
<1>1. IInv => OneOutcome
  BY DEF IInv, OutcomeInv, OneOutcome
<1>. QED  BY <1>1, ServiceInvariant, PTL

\* A tool of a slot that the shutdown has in its list, or of any slot when there
\* is no shutdown, runs only while its incident is active.
THEOREM ToolsAreSafe == Spec => []ToolsSeeTheIncident
<1>1. IInv => ToolsSeeTheIncident
  BY DEF IInv
<1>. QED  BY <1>1, ServiceInvariant, PTL

\* An environment that nobody can reach any more was recovered, whether a step,
\* a delete or the shutdown took it (SimulatorService.delete and close).
THEOREM NothingForgotten == Spec => []NoIncidentForgotten
<1>1. IInv => NoIncidentForgotten
  <2>. SUFFICES ASSUME IInv, NEW e \in Envs, session[e] # "none",
                       e \notin listed \/ e \in terminal,
                       \A t \in Threads : env[t] # e, e \notin todo
                PROVE  finishes[e] = 1
    BY DEF NoIncidentForgotten
  <2>1. CASE e \notin hasEnv
    BY <2>1 DEF IInv, RetiredInv
  <2>2. CASE e \in hasEnv
    <3>1. e \in hasEnv \ listed
      BY <2>2 DEF IInv, SlotInv
    <3>. QED  BY <3>1 DEF IInv, KeptInv, Kept
  <2>. QED  BY <2>1, <2>2
<1>. QED  BY <1>1, ServiceInvariant, PTL

\* The table keeps at most its cap of tombstones, and they are exactly its
\* terminal slots (SimulatorService._prune_terminal_environments).
THEOREM TombstonesAreBounded == Spec => []TombstonesBounded
<1>1. IInv => TombstonesBounded
  BY DEF IInv
<1>. QED  BY <1>1, ServiceInvariant, PTL
=============================================================================
