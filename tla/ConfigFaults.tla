---------------------------- MODULE ConfigFaults ----------------------------
(***************************************************************************)
(* Faults that change the configuration of one device.  handlers/          *)
(* network.py journals each operation before it runs it and undoes the     *)
(* journal backwards; handlers/routing_static.py and the netem faults of   *)
(* handlers/impairment.py make one change, read it back and undo it.       *)
(*                                                                         *)
(* A change in force is a pair <<operation, part>>: an FRR operation       *)
(* defines an object (part 1) and attaches it (part 2).  Any command may   *)
(* fail with all, a part or none of its effect, any read may fail.         *)
(*                                                                         *)
(* A definition named Op_Variant is a mutated form of Op: replacing Op by  *)
(* it must break a property.  No specification uses it.                    *)
(***************************************************************************)
EXTENDS Naturals, FiniteSets, FiniteSetsExt

CONSTANTS
    Kinds,          \* the kinds of fault that are injected
    MaxInjections,  \* bound: how many injections
    MaxToggles      \* bound: how many phases of a flapping route

AllKinds == {"filter", "address", "acl", "flapping", "route", "netem"}

\* How many operations _prepare() makes, and the parts of each: one policy
\* per peer (two peers), the wrong address and the original one, the ACL
\* table, its rule and the packet filter, or a single statement.
Operations(k) ==
    CASE k = "acl" -> 3 [] k \in {"filter", "address"} -> 2 [] OTHER -> 1
Parts(k) == IF k \in {"filter", "flapping"} THEN 2 ELSE 1

Changes(k) == (1 .. Operations(k)) \X (1 .. Parts(k))

\* The changes of one operation.
Of(kd, k) == {k} \X (1 .. Parts(kd))

\* Handlers that read the result of their undo back.
ReadsBack(k) == k \in {"route", "netem"}

VARIABLES
    inforce,    \* the changes the device carries
    foreign,    \* the device has a static route and a qdisc of its own there
    kind,       \* the kind of the current fault
    journal,    \* how many operations are in its journal
    pc,         \* where the caller of the handler is
    undo,       \* the operations of the journal not yet undone
    errors,     \* the undo has met an error
    tracked,    \* what the tracker holds: "none", "active" or "residual"
    ctl,        \* the periodic controller
    injections, toggles

vars == <<inforce, foreign, kind, journal, pc, undo, errors, tracked, ctl,
          injections, toggles>>

Init ==
    /\ inforce = {} /\ foreign \in BOOLEAN /\ kind \in Kinds /\ journal = 0
    /\ pc = "idle" /\ undo = 0 /\ errors = FALSE /\ tracked = "none"
    /\ ctl = "none" /\ injections = 0 /\ toggles = 0

-----------------------------------------------------------------------------
(* What a command does to one operation of the fault.                      *)

\* The parts are written in order and taken back in reverse: a prefix of
\* the parts is in force.
Prefix(k, n) == {c \in Of(kind, k) : c[2] <= n}

InForce(k) == Cardinality(inforce \cap Of(kind, k))

SetParts(k, n) == inforce' = (inforce \ Of(kind, k)) \cup Prefix(k, n)

Written(k) == SetParts(k, Parts(kind))

\* A failed command may have gone part of the way.
PartlyWritten(k) == \E n \in InForce(k) .. Parts(kind) : SetParts(k, n)

\* The undo detaches an object before it removes its definition.
PartlyUndone_DefinitionFirst(k) ==
    \E n \in 0 .. Parts(kind) :
        inforce' = inforce \ {c \in Of(kind, k) : c[2] <= n}

PartlyUndone(k) == \E n \in 0 .. InForce(k) : SetParts(k, n)

Undone(k) == inforce' = inforce \ Of(kind, k)

-----------------------------------------------------------------------------
(* Injection.                                                              *)

\* The handler has read what it is about to change and may own it, or it
\* raises before it writes anything.
Begin(kinds, owns) ==
    /\ pc = "idle" /\ tracked = "none" /\ injections < MaxInjections
    /\ injections' = injections + 1
    /\ kind' \in kinds \cap Kinds
    /\ pc' \in (IF owns THEN {"write", "idle"} ELSE {"idle"})
    /\ journal' = 0 /\ undo' = 0 /\ errors' = FALSE
    /\ UNCHANGED <<inforce, foreign, tracked, ctl, toggles>>

\* _prepare(): the neighbour is established and the policy can be cloned
\* under a new name, the interface has one address, which SONiC knows.
PreparePolicy == Begin({"filter", "flapping", "address"}, TRUE)

\* _prepare(): an ACL under a new name; a routing loop only where the prefix
\* has no static route.
PrepareAcl == Begin({"acl"}, TRUE)

PrepareRoute_UnreadableIsFree == Begin({"route"}, TRUE)

\* inject_static_route_misconfig(): the running configuration must say that
\* there is no static route for the target; unreadable is not enough.
PrepareRoute == Begin({"route"}, ~foreign)

\* _require_default_qdisc()
PrepareNetem == Begin({"netem"}, ~foreign)

Journaled_AfterSuccess == journal' = IF pc' = "write" THEN journal + 1 ELSE journal

\* The next operation is journaled, then run.
Journaled == journal' = journal + 1

RunNext(kinds) ==
    /\ pc = "write" /\ kind \in kinds /\ journal < Operations(kind)
    /\ \/ Written(journal + 1) /\ pc' = "write"
       \/ PartlyWritten(journal + 1) /\ pc' = "undo"
    /\ Journaled
    /\ undo' = IF pc' = "undo" THEN journal' ELSE undo
    /\ UNCHANGED <<foreign, kind, errors, tracked, ctl, injections, toggles>>

\* The loop of inject(); one statement of the static routes; one netem rule.
WriteOperation == RunNext(AllKinds \ {"route", "netem"})
WriteRoute == RunNext({"route"})
WriteNetem == RunNext({"netem"})

\* _verify_written(), _qdisc_matches(), the running config and the route:
\* the readback agrees, or it fails or cannot be read.
Verify ==
    /\ pc = "write" /\ journal = Operations(kind)
    /\ \/ /\ pc' = "idle" /\ tracked' = "active"
          /\ ctl' = IF kind = "flapping" THEN "fault" ELSE ctl
          /\ UNCHANGED undo
       \/ pc' = "undo" /\ undo' = journal /\ UNCHANGED <<tracked, ctl>>
    /\ UNCHANGED <<inforce, foreign, kind, journal, errors, injections, toggles>>

-----------------------------------------------------------------------------
(* The controller of a flapping route repeats the whole apply and restore. *)

Flap ==
    /\ ctl \in {"fault", "healthy"} /\ toggles < MaxToggles
    /\ toggles' = toggles + 1
    /\ \/ /\ ctl' = IF ctl = "fault" THEN "healthy" ELSE "fault"
          /\ IF ctl = "fault" THEN Undone(1) ELSE Written(1)
       \/ /\ ctl' = "done"
          /\ IF ctl = "fault" THEN PartlyUndone(1) ELSE PartlyWritten(1)
    /\ UNCHANGED <<foreign, kind, journal, pc, undo, errors, tracked, injections>>

\* The stop event cancels the phase the controller is in.
FlapStops ==
    /\ ctl = "stopping" /\ ctl' = "done"
    /\ PartlyUndone(1) \/ PartlyWritten(1)
    /\ UNCHANGED <<foreign, kind, journal, pc, undo, errors, tracked, injections, toggles>>

-----------------------------------------------------------------------------
(* Recovery, of a tracked fault and of a failed injection.                 *)

Recover ==
    /\ pc = "idle" /\ tracked # "none"
    /\ pc' = "stop" /\ undo' = journal /\ errors' = FALSE
    /\ ctl' = IF ctl \in {"fault", "healthy"} THEN "stopping" ELSE ctl
    /\ UNCHANGED <<inforce, foreign, kind, journal, tracked, injections, toggles>>

\* stop_background(): the thread is joined, or the recovery gives up.
Stopped ==
    /\ pc = "stop"
    /\ \/ ctl # "stopping" /\ pc' = "undo"
       \/ ctl = "stopping" /\ pc' = "idle"
    /\ UNCHANGED <<inforce, foreign, kind, journal, undo, errors, tracked, ctl, injections, toggles>>

\* One operation is undone, the last one first.  An object that is absent
\* is left alone; an error is kept and the walk goes on.
UndoErrors_LastOnly(failed) == failed

UndoErrors(failed) == errors \/ failed

\* The undo of a static route or qdisc takes whatever is there.
Undo ==
    /\ pc = "undo" /\ undo > 0
    /\ undo' = undo - 1
    /\ \/ Undone(undo) /\ errors' = UndoErrors(FALSE)
       \/ PartlyUndone(undo) /\ errors' = UndoErrors(TRUE)
    /\ foreign' = (foreign /\ ~ReadsBack(kind))
    /\ UNCHANGED <<kind, journal, pc, tracked, ctl, injections, toggles>>

\* What is left of a failed injection is tracked as a residual mutation.
Kept == tracked' = IF tracked = "none" THEN "residual" ELSE tracked

UndoEnds(kinds) ==
    /\ pc = "undo" /\ undo = 0 /\ kind \in kinds
    /\ pc' = "idle"
    /\ UNCHANGED <<inforce, foreign, kind, journal, undo, errors, ctl, injections, toggles>>

\* recover(): the fault leaves the tracker if no operation failed.
JournalUndone ==
    /\ UndoEnds(AllKinds \ {"route", "netem"})
    /\ IF errors THEN Kept ELSE tracked' = "none"

\* recover_blackhole_route(), recover_static_route_misconfig(): the running
\* configuration and the route table must be read and show it gone.
RouteRemoved ==
    /\ UndoEnds({"route"})
    /\ Kept \/ (~errors /\ tracked' = "none")

\* _finish_netem_injection(), recover_tc_rules(): no netem qdisc is seen.
NetemRemoved ==
    /\ UndoEnds({"netem"})
    /\ Kept \/ (inforce = {} /\ tracked' = "none")

-----------------------------------------------------------------------------
Work ==
    \/ WriteOperation \/ WriteRoute \/ WriteNetem \/ Verify
    \/ Stopped \/ Undo \/ JournalUndone \/ RouteRemoved \/ NetemRemoved

Next ==
    \/ PreparePolicy \/ PrepareAcl \/ PrepareRoute \/ PrepareNetem
    \/ Work
    \/ Flap \/ FlapStops
    \/ Recover

Spec == Init /\ [][Next]_vars

\* The caller and the controller run on.
FairSpec ==
    /\ Spec
    /\ WF_vars(FlapStops)
    /\ WF_vars(Work)

-----------------------------------------------------------------------------
(* Properties.                                                             *)

\* The type of the state.
TypeOK ==
    /\ kind \in Kinds /\ inforce \subseteq Changes(kind)
    /\ journal \in 0 .. Operations(kind) /\ undo \in 0 .. journal
    /\ pc \in {"idle", "write", "stop", "undo"} /\ errors \in BOOLEAN
    /\ tracked \in {"none", "active", "residual"}
    /\ ctl \in {"none", "fault", "healthy", "stopping", "done"}
    /\ injections \in 0 .. MaxInjections /\ toggles \in 0 .. MaxToggles

\* A device without a tracked fault has its own configuration, and no
\* controller changes it: a failed injection was undone as a whole.
ConfigBack ==
    pc = "idle" /\ tracked = "none" =>
        inforce = {} /\ ctl \notin {"fault", "healthy", "stopping"}

\* Every change in force belongs to an operation of the journal, also while
\* the operation is being written: what is not journaled is never undone.
JournalCovers == \A c \in inforce : c[1] <= journal

\* A route map or prefix list is never removed while it is attached.
NoDanglingPolicy ==
    Parts(kind) = 2 => \A c \in inforce : c[2] = 2 => <<c[1], 1>> \in inforce

\* The interface keeps an address while its address is replaced and put
\* back: the original is gone only while the wrong one is there.
KeepsAnAddress ==
    kind = "address" /\ <<2, 1>> \in inforce => <<1, 1>> \in inforce

ForeignKeptStep == foreign' = foreign

\* A static route or qdisc that the fault does not own is never removed: no
\* handler writes, and so no undo runs, where it cannot own the object.
ForeignKept == [][ForeignKeptStep]_vars

Idle == pc = "idle"

\* A call of the handler ends.
CallsEnd == ~Idle ~> Idle
=============================================================================
