-------------------------- MODULE SimulatorService --------------------------
(***************************************************************************)
(* The HTTP simulator service and what one request does to an environment: *)
(* SimulatorService (platform/simulator/service.py), DiagnosticEnvironment *)
(* (platform/simulator/environment.py), PreparedIncident and               *)
(* DiagnosticSession (platform/incident/engine.py), and the registry and   *)
(* close of SimulatorManager (sdk/simulators.py).                          *)
(*                                                                         *)
(* Requests run in worker threads.  A slot's lock is held by a step, a     *)
(* delete or a shutdown while it works on the environment; the service's   *)
(* own lock only protects short sections, each of them inside one action   *)
(* here.  PreparedIncident.close runs under its own lock: a thread waits   *)
(* while the incident is "closing".  SimulatorManager.close, the last part *)
(* of a shutdown, closes environments without the slots' locks.            *)
(*                                                                         *)
(* The backend is abstract: prepare and finish succeed or fail, and take   *)
(* time (RuntimeLeasePool models the lease behind them).  Tombstones are   *)
(* kept in the order of their terminal_at, so expiry by age and by number  *)
(* both drop a prefix.                                                     *)
(*                                                                         *)
(* A definition named Op_Variant is a mutated form of Op: replacing Op by  *)
(* it must break a property.  No specification uses it.                    *)
(***************************************************************************)
EXTENDS Integers, Sequences, FiniteSets

CONSTANTS
    Threads,       \* request worker threads
    Envs,          \* environments; bounds how many are ever created
    NoThread,      \* an unlocked lock
    NoEnv,         \* the thread works on no environment
    MaxToolCalls,  \* SimulatorConfig.max_tool_calls
    MaxTombstones  \* _MAX_TERMINAL_TOMBSTONES

ASSUME ServiceAssumption ==
    /\ NoThread \notin Threads /\ NoEnv \notin Envs
    /\ MaxToolCalls \in Nat \ {0} /\ MaxTombstones \in Nat \ {0}

VARIABLES
    listed,      \* ids in SimulatorService.environments
    hasEnv,      \* slots whose environment is not None
    terminal,    \* slots with terminal = True
    lock,        \* _EnvironmentSlot.lock
    tombs,       \* listed terminal slots, oldest terminal_at first
    registered,  \* SimulatorManager._environments
    incident,    \* PreparedIncident.state, "none" before prepare returned
    cleanup,     \* PreparedIncident.cleanup_status
    finishes,    \* how often backend.finish ran for the incident
    session,     \* DiagnosticSession.state
    calls,       \* DiagnosticSession.tool_calls
    outcomes,    \* terminal results handed to clients
    pc, env, op, \* of each thread: what it does, to which environment, for which request
    todo,        \* what is left of the list the shutdown iterates over
    shutdown,    \* SimulatorService.close: "no", "running" or "done"
    late         \* environments that were not in the table the shutdown took

slotVars     == <<listed, hasEnv, terminal, lock, tombs>>
incidentVars == <<incident, cleanup, finishes, session, calls, outcomes>>
shutVars     == <<registered, todo, shutdown, late>>
vars == <<slotVars, incidentVars, shutVars, pc, env, op>>

Actions == {"tool", "submit", "protocol"}
PCs == {"idle", "resetting", "opening", "listing", "locking", "acting", "tool", "evaluating",
        "closing", "finishing", "closed", "deleting", "shut_slots", "shut_envs"}

TypeOK ==
    /\ listed \subseteq Envs /\ hasEnv \subseteq Envs /\ terminal \subseteq Envs
    /\ lock \in [Envs -> Threads \cup {NoThread}]
    /\ tombs \in Seq(Envs)
    /\ registered \subseteq Envs /\ todo \subseteq Envs /\ late \subseteq Envs
    /\ incident \in [Envs -> {"none", "preparing", "active", "closing", "closed", "broken"}]
    /\ cleanup \in [Envs -> {"not_started", "succeeded", "failed"}]
    /\ finishes \in [Envs -> Nat] /\ calls \in [Envs -> Nat] /\ outcomes \in [Envs -> Nat]
    /\ session \in [Envs -> {"none", "active", "terminal"}]
    /\ pc \in [Threads -> PCs]
    /\ env \in [Threads -> Envs \cup {NoEnv}]
    /\ op \in [Threads -> Actions \cup {"none", "create", "delete", "shutdown"}]
    /\ shutdown \in {"no", "running", "done"}

Init ==
    /\ listed = {} /\ hasEnv = {} /\ terminal = {} /\ tombs = <<>>
    /\ lock = [e \in Envs |-> NoThread]
    /\ registered = {} /\ todo = {} /\ late = {} /\ shutdown = "no"
    /\ incident = [e \in Envs |-> "none"]
    /\ cleanup = [e \in Envs |-> "not_started"]
    /\ finishes = [e \in Envs |-> 0] /\ calls = [e \in Envs |-> 0] /\ outcomes = [e \in Envs |-> 0]
    /\ session = [e \in Envs |-> "none"]
    /\ pc = [t \in Threads |-> "idle"]
    /\ env = [t \in Threads |-> NoEnv]
    /\ op = [t \in Threads |-> "none"]

-----------------------------------------------------------------------------
(* Thread bookkeeping and the pruning of tombstones                        *)

Goto(t, where) == pc' = [pc EXCEPT ![t] = where] /\ UNCHANGED <<env, op>>

Begin(t, where, e, request) ==
    /\ pc[t] = "idle"
    /\ pc' = [pc EXCEPT ![t] = where]
    /\ env' = [env EXCEPT ![t] = e]
    /\ op' = [op EXCEPT ![t] = request]

\* The request is answered.
Return(t) ==
    /\ pc' = [pc EXCEPT ![t] = "idle"]
    /\ env' = [env EXCEPT ![t] = NoEnv]
    /\ op' = [op EXCEPT ![t] = "none"]

Unlock(e) == lock' = [lock EXCEPT ![e] = NoThread]

\* Ids in a sequence of tombstones.
Ids(ts) == {ts[i] : i \in 1..Len(ts)}

\* _prune_terminal_environments with `slots' the ids and `ts' the tombstones at
\* that point: those past their time to live go, and the oldest beyond the cap.
Prune_KeepsAll(slots, ts) ==
    \E k \in 0..Len(ts) :
        /\ tombs' = SubSeq(ts, k + 1, Len(ts))
        /\ listed' = slots \ Ids(SubSeq(ts, 1, k))
Prune(slots, ts) ==
    \E k \in 0..Len(ts) :
        /\ Len(ts) - k <= MaxTombstones
        /\ tombs' = SubSeq(ts, k + 1, Len(ts))
        /\ listed' = slots \ Ids(SubSeq(ts, 1, k))

\* PreparedIncident.close has nothing left to do.
Finished(e) == incident[e] = "closed" \/ cleanup[e] # "not_started"

-----------------------------------------------------------------------------
(* create                                                                  *)

\* SimulatorManager.create, then DiagnosticEnvironment.reset starts to prepare.
Create(t, e) ==
    /\ incident[e] = "none" /\ \A u \in Threads : env[u] # e
    /\ Begin(t, "resetting", e, "create")
    /\ incident' = [incident EXCEPT ![e] = "preparing"]
    /\ registered' = registered \cup {e}
    /\ UNCHANGED <<slotVars, cleanup, finishes, session, calls, outcomes, todo, shutdown, late>>

\* The backend is prepared and the environment now refers to the incident.
IncidentReady(t) ==
    /\ pc[t] = "resetting"
    /\ incident' = [incident EXCEPT ![env[t]] = "active"]
    /\ Goto(t, "opening")
    /\ UNCHANGED <<slotVars, cleanup, finishes, session, calls, outcomes, shutVars>>

\* prepare raised: the backend is finished as broken, and reset reports it.
IncidentBroken(t) ==
    LET e == env[t] IN
    /\ pc[t] = "resetting"
    /\ incident' = [incident EXCEPT ![e] = "broken"]
    /\ \E result \in {"succeeded", "failed"} : cleanup' = [cleanup EXCEPT ![e] = result]
    /\ finishes' = [finishes EXCEPT ![e] = @ + 1]
    /\ registered' = registered \ {e}
    /\ Goto(t, "listing")
    /\ UNCHANGED <<slotVars, session, calls, outcomes, todo, shutdown, late>>

\* open_session; it raises when a shutdown has closed the incident meanwhile.
OpenSession(t) ==
    LET e == env[t] IN
    /\ pc[t] = "opening"
    /\ \/ /\ incident[e] = "active"
          /\ session' = [session EXCEPT ![e] = "active"]
          /\ Goto(t, "listing")
       \/ /\ incident[e] # "active"
          /\ Return(t)
          /\ UNCHANGED session
    /\ UNCHANGED <<slotVars, incident, cleanup, finishes, calls, outcomes, shutVars>>

\* The slot enters the table; a broken incident enters it as a tombstone.
ListSlot(t) ==
    LET e == env[t]
        ok == session[e] = "active"
    IN
    /\ pc[t] = "listing"
    /\ hasEnv' = IF ok THEN hasEnv \cup {e} ELSE hasEnv
    /\ terminal' = IF ok THEN terminal ELSE terminal \cup {e}
    /\ Prune(listed \cup {e}, IF ok THEN tombs ELSE Append(tombs, e))
    /\ Return(t)
    /\ UNCHANGED <<lock, incidentVars, shutVars>>

-----------------------------------------------------------------------------
(* step                                                                    *)

\* The slot is looked up under the service's lock; an unknown id is a 404.
Lookup(t, e, action) ==
    /\ incident[e] # "none"
    /\ Prune(listed, tombs)
    /\ \/ e \in listed' /\ Begin(t, "locking", e, action)
       \/ e \notin listed' /\ pc[t] = "idle" /\ UNCHANGED <<pc, env, op>>
    /\ UNCHANGED <<hasEnv, terminal, lock, incidentVars, shutVars>>

\* The slot's lock is taken; a slot without a live environment is a 409.
EnterSlot_Unlocked(t) ==
    LET e == env[t] IN
    /\ pc[t] = "locking"
    /\ \/ e \in hasEnv \ terminal /\ Goto(t, "acting")
       \/ e \notin hasEnv \ terminal /\ Return(t)
    /\ UNCHANGED <<slotVars, incidentVars, shutVars>>
EnterSlot(t) ==
    LET e == env[t] IN
    /\ pc[t] = "locking" /\ lock[e] = NoThread
    /\ \/ /\ e \in hasEnv \ terminal
          /\ lock' = [lock EXCEPT ![e] = t]
          /\ Goto(t, "acting")
       \/ /\ e \notin hasEnv \ terminal
          /\ Return(t)
          /\ UNCHANGED lock
    /\ UNCHANGED <<listed, hasEnv, terminal, tombs, incidentVars, shutVars>>

\* DiagnosticSession._require_active fails and the request ends with an error.
Refuse(t) ==
    LET e == env[t] IN
    /\ pc[t] = "acting"
    /\ session[e] # "active" \/ incident[e] # "active"
    /\ Unlock(e) /\ Return(t)
    /\ UNCHANGED <<listed, hasEnv, terminal, tombs, incidentVars, shutVars>>

SessionUsable(t) ==
    pc[t] = "acting" /\ session[env[t]] = "active" /\ incident[env[t]] = "active"

\* A limit is reached (the elapsed time may be at any action), or the action
\* envelope is invalid: the session is terminal and the incident is closed.
EndSession(t) ==
    /\ SessionUsable(t)
    /\ session' = [session EXCEPT ![env[t]] = "terminal"]
    /\ Goto(t, "closing")
    /\ UNCHANGED <<slotVars, incident, cleanup, finishes, calls, outcomes, shutVars>>

\* A tool call is counted; an invalid one is answered, a valid one runs.
StartTool(t) ==
    LET e == env[t] IN
    /\ SessionUsable(t) /\ op[t] = "tool" /\ calls[e] < MaxToolCalls
    /\ calls' = [calls EXCEPT ![e] = @ + 1]
    /\ \/ Goto(t, "tool") /\ UNCHANGED lock
       \/ Unlock(e) /\ Return(t)
    /\ UNCHANGED <<listed, hasEnv, terminal, tombs, incident, cleanup, finishes, session, outcomes, shutVars>>

\* The tool returned or raised; either way the session stays active.
ToolReturns_KeepsLock(t) ==
    /\ pc[t] = "tool"
    /\ Return(t)
    /\ UNCHANGED <<slotVars, incidentVars, shutVars>>
ToolReturns(t) ==
    /\ pc[t] = "tool"
    /\ Unlock(env[t]) /\ Return(t)
    /\ UNCHANGED <<listed, hasEnv, terminal, tombs, incidentVars, shutVars>>

StartSubmit(t) ==
    /\ SessionUsable(t) /\ op[t] = "submit" /\ calls[env[t]] < MaxToolCalls
    /\ Goto(t, "evaluating")
    /\ UNCHANGED <<slotVars, incidentVars, shutVars>>

\* PreparedIncident.evaluate checks the incident again; an exception leaves the
\* session active and answers with an error.
Evaluate(t) ==
    LET e == env[t] IN
    /\ pc[t] = "evaluating"
    /\ \/ /\ incident[e] = "active"
          /\ session' = [session EXCEPT ![e] = "terminal"]
          /\ Goto(t, "closing")
          /\ UNCHANGED lock
       \/ Unlock(e) /\ Return(t) /\ UNCHANGED session
    /\ UNCHANGED <<listed, hasEnv, terminal, tombs, incident, cleanup, finishes, calls, outcomes, shutVars>>

-----------------------------------------------------------------------------
(* PreparedIncident.close, called by a step, a delete or a shutdown        *)

CloseBegin_NoStatusCheck(t) ==
    LET e == env[t] IN
    /\ pc[t] = "closing" /\ incident[e] # "closing"
    /\ \/ incident[e] = "closed" /\ Goto(t, "closed") /\ UNCHANGED incident
       \/ incident[e] # "closed" /\ Goto(t, "finishing") /\ incident' = [incident EXCEPT ![e] = "closing"]
    /\ UNCHANGED <<slotVars, cleanup, finishes, session, calls, outcomes, shutVars>>
CloseBegin(t) ==
    LET e == env[t] IN
    /\ pc[t] = "closing" /\ incident[e] # "closing"
    /\ \/ Finished(e) /\ Goto(t, "closed") /\ UNCHANGED incident
       \/ ~Finished(e) /\ Goto(t, "finishing") /\ incident' = [incident EXCEPT ![e] = "closing"]
    /\ UNCHANGED <<slotVars, cleanup, finishes, session, calls, outcomes, shutVars>>

\* backend.finish returned or raised; the manager forgets the environment.
CloseEnd_MixesStates(t) ==
    LET e == env[t] IN
    /\ pc[t] = "finishing"
    /\ finishes' = [finishes EXCEPT ![e] = @ + 1]
    /\ cleanup' = [cleanup EXCEPT ![e] = "succeeded"] /\ incident' = [incident EXCEPT ![e] = "succeeded"]
    /\ registered' = registered \ {e}
    /\ Goto(t, "closed")
    /\ UNCHANGED <<slotVars, session, calls, outcomes, todo, shutdown, late>>
CloseEnd(t) ==
    LET e == env[t] IN
    /\ pc[t] = "finishing"
    /\ finishes' = [finishes EXCEPT ![e] = @ + 1]
    /\ \/ cleanup' = [cleanup EXCEPT ![e] = "succeeded"] /\ incident' = [incident EXCEPT ![e] = "closed"]
       \/ cleanup' = [cleanup EXCEPT ![e] = "failed"] /\ incident' = [incident EXCEPT ![e] = "broken"]
    /\ registered' = registered \ {e}
    /\ Goto(t, "closed")
    /\ UNCHANGED <<slotVars, session, calls, outcomes, todo, shutdown, late>>

\* The rest of a step whose result is terminal: the slot becomes a tombstone.
Terminate(t) ==
    LET e == env[t] IN
    /\ pc[t] = "closed" /\ op[t] \in Actions
    /\ terminal' = terminal \cup {e}
    /\ hasEnv' = hasEnv \ {e}
    /\ Prune(listed, IF e \in listed THEN Append(tombs, e) ELSE tombs)
    /\ outcomes' = [outcomes EXCEPT ![e] = @ + 1]
    /\ Unlock(e) /\ Return(t)
    /\ UNCHANGED <<incident, cleanup, finishes, session, calls, shutVars>>

-----------------------------------------------------------------------------
(* delete                                                                  *)

Delete(t, e) ==
    /\ e \in listed
    /\ Begin(t, "deleting", e, "delete")
    /\ listed' = listed \ {e}
    /\ \/ e \notin Ids(tombs) /\ UNCHANGED tombs
       \/ \E i \in 1..Len(tombs) :
            tombs[i] = e /\ tombs' = SubSeq(tombs, 1, i - 1) \o SubSeq(tombs, i + 1, Len(tombs))
    /\ UNCHANGED <<hasEnv, terminal, lock, incidentVars, shutVars>>

\* With the slot's lock: close a live environment.
DeleteEnters_Unclosed(t) ==
    LET e == env[t] IN
    /\ pc[t] = "deleting" /\ lock[e] = NoThread
    /\ hasEnv' = hasEnv \ {e}
    /\ Return(t)
    /\ UNCHANGED <<listed, terminal, lock, tombs, incidentVars, shutVars>>
DeleteEnters(t) ==
    LET e == env[t] IN
    /\ pc[t] = "deleting" /\ lock[e] = NoThread
    /\ \/ e \in hasEnv /\ lock' = [lock EXCEPT ![e] = t] /\ Goto(t, "closing")
       \/ e \notin hasEnv /\ Return(t) /\ UNCHANGED lock
    /\ UNCHANGED <<listed, hasEnv, terminal, tombs, incidentVars, shutVars>>

DeleteEnds(t) ==
    /\ pc[t] = "closed" /\ op[t] = "delete"
    /\ hasEnv' = hasEnv \ {env[t]}
    /\ Unlock(env[t]) /\ Return(t)
    /\ UNCHANGED <<listed, terminal, tombs, incidentVars, shutVars>>

-----------------------------------------------------------------------------
(* SimulatorService.close and SimulatorManager.close                       *)

ShutdownBegin(t) ==
    /\ shutdown = "no"
    /\ Begin(t, "shut_slots", NoEnv, "shutdown")
    /\ shutdown' = "running"
    /\ todo' = listed /\ late' = Envs \ listed
    /\ listed' = {} /\ tombs' = <<>>
    /\ UNCHANGED <<hasEnv, terminal, lock, incidentVars, registered>>

\* One slot of the list, under its lock.
ShutdownSlot(t, e) ==
    /\ pc[t] = "shut_slots" /\ e \in todo /\ lock[e] = NoThread
    /\ todo' = todo \ {e}
    /\ \/ /\ e \in hasEnv
          /\ lock' = [lock EXCEPT ![e] = t]
          /\ pc' = [pc EXCEPT ![t] = "closing"]
          /\ env' = [env EXCEPT ![t] = e]
          /\ UNCHANGED op
       \/ e \notin hasEnv /\ UNCHANGED <<lock, pc, env, op>>
    /\ UNCHANGED <<listed, hasEnv, terminal, tombs, incidentVars, registered, shutdown, late>>

\* The slots are done: SimulatorManager.close takes a list of its own.
ShutdownManager(t) ==
    /\ pc[t] = "shut_slots" /\ todo = {}
    /\ todo' = registered
    /\ Goto(t, "shut_envs")
    /\ UNCHANGED <<slotVars, incidentVars, registered, shutdown, late>>

\* One environment of that list, without the slot's lock.  An environment
\* whose reset is still preparing has no incident to close yet.
ShutdownEnv(t, e) ==
    /\ pc[t] = "shut_envs" /\ e \in todo
    /\ todo' = todo \ {e}
    /\ \/ /\ incident[e] \in {"none", "preparing"}
          /\ registered' = registered \ {e}
          /\ UNCHANGED <<pc, env, op>>
       \/ /\ incident[e] \notin {"none", "preparing"}
          /\ pc' = [pc EXCEPT ![t] = "closing"]
          /\ env' = [env EXCEPT ![t] = e]
          /\ UNCHANGED <<op, registered>>
    /\ UNCHANGED <<slotVars, incidentVars, shutdown, late>>

\* One environment is closed; the slot's lock is held in the first list only.
ShutdownClosed(t) ==
    LET e == env[t] IN
    /\ pc[t] = "closed" /\ op[t] = "shutdown"
    /\ \/ /\ lock[e] = t
          /\ hasEnv' = hasEnv \ {e} /\ Unlock(e)
          /\ pc' = [pc EXCEPT ![t] = "shut_slots"]
       \/ /\ lock[e] # t
          /\ pc' = [pc EXCEPT ![t] = "shut_envs"]
          /\ UNCHANGED <<hasEnv, lock>>
    /\ env' = [env EXCEPT ![t] = NoEnv]
    /\ UNCHANGED <<listed, terminal, tombs, op, incidentVars, shutVars>>

\* The pool is drained; the registry is cleared unless the drain failed.
ShutdownEnd(t) ==
    /\ pc[t] = "shut_envs" /\ todo = {}
    /\ shutdown' = "done"
    /\ registered' \in {{}, registered}
    /\ Return(t)
    /\ UNCHANGED <<slotVars, incidentVars, todo, late>>

-----------------------------------------------------------------------------
RequestStep(t) ==
    \/ IncidentReady(t) \/ IncidentBroken(t) \/ OpenSession(t) \/ ListSlot(t)
    \/ EnterSlot(t) \/ Refuse(t) \/ EndSession(t) \/ StartTool(t) \/ ToolReturns(t)
    \/ StartSubmit(t) \/ Evaluate(t)
    \/ CloseBegin(t) \/ CloseEnd(t) \/ Terminate(t)
    \/ DeleteEnters(t) \/ DeleteEnds(t)
    \/ \E e \in Envs : ShutdownSlot(t, e) \/ ShutdownEnv(t, e)
    \/ ShutdownManager(t) \/ ShutdownClosed(t) \/ ShutdownEnd(t)

NewRequest(t) ==
    \/ \E e \in Envs : Create(t, e) \/ Delete(t, e)
    \/ \E e \in Envs, action \in Actions : Lookup(t, e, action)
    \/ ShutdownBegin(t)

Next == \E t \in Threads : NewRequest(t) \/ RequestStep(t)

Spec == Init /\ [][Next]_vars

\* A running request thread is scheduled, its backend calls return, and a
\* thread that waits for a lock is not overtaken for ever.
FairSpec == Spec /\ \A t \in Threads : SF_vars(RequestStep(t))

-----------------------------------------------------------------------------
(* Properties                                                              *)

\* "fault recovery occurs once": however steps, deletes and a shutdown race on
\* one environment, its backend is finished at most once.
RecoveryOnce == \A e \in Envs : finishes[e] <= 1

\* One environment gives one outcome: of several steps sent at once, only one
\* gets a terminal result, the others an error.
OneOutcome == \A e \in Envs : outcomes[e] <= 1

\* A tool runs only while its incident is active: no recovery starts under it.
\* A shutdown keeps to this for every slot of its list; an environment that was
\* being created or deleted at that moment is closed without its slot's lock.
ToolsSeeTheIncident ==
    \A t \in Threads : pc[t] = "tool" /\ env[t] \notin late => incident[env[t]] = "active"

\* No incident is forgotten: when a slot has left the table or has no
\* environment any more, and no request works on it, its backend was finished.
NoIncidentForgotten ==
    \A e \in Envs :
        /\ session[e] # "none"
        /\ e \notin listed \/ e \in terminal
        /\ \A t \in Threads : env[t] # e
        /\ e \notin todo
        => finishes[e] = 1

\* The table keeps no more tombstones than its cap, and every one of them is a
\* listed terminal slot, so that a late request gets a 409 and not an error.
TombstonesBounded ==
    /\ Len(tombs) <= MaxTombstones
    /\ Ids(tombs) = listed \cap terminal

Answered(t) == pc[t] = "idle"

\* Every request is answered: no two locks are waited for in a cycle.
RequestsAnswered == \A t \in Threads : ~Answered(t) ~> Answered(t)
=============================================================================
