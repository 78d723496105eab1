----------------------------- MODULE LinkFaults -----------------------------
(***************************************************************************)
(* Link faults of one physical link: handlers/link.py takes both endpoints *)
(* down and brings them back, services/periodic.py flaps the link from a   *)
(* thread of its own, services/tracking.py keeps the list of active faults *)
(* and the running controllers, and injector.py recovers them all.         *)
(*                                                                         *)
(* The process 0 is the caller of the injector; process i > 0 is the       *)
(* controller thread of the i-th injection.  One step is the work on one   *)
(* endpoint of _set_physical_link().  A command may fail with or without   *)
(* its effect.                                                             *)
(*                                                                         *)
(* A definition named Op_Variant is a mutated form of Op: replacing Op by  *)
(* it must break a property.  No specification uses it.                    *)
(***************************************************************************)
EXTENDS Naturals, Sequences, Functions

CONSTANTS
    ClientEnds,     \* endpoints that belong to a client and carry its routes
    Types,          \* the fault types that are injected
    MaxFaults,      \* bound: how many injections
    MayExpire       \* the deadline of an injection may pass while it sleeps

\* The two endpoints in the order _link_endpoints() returns them.
Endpoints == <<"target", "peer">>
Ends == {"target", "peer"}

Ids == 1 .. MaxFaults
Procs == 0 .. MaxFaults

VARIABLES
    admin,      \* the endpoints that are admin up
    routes,     \* the client endpoints whose routes are installed
    job,        \* each process's call of _set_physical_link()
    main,       \* what the caller of the injector is doing
    ctl,        \* the state of each periodic controller
    stop,       \* the controllers whose stop event is set
    tracked,    \* the tracker's active faults
    injected    \* how many injections were started

vars == <<admin, routes, job, main, ctl, stop, tracked, injected>>

\* What the tracker keeps of a fault: `snapshot` holds the client endpoints
\* whose routes were in the route snapshot of the record.
Faults == [id : Ids, type : {"link_down", "link_flapping"}, residual : BOOLEAN,
           task : BOOLEAN, snapshot : SUBSET Ends]

\* One call of _set_physical_link(): the endpoints still to do, the ones
\* attempted, and whether errors or compensation errors were collected.
Idle == [phase |-> "idle", enabled |-> TRUE, left |-> <<>>, attempted |-> <<>>,
         errors |-> FALSE, residual |-> FALSE, snapshot |-> {}]

Rest == [op |-> "idle", fault |-> 0, type |-> "none", snapshot |-> {},
         todo |-> <<>>, remaining |-> <<>>]

Init ==
    /\ admin = Ends /\ routes = ClientEnds
    /\ job = [p \in Procs |-> Idle] /\ main = Rest
    /\ ctl = [i \in Ids |-> "none"] /\ stop = {}
    /\ tracked = <<>> /\ injected = 0

-----------------------------------------------------------------------------
(* _set_physical_link().                                                   *)

SetLink(enabled, snapshot) ==
    [Idle EXCEPT !.phase = "set", !.enabled = enabled, !.left = Endpoints,
                 !.snapshot = snapshot]

\* A process may take its next command: the caller always, a controller
\* until its stop event cancels it.
MayRun(p) == p = 0 \/ p \notin stop

Ended(j) == j.phase = "set" /\ j.left = <<>>

\* What taking an endpoint up or down leaves behind: the kernel drops the
\* client's routes with the link and does not bring them back.
Effect(e, enabled) ==
    /\ admin' = IF enabled THEN admin \cup {e} ELSE admin \ {e}
    /\ routes' = IF enabled THEN routes ELSE routes \ {e}

\* reversed(attempted).
LastFirst(s) == [i \in 1 .. Len(s) |-> s[Len(s) + 1 - i]]

\* One endpoint is done; a failed shutdown stops the walk and brings every
\* attempted endpoint back up, the last one first.
Compensation_WithoutTheFailed(j, e) ==
    [j EXCEPT !.errors = TRUE, !.phase = "compensate", !.left = LastFirst(j.attempted)]

Compensation(j, e) ==
    [j EXCEPT !.errors = TRUE, !.phase = "compensate",
              !.left = LastFirst(Append(j.attempted, e))]

After(j, e, ok) ==
    CASE j.phase = "compensate" ->
            [j EXCEPT !.left = Tail(@), !.residual = @ \/ ~ok]
      [] j.phase = "set" /\ ~ok /\ ~j.enabled -> Compensation(j, e)
      [] OTHER -> [j EXCEPT !.left = Tail(@), !.attempted = Append(@, e),
                            !.errors = @ \/ ~ok]

\* _set_link_admin_state() on the next endpoint: the command, its fallback
\* and the readback.  An endpoint that was brought up gets its routes next.
SetAdmin(p) ==
    LET j == job[p]
        e == Head(j.left)
        enabled == j.enabled \/ j.phase = "compensate"
    IN  /\ j.phase \in {"set", "compensate"} /\ j.left # <<>> /\ MayRun(p)
        /\ \/ /\ Effect(e, enabled)
              /\ job' = [job EXCEPT ![p] =
                    IF enabled /\ e \in j.snapshot
                    THEN [j EXCEPT !.phase = IF @ = "set" THEN "routes" ELSE "comp_routes"]
                    ELSE After(j, e, TRUE)]
           \/ /\ Effect(e, enabled) \/ UNCHANGED <<admin, routes>>
              /\ job' = [job EXCEPT ![p] = After(j, e, FALSE)]
        /\ UNCHANGED <<main, ctl, stop, tracked, injected>>

RestoreRoutes_TrustsTheCommand(p) ==
    LET e == Head(job[p].left)
        j == [job[p] EXCEPT !.phase = IF @ = "routes" THEN "set" ELSE "compensate"]
    IN  /\ job[p].phase \in {"routes", "comp_routes"} /\ MayRun(p)
        /\ routes' = routes \/ (e \in admin /\ routes' = routes \cup {e})
        /\ job' = [job EXCEPT ![p] = After(j, e, TRUE)]
        /\ UNCHANGED <<admin, main, ctl, stop, tracked, injected>>

\* _restore_client_routes(): replaces the missing routes and reads them
\* back; routes cannot be put on an endpoint that is down again.
RestoreRoutes(p) ==
    LET e == Head(job[p].left)
        j == [job[p] EXCEPT !.phase = IF @ = "routes" THEN "set" ELSE "compensate"]
    IN  /\ job[p].phase \in {"routes", "comp_routes"} /\ MayRun(p)
        /\ \/ /\ e \in admin /\ routes' = routes \cup {e}
              /\ job' = [job EXCEPT ![p] = After(j, e, TRUE)]
           \/ /\ routes' = routes \/ (e \in admin /\ routes' = routes \cup {e})
              /\ job' = [job EXCEPT ![p] = After(j, e, FALSE)]
        /\ UNCHANGED <<admin, main, ctl, stop, tracked, injected>>

\* The end of the compensation.
Compensated(p) ==
    /\ job[p].phase = "compensate" /\ job[p].left = <<>>
    /\ job' = [job EXCEPT ![p].phase = "set"]
    /\ UNCHANGED <<admin, routes, main, ctl, stop, tracked, injected>>

-----------------------------------------------------------------------------
(* Injection.                                                              *)

\* inject_link_down(), inject_link_flapping(): both endpoints must read as
\* up, the routes of client endpoints are snapshot, then the link goes down.
Inject(type) ==
    /\ main.op = "idle" /\ injected < MaxFaults
    /\ injected' = injected + 1
    /\ admin = Ends
    /\ main' = [Rest EXCEPT !.op = "inject", !.fault = injected + 1, !.type = type,
                            !.snapshot = routes]
    /\ job' = [job EXCEPT ![0] = SetLink(FALSE, routes)]
    /\ UNCHANGED <<admin, routes, ctl, stop, tracked>>

Fault(residual) ==
    [id |-> main.fault, type |-> main.type, residual |-> residual,
     task |-> ~residual /\ main.type = "link_flapping",
     snapshot |-> IF residual /\ main.type = "link_flapping" THEN {} ELSE main.snapshot]

\* A failed injection is tracked only if its compensation failed too.
Residual(j) == j.residual

\* The link is down: the fault is tracked, and a flapping link gets its
\* controller.  A residual of link_flapping is tracked without its peer, its
\* task and its route snapshot.
InjectEnds ==
    /\ main.op = "inject" /\ Ended(job[0])
    /\ tracked' = IF ~job[0].errors THEN Append(tracked, Fault(FALSE))
                  ELSE IF Residual(job[0]) THEN Append(tracked, Fault(TRUE))
                  ELSE tracked
    /\ ctl' = IF ~job[0].errors /\ main.type = "link_flapping"
              THEN [ctl EXCEPT ![main.fault] = "down"] ELSE ctl
    /\ main' = Rest /\ job' = [job EXCEPT ![0] = Idle]
    /\ UNCHANGED <<admin, routes, stop, injected>>

\* The deadline of the phase passes inside control.sleep() of the readback
\* loop: the TimeoutError leaves _set_physical_link() and the handler.
InjectExpires ==
    /\ MayExpire
    /\ main.op = "inject" /\ job[0].phase \in {"set", "compensate"} /\ job[0].left # <<>>
    /\ Effect(Head(job[0].left), job[0].phase = "compensate")
    /\ main' = Rest /\ job' = [job EXCEPT ![0] = Idle]
    /\ UNCHANGED <<ctl, stop, tracked, injected>>

-----------------------------------------------------------------------------
(* The periodic controller.                                                *)

\* stop_event.wait() times out: the other phase begins, with the endpoints
\* and the snapshot that the injection captured.
Toggle(i) ==
    /\ ctl[i] \in {"down", "up"} /\ i \notin stop
    /\ ctl' = [ctl EXCEPT ![i] = IF @ = "down" THEN "healthy" ELSE "fault"]
    /\ \E f \in {g \in Range(tracked) : g.id = i} :
          job' = [job EXCEPT ![i] = SetLink(ctl[i] = "down", f.snapshot)]
    /\ UNCHANGED <<admin, routes, main, stop, tracked, injected>>

\* The phase is over; an error ends the controller.
Toggled(i) ==
    /\ ctl[i] \in {"healthy", "fault"} /\ Ended(job[i])
    /\ ctl' = [ctl EXCEPT ![i] = IF job[i].errors THEN "done"
                                 ELSE IF @ = "healthy" THEN "up" ELSE "down"]
    /\ stop' = IF job[i].errors THEN stop \cup {i} ELSE stop
    /\ job' = [job EXCEPT ![i] = Idle]
    /\ UNCHANGED <<admin, routes, main, tracked, injected>>

Cancelled_KeepsWaiting(i) ==
    /\ i \in stop /\ ctl[i] \in {"healthy", "fault"} /\ ~Ended(job[i])
    /\ ctl' = [ctl EXCEPT ![i] = "done"] /\ job' = [job EXCEPT ![i] = Idle]
    /\ UNCHANGED <<admin, routes, main, stop, tracked, injected>>

\* The stop event ends the wait, or cancels the command in flight, which
\* may have had its effect.
Cancelled(i) ==
    /\ i \in stop /\ ctl[i] \notin {"none", "done"}
    /\ ~Ended(job[i])
    /\ ctl' = [ctl EXCEPT ![i] = "done"]
    /\ job' = [job EXCEPT ![i] = Idle]
    /\ \/ UNCHANGED <<admin, routes>>
       \/ /\ job[i].phase \in {"set", "compensate"} /\ job[i].left # <<>>
          /\ Effect(Head(job[i].left), job[i].enabled \/ job[i].phase = "compensate")
    /\ UNCHANGED <<main, stop, tracked, injected>>

-----------------------------------------------------------------------------
(* Recovery.                                                               *)

\* recover_all() walks a copy of the list.
RecoverAll ==
    /\ main.op = "idle" /\ tracked # <<>>
    /\ main' = [Rest EXCEPT !.op = "next", !.todo = tracked]
    /\ UNCHANGED <<admin, routes, job, ctl, stop, tracked, injected>>

\* stop_background(): sets the event; nothing to do without a task.
StopBackground ==
    /\ main.op = "next" /\ main.todo # <<>>
    /\ stop' = IF Head(main.todo).task THEN stop \cup {Head(main.todo).id} ELSE stop
    /\ main' = [main EXCEPT !.op = "join"]
    /\ UNCHANGED <<admin, routes, job, ctl, tracked, injected>>

\* The thread has ended: the link is brought up again.
Joined ==
    /\ main.op = "join"
    /\ Head(main.todo).task => ctl[Head(main.todo).id] = "done"
    /\ main' = [main EXCEPT !.op = "restore"]
    /\ job' = [job EXCEPT ![0] = SetLink(TRUE, Head(main.todo).snapshot)]
    /\ UNCHANGED <<admin, routes, ctl, stop, tracked, injected>>

JoinTimesOut_DropsTheFault ==
    /\ main.op = "join" /\ Head(main.todo).task
    /\ ctl[Head(main.todo).id] # "done"
    /\ main' = [main EXCEPT !.op = "next", !.todo = Tail(@)]
    /\ UNCHANGED <<admin, routes, job, ctl, stop, tracked, injected>>

\* join() timed out, or the recovery budget is spent: not recovered.
JoinTimesOut ==
    /\ main.op = "join" /\ Head(main.todo).task
    /\ ctl[Head(main.todo).id] # "done"
    /\ main' = [main EXCEPT !.op = "next", !.todo = Tail(@),
                            !.remaining = Append(@, Head(main.todo))]
    /\ UNCHANGED <<admin, routes, job, ctl, stop, tracked, injected>>

\* remove_faults(): every fault of the type on this link.
Removed(f) == SelectSeq(tracked, LAMBDA g : g.type # f.type)

\* recover_link_down(), recover_link_flapping(): a recovered fault leaves
\* the tracker, the others remain.
Recovered ==
    /\ main.op = "restore" /\ Ended(job[0])
    /\ LET f == Head(main.todo)
       IN  IF job[0].errors
           THEN /\ main' = [main EXCEPT !.op = "next", !.todo = Tail(@),
                                        !.remaining = Append(@, f)]
                /\ UNCHANGED tracked
           ELSE /\ main' = [main EXCEPT !.op = "next", !.todo = Tail(@)]
                /\ tracked' = Removed(f)
    /\ job' = [job EXCEPT ![0] = Idle]
    /\ UNCHANGED <<admin, routes, ctl, stop, injected>>

\* The faults that were not recovered become the list again.
RecoverAllEnds ==
    /\ main.op = "next" /\ main.todo = <<>>
    /\ tracked' = main.remaining
    /\ main' = Rest
    /\ UNCHANGED <<admin, routes, job, ctl, stop, injected>>

-----------------------------------------------------------------------------
Step(p) == SetAdmin(p) \/ RestoreRoutes(p) \/ Compensated(p)

Injecting == (\E t \in Types : Inject(t)) \/ InjectEnds \/ InjectExpires

Controller(i) == Toggle(i) \/ Toggled(i) \/ Cancelled(i)

Recovering == StopBackground \/ Joined \/ JoinTimesOut \/ Recovered \/ RecoverAllEnds

Next ==
    \/ \E p \in Procs : Step(p)
    \/ Injecting
    \/ \E i \in Ids : Controller(i)
    \/ RecoverAll \/ Recovering

Spec == Init /\ [][Next]_vars

\* Every thread that has work goes on; nobody has to inject or to recover.
FairSpec ==
    /\ Spec
    /\ \A p \in Procs : WF_vars(Step(p))
    /\ \A i \in Ids : WF_vars(Toggled(i) \/ Cancelled(i))
    /\ WF_vars(InjectEnds) /\ WF_vars(Recovering)

-----------------------------------------------------------------------------
(* Properties.                                                             *)

\* The type of the state.
TypeOK ==
    /\ admin \subseteq Ends /\ routes \subseteq ClientEnds
    /\ stop \subseteq Ids /\ injected \in 0 .. MaxFaults
    /\ ctl \in [Ids -> {"none", "down", "healthy", "up", "fault", "done"}]
    /\ Range(tracked) \subseteq Faults /\ Len(tracked) <= MaxFaults
    /\ main.op \in {"idle", "inject", "next", "join", "restore"}
    /\ \A p \in Procs : job[p].phase \in {"idle", "set", "routes", "compensate", "comp_routes"}

\* When nothing is tracked and no call is running, the link is up on both
\* sides and no controller thread is left to take it down: an injection that
\* failed was compensated, one that worked was recovered.
LinkBack ==
    main.op = "idle" /\ tracked = <<>> =>
        admin = Ends /\ \A i \in Ids : ctl[i] \in {"none", "done"}

\* And the clients have the routes the fault took from them
\* (_restore_client_routes() in every path that brings an endpoint up).
RoutesBack == main.op = "idle" /\ tracked = <<>> => routes = ClientEnds

\* A controller touches the link only while its fault is tracked: the
\* record that can stop it is never dropped before the thread is gone.
ControllerIsTracked ==
    \A i \in Ids : ctl[i] \notin {"none", "done"} /\ main.op = "idle" =>
        \E f \in Range(tracked) : f.id = i /\ f.task

CallerIdle == main.op = "idle"

\* A call of the injector ends: join() is bounded and a stopped controller
\* goes away, whatever the commands answer.
CallsEnd == ~CallerIdle ~> CallerIdle

AllHeard == \A i \in stop : ctl[i] = "done"

\* A controller that was told to stop ends.
StopIsHeard == ~AllHeard ~> AllHeard
=============================================================================
