------------------------- MODULE ScenarioExecution -------------------------
(***************************************************************************)
(* One worker's executor runs cases one after another: scenario/executor,  *)
(* incident_backend, episode_runner, observation and baseline.  A case     *)
(* readies the traffic, takes over or captures a healthy baseline, injects *)
(* its fault, observes, lets the agent diagnose, and cleans up under one   *)
(* deadline; a verified healthy window may be handed to the next case.     *)
(*                                                                         *)
(* Time is kept as ages and remaining budgets that saturate, so a behaviour*)
(* may be of any length.                                                   *)
(*                                                                         *)
(* A definition named Op_Variant is a mutated form of Op: replacing Op by  *)
(* it must break a property.  No specification uses it.                    *)
(***************************************************************************)
EXTENDS Naturals

CONSTANTS
    MaxCases,   \* bound: cases the executor runs
    MaxDisturb, \* bound: containers that restart on their own
    Window,     \* ticks of a complete observation window
    MaxAge,     \* MAX_WINDOW_AGE_SECONDS, in ticks
    Recalibrate,\* RECALIBRATE_SECONDS, in ticks
    Budget      \* recovery_timeout_seconds, in ticks

None == [none |-> TRUE]

Kinds == {"healthy", "config", "device_down"}

VARIABLES
    lab,        \* the lab: scope, tracked fault, whether the dataplane is sick
    pc,         \* where run_scenario() is
    case,       \* the case: number, kind, scope, baseline, broken, candidate
    win,        \* the window that is being captured
    wait,       \* ticks until the capture is complete
    cl,         \* the cleanup: remaining budget, attempts, results, proofs
    handoff,    \* BaselineHandoff: window, scope, age of the epoch
    taken,      \* the windows that were reused
    result      \* what the last run_scenario() returned

vars == <<lab, pc, case, win, wait, cl, handoff, taken, result>>

\* The scope of the runtime: instance of the fault's device, of the rest
\* (other containers, traffic generation), and the device's configuration.
Scopes == [target : 0 .. MaxCases, rest : 0 .. MaxCases + MaxDisturb]

EmptyHandoff == [window |-> None, scope |-> None, epoch |-> None]

NoCase == [number |-> 0, kind |-> "healthy", scope |-> None, base |-> None,
           broken |-> FALSE, candidate |-> None, reused |-> FALSE]

NoCleanup == [left |-> Budget, attempts |-> 0, results |-> "none", attempted |-> FALSE,
              scope |-> None, validated |-> None, ended |-> "no"]

Init ==
    /\ lab = [scope |-> [target |-> 0, rest |-> 0], tracked |-> FALSE, sick |-> FALSE,
              traffic |-> FALSE, disturbed |-> 0]
    /\ pc = "idle" /\ case = NoCase /\ win = None /\ wait = 0
    /\ cl = NoCleanup /\ handoff = EmptyHandoff /\ taken = {}
    /\ result = [success |-> TRUE, cleanupFailed |-> FALSE]

-----------------------------------------------------------------------------
(* The surroundings.                                                       *)

Older(age, limit) == IF age > limit THEN age ELSE age + 1

AgedWindow(w) == IF w = None THEN None ELSE [w EXCEPT !.age = Older(@, MaxAge)]

\* A second or so passes.
Tick ==
    /\ pc # "idle" \/ handoff.window # None
    /\ wait' = IF wait > 0 THEN wait - 1 ELSE 0
    /\ cl' = [cl EXCEPT !.left = IF pc \in {"cleanup", "check", "prove", "validate", "conclude"} /\ @ > 0
                                 THEN @ - 1 ELSE @,
                        !.validated = AgedWindow(@)]
    /\ case' = [case EXCEPT !.candidate = AgedWindow(@)]
    /\ handoff' = [handoff EXCEPT
          !.window = AgedWindow(@),
          !.epoch = IF @ = None THEN None ELSE [age |-> Older(@.age, Recalibrate)]]
    /\ UNCHANGED <<lab, pc, win, taken, result>>

\* The window in progress sees the lab become sick or a container restart.
Seen(sick, restart) ==
    win' = IF win = None THEN None
           ELSE [win EXCEPT !.clean = @ /\ ~sick, !.steady = @ /\ ~restart]

\* A container restarts on its own; the dataplane, the senders of its
\* client, or neither suffer.
Disturb ==
    /\ lab.disturbed < MaxDisturb
    /\ \E sick, traffic \in BOOLEAN :
          /\ lab' = [lab EXCEPT !.scope.rest = @ + 1, !.disturbed = @ + 1,
                                !.sick = @ \/ sick, !.traffic = @ /\ traffic]
          /\ Seen(sick, TRUE)
    /\ UNCHANGED <<pc, case, wait, cl, handoff, taken, result>>

\* The dataplane converges when no fault is in it.
Converge ==
    /\ lab.sick /\ ~lab.tracked
    /\ lab' = [lab EXCEPT !.sick = FALSE]
    /\ UNCHANGED <<pc, case, win, wait, cl, handoff, taken, result>>

-----------------------------------------------------------------------------
(* prepare().                                                              *)

Goto(p) == pc' = p

\* An exception of prepare(), or a cancellation, breaks the incident,
\* which is cleaned up.
Breaks ==
    /\ pc \in {"traffic", "baseline", "fresh", "baselining", "routes", "inject",
               "observe", "observing", "effect"}
    /\ case' = [case EXCEPT !.broken = TRUE] /\ Goto("cleanup")
    /\ win' = None /\ wait' = 0 /\ cl' = NoCleanup
    /\ UNCHANGED <<lab, handoff, taken, result>>

\* run_scenario() on a worker that was not quarantined.
Begin(kind) ==
    /\ pc = "idle" /\ ~result.cleanupFailed /\ case.number < MaxCases
    /\ case' = [NoCase EXCEPT !.number = case.number + 1, !.kind = kind]
    /\ Goto("traffic")
    /\ UNCHANGED <<lab, win, wait, cl, handoff, taken, result>>

\* Traffic that still verifies is kept; otherwise it is stopped and set up
\* again, under a new generation.
ReadyTraffic ==
    /\ pc = "traffic" /\ Goto("baseline")
    /\ \/ lab.traffic /\ UNCHANGED lab
       \/ lab' = [lab EXCEPT !.traffic = TRUE,
                             !.scope.rest = IF @ < MaxCases + MaxDisturb THEN @ + 1 ELSE @]
    /\ UNCHANGED <<case, win, wait, cl, handoff, taken, result>>

\* runtime_scope() of a lab whose containers can be inspected, or None.
ReadScope == {lab.scope, None}

Usable_AnyScope(scope) ==
    /\ handoff.window # None
    /\ handoff.epoch # None /\ handoff.epoch.age <= Recalibrate
    /\ handoff.window.age <= MaxAge

Usable_AnyAge(scope) ==
    /\ scope # None /\ scope = handoff.scope /\ handoff.window # None

\* The conditions of take().
Usable(scope) ==
    /\ scope # None /\ scope = handoff.scope /\ handoff.window # None
    /\ handoff.epoch # None /\ handoff.epoch.age <= Recalibrate
    /\ handoff.window.age <= MaxAge

Emptied_KeepsTheWindow == UNCHANGED handoff

\* take() empties the slot whatever it answers.
Emptied == handoff' = [handoff EXCEPT !.window = None]

TakeBaseline ==
    /\ pc = "baseline" /\ Emptied
    /\ \E scope \in ReadScope :
          IF Usable(scope)
          THEN /\ case' = [case EXCEPT !.scope = scope, !.base = handoff.window, !.reused = TRUE]
               /\ taken' = taken \cup {handoff.window.id} /\ Goto("routes")
          ELSE /\ case' = [case EXCEPT !.scope = scope] /\ Goto("fresh") /\ UNCHANGED taken
    /\ UNCHANGED <<lab, win, wait, cl, result>>

\* capture_observation_window(): it starts now and is complete after Window.
Capture(id, next) ==
    /\ win' = [id |-> id, clean |-> ~lab.sick, steady |-> TRUE, scope |-> lab.scope, age |-> 0]
    /\ wait' = Window /\ Goto(next)

CaptureBaseline ==
    /\ pc = "fresh" /\ Capture(<<case.number, "fresh">>, "baselining")
    /\ UNCHANGED <<lab, case, cl, handoff, taken, result>>

Gate_Unchecked(w) == TRUE

\* baseline_gate_errors(): a window with a sick path in it does not pass.
Gate(w) == w.clean

\* A baseline that passes begins a new epoch of the handoff.
FreshBaseline ==
    /\ pc = "baselining" /\ wait = 0 /\ Gate(win)
    /\ case' = [case EXCEPT !.base = win]
    /\ handoff' = [EmptyHandoff EXCEPT !.epoch = [age |-> 0]]
    /\ win' = None /\ Goto("routes")
    /\ UNCHANGED <<lab, wait, cl, taken, result>>

CollectRoutes ==
    /\ pc = "routes" /\ Goto("inject")
    /\ UNCHANGED <<lab, case, win, wait, cl, handoff, taken, result>>

\* observe_episode() begins: a healthy episode injects nothing; an injection
\* succeeds, or fails with a residual mutation on record.
Inject ==
    /\ pc = "inject"
    /\ \/ case.kind = "healthy" /\ Goto("observe") /\ UNCHANGED <<lab, case, cl>>
       \/ /\ case.kind # "healthy"
          /\ lab' = [lab EXCEPT !.tracked = TRUE, !.sick = TRUE]
          /\ \/ Goto("observe") /\ UNCHANGED <<case, cl>>
             \/ Goto("cleanup") /\ case' = [case EXCEPT !.broken = TRUE] /\ cl' = NoCleanup
    /\ UNCHANGED <<win, wait, handoff, taken, result>>

CaptureObservation ==
    /\ pc = "observe" /\ Capture(<<case.number, "observed">>, "observing")
    /\ UNCHANGED <<lab, case, cl, handoff, taken, result>>

\* _offer_healthy_window() keeps a healthy episode's window if it passes.
Observed ==
    /\ pc = "observing" /\ wait = 0 /\ Goto("effect") /\ win' = None
    /\ \/ case.kind = "healthy" /\ Gate(win) /\ case' = [case EXCEPT !.candidate = win]
       \/ UNCHANGED case
    /\ UNCHANGED <<lab, wait, cl, handoff, taken, result>>

\* The effect is validated and the toolkit built.
Prepared ==
    /\ pc = "effect" /\ Goto("diagnose")
    /\ UNCHANGED <<lab, case, win, wait, cl, handoff, taken, result>>

\* The callback ends: a submission is scored, an agent's failure or a
\* malformed diagnosis ends the session; then incident.close().
Diagnosed ==
    /\ pc = "diagnose" /\ Goto("cleanup") /\ cl' = NoCleanup
    /\ \E success \in BOOLEAN : result' = [result EXCEPT !.success = success]
    /\ UNCHANGED <<lab, case, win, wait, handoff, taken>>

-----------------------------------------------------------------------------
(* _cleanup_after_scenario().                                              *)

Ends(status) == cl' = [cl EXCEPT !.ended = status] /\ Goto("finish")

Complete == ~lab.tracked /\ cl.results \in {"none", "recovered"}

Again == cl.attempts = 0 \/ cl.left > 0

Attempted == IF cl.attempts = 2 THEN 2 ELSE cl.attempts + 1

\* The loop finds nothing left to recover.
NothingToRecover ==
    /\ pc = "cleanup" /\ Again /\ Complete
    /\ cl' = [cl EXCEPT !.attempts = Attempted] /\ Goto("check")
    /\ UNCHANGED <<lab, case, win, wait, handoff, taken, result>>

\* recover_all(): a device_down fault restarts its device; an exception
\* leaves the results of the attempt before.
Recovers(outcome) ==
    /\ lab' = IF outcome = "recovered"
              THEN [lab EXCEPT !.tracked = FALSE,
                               !.scope.target = @ + (IF case.kind = "device_down" THEN 1 ELSE 0)]
              ELSE lab
    /\ cl' = [cl EXCEPT !.attempts = Attempted, !.attempted = TRUE,
                        !.results = IF outcome = "raised" THEN @ ELSE outcome,
                        !.ended = IF outcome = "terminal" THEN "terminal_recovery_failure" ELSE @]

RecoverFault ==
    /\ pc = "cleanup" /\ Again /\ ~Complete
    /\ \E outcome \in {"recovered", "failed", "terminal", "raised"} :
          /\ Recovers(outcome)
          /\ Goto(CASE outcome = "recovered" -> "check"
                    [] outcome = "terminal" -> "finish"
                    [] OTHER -> "cleanup")
    /\ UNCHANGED <<case, win, wait, handoff, taken, result>>

\* The deadline has passed between two attempts.
LoopEnds ==
    /\ pc = "cleanup" /\ ~Again /\ Ends("timeout")
    /\ UNCHANGED <<lab, case, win, wait, handoff, taken, result>>

\* Traffic and worker health after the recovery: an error is retried, and
\* what is sick or silent is an error.
CheckHealth ==
    /\ pc = "check"
    /\ \/ ~lab.sick /\ lab.traffic /\ Goto("prove") /\ UNCHANGED cl
       \/ cl.left > 0 /\ Goto("cleanup") /\ UNCHANGED cl
       \/ cl.left = 0 /\ Ends("post_recovery_convergence_timeout")
    /\ UNCHANGED <<lab, case, win, wait, handoff, taken, result>>

Kept_AnyRestart(scope) == scope # None

\* restored_scope_errors(): nothing but the restart a device_down fault asked
\* for may have changed since the case began.
Kept(scope) ==
    \/ case.scope = None
    \/ /\ scope # None /\ scope.rest = case.scope.rest
       /\ \/ scope.target = case.scope.target
          \/ case.kind = "device_down"

\* The configuration proof and the window after the recovery.  frr_snapshot()
\* may raise; what it raises leaves finish() without a cleanup result.
Prove ==
    /\ pc = "prove"
    /\ \/ ~(cl.attempted /\ case.base # None) /\ Goto("conclude") /\ UNCHANGED <<cl, win, wait>>
       \/ /\ cl.attempted /\ case.base # None
          /\ \/ Ends("configuration_recovery_failed") /\ UNCHANGED <<win, wait>>
             \/ Ends("raised") /\ UNCHANGED <<win, wait>>
             \/ \E scope \in ReadScope :
                  IF ~Kept(scope)
                  THEN Ends("recovery_identity_changed") /\ UNCHANGED <<win, wait>>
                  ELSE IF cl.left < Window
                  THEN Ends("recovery_timeout") /\ UNCHANGED <<win, wait>>
                  ELSE /\ Capture(<<case.number, "validated">>, "validate")
                       /\ cl' = [cl EXCEPT !.scope = scope]
    /\ UNCHANGED <<lab, case, handoff, taken, result>>

SameScope(scope) == cl.scope = None \/ scope = cl.scope

\* The window is complete: the deadline, the scope again, and the gate.
Validate ==
    /\ pc = "validate" /\ (wait = 0 \/ cl.left = 0)
    /\ win' = None
    /\ \/ cl.left = 0 /\ Ends("recovery_timeout")
       \/ /\ cl.left > 0
          /\ \E scope \in ReadScope :
                IF ~SameScope(scope) THEN Ends("recovery_identity_changed")
                ELSE IF ~Gate(win) THEN Ends("post_recovery_baseline_failed")
                ELSE /\ cl' = [cl EXCEPT !.validated = win] /\ Goto("conclude")
       \/ cl.left > 0 /\ Ends("post_recovery_baseline_failed")
    /\ UNCHANGED <<lab, case, wait, handoff, taken, result>>

\* The last look at the deadline, and the routes of the health check.
Conclude ==
    /\ pc = "conclude"
    /\ \/ cl.left = 0 /\ Ends("timeout")
       \/ cl.left > 0 /\ Ends("clean")
       \/ cl.left > 0 /\ Ends("route_recovery_failed")
    /\ UNCHANGED <<lab, case, win, wait, handoff, taken, result>>

-----------------------------------------------------------------------------
(* finish() and the end of run_scenario().                                 *)

Offered == IF cl.validated # None THEN cl.validated
           ELSE IF case.kind = "healthy" THEN case.candidate ELSE None

\* The scope that the published window must still have.
BoundScope == IF cl.validated # None /\ cl.scope # None THEN cl.scope ELSE case.scope

MayPublish_AnyScope(scope) ==
    /\ ~case.broken /\ cl.ended = "clean" /\ Offered # None
    /\ scope # None

MayPublish(scope) ==
    /\ ~case.broken /\ cl.ended = "clean" /\ Offered # None
    /\ case.scope # None /\ scope = BoundScope

\* publish() refuses without an epoch or with a window that is too old.
Publish(scope) ==
    handoff' = IF scope # None /\ handoff.epoch # None /\ Offered.age <= MaxAge
               THEN [handoff EXCEPT !.window = Offered, !.scope = scope]
               ELSE [handoff EXCEPT !.window = None]

Reported_Quiet == result' = [result EXCEPT !.cleanupFailed = cl.ended = "terminal_recovery_failure"]

\* run_scenario(): without a cleanup result the incident's status decides.
Reported ==
    result' = [success |-> result.success /\ ~case.broken, cleanupFailed |-> cl.ended # "clean"]

\* An exception of the cleanup leaves the handoff as take() left it.
Finish ==
    /\ pc = "finish" /\ Goto("idle") /\ Reported
    /\ \/ cl.ended = "raised" /\ UNCHANGED handoff
       \/ /\ cl.ended # "raised"
          /\ \E scope \in ReadScope :
                IF MayPublish(scope) THEN Publish(scope) ELSE handoff' = EmptyHandoff
    /\ UNCHANGED <<lab, case, win, wait, cl, taken>>

-----------------------------------------------------------------------------
Prepare ==
    \/ ReadyTraffic \/ TakeBaseline \/ CaptureBaseline \/ FreshBaseline \/ CollectRoutes
    \/ Inject \/ CaptureObservation \/ Observed \/ Prepared

Cleanup ==
    \/ NothingToRecover \/ RecoverFault \/ LoopEnds \/ CheckHealth \/ Prove \/ Validate
    \/ Conclude \/ Finish

Next ==
    \/ Tick \/ Disturb \/ Converge \/ Breaks \/ Prepare \/ Diagnosed \/ Cleanup
    \/ \E kind \in Kinds : Begin(kind)

Spec == Init /\ [][Next]_vars

\* The executor runs on and time passes; a baseline that never passes its
\* gate ends in an exception.  The lab need not converge.
FairSpec == Spec /\ WF_vars(Tick) /\ WF_vars(Prepare \/ Breaks) /\ WF_vars(Diagnosed) /\ WF_vars(Cleanup)

-----------------------------------------------------------------------------
(* Properties.                                                             *)

WindowRecords ==
    [id : (1 .. MaxCases) \X {"fresh", "observed", "validated"}, clean : BOOLEAN,
     steady : BOOLEAN, scope : Scopes, age : 0 .. MaxAge + 1]

\* The type of the state.
TypeOK ==
    /\ lab \in [scope : Scopes, tracked : BOOLEAN, sick : BOOLEAN, traffic : BOOLEAN,
                disturbed : 0 .. MaxDisturb]
    /\ {win, case.base, case.candidate, cl.validated, handoff.window} \subseteq WindowRecords \cup {None}
    /\ {case.scope, cl.scope, handoff.scope} \subseteq Scopes \cup {None}
    /\ case.number \in 0 .. MaxCases /\ case.kind \in Kinds
    /\ wait \in 0 .. Window /\ cl.left \in 0 .. Budget /\ cl.attempts \in 0 .. 2
    /\ taken \subseteq (1 .. MaxCases) \X {"observed", "validated"}
    /\ result \in [success : BOOLEAN, cleanupFailed : BOOLEAN]

\* No fault is injected against a baseline that saw a sick lab, whether it was
\* captured for the case or taken over from the one before.
BaselineIsClean == case.base # None => case.base.clean

\* A reused baseline is of the very runtime the case runs on: nothing of it
\* restarted during the window or between its capture and its reuse.
ReusedIsCurrent ==
    case.reused => case.base.steady /\ case.base.scope = case.scope

ReusedIsYoungStep ==
    ~case.reused /\ case'.reused =>
      /\ handoff.window.age <= MaxAge
      /\ handoff.epoch # None /\ handoff.epoch.age <= Recalibrate

\* A reused baseline is not older than the limit, and not of an epoch whose
\* fresh baseline is older than the recalibration limit.
ReusedIsYoung == [][ReusedIsYoungStep]_vars

\* A fault that is still in the lab when run_scenario() returns is reported as
\* a failed cleanup, whichever step of the case failed.
LeftFaultIsReported == pc = "idle" /\ lab.tracked => result.cleanupFailed

\* A clean end after a recovery rests on a window that began after the fault
\* was gone, saw no sick path, and saw the runtime the case began with.
CleanIsProven ==
    pc = "finish" /\ cl.ended = "clean" /\ cl.attempted /\ case.base # None =>
        /\ ~lab.tracked
        /\ cl.validated # None /\ cl.validated.clean
        /\ case.scope # None => cl.validated.scope.rest = case.scope.rest

\* What is on offer never saw a sick lab or a restart: it comes from a case
\* that was cleaned up.
OfferIsSound ==
    handoff.window # None =>
        /\ handoff.window.clean /\ handoff.window.steady
        /\ handoff.window.scope = handoff.scope

\* The window on offer and all windows, as BaselineHandoff sees them.
Slot == IF handoff.window = None THEN {} ELSE {handoff.window.id}
AllWindows == (1 .. MaxCases) \X {"observed", "validated"}

Handoff == INSTANCE BaselineHandoff WITH Windows <- AllWindows, slot <- Slot

\* The executor's handoff is a single-consumer handoff (scenario/baseline.py):
\* a window is offered once, taken at most once, and what was taken or
\* dropped never comes back, whatever cases and cleanups come in between.
SingleConsumer == Handoff!Spec

BetweenCases == pc = "idle"

\* Every case ends, also when the lab never converges and every step fails.
CaseEnds == ~BetweenCases ~> BetweenCases
=============================================================================
