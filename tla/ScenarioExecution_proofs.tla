---------------------- MODULE ScenarioExecution_proofs ----------------------
(***************************************************************************)
(* Theorems about ScenarioExecution and their proofs, for any number of    *)
(* cases, any window, any budget and any age limits.                       *)
(*                                                                         *)
(* The argument: restarts only count up, so a window that saw one is of a  *)
(* scope that the lab has left for good, and no scope that is read later   *)
(* equals it.  A window of the current case bears the case's number, and   *)
(* what was taken bears a smaller one.                                     *)
(***************************************************************************)
EXTENDS ScenarioExecution, TLAPS

\* Bounds and limits are numbers.
ScenarioAssumption ==
    /\ MaxCases \in Nat /\ MaxDisturb \in Nat /\ Window \in Nat
    /\ MaxAge \in Nat /\ Recalibrate \in Nat /\ Budget \in Nat

PreparePcs == {"traffic", "baseline", "fresh", "baselining", "routes", "inject", "observe",
               "observing", "effect", "diagnose"}
ProofPcs == {"check", "prove", "validate", "conclude"}
CleanupPcs == {"cleanup", "finish"} \cup ProofPcs

Endings == {"no", "clean", "raised", "timeout", "terminal_recovery_failure", "recovery_timeout",
            "post_recovery_convergence_timeout", "configuration_recovery_failed",
            "recovery_identity_changed", "post_recovery_baseline_failed", "route_recovery_failed"}

Labs == [scope : Scopes, tracked : BOOLEAN, sick : BOOLEAN, traffic : BOOLEAN,
         disturbed : 0 .. MaxDisturb]
AnyScope == Scopes \cup {None}
AnyWindow == WindowRecords \cup {None}
Cases == [number : 0 .. MaxCases, kind : Kinds, scope : AnyScope, base : AnyWindow,
          broken : BOOLEAN, candidate : AnyWindow, reused : BOOLEAN]
Cleanups == [left : 0 .. Budget, attempts : 0 .. 2,
             results : {"none", "recovered", "failed", "terminal"}, attempted : BOOLEAN,
             scope : AnyScope, validated : AnyWindow, ended : Endings]
Epochs == [age : 0 .. Recalibrate + 1] \cup {None}
Handoffs == [window : AnyWindow, scope : AnyScope, epoch : Epochs]

\* The records of the executor, field by field.
RecordInv ==
    /\ lab \in Labs /\ case \in Cases /\ cl \in Cleanups /\ handoff \in Handoffs
    /\ pc \in {"idle"} \cup PreparePcs \cup CleanupPcs
    /\ win \in AnyWindow /\ wait \in 0 .. Window
    /\ taken \subseteq AllWindows
    /\ result \in [success : BOOLEAN, cleanupFailed : BOOLEAN]

\* Restarts are counted: of traffic and containers, and of the fault's device,
\* which a case restarts at most once.
CountInv ==
    /\ lab.scope.rest <= lab.disturbed + case.number
    /\ pc = "traffic" => lab.scope.rest < lab.disturbed + case.number
    /\ lab.scope.target <= case.number
    /\ pc \in PreparePcs \/ (pc \in {"cleanup"} \cup ProofPcs /\ cl.results # "recovered") =>
         lab.scope.target < case.number

Before(a, b) == a.target <= b.target /\ a.rest <= b.rest

\* A window is of a scope the lab had, and has left if the window saw a restart.
Held(w) ==
    w # None => Before(w.scope, lab.scope) /\ (w.steady \/ w.scope.rest < lab.scope.rest)

\* The scope a case read, and the window it is capturing.
ScopeInv ==
    /\ pc # "idle" => case.number > 0
    /\ pc \in {"traffic", "baseline"} => case.scope = None
    /\ case.scope # None => Before(case.scope, lab.scope)
    /\ Held(win)
    /\ pc = "observing" =>
         /\ win # None /\ win.id = <<case.number, "observed">>
         /\ case.scope # None => Before(case.scope, win.scope)
    /\ pc = "validate" =>
         /\ win # None /\ win.id = <<case.number, "validated">>
         /\ cl.scope \in {None, win.scope}
         /\ case.scope # None => cl.scope = win.scope /\ win.scope.rest = case.scope.rest

\* A window that a case may offer: the one of its healthy episode, ...
CandidateInv ==
    case.candidate # None =>
        /\ case.candidate.id = <<case.number, "observed">>
        /\ case.candidate.clean /\ Held(case.candidate)
        /\ case.scope # None => Before(case.scope, case.candidate.scope)
        /\ pc \notin {"traffic", "baseline"}

\* ... or the one of its cleanup.
ValidatedInv ==
    pc \in CleanupPcs /\ cl.validated # None =>
        /\ cl.validated.id = <<case.number, "validated">>
        /\ cl.validated.clean /\ Held(cl.validated)
        /\ case.scope # None =>
             cl.scope = cl.validated.scope /\ cl.validated.scope.rest = case.scope.rest

\* A cleanup that proves, or has proved, works on a lab without a fault, ...
FaultInv ==
    /\ pc \in ProofPcs \/ (pc = "finish" /\ cl.ended = "clean") => ~lab.tracked
    /\ pc = "cleanup" /\ cl.results = "recovered" => ~lab.tracked
    /\ LeftFaultIsReported

\* ... and needs a validated window after a recovery.
ProofInv ==
    /\ pc \in {"cleanup", "check", "prove", "validate"} => cl.validated = None
    /\ pc = "conclude" \/ (pc = "finish" /\ cl.ended = "clean") =>
         (cl.attempted /\ case.base # None => cl.validated # None)

\* The baseline of a case, and the window on offer.
BaselineInv ==
    /\ BaselineIsClean /\ ReusedIsCurrent /\ OfferIsSound
    /\ pc \in {"traffic", "baseline", "fresh", "baselining"} => ~case.reused

\* What was taken is of an earlier case; so is what is on offer during a case.
TakenInv ==
    /\ \A w \in taken : w[1] < case.number
    /\ handoff.window # None =>
         /\ handoff.window.id \in AllWindows /\ handoff.window.id[1] <= case.number
         /\ pc # "idle" => handoff.window.id[1] < case.number

IInv == RecordInv /\ CountInv /\ ScopeInv /\ CandidateInv /\ ValidatedInv /\ FaultInv /\ ProofInv
        /\ BaselineInv /\ TakenInv

-----------------------------------------------------------------------------
(* The steps, with what they do to the fields the invariant is about       *)

\* w is v, but for its age.
Aged(v, w) ==
    /\ v = None <=> w = None
    /\ v # None => w.id = v.id /\ w.clean = v.clean /\ w.steady = v.steady /\ w.scope = v.scope

CaseKept ==
    /\ case'.number = case.number /\ case'.kind = case.kind /\ case'.scope = case.scope
    /\ case'.base = case.base /\ case'.reused = case.reused
CaseNamed ==
    /\ case'.number = case.number /\ case'.kind = case.kind /\ case'.candidate = case.candidate
CleanupKept ==
    /\ cl'.results = cl.results /\ cl'.attempted = cl.attempted /\ cl'.scope = cl.scope
    /\ cl'.ended = cl.ended
CleanupReset ==
    /\ cl'.results = "none" /\ cl'.attempted = FALSE /\ cl'.scope = None
    /\ cl'.validated = None /\ cl'.ended = "no"

Ticks ==
    /\ CaseKept /\ Aged(case.candidate, case'.candidate)
    /\ CleanupKept /\ Aged(cl.validated, cl'.validated)
    /\ handoff'.scope = handoff.scope /\ Aged(handoff.window, handoff'.window)
    /\ UNCHANGED <<lab, pc, win, taken, result>>

Disturbs ==
    /\ lab'.scope.target = lab.scope.target /\ lab'.scope.rest = lab.scope.rest + 1
    /\ lab'.tracked = lab.tracked /\ lab'.disturbed = lab.disturbed + 1
    /\ win = None => win' = None
    /\ win # None => win' # None /\ win'.id = win.id /\ win'.scope = win.scope /\ ~win'.steady
    /\ UNCHANGED <<pc, case, cl, handoff, taken, result>>

Converges ==
    /\ lab'.scope = lab.scope /\ lab'.tracked = lab.tracked /\ lab'.disturbed = lab.disturbed
    /\ UNCHANGED <<pc, case, win, cl, handoff, taken, result>>

BreaksOff ==
    /\ pc \in PreparePcs /\ pc' = "cleanup" /\ win' = None
    /\ CaseKept /\ case'.candidate = case.candidate /\ CleanupReset
    /\ UNCHANGED <<lab, handoff, taken, result>>

Begins ==
    /\ pc = "idle" /\ ~result.cleanupFailed /\ pc' = "traffic"
    /\ case'.number = case.number + 1 /\ case'.scope = None /\ case'.base = None
    /\ case'.candidate = None /\ case'.reused = FALSE
    /\ UNCHANGED <<lab, win, cl, handoff, taken, result>>

Readies ==
    /\ pc = "traffic" /\ pc' = "baseline"
    /\ lab'.scope.target = lab.scope.target
    /\ lab'.scope.rest \in {lab.scope.rest, lab.scope.rest + 1}
    /\ lab'.tracked = lab.tracked /\ lab'.disturbed = lab.disturbed
    /\ UNCHANGED <<case, win, cl, handoff, taken, result>>

Reuses ==
    /\ pc = "baseline" /\ pc' = "routes"
    /\ handoff.window # None /\ handoff.scope = lab.scope
    /\ CaseNamed /\ case'.scope = lab.scope /\ case'.base = handoff.window /\ case'.reused = TRUE
    /\ handoff'.window = None /\ taken' = taken \cup {handoff.window.id}
    /\ UNCHANGED <<lab, win, cl, result>>

TakesNothing ==
    /\ pc = "baseline" /\ pc' = "fresh"
    /\ CaseNamed /\ case'.scope \in {lab.scope, None} /\ case'.base = case.base
    /\ case'.reused = case.reused /\ handoff'.window = None
    /\ UNCHANGED <<lab, win, cl, taken, result>>

Captured(id) == win' # None /\ win'.id = id /\ win'.scope = lab.scope /\ win'.steady

CapturesBaseline ==
    /\ pc = "fresh" /\ pc' = "baselining" /\ Captured(<<case.number, "fresh">>)
    /\ UNCHANGED <<lab, case, cl, handoff, taken, result>>

CapturesObservation ==
    /\ pc = "observe" /\ pc' = "observing" /\ Captured(<<case.number, "observed">>)
    /\ UNCHANGED <<lab, case, cl, handoff, taken, result>>

FreshPasses ==
    /\ pc = "baselining" /\ pc' = "routes" /\ win.clean /\ win' = None
    /\ CaseNamed /\ case'.scope = case.scope /\ case'.base = win /\ case'.reused = case.reused
    /\ handoff'.window = None
    /\ UNCHANGED <<lab, cl, taken, result>>

GoesOn ==
    /\ pc \in {"routes", "inject", "effect"} /\ pc' \in {"inject", "observe", "diagnose"}
    /\ UNCHANGED <<lab, case, win, cl, handoff, taken, result>>

Injects ==
    /\ pc = "inject" /\ pc' = "observe"
    /\ lab'.scope = lab.scope /\ lab'.disturbed = lab.disturbed
    /\ UNCHANGED <<case, win, cl, handoff, taken, result>>

InjectFails ==
    /\ pc = "inject" /\ pc' = "cleanup"
    /\ lab'.scope = lab.scope /\ lab'.disturbed = lab.disturbed
    /\ CaseKept /\ case'.candidate = case.candidate /\ CleanupReset
    /\ UNCHANGED <<win, handoff, taken, result>>

KeepsWindow ==
    /\ pc = "observing" /\ pc' = "effect" /\ win.clean /\ win' = None
    /\ CaseKept /\ case'.candidate = win
    /\ UNCHANGED <<lab, cl, handoff, taken, result>>

DropsWindow ==
    /\ pc = "observing" /\ pc' = "effect" /\ win' = None
    /\ UNCHANGED <<lab, case, cl, handoff, taken, result>>

Diagnoses ==
    /\ pc = "diagnose" /\ pc' = "cleanup" /\ CleanupReset
    /\ result'.cleanupFailed = result.cleanupFailed
    /\ UNCHANGED <<lab, case, win, handoff, taken>>

FindsNothing ==
    /\ pc = "cleanup" /\ pc' = "check" /\ ~lab.tracked
    /\ CleanupKept /\ cl'.validated = cl.validated
    /\ UNCHANGED <<lab, case, win, handoff, taken, result>>

RecoversAll ==
    /\ pc = "cleanup" /\ pc' = "check" /\ cl.results # "recovered"
    /\ lab'.tracked = FALSE /\ lab'.scope.rest = lab.scope.rest
    /\ lab'.scope.target \in {lab.scope.target, lab.scope.target + 1}
    /\ lab'.disturbed = lab.disturbed
    /\ cl'.results = "recovered" /\ cl'.scope = cl.scope /\ cl'.validated = cl.validated
    /\ UNCHANGED <<case, win, handoff, taken, result>>

TriesAgain ==
    /\ pc = "cleanup" /\ pc' = "cleanup" /\ cl.results # "recovered"
    /\ cl'.results # "recovered" /\ cl'.scope = cl.scope /\ cl'.validated = cl.validated
    /\ UNCHANGED <<lab, case, win, handoff, taken, result>>

ChecksAgain ==
    /\ pc = "check" /\ pc' \in {"prove", "cleanup"}
    /\ UNCHANGED <<lab, case, win, cl, handoff, taken, result>>

SkipsProof ==
    /\ pc = "prove" /\ pc' = "conclude" /\ ~(cl.attempted /\ case.base # None)
    /\ UNCHANGED <<lab, case, win, cl, handoff, taken, result>>

CapturesProof ==
    /\ pc = "prove" /\ pc' = "validate" /\ Captured(<<case.number, "validated">>)
    /\ cl'.scope \in {lab.scope, None}
    /\ case.scope # None => cl'.scope = lab.scope /\ lab.scope.rest = case.scope.rest
    /\ cl'.results = cl.results /\ cl'.validated = None
    /\ UNCHANGED <<lab, case, handoff, taken, result>>

Validates ==
    /\ pc = "validate" /\ pc' = "conclude" /\ win.clean /\ win' = None
    /\ CleanupKept /\ cl'.validated = win
    /\ UNCHANGED <<lab, case, handoff, taken, result>>

EndsClean ==
    /\ pc = "conclude" /\ pc' = "finish"
    /\ cl'.attempted = cl.attempted /\ cl'.scope = cl.scope /\ cl'.validated = cl.validated
    /\ UNCHANGED <<lab, case, win, handoff, taken, result>>

EndsBadly ==
    /\ pc \in {"cleanup"} \cup ProofPcs /\ pc' = "finish" /\ cl'.ended # "clean"
    /\ cl'.scope = cl.scope /\ cl'.validated = cl.validated /\ win' \in {win, None}
    /\ UNCHANGED <<lab, case, handoff, taken, result>>

Finishes ==
    /\ pc = "finish" /\ pc' = "idle" /\ result'.cleanupFailed = (cl.ended # "clean")
    /\ UNCHANGED <<lab, case, win, cl, taken>>
FinishesEmpty == Finishes /\ (handoff' = handoff \/ handoff'.window = None)
OffersValidated ==
    /\ Finishes /\ cl.validated # None /\ case.scope # None
    /\ lab.scope = (IF cl.scope # None THEN cl.scope ELSE case.scope)
    /\ handoff'.window = cl.validated /\ handoff'.scope = lab.scope
OffersCandidate ==
    /\ Finishes /\ case.candidate # None /\ case.scope # None /\ lab.scope = case.scope
    /\ handoff'.window = case.candidate /\ handoff'.scope = lab.scope

-----------------------------------------------------------------------------

\* None is no scope, window or epoch.
LEMMA NoneIsNone ==
    None \notin Scopes /\ None \notin WindowRecords /\ None \notin [age : 0 .. Recalibrate + 1]
BY DEF None, Scopes, WindowRecords

\* Time changes only the age of a window.
LEMMA AgedWindows ==
    ASSUME ScenarioAssumption, NEW w \in AnyWindow
    PROVE  AgedWindow(w) \in AnyWindow /\ Aged(w, AgedWindow(w))
<1>1. CASE w = None
  BY <1>1 DEF AgedWindow, AnyWindow, Aged
<1>2. CASE w # None
  <2>1. w \in WindowRecords /\ AgedWindow(w) = [w EXCEPT !.age = Older(@, MaxAge)]
    BY <1>2 DEF AgedWindow, AnyWindow
  <2>2. Older(w.age, MaxAge) \in 0 .. MaxAge + 1
    BY <2>1 DEF WindowRecords, Older, ScenarioAssumption
  <2>3. AgedWindow(w) \in WindowRecords
    BY <2>1, <2>2 DEF WindowRecords
  <2>. QED  BY <1>2, <2>1, <2>3, NoneIsNone DEF WindowRecords, AnyWindow, Aged
<1>. QED  BY <1>1, <1>2

\* Every step is one of these.
LEMMA StepCases ==
    ASSUME IInv, ScenarioAssumption, Next
    PROVE  \/ Ticks \/ Disturbs \/ Converges \/ BreaksOff
           \/ Begins \/ Readies \/ Reuses \/ TakesNothing
           \/ CapturesBaseline \/ CapturesObservation \/ FreshPasses \/ GoesOn
           \/ Injects \/ InjectFails \/ KeepsWindow \/ DropsWindow
           \/ Diagnoses \/ FindsNothing \/ RecoversAll \/ TriesAgain
           \/ ChecksAgain \/ SkipsProof \/ CapturesProof \/ Validates
           \/ EndsClean \/ EndsBadly \/ FinishesEmpty \/ OffersValidated
           \/ OffersCandidate
<1>0. /\ lab \in Labs /\ case \in Cases /\ cl \in Cleanups /\ handoff \in Handoffs
      /\ win \in AnyWindow /\ result \in [success : BOOLEAN, cleanupFailed : BOOLEAN]
      /\ lab.scope \in Scopes /\ lab.scope # None
      /\ case.candidate \in AnyWindow /\ cl.validated \in AnyWindow /\ handoff.window \in AnyWindow
  BY NoneIsNone DEF IInv, RecordInv, Labs, Cases, Cleanups, Handoffs
<1>. USE DEF Goto, CaseKept, CaseNamed, CleanupKept, CleanupReset
<1>1. ASSUME Tick  PROVE Ticks
  <2>1. CaseKept /\ case'.candidate = AgedWindow(case.candidate)
    BY <1>0, <1>1 DEF Tick, Cases
  <2>2. CleanupKept /\ cl'.validated = AgedWindow(cl.validated)
    BY <1>0, <1>1 DEF Tick, Cleanups
  <2>3. handoff'.scope = handoff.scope /\ handoff'.window = AgedWindow(handoff.window)
    BY <1>0, <1>1 DEF Tick, Handoffs
  <2>. QED  BY <1>0, <1>1, <2>1, <2>2, <2>3, AgedWindows DEF Tick, Ticks
<1>2. ASSUME Disturb  PROVE Disturbs
  <2>1. PICK sick \in BOOLEAN, traffic \in BOOLEAN :
            /\ lab' = [lab EXCEPT !.scope.rest = @ + 1, !.disturbed = @ + 1,
                                  !.sick = @ \/ sick, !.traffic = @ /\ traffic]
            /\ Seen(sick, TRUE)
    BY <1>2 DEF Disturb
  <2>2. /\ lab'.scope.target = lab.scope.target /\ lab'.scope.rest = lab.scope.rest + 1
        /\ lab'.tracked = lab.tracked /\ lab'.disturbed = lab.disturbed + 1
    BY <1>0, <2>1 DEF Labs, Scopes
  <2>3. win # None => win' = [win EXCEPT !.clean = @ /\ ~sick, !.steady = @ /\ ~TRUE] /\ win \in WindowRecords
    BY <1>0, <2>1 DEF Seen, AnyWindow
  <2>4. win # None => /\ win' \in WindowRecords /\ win'.id = win.id /\ win'.scope = win.scope
                      /\ ~win'.steady
    BY <2>3 DEF WindowRecords
  <2>5. win = None => win' = None
    BY <2>1 DEF Seen
  <2>. QED  BY <1>2, <2>2, <2>4, <2>5, NoneIsNone DEF Disturb, Disturbs
<1>3. ASSUME Converge  PROVE Converges
  BY <1>0, <1>3 DEF Converge, Converges, Labs
<1>4. ASSUME Breaks  PROVE BreaksOff
  BY <1>0, <1>4 DEF Breaks, BreaksOff, Cases, PreparePcs, NoCleanup
<1>5. ASSUME NEW kind \in Kinds, Begin(kind)  PROVE Begins
  BY <1>0, <1>5 DEF Begin, Begins, NoCase
<1>6. ASSUME ReadyTraffic  PROVE Readies
  <2>1. CASE lab' = lab
    BY <1>6, <2>1 DEF ReadyTraffic, Readies
  <2>2. CASE lab' = [lab EXCEPT !.traffic = TRUE,
                       !.scope.rest = IF @ < MaxCases + MaxDisturb THEN @ + 1 ELSE @]
    <3>1. /\ lab'.scope.target = lab.scope.target /\ lab'.tracked = lab.tracked
          /\ lab'.disturbed = lab.disturbed
          /\ lab'.scope.rest \in {lab.scope.rest, lab.scope.rest + 1}
      BY <1>0, <2>2 DEF Labs, Scopes
    <3>. QED  BY <1>6, <3>1 DEF ReadyTraffic, Readies
  <2>. QED  BY <1>6, <2>1, <2>2 DEF ReadyTraffic
<1>7. ASSUME TakeBaseline  PROVE Reuses \/ TakesNothing
  <2>1. PICK scope \in ReadScope :
          IF Usable(scope)
          THEN /\ case' = [case EXCEPT !.scope = scope, !.base = handoff.window, !.reused = TRUE]
               /\ taken' = taken \cup {handoff.window.id} /\ Goto("routes")
          ELSE /\ case' = [case EXCEPT !.scope = scope] /\ Goto("fresh") /\ UNCHANGED taken
    BY <1>7 DEF TakeBaseline
  <2>2. /\ pc = "baseline" /\ handoff'.window = None /\ scope \in {lab.scope, None}
        /\ UNCHANGED <<lab, win, cl, result>>
    BY <1>0, <1>7 DEF TakeBaseline, Emptied, Handoffs, ReadScope
  <2>3. CASE Usable(scope)
    BY <1>0, <2>1, <2>2, <2>3 DEF Usable, Reuses, Cases
  <2>4. CASE ~Usable(scope)
    BY <1>0, <2>1, <2>2, <2>4 DEF TakesNothing, Cases
  <2>. QED  BY <2>3, <2>4
<1>8. ASSUME CaptureBaseline \/ CaptureObservation  PROVE CapturesBaseline \/ CapturesObservation
  <2>1. /\ win' # None /\ win'.scope = lab.scope /\ win'.steady
        /\ CaptureBaseline => win'.id = <<case.number, "fresh">>
        /\ CaptureObservation => win'.id = <<case.number, "observed">>
    BY <1>8 DEF CaptureBaseline, CaptureObservation, Capture, None
  <2>. QED  BY <1>8, <2>1 DEF CaptureBaseline, CaptureObservation, Capture, Captured,
               CapturesBaseline, CapturesObservation
<1>9. ASSUME FreshBaseline  PROVE FreshPasses
  BY <1>0, <1>9 DEF FreshBaseline, FreshPasses, Gate, Cases, EmptyHandoff
<1>10. ASSUME CollectRoutes \/ Prepared  PROVE GoesOn
  BY <1>10 DEF CollectRoutes, Prepared, GoesOn
<1>11. ASSUME Inject  PROVE GoesOn \/ Injects \/ InjectFails
  <2>1. CASE Goto("observe") /\ UNCHANGED <<lab, case, cl>>
    BY <1>11, <2>1 DEF Inject, GoesOn
  <2>2. CASE lab' = [lab EXCEPT !.tracked = TRUE, !.sick = TRUE]
    <3>1. lab'.scope = lab.scope /\ lab'.disturbed = lab.disturbed
      BY <1>0, <2>2 DEF Labs
    <3>2. CASE Goto("observe") /\ UNCHANGED <<case, cl>>
      BY <1>11, <3>1, <3>2 DEF Inject, Injects
    <3>3. CASE Goto("cleanup") /\ case' = [case EXCEPT !.broken = TRUE] /\ cl' = NoCleanup
      BY <1>0, <1>11, <3>1, <3>3 DEF Inject, InjectFails, Cases, NoCleanup
    <3>. QED  BY <1>11, <3>2, <3>3 DEF Inject
  <2>. QED  BY <1>11, <2>1, <2>2 DEF Inject
<1>12. ASSUME Observed  PROVE KeepsWindow \/ DropsWindow
  BY <1>0, <1>12 DEF Observed, KeepsWindow, DropsWindow, Gate, Cases
<1>13. ASSUME Diagnosed  PROVE Diagnoses
  BY <1>0, <1>13 DEF Diagnosed, Diagnoses, NoCleanup
<1>14. ASSUME NothingToRecover  PROVE FindsNothing
  BY <1>0, <1>14 DEF NothingToRecover, FindsNothing, Complete, Cleanups
<1>15. ASSUME RecoverFault  PROVE RecoversAll \/ TriesAgain \/ EndsBadly
  <2>1. PICK outcome \in {"recovered", "failed", "terminal", "raised"} :
          /\ Recovers(outcome)
          /\ Goto(CASE outcome = "recovered" -> "check"
                    [] outcome = "terminal" -> "finish"
                    [] OTHER -> "cleanup")
    BY <1>15 DEF RecoverFault
  <2>2. pc = "cleanup" /\ ~Complete /\ UNCHANGED <<case, win, handoff, taken, result>>
    BY <1>15 DEF RecoverFault
  <2>3. cl.results # "recovered"
    BY <2>2 DEF IInv, FaultInv, Complete
  <2>4. /\ cl'.scope = cl.scope /\ cl'.validated = cl.validated
        /\ cl'.results = IF outcome = "raised" THEN cl.results ELSE outcome
        /\ outcome = "terminal" => cl'.ended = "terminal_recovery_failure"
    BY <1>0, <2>1 DEF Recovers, Cleanups
  <2>5. CASE outcome = "recovered"
    <3>1. lab' = [lab EXCEPT !.tracked = FALSE,
                             !.scope.target = @ + (IF case.kind = "device_down" THEN 1 ELSE 0)]
      BY <2>1, <2>5 DEF Recovers
    <3>2. /\ lab'.tracked = FALSE /\ lab'.scope.rest = lab.scope.rest
          /\ lab'.scope.target \in {lab.scope.target, lab.scope.target + 1}
          /\ lab'.disturbed = lab.disturbed
      BY <1>0, <3>1 DEF Labs, Scopes
    <3>. QED  BY <2>1, <2>2, <2>3, <2>4, <2>5, <3>2 DEF RecoversAll
  <2>6. CASE outcome \in {"failed", "raised"}
    <3>1. lab' = lab /\ pc' = "cleanup"
      BY <2>1, <2>6 DEF Recovers
    <3>. QED  BY <2>2, <2>3, <2>4, <2>6, <3>1 DEF TriesAgain
  <2>7. CASE outcome = "terminal"
    <3>1. lab' = lab /\ pc' = "finish"
      BY <2>1, <2>7 DEF Recovers
    <3>. QED  BY <2>2, <2>4, <2>7, <3>1 DEF EndsBadly
  <2>. QED  BY <2>5, <2>6, <2>7
<1>16. ASSUME NEW status, status # "clean", Ends(status), pc \in {"cleanup"} \cup ProofPcs,
              win' \in {win, None}, UNCHANGED <<lab, case, handoff, taken, result>>
       PROVE  EndsBadly
  BY <1>0, <1>16 DEF Ends, EndsBadly, Cleanups
<1>17. ASSUME LoopEnds  PROVE EndsBadly
  BY <1>16, <1>17 DEF LoopEnds
<1>18. ASSUME CheckHealth  PROVE ChecksAgain \/ EndsBadly
  BY <1>16, <1>18 DEF CheckHealth, ChecksAgain, ProofPcs
<1>19. ASSUME Prove  PROVE SkipsProof \/ CapturesProof \/ EndsBadly
  <2>1. pc = "prove" /\ UNCHANGED <<lab, case, handoff, taken, result>>
    BY <1>19 DEF Prove
  <2>2. ASSUME NEW status, status # "clean", Ends(status), UNCHANGED <<win, wait>>  PROVE EndsBadly
    BY <1>16, <2>1, <2>2 DEF ProofPcs
  <2>3. CASE ~(cl.attempted /\ case.base # None)
    BY <1>19, <2>3 DEF Prove, SkipsProof
  <2>4. CASE cl.attempted /\ case.base # None
    <3>1. CASE Ends("configuration_recovery_failed") /\ UNCHANGED <<win, wait>>
      BY <2>2, <3>1
    <3>2. CASE Ends("raised") /\ UNCHANGED <<win, wait>>
      BY <2>2, <3>2
    <3>3. ASSUME NEW scope \in ReadScope,
                  IF ~Kept(scope)
                  THEN Ends("recovery_identity_changed") /\ UNCHANGED <<win, wait>>
                  ELSE IF cl.left < Window
                  THEN Ends("recovery_timeout") /\ UNCHANGED <<win, wait>>
                  ELSE /\ Capture(<<case.number, "validated">>, "validate")
                       /\ cl' = [cl EXCEPT !.scope = scope]
           PROVE  CapturesProof \/ EndsBadly
      <4>1. CASE ~Kept(scope) \/ cl.left < Window
        BY <2>2, <3>3, <4>1
      <4>2. CASE Kept(scope) /\ ~(cl.left < Window)
        <5>1. Capture(<<case.number, "validated">>, "validate") /\ cl' = [cl EXCEPT !.scope = scope]
          BY <3>3, <4>2
        <5>2. /\ win' # None /\ win'.scope = lab.scope /\ win'.steady
              /\ win'.id = <<case.number, "validated">> /\ pc' = "validate"
          BY <5>1 DEF Capture, None
        <5>3. scope \in {lab.scope, None}
          BY <3>3 DEF ReadScope
        <5>4. case.scope # None => scope = lab.scope /\ lab.scope.rest = case.scope.rest
          BY <4>2, <5>3 DEF Kept
        <5>5. cl'.scope = scope /\ cl'.results = cl.results /\ cl'.validated = cl.validated
          BY <1>0, <5>1 DEF Cleanups
        <5>. QED  BY <2>1, <5>2, <5>3, <5>4, <5>5 DEF CapturesProof, Captured, IInv, ProofInv
      <4>. QED  BY <4>1, <4>2
    <3>. QED  BY <1>19, <2>4, <3>1, <3>2, <3>3 DEF Prove
  <2>. QED  BY <2>3, <2>4
<1>20. ASSUME Validate  PROVE Validates \/ EndsBadly
  <2>1. pc = "validate" /\ win' = None /\ UNCHANGED <<lab, case, handoff, taken, result>>
    BY <1>20 DEF Validate
  <2>2. ASSUME NEW status, status # "clean", Ends(status)  PROVE EndsBadly
    BY <1>16, <2>1, <2>2 DEF ProofPcs
  <2>3. ASSUME NEW scope \in ReadScope,
               IF ~SameScope(scope) THEN Ends("recovery_identity_changed")
               ELSE IF ~Gate(win) THEN Ends("post_recovery_baseline_failed")
               ELSE /\ cl' = [cl EXCEPT !.validated = win] /\ Goto("conclude")
        PROVE  Validates \/ EndsBadly
    <3>1. CASE ~SameScope(scope) \/ ~Gate(win)
      BY <2>2, <2>3, <3>1
    <3>2. CASE SameScope(scope) /\ Gate(win)
      BY <1>0, <2>1, <2>3, <3>2 DEF Validates, Gate, Cleanups
    <3>. QED  BY <3>1, <3>2
  <2>. QED  BY <1>20, <2>2, <2>3 DEF Validate
<1>21. ASSUME Conclude  PROVE EndsClean \/ EndsBadly
  <2>1. CASE Ends("clean")
    BY <1>0, <1>21, <2>1 DEF Conclude, Ends, EndsClean, Cleanups
  <2>2. CASE Ends("timeout") \/ Ends("route_recovery_failed")
    BY <1>16, <1>21, <2>2 DEF Conclude, ProofPcs
  <2>. QED  BY <1>21, <2>1, <2>2 DEF Conclude
<1>22. ASSUME Finish  PROVE FinishesEmpty \/ OffersValidated \/ OffersCandidate
  <2>1. Finishes
    BY <1>0, <1>22 DEF Finish, Finishes, Reported
  <2>2. ASSUME NEW scope \in ReadScope, MayPublish(scope), Publish(scope)
        PROVE  FinishesEmpty \/ OffersValidated \/ OffersCandidate
    <3>1. CASE handoff' = [handoff EXCEPT !.window = None]
      BY <1>0, <2>1, <3>1 DEF FinishesEmpty, Handoffs
    <3>2. CASE scope # None /\ handoff' = [handoff EXCEPT !.window = Offered, !.scope = scope]
      <4>1. handoff'.window = Offered /\ handoff'.scope = scope /\ scope = lab.scope
        BY <1>0, <2>2, <3>2 DEF Handoffs, ReadScope
      <4>. QED  BY <2>1, <2>2, <4>1 DEF MayPublish, Offered, BoundScope, OffersValidated, OffersCandidate
    <3>. QED  BY <2>2, <3>1, <3>2 DEF Publish
  <2>3. CASE handoff' = EmptyHandoff
    BY <2>1, <2>3 DEF EmptyHandoff, FinishesEmpty
  <2>4. CASE UNCHANGED handoff
    BY <2>1, <2>4 DEF FinishesEmpty
  <2>. QED  BY <1>22, <2>2, <2>3, <2>4 DEF Finish
<1>. QED
  BY <1>1, <1>2, <1>3, <1>4, <1>5, <1>6, <1>7, <1>8, <1>9, <1>10, <1>11, <1>12, <1>13, <1>14, <1>15,
     <1>17, <1>18, <1>19, <1>20, <1>21, <1>22, Zenon DEF Next, Prepare, Cleanup

\* The numbers and scopes that the invariant compares.
Counted(scope) == scope # None => scope.target \in Nat /\ scope.rest \in Nat

Numbers ==
    /\ case.number \in Nat /\ lab.disturbed \in Nat
    /\ lab.scope.rest \in Nat /\ lab.scope.target \in Nat /\ lab.scope # None
    /\ Counted(case.scope)
    /\ win # None => Counted(win.scope) /\ win.scope # None
    /\ case.candidate # None => Counted(case.candidate.scope) /\ case.candidate.scope # None
    /\ cl.validated # None => Counted(cl.validated.scope) /\ cl.validated.scope # None
    /\ \A w \in taken : w[1] \in Nat
    /\ handoff.window # None => handoff.window.id[1] \in Nat

LEMMA NumberTypes ==
    ASSUME RecordInv, ScenarioAssumption
    PROVE  Numbers
<1>1. ASSUME NEW scope \in Scopes  PROVE Counted(scope) /\ scope # None
  BY <1>1, NoneIsNone DEF Scopes, Counted, ScenarioAssumption
<1>2. ASSUME NEW w \in WindowRecords  PROVE w.scope \in Scopes /\ w.id[1] \in Nat
  BY <1>2 DEF WindowRecords, ScenarioAssumption
<1>3. /\ case.number \in Nat /\ lab.disturbed \in Nat /\ lab.scope \in Scopes
      /\ \A w \in taken : w[1] \in Nat
  BY DEF RecordInv, Labs, Cases, AllWindows, ScenarioAssumption
<1>4. /\ case.scope \in AnyScope /\ win \in AnyWindow /\ case.candidate \in AnyWindow
      /\ cl.validated \in AnyWindow /\ handoff.window \in AnyWindow
  BY DEF RecordInv, Cases, Cleanups, Handoffs
<1>. QED
  BY <1>1, <1>2, <1>3, <1>4 DEF AnyScope, AnyWindow, Numbers, Counted

\* A case restarts its device at most once, and traffic at most once.
LEMMA CountStep ==
    ASSUME IInv, ScenarioAssumption, Next
    PROVE  CountInv'
<1>. USE DEF CountInv, Numbers,
           IInv, PreparePcs, ProofPcs, CleanupPcs
<1>1. CASE Ticks
  BY <1>1, NumberTypes DEF Ticks, CaseKept, CleanupKept, Aged
<1>2. CASE Disturbs
  BY <1>2, NumberTypes DEF Disturbs
<1>3. CASE Converges
  BY <1>3, NumberTypes DEF Converges
<1>4. CASE BreaksOff
  BY <1>4, NumberTypes DEF BreaksOff, CaseKept, CleanupReset
<1>5. CASE Begins
  BY <1>5, NumberTypes DEF Begins
<1>6. CASE Readies
  BY <1>6, NumberTypes DEF Readies
<1>7. CASE Reuses
  BY <1>7, NumberTypes DEF Reuses, CaseNamed
<1>8. CASE TakesNothing
  BY <1>8, NumberTypes DEF TakesNothing, CaseNamed
<1>9. CASE CapturesBaseline
  BY <1>9, NumberTypes DEF CapturesBaseline, Captured
<1>10. CASE CapturesObservation
  BY <1>10, NumberTypes DEF CapturesObservation, Captured
<1>11. CASE FreshPasses
  BY <1>11, NumberTypes DEF FreshPasses, CaseNamed
<1>12. CASE GoesOn
  BY <1>12, NumberTypes DEF GoesOn
<1>13. CASE Injects
  BY <1>13, NumberTypes DEF Injects
<1>14. CASE InjectFails
  BY <1>14, NumberTypes DEF InjectFails, CaseKept, CleanupReset
<1>15. CASE KeepsWindow
  BY <1>15, NumberTypes DEF KeepsWindow, CaseKept
<1>16. CASE DropsWindow
  BY <1>16, NumberTypes DEF DropsWindow
<1>17. CASE Diagnoses
  BY <1>17, NumberTypes DEF Diagnoses, CleanupReset
<1>18. CASE FindsNothing
  BY <1>18, NumberTypes DEF FindsNothing, CleanupKept
<1>19. CASE RecoversAll
  BY <1>19, NumberTypes DEF RecoversAll
<1>20. CASE TriesAgain
  BY <1>20, NumberTypes DEF TriesAgain
<1>21. CASE ChecksAgain
  BY <1>21, NumberTypes DEF ChecksAgain
<1>22. CASE SkipsProof
  BY <1>22, NumberTypes DEF SkipsProof
<1>23. CASE CapturesProof
  BY <1>23, NumberTypes DEF CapturesProof, Captured
<1>24. CASE Validates
  BY <1>24, NumberTypes DEF Validates, CleanupKept
<1>25. CASE EndsClean
  BY <1>25, NumberTypes DEF EndsClean
<1>26. CASE EndsBadly
  BY <1>26, NumberTypes DEF EndsBadly
<1>27. CASE FinishesEmpty
  BY <1>27, NumberTypes DEF FinishesEmpty, Finishes
<1>28. CASE OffersValidated
  BY <1>28, NumberTypes DEF OffersValidated, Finishes
<1>29. CASE OffersCandidate
  BY <1>29, NumberTypes DEF OffersCandidate, Finishes
<1>. HIDE DEF CountInv, Numbers
<1>. QED
  BY StepCases, <1>1, <1>2, <1>3, <1>4, <1>5, <1>6, <1>7, <1>8, <1>9, <1>10, <1>11, <1>12, <1>13, <1>14, <1>15, <1>16, <1>17, <1>18, <1>19, <1>20, <1>21, <1>22, <1>23, <1>24, <1>25, <1>26, <1>27, <1>28, <1>29, Zenon

\* A fault that stays in the lab is reported.
LEMMA FaultStep ==
    ASSUME IInv, ScenarioAssumption, Next
    PROVE  FaultInv'
<1>. USE DEF FaultInv, LeftFaultIsReported,
           IInv, PreparePcs, ProofPcs, CleanupPcs
<1>1. CASE Ticks
  BY <1>1 DEF Ticks, CaseKept, CleanupKept, Aged
<1>2. CASE Disturbs
  BY <1>2 DEF Disturbs
<1>3. CASE Converges
  BY <1>3 DEF Converges
<1>4. CASE BreaksOff
  BY <1>4 DEF BreaksOff, CaseKept, CleanupReset
<1>5. CASE Begins
  BY <1>5 DEF Begins
<1>6. CASE Readies
  BY <1>6 DEF Readies
<1>7. CASE Reuses
  BY <1>7 DEF Reuses, CaseNamed
<1>8. CASE TakesNothing
  BY <1>8 DEF TakesNothing, CaseNamed
<1>9. CASE CapturesBaseline
  BY <1>9 DEF CapturesBaseline, Captured
<1>10. CASE CapturesObservation
  BY <1>10 DEF CapturesObservation, Captured
<1>11. CASE FreshPasses
  BY <1>11 DEF FreshPasses, CaseNamed
<1>12. CASE GoesOn
  BY <1>12 DEF GoesOn
<1>13. CASE Injects
  BY <1>13 DEF Injects
<1>14. CASE InjectFails
  BY <1>14 DEF InjectFails, CaseKept, CleanupReset
<1>15. CASE KeepsWindow
  BY <1>15 DEF KeepsWindow, CaseKept
<1>16. CASE DropsWindow
  BY <1>16 DEF DropsWindow
<1>17. CASE Diagnoses
  BY <1>17 DEF Diagnoses, CleanupReset
<1>18. CASE FindsNothing
  BY <1>18 DEF FindsNothing, CleanupKept
<1>19. CASE RecoversAll
  BY <1>19 DEF RecoversAll
<1>20. CASE TriesAgain
  BY <1>20 DEF TriesAgain
<1>21. CASE ChecksAgain
  BY <1>21 DEF ChecksAgain
<1>22. CASE SkipsProof
  BY <1>22 DEF SkipsProof
<1>23. CASE CapturesProof
  BY <1>23 DEF CapturesProof, Captured
<1>24. CASE Validates
  BY <1>24 DEF Validates, CleanupKept
<1>25. CASE EndsClean
  BY <1>25 DEF EndsClean
<1>26. CASE EndsBadly
  BY <1>26 DEF EndsBadly
<1>27. CASE FinishesEmpty
  BY <1>27 DEF FinishesEmpty, Finishes
<1>28. CASE OffersValidated
  BY <1>28 DEF OffersValidated, Finishes
<1>29. CASE OffersCandidate
  BY <1>29 DEF OffersCandidate, Finishes
<1>. HIDE DEF FaultInv, LeftFaultIsReported
<1>. QED
  BY StepCases, <1>1, <1>2, <1>3, <1>4, <1>5, <1>6, <1>7, <1>8, <1>9, <1>10, <1>11, <1>12, <1>13, <1>14, <1>15, <1>16, <1>17, <1>18, <1>19, <1>20, <1>21, <1>22, <1>23, <1>24, <1>25, <1>26, <1>27, <1>28, <1>29, Zenon

\* A clean end rests on a validated window.
LEMMA ProofStep ==
    ASSUME IInv, ScenarioAssumption, Next
    PROVE  ProofInv'
<1>. USE DEF ProofInv, ScopeInv,
           IInv, PreparePcs, ProofPcs, CleanupPcs
<1>1. CASE Ticks
  BY <1>1 DEF Ticks, CaseKept, CleanupKept, Aged
<1>2. CASE Disturbs
  BY <1>2 DEF Disturbs
<1>3. CASE Converges
  BY <1>3 DEF Converges
<1>4. CASE BreaksOff
  BY <1>4 DEF BreaksOff, CaseKept, CleanupReset
<1>5. CASE Begins
  BY <1>5 DEF Begins
<1>6. CASE Readies
  BY <1>6 DEF Readies
<1>7. CASE Reuses
  BY <1>7 DEF Reuses, CaseNamed
<1>8. CASE TakesNothing
  BY <1>8 DEF TakesNothing, CaseNamed
<1>9. CASE CapturesBaseline
  BY <1>9 DEF CapturesBaseline, Captured
<1>10. CASE CapturesObservation
  BY <1>10 DEF CapturesObservation, Captured
<1>11. CASE FreshPasses
  BY <1>11 DEF FreshPasses, CaseNamed
<1>12. CASE GoesOn
  BY <1>12 DEF GoesOn
<1>13. CASE Injects
  BY <1>13 DEF Injects
<1>14. CASE InjectFails
  BY <1>14 DEF InjectFails, CaseKept, CleanupReset
<1>15. CASE KeepsWindow
  BY <1>15 DEF KeepsWindow, CaseKept
<1>16. CASE DropsWindow
  BY <1>16 DEF DropsWindow
<1>17. CASE Diagnoses
  BY <1>17 DEF Diagnoses, CleanupReset
<1>18. CASE FindsNothing
  BY <1>18 DEF FindsNothing, CleanupKept
<1>19. CASE RecoversAll
  BY <1>19 DEF RecoversAll
<1>20. CASE TriesAgain
  BY <1>20 DEF TriesAgain
<1>21. CASE ChecksAgain
  BY <1>21 DEF ChecksAgain
<1>22. CASE SkipsProof
  BY <1>22 DEF SkipsProof
<1>23. CASE CapturesProof
  BY <1>23 DEF CapturesProof, Captured
<1>24. CASE Validates
  BY <1>24 DEF Validates, CleanupKept
<1>25. CASE EndsClean
  BY <1>25 DEF EndsClean
<1>26. CASE EndsBadly
  BY <1>26 DEF EndsBadly
<1>27. CASE FinishesEmpty
  BY <1>27 DEF FinishesEmpty, Finishes
<1>28. CASE OffersValidated
  BY <1>28 DEF OffersValidated, Finishes
<1>29. CASE OffersCandidate
  BY <1>29 DEF OffersCandidate, Finishes
<1>. HIDE DEF ProofInv, ScopeInv
<1>. QED
  BY StepCases, <1>1, <1>2, <1>3, <1>4, <1>5, <1>6, <1>7, <1>8, <1>9, <1>10, <1>11, <1>12, <1>13, <1>14, <1>15, <1>16, <1>17, <1>18, <1>19, <1>20, <1>21, <1>22, <1>23, <1>24, <1>25, <1>26, <1>27, <1>28, <1>29, Zenon

\* A baseline is clean, and of the runtime it is used on.
LEMMA BaselineStep ==
    ASSUME IInv, ScenarioAssumption, Next
    PROVE  BaselineInv'
<1>. USE DEF BaselineInv, BaselineIsClean, ReusedIsCurrent, OfferIsSound, CandidateInv, ValidatedInv, ScopeInv,
           IInv, PreparePcs, ProofPcs, CleanupPcs
<1>1. CASE Ticks
  BY <1>1 DEF Ticks, CaseKept, CleanupKept, Aged
<1>2. CASE Disturbs
  BY <1>2 DEF Disturbs
<1>3. CASE Converges
  BY <1>3 DEF Converges
<1>4. CASE BreaksOff
  BY <1>4 DEF BreaksOff, CaseKept, CleanupReset
<1>5. CASE Begins
  BY <1>5 DEF Begins
<1>6. CASE Readies
  BY <1>6 DEF Readies
<1>7. CASE Reuses
  BY <1>7 DEF Reuses, CaseNamed
<1>8. CASE TakesNothing
  BY <1>8 DEF TakesNothing, CaseNamed
<1>9. CASE CapturesBaseline
  BY <1>9 DEF CapturesBaseline, Captured
<1>10. CASE CapturesObservation
  BY <1>10 DEF CapturesObservation, Captured
<1>11. CASE FreshPasses
  BY <1>11 DEF FreshPasses, CaseNamed
<1>12. CASE GoesOn
  BY <1>12 DEF GoesOn
<1>13. CASE Injects
  BY <1>13 DEF Injects
<1>14. CASE InjectFails
  BY <1>14 DEF InjectFails, CaseKept, CleanupReset
<1>15. CASE KeepsWindow
  BY <1>15 DEF KeepsWindow, CaseKept
<1>16. CASE DropsWindow
  BY <1>16 DEF DropsWindow
<1>17. CASE Diagnoses
  BY <1>17 DEF Diagnoses, CleanupReset
<1>18. CASE FindsNothing
  BY <1>18 DEF FindsNothing, CleanupKept
<1>19. CASE RecoversAll
  BY <1>19 DEF RecoversAll
<1>20. CASE TriesAgain
  BY <1>20 DEF TriesAgain
<1>21. CASE ChecksAgain
  BY <1>21 DEF ChecksAgain
<1>22. CASE SkipsProof
  BY <1>22 DEF SkipsProof
<1>23. CASE CapturesProof
  BY <1>23 DEF CapturesProof, Captured
<1>24. CASE Validates
  BY <1>24 DEF Validates, CleanupKept
<1>25. CASE EndsClean
  BY <1>25 DEF EndsClean
<1>26. CASE EndsBadly
  BY <1>26 DEF EndsBadly
<1>27. CASE FinishesEmpty
  BY <1>27 DEF FinishesEmpty, Finishes
<1>28. CASE OffersValidated
  <2>1. cl.scope = cl.validated.scope /\ lab.scope = cl.validated.scope
    BY <1>28, NoneIsNone DEF OffersValidated, Finishes, RecordInv, Cleanups, AnyWindow, WindowRecords
  <2>2. cl.validated.clean /\ cl.validated.steady
    BY <1>28, <2>1, NumberTypes DEF OffersValidated, Finishes, Held, Numbers
  <2>. QED  BY <1>28, <2>1, <2>2 DEF OffersValidated, Finishes
<1>29. CASE OffersCandidate
  <2>1. case.candidate \in WindowRecords /\ case.candidate.scope \in Scopes /\ lab.scope \in Scopes
    BY <1>29 DEF OffersCandidate, RecordInv, Cases, Labs, AnyWindow, WindowRecords
  <2>2. /\ lab.scope.target = case.candidate.scope.target
        /\ lab.scope.rest = case.candidate.scope.rest
    BY <1>29, <2>1 DEF OffersCandidate, Before, Held, Scopes, ScenarioAssumption
  <2>3. lab.scope = case.candidate.scope
    BY <2>1, <2>2 DEF Scopes
  <2>4. case.candidate.clean /\ case.candidate.steady
    BY <1>29, <2>2, NumberTypes DEF OffersCandidate, Held, Numbers
  <2>. QED  BY <1>29, <2>3, <2>4 DEF OffersCandidate, Finishes
<1>. HIDE DEF BaselineInv, BaselineIsClean, ReusedIsCurrent, OfferIsSound, CandidateInv, ValidatedInv, ScopeInv
<1>. QED
  BY StepCases, <1>1, <1>2, <1>3, <1>4, <1>5, <1>6, <1>7, <1>8, <1>9, <1>10, <1>11, <1>12, <1>13, <1>14, <1>15, <1>16, <1>17, <1>18, <1>19, <1>20, <1>21, <1>22, <1>23, <1>24, <1>25, <1>26, <1>27, <1>28, <1>29, Zenon

\* The scopes of a case and its windows are scopes the lab had.
LEMMA ScopeStep ==
    ASSUME IInv, ScenarioAssumption, Next
    PROVE  ScopeInv'
<1>. USE DEF ScopeInv, Held, Before, Numbers, Counted,
           IInv, PreparePcs, ProofPcs, CleanupPcs
<1>1. CASE Ticks
  BY <1>1, NumberTypes DEF Ticks, CaseKept, CleanupKept, Aged
<1>2. CASE Disturbs
  BY <1>2, NumberTypes DEF Disturbs
<1>3. CASE Converges
  BY <1>3, NumberTypes DEF Converges
<1>4. CASE BreaksOff
  BY <1>4, NumberTypes DEF BreaksOff, CaseKept, CleanupReset
<1>5. CASE Begins
  BY <1>5, NumberTypes DEF Begins
<1>6. CASE Readies
  BY <1>6, NumberTypes DEF Readies
<1>7. CASE Reuses
  BY <1>7, NumberTypes DEF Reuses, CaseNamed
<1>8. CASE TakesNothing
  BY <1>8, NumberTypes DEF TakesNothing, CaseNamed
<1>9. CASE CapturesBaseline
  BY <1>9, NumberTypes DEF CapturesBaseline, Captured
<1>10. CASE CapturesObservation
  BY <1>10, NumberTypes DEF CapturesObservation, Captured
<1>11. CASE FreshPasses
  BY <1>11, NumberTypes DEF FreshPasses, CaseNamed
<1>12. CASE GoesOn
  BY <1>12, NumberTypes DEF GoesOn
<1>13. CASE Injects
  BY <1>13, NumberTypes DEF Injects
<1>14. CASE InjectFails
  BY <1>14, NumberTypes DEF InjectFails, CaseKept, CleanupReset
<1>15. CASE KeepsWindow
  BY <1>15, NumberTypes DEF KeepsWindow, CaseKept
<1>16. CASE DropsWindow
  BY <1>16, NumberTypes DEF DropsWindow
<1>17. CASE Diagnoses
  BY <1>17, NumberTypes DEF Diagnoses, CleanupReset
<1>18. CASE FindsNothing
  BY <1>18, NumberTypes DEF FindsNothing, CleanupKept
<1>19. CASE RecoversAll
  BY <1>19, NumberTypes DEF RecoversAll
<1>20. CASE TriesAgain
  BY <1>20, NumberTypes DEF TriesAgain
<1>21. CASE ChecksAgain
  BY <1>21, NumberTypes DEF ChecksAgain
<1>22. CASE SkipsProof
  BY <1>22, NumberTypes DEF SkipsProof
<1>23. CASE CapturesProof
  BY <1>23, NumberTypes DEF CapturesProof, Captured
<1>24. CASE Validates
  BY <1>24, NumberTypes DEF Validates, CleanupKept
<1>25. CASE EndsClean
  BY <1>25, NumberTypes DEF EndsClean
<1>26. CASE EndsBadly
  BY <1>26, NumberTypes DEF EndsBadly
<1>27. CASE FinishesEmpty
  BY <1>27, NumberTypes DEF FinishesEmpty, Finishes
<1>28. CASE OffersValidated
  BY <1>28, NumberTypes DEF OffersValidated, Finishes
<1>29. CASE OffersCandidate
  BY <1>29, NumberTypes DEF OffersCandidate, Finishes
<1>. HIDE DEF ScopeInv, Held, Before, Numbers, Counted
<1>. QED
  BY StepCases, <1>1, <1>2, <1>3, <1>4, <1>5, <1>6, <1>7, <1>8, <1>9, <1>10, <1>11, <1>12, <1>13, <1>14, <1>15, <1>16, <1>17, <1>18, <1>19, <1>20, <1>21, <1>22, <1>23, <1>24, <1>25, <1>26, <1>27, <1>28, <1>29, Zenon

\* The window of a healthy episode may be offered.
LEMMA CandidateStep ==
    ASSUME IInv, ScenarioAssumption, Next
    PROVE  CandidateInv'
<1>. USE DEF CandidateInv, ScopeInv, Held, Before, Numbers, Counted,
           IInv, PreparePcs, ProofPcs, CleanupPcs
<1>1. CASE Ticks
  BY <1>1, NumberTypes DEF Ticks, CaseKept, CleanupKept, Aged
<1>2. CASE Disturbs
  BY <1>2, NumberTypes DEF Disturbs
<1>3. CASE Converges
  BY <1>3, NumberTypes DEF Converges
<1>4. CASE BreaksOff
  BY <1>4, NumberTypes DEF BreaksOff, CaseKept, CleanupReset
<1>5. CASE Begins
  BY <1>5, NumberTypes DEF Begins
<1>6. CASE Readies
  BY <1>6, NumberTypes DEF Readies
<1>7. CASE Reuses
  BY <1>7, NumberTypes DEF Reuses, CaseNamed
<1>8. CASE TakesNothing
  BY <1>8, NumberTypes DEF TakesNothing, CaseNamed
<1>9. CASE CapturesBaseline
  BY <1>9, NumberTypes DEF CapturesBaseline, Captured
<1>10. CASE CapturesObservation
  BY <1>10, NumberTypes DEF CapturesObservation, Captured
<1>11. CASE FreshPasses
  BY <1>11, NumberTypes DEF FreshPasses, CaseNamed
<1>12. CASE GoesOn
  BY <1>12, NumberTypes DEF GoesOn
<1>13. CASE Injects
  BY <1>13, NumberTypes DEF Injects
<1>14. CASE InjectFails
  BY <1>14, NumberTypes DEF InjectFails, CaseKept, CleanupReset
<1>15. CASE KeepsWindow
  BY <1>15, NumberTypes DEF KeepsWindow, CaseKept
<1>16. CASE DropsWindow
  BY <1>16, NumberTypes DEF DropsWindow
<1>17. CASE Diagnoses
  BY <1>17, NumberTypes DEF Diagnoses, CleanupReset
<1>18. CASE FindsNothing
  BY <1>18, NumberTypes DEF FindsNothing, CleanupKept
<1>19. CASE RecoversAll
  BY <1>19, NumberTypes DEF RecoversAll
<1>20. CASE TriesAgain
  BY <1>20, NumberTypes DEF TriesAgain
<1>21. CASE ChecksAgain
  BY <1>21, NumberTypes DEF ChecksAgain
<1>22. CASE SkipsProof
  BY <1>22, NumberTypes DEF SkipsProof
<1>23. CASE CapturesProof
  BY <1>23, NumberTypes DEF CapturesProof, Captured
<1>24. CASE Validates
  BY <1>24, NumberTypes DEF Validates, CleanupKept
<1>25. CASE EndsClean
  BY <1>25, NumberTypes DEF EndsClean
<1>26. CASE EndsBadly
  BY <1>26, NumberTypes DEF EndsBadly
<1>27. CASE FinishesEmpty
  BY <1>27, NumberTypes DEF FinishesEmpty, Finishes
<1>28. CASE OffersValidated
  BY <1>28, NumberTypes DEF OffersValidated, Finishes
<1>29. CASE OffersCandidate
  BY <1>29, NumberTypes DEF OffersCandidate, Finishes
<1>. HIDE DEF CandidateInv, ScopeInv, Held, Before, Numbers, Counted
<1>. QED
  BY StepCases, <1>1, <1>2, <1>3, <1>4, <1>5, <1>6, <1>7, <1>8, <1>9, <1>10, <1>11, <1>12, <1>13, <1>14, <1>15, <1>16, <1>17, <1>18, <1>19, <1>20, <1>21, <1>22, <1>23, <1>24, <1>25, <1>26, <1>27, <1>28, <1>29, Zenon

\* The window of a cleanup may be offered.
LEMMA ValidatedStep ==
    ASSUME IInv, ScenarioAssumption, Next
    PROVE  ValidatedInv'
<1>. USE DEF ValidatedInv, ProofInv, ScopeInv, Held, Before, Numbers, Counted,
           IInv, PreparePcs, ProofPcs, CleanupPcs
<1>1. CASE Ticks
  BY <1>1, NumberTypes DEF Ticks, CaseKept, CleanupKept, Aged
<1>2. CASE Disturbs
  BY <1>2, NumberTypes DEF Disturbs
<1>3. CASE Converges
  BY <1>3, NumberTypes DEF Converges
<1>4. CASE BreaksOff
  BY <1>4, NumberTypes DEF BreaksOff, CaseKept, CleanupReset
<1>5. CASE Begins
  BY <1>5, NumberTypes DEF Begins
<1>6. CASE Readies
  BY <1>6, NumberTypes DEF Readies
<1>7. CASE Reuses
  BY <1>7, NumberTypes DEF Reuses, CaseNamed
<1>8. CASE TakesNothing
  BY <1>8, NumberTypes DEF TakesNothing, CaseNamed
<1>9. CASE CapturesBaseline
  BY <1>9, NumberTypes DEF CapturesBaseline, Captured
<1>10. CASE CapturesObservation
  BY <1>10, NumberTypes DEF CapturesObservation, Captured
<1>11. CASE FreshPasses
  BY <1>11, NumberTypes DEF FreshPasses, CaseNamed
<1>12. CASE GoesOn
  BY <1>12, NumberTypes DEF GoesOn
<1>13. CASE Injects
  BY <1>13, NumberTypes DEF Injects
<1>14. CASE InjectFails
  BY <1>14, NumberTypes DEF InjectFails, CaseKept, CleanupReset
<1>15. CASE KeepsWindow
  BY <1>15, NumberTypes DEF KeepsWindow, CaseKept
<1>16. CASE DropsWindow
  BY <1>16, NumberTypes DEF DropsWindow
<1>17. CASE Diagnoses
  BY <1>17, NumberTypes DEF Diagnoses, CleanupReset
<1>18. CASE FindsNothing
  BY <1>18, NumberTypes DEF FindsNothing, CleanupKept
<1>19. CASE RecoversAll
  BY <1>19, NumberTypes DEF RecoversAll
<1>20. CASE TriesAgain
  BY <1>20, NumberTypes DEF TriesAgain
<1>21. CASE ChecksAgain
  BY <1>21, NumberTypes DEF ChecksAgain
<1>22. CASE SkipsProof
  BY <1>22, NumberTypes DEF SkipsProof
<1>23. CASE CapturesProof
  BY <1>23, NumberTypes DEF CapturesProof, Captured
<1>24. CASE Validates
  BY <1>24, NumberTypes DEF Validates, CleanupKept
<1>25. CASE EndsClean
  BY <1>25, NumberTypes DEF EndsClean
<1>26. CASE EndsBadly
  BY <1>26, NumberTypes DEF EndsBadly
<1>27. CASE FinishesEmpty
  BY <1>27, NumberTypes DEF FinishesEmpty, Finishes
<1>28. CASE OffersValidated
  BY <1>28, NumberTypes DEF OffersValidated, Finishes
<1>29. CASE OffersCandidate
  BY <1>29, NumberTypes DEF OffersCandidate, Finishes
<1>. HIDE DEF ValidatedInv, ProofInv, ScopeInv, Held, Before, Numbers, Counted
<1>. QED
  BY StepCases, <1>1, <1>2, <1>3, <1>4, <1>5, <1>6, <1>7, <1>8, <1>9, <1>10, <1>11, <1>12, <1>13, <1>14, <1>15, <1>16, <1>17, <1>18, <1>19, <1>20, <1>21, <1>22, <1>23, <1>24, <1>25, <1>26, <1>27, <1>28, <1>29, Zenon

\* What is on offer during a case is of an earlier one.
LEMMA TakenStep ==
    ASSUME IInv, ScenarioAssumption, Next
    PROVE  TakenInv'
<1>. USE DEF TakenInv, ScopeInv, CandidateInv, ValidatedInv, Numbers,
           IInv, PreparePcs, ProofPcs, CleanupPcs
<1>1. CASE Ticks
  BY <1>1, NumberTypes DEF Ticks, CaseKept, CleanupKept, Aged
<1>2. CASE Disturbs
  BY <1>2, NumberTypes DEF Disturbs
<1>3. CASE Converges
  BY <1>3, NumberTypes DEF Converges
<1>4. CASE BreaksOff
  BY <1>4, NumberTypes DEF BreaksOff, CaseKept, CleanupReset
<1>5. CASE Begins
  BY <1>5, NumberTypes DEF Begins
<1>6. CASE Readies
  BY <1>6, NumberTypes DEF Readies
<1>7. CASE Reuses
  BY <1>7, NumberTypes DEF Reuses, CaseNamed
<1>8. CASE TakesNothing
  BY <1>8, NumberTypes DEF TakesNothing, CaseNamed
<1>9. CASE CapturesBaseline
  BY <1>9, NumberTypes DEF CapturesBaseline, Captured
<1>10. CASE CapturesObservation
  BY <1>10, NumberTypes DEF CapturesObservation, Captured
<1>11. CASE FreshPasses
  BY <1>11, NumberTypes DEF FreshPasses, CaseNamed
<1>12. CASE GoesOn
  BY <1>12, NumberTypes DEF GoesOn
<1>13. CASE Injects
  BY <1>13, NumberTypes DEF Injects
<1>14. CASE InjectFails
  BY <1>14, NumberTypes DEF InjectFails, CaseKept, CleanupReset
<1>15. CASE KeepsWindow
  BY <1>15, NumberTypes DEF KeepsWindow, CaseKept
<1>16. CASE DropsWindow
  BY <1>16, NumberTypes DEF DropsWindow
<1>17. CASE Diagnoses
  BY <1>17, NumberTypes DEF Diagnoses, CleanupReset
<1>18. CASE FindsNothing
  BY <1>18, NumberTypes DEF FindsNothing, CleanupKept
<1>19. CASE RecoversAll
  BY <1>19, NumberTypes DEF RecoversAll
<1>20. CASE TriesAgain
  BY <1>20, NumberTypes DEF TriesAgain
<1>21. CASE ChecksAgain
  BY <1>21, NumberTypes DEF ChecksAgain
<1>22. CASE SkipsProof
  BY <1>22, NumberTypes DEF SkipsProof
<1>23. CASE CapturesProof
  BY <1>23, NumberTypes DEF CapturesProof, Captured
<1>24. CASE Validates
  BY <1>24, NumberTypes DEF Validates, CleanupKept
<1>25. CASE EndsClean
  BY <1>25, NumberTypes DEF EndsClean
<1>26. CASE EndsBadly
  BY <1>26, NumberTypes DEF EndsBadly
<1>27. CASE FinishesEmpty
  BY <1>27, NumberTypes DEF FinishesEmpty, Finishes
<1>28. CASE OffersValidated
  <2>1. handoff'.window # None /\ handoff'.window.id = <<case.number, "validated">>
    BY <1>28 DEF OffersValidated, Finishes, CandidateInv, ValidatedInv
  <2>2. case.number \in 1 .. MaxCases
    BY <1>28 DEF ScenarioAssumption, OffersValidated, Finishes, RecordInv, Cases
  <2>3. handoff'.window.id \in AllWindows /\ handoff'.window.id[1] = case.number
    BY <2>1, <2>2 DEF AllWindows
  <2>. QED  BY <1>28, <2>3, NumberTypes DEF OffersValidated, Finishes
<1>29. CASE OffersCandidate
  <2>1. handoff'.window # None /\ handoff'.window.id = <<case.number, "observed">>
    BY <1>29 DEF OffersCandidate, Finishes, CandidateInv, ValidatedInv
  <2>2. case.number \in 1 .. MaxCases
    BY <1>29 DEF ScenarioAssumption, OffersCandidate, Finishes, RecordInv, Cases
  <2>3. handoff'.window.id \in AllWindows /\ handoff'.window.id[1] = case.number
    BY <2>1, <2>2 DEF AllWindows
  <2>. QED  BY <1>29, <2>3, NumberTypes DEF OffersCandidate, Finishes
<1>. HIDE DEF TakenInv, ScopeInv, CandidateInv, ValidatedInv, Numbers
<1>. QED
  BY StepCases, <1>1, <1>2, <1>3, <1>4, <1>5, <1>6, <1>7, <1>8, <1>9, <1>10, <1>11, <1>12, <1>13, <1>14, <1>15, <1>16, <1>17, <1>18, <1>19, <1>20, <1>21, <1>22, <1>23, <1>24, <1>25, <1>26, <1>27, <1>28, <1>29, Zenon

\* The records keep their fields' types.
LEMMA RecordStep ==
    ASSUME IInv, ScenarioAssumption, Next
    PROVE  RecordInv'
<1>0. /\ lab \in Labs /\ case \in Cases /\ cl \in Cleanups /\ handoff \in Handoffs
      /\ pc \in {"idle"} \cup PreparePcs \cup CleanupPcs
      /\ win \in AnyWindow /\ wait \in 0 .. Window /\ taken \subseteq AllWindows
      /\ result \in [success : BOOLEAN, cleanupFailed : BOOLEAN]
      /\ lab.scope \in Scopes /\ case.candidate \in AnyWindow /\ cl.validated \in AnyWindow
      /\ handoff.window \in AnyWindow /\ handoff.epoch \in Epochs
  BY DEF IInv, RecordInv, Labs, Cases, Cleanups, Handoffs
<1>. USE DEF Goto, RecordInv, PreparePcs, ProofPcs, CleanupPcs
<1>1. NoCleanup \in Cleanups /\ EmptyHandoff \in Handoffs
  BY DEF NoCleanup, Cleanups, EmptyHandoff, Handoffs, AnyScope, AnyWindow, Epochs, Endings, ScenarioAssumption
<1>2. ASSUME Tick  PROVE RecordInv'
  <2>1. case' \in Cases
    BY <1>0, <1>2, AgedWindows DEF Tick, Cases
  <2>2. cl' \in Cleanups
    <3>1. PICK left \in 0 .. Budget : cl' = [cl EXCEPT !.left = left, !.validated = AgedWindow(@)]
      <4>. DEFINE left == IF pc \in {"cleanup", "check", "prove", "validate", "conclude"} /\ cl.left > 0
                          THEN cl.left - 1 ELSE cl.left
      <4>1. left \in 0 .. Budget
        BY <1>0 DEF Cleanups, ScenarioAssumption
      <4>2. cl' = [cl EXCEPT !.left = left, !.validated = AgedWindow(@)]
        BY <1>2 DEF Tick
      <4>. QED  BY <4>1, <4>2
    <3>2. AgedWindow(cl.validated) \in AnyWindow
      BY <1>0, AgedWindows
    <3>. QED  BY <1>0, <3>1, <3>2 DEF Cleanups
  <2>3. handoff' \in Handoffs
    <3>. DEFINE epoch == IF handoff.epoch = None THEN None
                         ELSE [age |-> Older(handoff.epoch.age, Recalibrate)]
    <3>1. epoch \in Epochs
      <4>1. CASE handoff.epoch = None
        BY <4>1 DEF Epochs
      <4>2. CASE handoff.epoch # None
        <5>1. Older(handoff.epoch.age, Recalibrate) \in 0 .. Recalibrate + 1
          BY <1>0, <4>2 DEF Epochs, Older, ScenarioAssumption
        <5>. QED  BY <4>2, <5>1 DEF Epochs
      <4>. QED  BY <4>1, <4>2
    <3>2. AgedWindow(handoff.window) \in AnyWindow
      BY <1>0, AgedWindows
    <3>3. handoff' = [handoff EXCEPT !.window = AgedWindow(@), !.epoch = epoch]
      BY <1>2 DEF Tick
    <3>. HIDE DEF epoch
    <3>. QED  BY <1>0, <3>1, <3>2, <3>3 DEF Handoffs
  <2>. QED  BY <1>0, <1>2, <2>1, <2>2, <2>3 DEF Tick, ScenarioAssumption
<1>3. ASSUME Disturb  PROVE RecordInv'
  <2>1. PICK sick \in BOOLEAN, traffic \in BOOLEAN :
            /\ lab' = [lab EXCEPT !.scope.rest = @ + 1, !.disturbed = @ + 1,
                                  !.sick = @ \/ sick, !.traffic = @ /\ traffic]
            /\ Seen(sick, TRUE)
    BY <1>3 DEF Disturb
  <2>2. lab.scope.rest + 1 \in 0 .. MaxCases + MaxDisturb /\ lab.disturbed + 1 \in 0 .. MaxDisturb
    BY <1>0, <1>3 DEF Disturb, IInv, CountInv, Labs, Cases, Scopes, ScenarioAssumption
  <2>3. [lab.scope EXCEPT !.rest = @ + 1] \in Scopes
    BY <1>0, <2>2 DEF Scopes
  <2>4. lab' \in Labs
    BY <1>0, <2>1, <2>2, <2>3 DEF Labs
  <2>5. win' \in AnyWindow
    BY <1>0, <2>1 DEF Seen, AnyWindow, WindowRecords
  <2>. QED  BY <1>0, <1>3, <2>4, <2>5 DEF Disturb
<1>4. ASSUME Converge  PROVE RecordInv'
  BY <1>0, <1>4 DEF Converge, Labs
<1>5. ASSUME Breaks  PROVE RecordInv'
  <2>1. case' \in Cases
    BY <1>0, <1>5 DEF Breaks, Cases
  <2>2. win' \in AnyWindow /\ wait' \in 0 .. Window
    BY <1>5 DEF Breaks, AnyWindow, ScenarioAssumption
  <2>. QED  BY <1>0, <1>1, <1>5, <2>1, <2>2 DEF Breaks
<1>6. ASSUME NEW kind \in Kinds, Begin(kind)  PROVE RecordInv'
  <2>1. case' \in Cases
    <3>1. case.number + 1 \in 0 .. MaxCases
      BY <1>0, <1>6 DEF Begin, Cases, ScenarioAssumption
    <3>2. NoCase \in Cases
      BY DEF NoCase, Cases, AnyScope, AnyWindow, Kinds, ScenarioAssumption
    <3>3. case' = [NoCase EXCEPT !.number = case.number + 1, !.kind = kind]
      BY <1>6 DEF Begin
    <3>. QED  BY <1>6, <3>1, <3>2, <3>3 DEF Cases
  <2>. QED  BY <1>0, <1>6, <2>1 DEF Begin
<1>7. ASSUME ReadyTraffic  PROVE RecordInv'
  <2>1. ASSUME lab' = [lab EXCEPT !.traffic = TRUE,
                         !.scope.rest = IF @ < MaxCases + MaxDisturb THEN @ + 1 ELSE @]
        PROVE  lab' \in Labs
    <3>1. (IF lab.scope.rest < MaxCases + MaxDisturb THEN lab.scope.rest + 1 ELSE lab.scope.rest)
             \in 0 .. MaxCases + MaxDisturb
      BY <1>0 DEF Scopes, ScenarioAssumption
    <3>2. [lab.scope EXCEPT !.rest = IF @ < MaxCases + MaxDisturb THEN @ + 1 ELSE @] \in Scopes
      BY <1>0, <3>1 DEF Scopes
    <3>. QED  BY <1>0, <2>1, <3>2 DEF Labs
  <2>2. lab' \in Labs
    BY <1>0, <1>7, <2>1 DEF ReadyTraffic
  <2>. QED  BY <1>0, <1>7, <2>2 DEF ReadyTraffic
<1>8. ASSUME TakeBaseline  PROVE RecordInv'
  <2>1. handoff' \in Handoffs
    BY <1>0, <1>8 DEF TakeBaseline, Emptied, Handoffs, AnyWindow
  <2>2. PICK scope \in ReadScope :
          IF Usable(scope)
          THEN /\ case' = [case EXCEPT !.scope = scope, !.base = handoff.window, !.reused = TRUE]
               /\ taken' = taken \cup {handoff.window.id} /\ Goto("routes")
          ELSE /\ case' = [case EXCEPT !.scope = scope] /\ Goto("fresh") /\ UNCHANGED taken
    BY <1>8 DEF TakeBaseline
  <2>3. scope \in AnyScope
    BY <1>0 DEF ReadScope, AnyScope
  <2>4. case' \in Cases
    BY <1>0, <2>2, <2>3 DEF Cases
  <2>5. taken' \subseteq AllWindows
    BY <1>0, <2>2 DEF IInv, TakenInv, Usable
  <2>. QED  BY <1>0, <1>8, <2>1, <2>2, <2>4, <2>5 DEF TakeBaseline
<1>9. ASSUME NEW what \in {"fresh", "observed", "validated"}, NEW next, pc # "idle",
             Capture(<<case.number, what>>, next)
      PROVE  win' \in AnyWindow /\ wait' \in 0 .. Window
  <2>1. case.number \in 1 .. MaxCases
    BY <1>0, <1>9 DEF IInv, ScopeInv, Cases, ScenarioAssumption
  <2>2. lab.sick \in BOOLEAN
    BY <1>0 DEF Labs
  <2>3. win' \in WindowRecords
    BY <1>0, <1>9, <2>1, <2>2 DEF Capture, WindowRecords, ScenarioAssumption
  <2>. QED  BY <1>9, <2>3 DEF Capture, AnyWindow, ScenarioAssumption
<1>10. ASSUME CaptureBaseline \/ CaptureObservation  PROVE RecordInv'
  <2>1. win' \in AnyWindow /\ wait' \in 0 .. Window
    BY <1>9, <1>10 DEF CaptureBaseline, CaptureObservation
  <2>. QED  BY <1>0, <1>10, <2>1 DEF CaptureBaseline, CaptureObservation, Capture
<1>11. ASSUME FreshBaseline  PROVE RecordInv'
  <2>1. case' \in Cases /\ handoff' \in Handoffs /\ win' \in AnyWindow
    BY <1>0, <1>11 DEF FreshBaseline, Cases, Handoffs, EmptyHandoff, AnyWindow, AnyScope, Epochs, ScenarioAssumption
  <2>. QED  BY <1>0, <1>11, <2>1 DEF FreshBaseline
<1>12. ASSUME CollectRoutes \/ Prepared  PROVE RecordInv'
  BY <1>0, <1>12 DEF CollectRoutes, Prepared
<1>13. ASSUME Inject  PROVE RecordInv'
  <2>1. lab' \in Labs
    BY <1>0, <1>13 DEF Inject, Labs
  <2>2. case' \in Cases /\ cl' \in Cleanups
    BY <1>0, <1>1, <1>13 DEF Inject, Cases
  <2>. QED  BY <1>0, <1>13, <2>1, <2>2 DEF Inject
<1>14. ASSUME Observed  PROVE RecordInv'
  <2>1. case' \in Cases /\ win' \in AnyWindow
    BY <1>0, <1>14 DEF Observed, Cases, AnyWindow
  <2>. QED  BY <1>0, <1>14, <2>1 DEF Observed
<1>15. ASSUME Diagnosed  PROVE RecordInv'
  BY <1>0, <1>1, <1>15 DEF Diagnosed
<1>16. ASSUME NEW status \in Endings, Ends(status)  PROVE cl' \in Cleanups /\ pc' = "finish"
  BY <1>0, <1>16 DEF Ends, Cleanups
<1>17. ASSUME NothingToRecover  PROVE RecordInv'
  <2>1. cl' \in Cleanups
    BY <1>0, <1>17 DEF NothingToRecover, Attempted, Cleanups
  <2>. QED  BY <1>0, <1>17, <2>1 DEF NothingToRecover
<1>18. ASSUME RecoverFault  PROVE RecordInv'
  <2>1. PICK outcome \in {"recovered", "failed", "terminal", "raised"} :
          /\ Recovers(outcome)
          /\ Goto(CASE outcome = "recovered" -> "check"
                    [] outcome = "terminal" -> "finish"
                    [] OTHER -> "cleanup")
    BY <1>18 DEF RecoverFault
  <2>2. cl' \in Cleanups
    <3>. DEFINE results == IF outcome = "raised" THEN cl.results ELSE outcome
                ended == IF outcome = "terminal" THEN "terminal_recovery_failure" ELSE cl.ended
    <3>1. results \in {"none", "recovered", "failed", "terminal"}
      BY <1>0 DEF Cleanups
    <3>2. ended \in Endings
      BY <1>0 DEF Cleanups, Endings
    <3>3. Attempted \in 0 .. 2
      BY <1>0 DEF Attempted, Cleanups
    <3>4. cl' = [cl EXCEPT !.attempts = Attempted, !.attempted = TRUE, !.results = results, !.ended = ended]
      BY <2>1 DEF Recovers
    <3>. HIDE DEF results, ended
    <3>. QED  BY <1>0, <3>1, <3>2, <3>3, <3>4 DEF Cleanups
  <2>3. lab' \in Labs
    <3>1. CASE outcome = "recovered"
      <4>1. pc = "cleanup" /\ cl.results # "recovered"
        BY <1>18 DEF RecoverFault, Complete, IInv, FaultInv
      <4>2. lab.scope.target < case.number
        BY <4>1 DEF IInv, CountInv
      <4>. DEFINE step == IF case.kind = "device_down" THEN 1 ELSE 0
      <4>3. lab.scope.target + step \in 0 .. MaxCases
        BY <1>0, <4>2 DEF Cases, Scopes, ScenarioAssumption
      <4>4. [lab.scope EXCEPT !.target = @ + step] \in Scopes
        BY <1>0, <4>3 DEF Scopes
      <4>5. lab' = [lab EXCEPT !.tracked = FALSE, !.scope.target = @ + step]
        BY <2>1, <3>1 DEF Recovers
      <4>. QED  BY <1>0, <4>4, <4>5 DEF Labs
    <3>2. CASE outcome # "recovered"
      BY <1>0, <2>1, <3>2 DEF Recovers
    <3>. QED  BY <3>1, <3>2
  <2>4. pc' \in {"check", "finish", "cleanup"}
    BY <2>1
  <2>. QED  BY <1>0, <1>18, <2>2, <2>3, <2>4 DEF RecoverFault
<1>19. ASSUME LoopEnds  PROVE RecordInv'
  BY <1>0, <1>16, <1>19 DEF LoopEnds, Endings
<1>20. ASSUME CheckHealth  PROVE RecordInv'
  <2>1. cl' \in Cleanups /\ pc' \in {"prove", "cleanup", "finish"}
    BY <1>0, <1>16, <1>20 DEF CheckHealth, Endings
  <2>. QED  BY <1>0, <1>20, <2>1 DEF CheckHealth
<1>21. ASSUME Prove  PROVE RecordInv'
  <2>1. pc = "prove" /\ UNCHANGED <<lab, case, handoff, taken, result>>
    BY <1>21 DEF Prove
  <2>. DEFINE Good == /\ cl' \in Cleanups /\ win' \in AnyWindow /\ wait' \in 0 .. Window
                      /\ pc' \in {"conclude", "finish", "validate"}
  <2>2. ASSUME NEW status \in Endings, Ends(status), UNCHANGED <<win, wait>>  PROVE Good
    BY <1>0, <1>16, <2>2
  <2>3. ASSUME NEW scope \in ReadScope, Capture(<<case.number, "validated">>, "validate"),
               cl' = [cl EXCEPT !.scope = scope]
        PROVE  Good
    <3>1. scope \in AnyScope
      BY <1>0 DEF ReadScope, AnyScope
    <3>2. cl' \in Cleanups /\ pc' = "validate"
      BY <1>0, <2>3, <3>1 DEF Cleanups, Capture
    <3>. QED  BY <1>9, <2>1, <2>3, <3>2
  <2>4. ASSUME Goto("conclude"), UNCHANGED <<cl, win, wait>>  PROVE Good
    BY <1>0, <2>4
  <2>5. {"configuration_recovery_failed", "raised", "recovery_identity_changed", "recovery_timeout"}
           \subseteq Endings
    BY DEF Endings
  <2>. HIDE DEF Good
  <2>6. Good
    BY <1>21, <2>2, <2>3, <2>4, <2>5 DEF Prove
  <2>. QED  BY <1>0, <2>1, <2>6 DEF Good
<1>22. ASSUME Validate  PROVE RecordInv'
  <2>1. UNCHANGED <<lab, case, wait, handoff, taken, result>> /\ win' \in AnyWindow
    BY <1>22 DEF Validate, AnyWindow
  <2>2. {"recovery_timeout", "recovery_identity_changed", "post_recovery_baseline_failed"} \subseteq Endings
    BY DEF Endings
  <2>3. [cl EXCEPT !.validated = win] \in Cleanups
    BY <1>0 DEF Cleanups
  <2>4. cl' \in Cleanups /\ pc' \in {"finish", "conclude"}
    BY <1>16, <1>22, <2>2, <2>3 DEF Validate
  <2>. QED  BY <1>0, <2>1, <2>4
<1>23. ASSUME Conclude  PROVE RecordInv'
  <2>1. {"timeout", "clean", "route_recovery_failed"} \subseteq Endings
    BY DEF Endings
  <2>. QED  BY <1>0, <1>16, <1>23, <2>1 DEF Conclude
<1>24. ASSUME Finish  PROVE RecordInv'
  <2>1. result' \in [success : BOOLEAN, cleanupFailed : BOOLEAN]
    BY <1>0, <1>24 DEF Finish, Reported, Cases
  <2>2. Offered \in AnyWindow
    BY <1>0 DEF Offered, AnyWindow
  <2>3. ASSUME NEW scope \in ReadScope  PROVE Publish(scope) => handoff' \in Handoffs
    <3>1. scope \in AnyScope
      BY <1>0 DEF ReadScope, AnyScope
    <3>. QED  BY <1>0, <2>2, <3>1 DEF Publish, Handoffs, AnyWindow
  <2>4. handoff' \in Handoffs
    BY <1>0, <1>1, <1>24, <2>3 DEF Finish
  <2>. QED  BY <1>0, <1>24, <2>1, <2>4 DEF Finish
<1>. QED
  BY <1>2, <1>3, <1>4, <1>5, <1>6, <1>7, <1>8, <1>10, <1>11, <1>12, <1>13, <1>14, <1>15, <1>17, <1>18,
     <1>19, <1>20, <1>21, <1>22, <1>23, <1>24, Zenon DEF Next, Prepare, Cleanup

\* Every step is a step of the handoff, or leaves it alone.
LEMMA HandoffStep ==
    ASSUME IInv, ScenarioAssumption, Next
    PROVE  (Handoff!Next \/ UNCHANGED <<Slot, taken>>)
<1>. USE DEF Slot,
           IInv, PreparePcs, ProofPcs, CleanupPcs
<1>1. CASE Ticks
  BY <1>1 DEF Ticks, CaseKept, CleanupKept, Aged
<1>2. CASE Reuses
  <2>1. /\ Slot = {handoff.window.id} /\ Slot' = {} /\ taken' = taken \cup {handoff.window.id}
        /\ handoff.window.id \in AllWindows
    BY <1>2 DEF Reuses, TakenInv
  <2>. QED  BY <2>1 DEF Handoff!Next, Handoff!Take
<1>3. CASE TakesNothing
  <2>1. Slot' = {} /\ taken' = taken
    BY <1>3 DEF TakesNothing
  <2>. QED  BY <2>1 DEF Handoff!Next, Handoff!Drop
<1>4. CASE FreshPasses
  <2>1. Slot' = {} /\ taken' = taken
    BY <1>4 DEF FreshPasses
  <2>. QED  BY <2>1 DEF Handoff!Next, Handoff!Drop
<1>5. CASE FinishesEmpty
  <2>1. (Slot' = {} \/ Slot' = Slot) /\ taken' = taken
    BY <1>5 DEF FinishesEmpty, Finishes
  <2>. QED  BY <2>1 DEF Handoff!Next, Handoff!Drop
<1>6. CASE OffersValidated
  <2>1. handoff'.window # None /\ Slot' = {<<case.number, "validated">>} /\ taken' = taken
    BY <1>6 DEF OffersValidated, Finishes, CandidateInv, ValidatedInv
  <2>2. case.number \in 1 .. MaxCases
    BY <1>6 DEF ScenarioAssumption, OffersValidated, Finishes, RecordInv, Cases, ScopeInv
  <2>3. <<case.number, "validated">> \in AllWindows
    BY <2>2 DEF AllWindows
  <2>4. <<case.number, "validated">> \notin taken
    BY <2>2 DEF TakenInv, ScenarioAssumption
  <2>. QED  BY <2>1, <2>3, <2>4 DEF Handoff!Next, Handoff!Publish
<1>7. CASE OffersCandidate
  <2>1. handoff'.window # None /\ Slot' = {<<case.number, "observed">>} /\ taken' = taken
    BY <1>7 DEF OffersCandidate, Finishes, CandidateInv, ValidatedInv
  <2>2. case.number \in 1 .. MaxCases
    BY <1>7 DEF ScenarioAssumption, OffersCandidate, Finishes, RecordInv, Cases, ScopeInv
  <2>3. <<case.number, "observed">> \in AllWindows
    BY <2>2 DEF AllWindows
  <2>4. <<case.number, "observed">> \notin taken
    BY <2>2 DEF TakenInv, ScenarioAssumption
  <2>. QED  BY <2>1, <2>3, <2>4 DEF Handoff!Next, Handoff!Publish
<1>8. CASE \/ Disturbs \/ Converges \/ BreaksOff \/ Begins
          \/ Readies \/ CapturesBaseline \/ CapturesObservation \/ GoesOn
          \/ Injects \/ InjectFails \/ KeepsWindow \/ DropsWindow
          \/ Diagnoses \/ FindsNothing \/ RecoversAll \/ TriesAgain
          \/ ChecksAgain \/ SkipsProof \/ CapturesProof \/ Validates
          \/ EndsClean \/ EndsBadly
  BY <1>8 DEF Disturbs, Converges, BreaksOff, Begins, Readies, CapturesBaseline, CapturesObservation, GoesOn, Injects, InjectFails, KeepsWindow, DropsWindow, Diagnoses, FindsNothing, RecoversAll, TriesAgain, ChecksAgain, SkipsProof, CapturesProof, Validates, EndsClean, EndsBadly, CaseKept, CleanupReset, Captured, CleanupKept
<1>. HIDE DEF Slot
<1>. QED
  BY StepCases, <1>1, <1>2, <1>3, <1>4, <1>5, <1>6, <1>7, <1>8, Zenon

\* A baseline is reused only while it is young.
LEMMA YoungStep ==
    ASSUME IInv, ScenarioAssumption, Next
    PROVE  ReusedIsYoungStep
<1>1. ASSUME ~case.reused, case'.reused  PROVE Reuses
  <2>1. ~Begins
    BY <1>1 DEF Begins
  <2>. QED
    BY <1>1, <2>1, StepCases DEF Ticks, Disturbs, Converges, BreaksOff, Readies, TakesNothing,
       CapturesBaseline, CapturesObservation, FreshPasses, GoesOn, Injects, InjectFails, KeepsWindow,
       DropsWindow, Diagnoses, FindsNothing, RecoversAll, TriesAgain, ChecksAgain, SkipsProof,
       CapturesProof, Validates, EndsClean, EndsBadly, FinishesEmpty, OffersValidated, OffersCandidate,
       Finishes, CaseKept
<1>2. ASSUME Reuses  PROVE TakeBaseline
  BY <1>2 DEF Reuses, Next, Prepare, Cleanup, Tick, Disturb, Converge, Breaks, ReadyTraffic,
     CaptureBaseline, FreshBaseline, CollectRoutes, Inject, CaptureObservation, Observed, Prepared,
     Diagnosed, NothingToRecover, RecoverFault, LoopEnds, CheckHealth, Prove, Validate, Conclude, Finish,
     Begin, Goto
<1>3. ASSUME TakeBaseline, case'.reused, ~case.reused  PROVE \E scope \in ReadScope : Usable(scope)
  <2>1. case \in Cases
    BY DEF IInv, RecordInv
  <2>. QED  BY <1>3, <2>1 DEF TakeBaseline, Cases
<1>. QED  BY <1>1, <1>2, <1>3 DEF ReusedIsYoungStep, Usable

-----------------------------------------------------------------------------
(* The theorems                                                            *)

\* An executor that has run nothing satisfies the invariant.
LEMMA InitInv ==
    ASSUME ScenarioAssumption, Init
    PROVE  IInv
<1>1. NoCase \in Cases /\ NoCleanup \in Cleanups /\ EmptyHandoff \in Handoffs
  BY DEF NoCase, Cases, NoCleanup, Cleanups, EmptyHandoff, Handoffs, AnyScope, AnyWindow, Epochs,
     Endings, Kinds, ScenarioAssumption
<1>2. lab \in Labs
  BY DEF Init, Labs, Scopes, ScenarioAssumption
<1>3. RecordInv
  BY <1>1, <1>2 DEF Init, RecordInv, AnyWindow, PreparePcs, CleanupPcs, ProofPcs, ScenarioAssumption
<1>4. CountInv
  BY DEF Init, CountInv, NoCase, PreparePcs, ProofPcs
<1>5. ScopeInv /\ CandidateInv /\ ValidatedInv
  BY DEF Init, NoCase, ScopeInv, CandidateInv, ValidatedInv, Held, CleanupPcs, ProofPcs
<1>6. FaultInv /\ ProofInv
  BY DEF Init, FaultInv, LeftFaultIsReported, ProofInv, ProofPcs
<1>7. BaselineInv /\ TakenInv
  BY DEF Init, NoCase, EmptyHandoff, BaselineInv, BaselineIsClean, ReusedIsCurrent, OfferIsSound, TakenInv
<1>. QED  BY <1>3, <1>4, <1>5, <1>6, <1>7 DEF IInv

\* A step that changes nothing keeps it.
LEMMA StutterInv ==
    ASSUME IInv, UNCHANGED vars
    PROVE  IInv'
<1>. USE DEF vars, IInv
<1>1. RecordInv' /\ CountInv'
  BY DEF RecordInv, CountInv
<1>2. ScopeInv' /\ CandidateInv' /\ ValidatedInv'
  BY DEF ScopeInv, CandidateInv, ValidatedInv, Held
<1>3. FaultInv' /\ ProofInv' /\ BaselineInv' /\ TakenInv'
  BY DEF FaultInv, LeftFaultIsReported, ProofInv, BaselineInv, BaselineIsClean, ReusedIsCurrent,
         OfferIsSound, TakenInv
<1>. QED  BY <1>1, <1>2, <1>3

\* Every step of the executor and of its surroundings keeps it.
LEMMA NextInv ==
    ASSUME IInv, ScenarioAssumption, Next
    PROVE  IInv'
BY RecordStep, CountStep, ScopeStep, CandidateStep, ValidatedStep, FaultStep, ProofStep,
   BaselineStep, TakenStep, Zenon DEF IInv

\* The invariant is more than the properties it is for.
LEMMA InvImplies ==
    ASSUME IInv
    PROVE  /\ BaselineIsClean /\ ReusedIsCurrent /\ OfferIsSound
           /\ LeftFaultIsReported /\ CleanIsProven
<1>1. BaselineIsClean /\ ReusedIsCurrent /\ OfferIsSound
  BY DEF IInv, BaselineInv
<1>2. LeftFaultIsReported
  BY DEF IInv, FaultInv
<1>3. CleanIsProven
  BY DEF IInv, FaultInv, ProofInv, ValidatedInv, CleanIsProven, CleanupPcs
<1>. QED  BY <1>1, <1>2, <1>3

\* However restarts, failing steps, deadlines and the ages of windows fall
\* into a sequence of cases, the executor's invariant holds.
THEOREM ScenarioInvariant ==
    ASSUME ScenarioAssumption
    PROVE  Spec => []IInv
<1>1. Init => IInv
  BY InitInv
<1>2. IInv /\ [Next]_vars => IInv'
  BY NextInv, StutterInv
<1>. QED  BY <1>1, <1>2, PTL DEF Spec

\* Every variable keeps its type.
THEOREM ScenarioTypes ==
    ASSUME ScenarioAssumption
    PROVE  Spec => []TypeOK
<1>1. IInv => TypeOK
  BY DEF IInv, RecordInv, Labs, Cases, Cleanups, Handoffs, AnyScope, AnyWindow, AllWindows, TypeOK
<1>. QED  BY <1>1, ScenarioInvariant, PTL

\* No fault is injected against a baseline that saw a sick lab, whether it was
\* captured for the case or taken over from the one before.
THEOREM BaselinesAreClean ==
    ASSUME ScenarioAssumption
    PROVE  Spec => []BaselineIsClean
<1>1. IInv => BaselineIsClean
  BY InvImplies
<1>. QED  BY <1>1, ScenarioInvariant, PTL

\* A reused baseline, and one on offer, is of the very runtime the next case
\* runs on: nothing restarted during its window or since (take, publish).
THEOREM ReusedAreCurrent ==
    ASSUME ScenarioAssumption
    PROVE  Spec => [](ReusedIsCurrent /\ OfferIsSound)
<1>1. IInv => ReusedIsCurrent /\ OfferIsSound
  BY InvImplies
<1>. QED  BY <1>1, ScenarioInvariant, PTL

\* A reused baseline is not older than the limit, and not of an epoch that is
\* due for recalibration (BaselineHandoff.take).
THEOREM ReusedAreYoung ==
    ASSUME ScenarioAssumption
    PROVE  Spec => ReusedIsYoung
<1>1. IInv /\ [Next]_vars => [ReusedIsYoungStep]_vars
  BY YoungStep
<1>. QED  BY <1>1, ScenarioInvariant, PTL DEF Spec, ReusedIsYoung

\* A fault that is still in the lab when run_scenario() returns is reported as
\* a failed cleanup, whichever step of the case failed.
THEOREM LeftFaultsAreReported ==
    ASSUME ScenarioAssumption
    PROVE  Spec => []LeftFaultIsReported
<1>1. IInv => LeftFaultIsReported
  BY InvImplies
<1>. QED  BY <1>1, ScenarioInvariant, PTL

\* A clean end after a recovery rests on a window that began after the fault
\* was gone, saw no sick path, and saw the runtime the case began with
\* (_cleanup_after_scenario).
THEOREM CleanEndsAreProven ==
    ASSUME ScenarioAssumption
    PROVE  Spec => []CleanIsProven
<1>1. IInv => CleanIsProven
  BY InvImplies
<1>. QED  BY <1>1, ScenarioInvariant, PTL

\* The executor implements the single-consumer handoff of BaselineHandoff: a
\* window is offered once, taken at most once, and what was taken or dropped
\* never comes back.
THEOREM HandoffIsSingleConsumer ==
    ASSUME ScenarioAssumption
    PROVE  Spec => SingleConsumer
<1>1. Init => Handoff!Init
  BY DEF Init, EmptyHandoff, Handoff!Init, Slot
<1>2. IInv /\ [Next]_vars => [Handoff!Next]_<<Slot, taken>>
  <2>1. ASSUME UNCHANGED vars  PROVE UNCHANGED <<Slot, taken>>
    BY <2>1 DEF vars, Slot
  <2>. QED  BY <2>1, HandoffStep
<1>. QED  BY <1>1, <1>2, ScenarioInvariant, PTL DEF Spec, SingleConsumer, Handoff!Spec
=============================================================================
