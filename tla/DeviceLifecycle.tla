-------------------------- MODULE DeviceLifecycle --------------------------
(***************************************************************************)
(* The SONiC devices of a lab.  runtime/apply_configs.py activates every   *)
(* device in parallel after the deployment; handlers/system.py stops a     *)
(* device through Containerlab, which parks its dataplane interfaces in a  *)
(* namespace of its own, starts it again and activates it the same way.    *)
(*                                                                         *)
(* A definition named Op_Variant is a mutated form of Op: replacing Op by  *)
(* it must break a property.  No specification uses it.                    *)
(***************************************************************************)
EXTENDS Naturals

CONSTANTS
    Devices,    \* the SONiC devices of the lab
    MaxTries,   \* bound: readiness tries, and tries of the BGP wait
    MaxFaults,  \* bound: how many device_down injections
    MayExpire   \* the deadline of an injection may pass while it sleeps

\* A device: its container, its interfaces in the parking namespace, its
\* SONiC services and ports, what activation sets (hash policy, FRR, counters,
\* telemetry), the kernel addresses of the preseeded config, its BGP sessions.
Boxes == [running : BOOLEAN, parked : BOOLEAN, sonic : BOOLEAN,
          active : BOOLEAN, addresses : BOOLEAN, bgp : BOOLEAN]

Started == [running |-> TRUE, parked |-> FALSE, sonic |-> FALSE,
            active |-> FALSE, addresses |-> FALSE, bgp |-> FALSE]

Stopped == [Started EXCEPT !.running = FALSE, !.parked = TRUE]

VARIABLES
    box,        \* the devices
    step,       \* the activation of each device
    tries,      \* readiness tries left, per device
    main,       \* "deploy", "ready", "broken", or a step of the fault handler
    target,     \* the device of the fault
    tracked,    \* "none", "active" or "residual"
    verdict,    \* what the last recovery reported
    faults      \* how many injections were started

vars == <<box, step, tries, main, target, tracked, verdict, faults>>

Init ==
    /\ box \in [Devices -> {Started}]
    /\ step = [d \in Devices |-> "wait"] /\ tries = [d \in Devices |-> MaxTries]
    /\ main = "deploy" /\ target \in Devices /\ tracked = "none"
    /\ verdict = "none" /\ faults = 0

-----------------------------------------------------------------------------
(* The device, from how the code uses it.                                  *)

\* SONiC comes up on its own; the kernel may miss addresses of the config.
SonicUp(d) ==
    /\ box[d].running /\ ~box[d].sonic
    /\ \E a \in BOOLEAN : box' = [box EXCEPT ![d].sonic = TRUE, ![d].addresses = a]
    /\ UNCHANGED <<step, tries, main, target, tracked, verdict, faults>>

\* The sessions come up once FRR has its configuration.
BgpUp(d) ==
    /\ box[d].active /\ box[d].addresses /\ ~box[d].bgp
    /\ box' = [box EXCEPT ![d].bgp = TRUE]
    /\ UNCHANGED <<step, tries, main, target, tracked, verdict, faults>>

-----------------------------------------------------------------------------
(* Activation of one device: _apply_single_device().                       *)

Activation(d, next) == step' = [step EXCEPT ![d] = next]

\* _wait_for_sonic(): the probe sees the services and ports, or the next
\* try is due; the probe itself may fail.
WaitForSonic(d) ==
    /\ step[d] = "wait"
    /\ \/ box[d].sonic /\ Activation(d, "activate") /\ UNCHANGED tries
       \/ /\ tries' = [tries EXCEPT ![d] = @ - 1]
          /\ Activation(d, IF tries[d] = 1 THEN "failed" ELSE "wait")
    /\ UNCHANGED <<box, main, target, tracked, verdict, faults>>

\* _activate_preseed_device(): one shell script with `set -e`; a failure or a
\* timeout may come after any part of it, also after the last.
ActivateDevice(d) ==
    /\ step[d] = "activate"
    /\ \/ box' = [box EXCEPT ![d].active = TRUE] /\ Activation(d, "reconcile")
       \/ /\ box' = [box EXCEPT ![d].active = @] \/ box' = [box EXCEPT ![d].active = TRUE]
          /\ \/ Activation(d, "failed")
             \/ Activation(d, "raised")
    /\ UNCHANGED <<tries, main, target, tracked, verdict, faults>>

\* _reconcile_preseed_interfaces(): missing addresses are put back one by
\* one, and read again: only what the kernel shows counts.
Reconciled_Unread(d) == Activation(d, "ok")

Reconciled(d) ==
    \/ box'[d].addresses /\ Activation(d, "ok")
    \/ Activation(d, "failed")

ReconcileInterfaces(d) ==
    /\ step[d] = "reconcile"
    /\ box' = box \/ box' = [box EXCEPT ![d].addresses = TRUE]
    /\ Reconciled(d)
    /\ UNCHANGED <<tries, main, target, tracked, verdict, faults>>

\* apply_configs(): every future is waited for; the deployment goes on when
\* none failed and none raised.
Failed == {d \in Devices : step[d] \in {"failed", "raised"}}

ApplyEnds ==
    /\ main = "deploy"
    /\ \A d \in Devices : step[d] \in {"ok", "failed", "raised"}
    /\ main' = IF Failed = {} THEN "ready" ELSE "broken"
    /\ UNCHANGED <<box, step, tries, target, tracked, verdict, faults>>

-----------------------------------------------------------------------------
(* The device_down fault.                                                  *)

\* inject_device_down(): only a device that reads as running is stopped;
\* Containerlab may fail at any point.
InjectDeviceDown(d) ==
    /\ main = "ready" /\ tracked = "none" /\ faults < MaxFaults
    /\ box[d].running
    /\ faults' = faults + 1 /\ target' = d /\ main' = "settle" /\ verdict' = "none"
    /\ \E after \in {box[d], Stopped, [Stopped EXCEPT !.parked = FALSE],
                     [box[d] EXCEPT !.parked = TRUE]} :
          box' = [box EXCEPT ![d] = after]
    /\ UNCHANGED <<step, tries, tracked>>

\* _settled_stop_state() and its verdict: stopped and parked is the fault,
\* running and not parked is a clean failure, anything else (or unreadable)
\* is a residual mutation.
Settled_StoppedIsEnough(running, parked) ==
    IF running = "no" THEN "active"
    ELSE IF running = "yes" /\ parked = "no" THEN "none" ELSE "residual"

Settled_UnreadableIsClean(running, parked) ==
    IF running = "no" /\ parked = "yes" THEN "active"
    ELSE IF running = "no" THEN "residual" ELSE "none"

Settled(running, parked) ==
    IF running = "no" /\ parked = "yes" THEN "active"
    ELSE IF running = "yes" /\ parked = "no" THEN "none" ELSE "residual"

Reads(flag) == {"unreadable", IF flag THEN "yes" ELSE "no"}

SettledStop ==
    /\ main = "settle"
    /\ \E r \in Reads(box[target].running), p \in Reads(box[target].parked) :
          tracked' = Settled(r, p)
    /\ main' = "ready"
    /\ UNCHANGED <<box, step, tries, target, verdict, faults>>

\* The deadline passes inside control.sleep() of the settling loop.
SettleExpires ==
    /\ MayExpire /\ main = "settle" /\ main' = "ready"
    /\ UNCHANGED <<box, step, tries, target, tracked, verdict, faults>>

\* A recovery that did not succeed keeps the fault.
Report(v) == main' = "ready" /\ verdict' = v /\ UNCHANGED <<target, tracked, faults>>

\* _start_and_wait(): a container that runs already, or is stopped without
\* its parked interfaces, is beyond repair; what cannot be read is retried.
RecoverRefused ==
    /\ main = "ready" /\ tracked # "none"
    /\ \/ box[target].running /\ Report("terminal")
       \/ ~box[target].running /\ ~box[target].parked /\ Report("terminal")
       \/ Report("retryable")
    /\ UNCHANGED <<box, step, tries>>

\* containerlab start: the interfaces come back with the container; a failed
\* start may lose them or leave them parked.  A state that cannot be read
\* afterwards or a wrong interface count is terminal; a failed start that left
\* everything parked, or a supervisord that does not start, is retried.
StartDevice ==
    /\ main = "ready" /\ tracked # "none"
    /\ ~box[target].running /\ box[target].parked
    /\ \/ /\ box' = [box EXCEPT ![target] = Started]
          /\ step' = [step EXCEPT ![target] = "wait"]
          /\ tries' = [tries EXCEPT ![target] = MaxTries]
          /\ main' = "restart" /\ UNCHANGED <<target, tracked, verdict, faults>>
       \/ /\ \E b \in {Stopped, Started} : box' = [box EXCEPT ![target] = b]
          /\ UNCHANGED <<step, tries>> /\ Report("retryable")
       \/ /\ \E b \in {Stopped, Started, [Stopped EXCEPT !.parked = FALSE],
                        [Started EXCEPT !.parked = TRUE]} : box' = [box EXCEPT ![target] = b]
          /\ UNCHANGED <<step, tries>> /\ Report("terminal")

\* activate_device() in the recovery: a failure or an exception is reported.
RestartEnds ==
    /\ main = "restart" /\ step[target] \in {"ok", "failed", "raised"}
    /\ IF step[target] = "ok"
       THEN /\ main' = "bgp" /\ tries' = [tries EXCEPT ![target] = MaxTries]
            /\ UNCHANGED <<target, tracked, verdict, faults>>
       ELSE Report("retryable") /\ UNCHANGED tries
    /\ UNCHANGED <<box, step>>

BgpWait_OneNeighborIsEnough ==
    /\ main = "bgp"
    /\ main' = "ready" /\ tracked' = "none" /\ verdict' = "recovered"
    /\ UNCHANGED <<box, step, tries, target, faults>>

\* Every neighbour established ends the recovery; the tries are bounded.
BgpWait ==
    /\ main = "bgp"
    /\ \/ /\ box[target].running /\ box[target].bgp
          /\ main' = "ready" /\ tracked' = "none" /\ verdict' = "recovered"
          /\ UNCHANGED <<tries, target, faults>>
       \/ /\ tries[target] > 1 /\ tries' = [tries EXCEPT ![target] = @ - 1]
          /\ UNCHANGED <<main, target, tracked, verdict, faults>>
       \/ tries[target] = 1 /\ Report("retryable") /\ UNCHANGED tries
    /\ UNCHANGED <<box, step>>

-----------------------------------------------------------------------------
Activate(d) == WaitForSonic(d) \/ ActivateDevice(d) \/ ReconcileInterfaces(d)

Handler == SettledStop \/ RestartEnds \/ BgpWait

Next ==
    \/ \E d \in Devices : SonicUp(d) \/ BgpUp(d) \/ Activate(d) \/ InjectDeviceDown(d)
    \/ ApplyEnds \/ Handler \/ SettleExpires \/ RecoverRefused \/ StartDevice

Spec == Init /\ [][Next]_vars

\* The threads of the program run on; the devices need not.
FairSpec ==
    /\ Spec /\ WF_vars(ApplyEnds) /\ WF_vars(Handler)
    /\ \A d \in Devices : WF_vars(Activate(d))

-----------------------------------------------------------------------------
(* Properties.                                                             *)

\* The type of the state.
TypeOK ==
    /\ box \in [Devices -> Boxes] /\ target \in Devices
    /\ step \in [Devices -> {"wait", "activate", "reconcile", "ok", "failed", "raised"}]
    /\ tries \in [Devices -> 0 .. MaxTries] /\ faults \in 0 .. MaxFaults
    /\ main \in {"deploy", "ready", "broken", "settle", "restart", "bgp"}
    /\ tracked \in {"none", "active", "residual"}
    /\ verdict \in {"none", "recovered", "retryable", "terminal"}

\* In a lab that is ready, every device without a fault runs SONiC with its
\* activation and the addresses of its config, after the deployment as after
\* any number of device_down faults.
ReadyIsActive ==
    main = "ready" /\ tracked = "none" =>
        \A d \in Devices : box[d].sonic /\ box[d].active /\ box[d].addresses

\* And a device without a fault has its interfaces: its container runs and
\* nothing of it is parked.
DeviceBack ==
    main = "ready" /\ tracked = "none" =>
        \A d \in Devices : box[d].running /\ ~box[d].parked

\* A device_down fault is reported as injected only for a device that is
\* stopped with its interfaces kept; only then can it be started again.
ActiveIsRestartable ==
    main = "ready" /\ tracked = "active" /\ verdict = "none" =>
        ~box[target].running /\ box[target].parked

RecoveredHasSessionsStep == tracked # "none" /\ tracked' = "none" => box[target].bgp /\ box[target].running

\* A recovered device was up with its sessions when that was reported.
RecoveredHasSessions == [][RecoveredHasSessionsStep]_vars

InCall == main \in {"deploy", "settle", "restart", "bgp"}
Returned == main \in {"ready", "broken"}

\* The deployment and every call of the handler end.
CallsEnd == InCall ~> Returned
=============================================================================
