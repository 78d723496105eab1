--------------------------- MODULE TrafficControl ---------------------------
(***************************************************************************)
(* Background traffic on the clients of one lab: client_agent/deploy.py    *)
(* starts one agent per client, traffic/controller.py drives them through  *)
(* reset, load_plan, enable, status and disable requests, and              *)
(* traffic/scenario_execution.py is the caller.  The agent itself (Rust)   *)
(* is modelled from its request handlers, one request at a time.           *)
(*                                                                         *)
(* A phase sends one request to every client in parallel.  Each request    *)
(* has two attempts; an attempt may be answered, applied with its answer   *)
(* lost, lost altogether, or (at most MaxLate times) applied by the agent after the *)
(* controller has given it up.                                             *)
(*                                                                         *)
(* A definition named Op_Variant is a mutated form of Op: replacing Op by  *)
(* it must break a property.  No specification uses it.                    *)
(***************************************************************************)
EXTENDS Naturals, FiniteSets

CONSTANTS
    Clients,        \* the clients of the lab
    MaxGeneration,  \* bound: how many times start_matrix is called
    MaxLate         \* bound: how many requests given up may be applied later

Generations == 1 .. MaxGeneration

Ops == {"reset", "load", "enable", "status", "disable"}

\* What an agent holds: the generation of its plan (0 without one), whether
\* its sender runs, and whether all its flows are up.
Agents == [generation : 0 .. MaxGeneration, enabled : BOOLEAN, ready : BOOLEAN]

Blank == [generation |-> 0, enabled |-> FALSE, ready |-> FALSE]

VARIABLES
    phase,      \* what the controlling process is doing
    call,       \* the request (or deployment step) to each client
    up,         \* the clients whose agent process runs
    agent,      \* what each agent holds
    deployed,   \* deploy_client_agents() has succeeded
    reported,   \* agents whose cleanup was reported as failed
    controller, \* "none", "empty" (no generation), or "active"
    generation, \* the controller's generation
    issued,     \* generations handed out so far
    late,       \* requests given up that an agent may still apply
    delays,     \* how many requests were given up so far and not lost
    rollback    \* a failed start could not reset every client

vars == <<phase, call, up, agent, deployed, reported, controller, generation,
          issued, late, delays, rollback>>

Phases == {"idle", "deploy", "undeploy", "rollback"} \cup Ops

\* "unready" is an answered status of an agent that is not there yet.
Calls == {"none", "first", "second", "ok", "unready", "failed"}

Init ==
    /\ phase = "idle" /\ call = [c \in Clients |-> "none"]
    /\ up = {} /\ agent = [c \in Clients |-> Blank]
    /\ deployed = FALSE /\ reported = {}
    /\ controller = "none" /\ generation = 0 /\ issued = 0
    /\ late = {} /\ delays = 0 /\ rollback = FALSE

Settled_OnlyAnswers == \A c \in Clients : call[c] \in {"none", "ok", "unready"}

\* Every future of the phase is done.
Settled == \A c \in Clients : call[c] \in {"none", "ok", "unready", "failed"}

Failures == {c \in Clients : call[c] = "failed"}

Send(p) == phase' = p /\ call' = [c \in Clients |-> "first"]

Rest == phase' = "idle" /\ call' = [c \in Clients |-> "none"]

-----------------------------------------------------------------------------
(* Starting the agents.                                                    *)

\* deploy_client_agents(): a client whose container `docker ps` does not
\* show fails without being scheduled.
Deploy ==
    /\ phase = "idle" /\ ~deployed
    /\ phase' = "deploy"
    /\ \E running \in SUBSET Clients :
          call' = [c \in Clients |-> IF c \in running THEN "first" ELSE "failed"]
    /\ UNCHANGED <<up, agent, deployed, reported, controller, generation,
                   issued, late, delays, rollback>>

\* _start_client(): stops any old agent, starts a new one and waits for it;
\* a failure may leave the new one, the old one or none running.
StartClient(c) ==
    /\ phase = "deploy" /\ call[c] = "first"
    /\ \/ call' = [call EXCEPT ![c] = "ok"] /\ up' = up \cup {c}
       \/ call' = [call EXCEPT ![c] = "second"] /\ up' \in {up \ {c}, up \cup {c}}
    /\ agent' = [agent EXCEPT ![c] = Blank]
    /\ reported' = reported \ {c}
    /\ UNCHANGED <<phase, deployed, controller, generation, issued, late, delays, rollback>>

Scheduled_Started == {c \in Clients : call[c] = "ok"}

\* Clients a failed deployment cleans up: every one that was scheduled.
Scheduled == {c \in Clients : call[c] \in {"ok", "second"}}

DeployEnds ==
    /\ phase = "deploy" /\ \A c \in Clients : call[c] # "first"
    /\ IF \A c \in Clients : call[c] = "ok"
       THEN Rest /\ deployed' = TRUE
       ELSE /\ phase' = "undeploy"
            /\ call' = [c \in Clients |-> IF c \in Scheduled THEN "first" ELSE "none"]
            /\ UNCHANGED deployed
    /\ UNCHANGED <<up, agent, reported, controller, generation, issued, late, delays, rollback>>

\* _stop_client_agent(): kills the processes it finds; failures are kept.
StopClient(c) ==
    /\ phase = "undeploy" /\ call[c] = "first"
    /\ call' = [call EXCEPT ![c] = "ok"]
    /\ \/ up' = up \ {c} /\ UNCHANGED reported
       \/ up' \in {up, up \ {c}} /\ reported' = reported \cup {c}
    /\ UNCHANGED <<phase, agent, deployed, controller, generation, issued, late, delays, rollback>>

UndeployEnds ==
    /\ phase = "undeploy" /\ Settled
    /\ Rest
    /\ UNCHANGED <<up, agent, deployed, reported, controller, generation,
                   issued, late, delays, rollback>>

-----------------------------------------------------------------------------
(* The agent: handle_request() runs one request at a time.                 *)

Handle_LoadKeepsSender(a, op, g) ==
    CASE op = "reset"   -> {<<Blank, "ok">>}
      [] op = "load"    -> {<<[a EXCEPT !.generation = g], "ok">>, <<Blank, "failed">>}
      [] op = "enable"  -> IF a.generation # g THEN {<<a, "failed">>}
                           ELSE {<<[a EXCEPT !.enabled = TRUE], "ok">>}
      [] op = "disable" -> IF a.generation # g THEN {<<a, "failed">>}
                           ELSE {<<[a EXCEPT !.enabled = FALSE, !.ready = FALSE], "ok">>}
      [] op = "status"  -> {<<a, IF a.enabled /\ a.ready /\ a.generation = g
                                 THEN "ok" ELSE "unready">>}

\* The states a request may leave an agent in, with the answer it gives.
\* A listener that cannot bind makes load_plan fail and clears the agent.
Handle(a, op, g) ==
    CASE op = "reset"   -> {<<Blank, "ok">>}
      [] op = "load"    -> {<<[Blank EXCEPT !.generation = g], "ok">>, <<Blank, "failed">>}
      [] op = "enable"  -> IF a.generation # g THEN {<<a, "failed">>}
                           ELSE IF a.enabled THEN {<<a, "ok">>}
                           ELSE {<<[a EXCEPT !.enabled = TRUE, !.ready = FALSE], "ok">>}
      [] op = "disable" -> IF a.generation # g THEN {<<a, "failed">>}
                           ELSE {<<[a EXCEPT !.enabled = FALSE, !.ready = FALSE], "ok">>}
      [] op = "status"  -> {<<a, IF a.enabled /\ a.ready /\ a.generation = g
                                 THEN "ok" ELSE "unready">>}

\* The sender connects its flows and may lose them again.
FlowsChange(c) ==
    /\ c \in up /\ agent[c].enabled
    /\ agent' = [agent EXCEPT ![c].ready = ~@]
    /\ UNCHANGED <<phase, call, up, deployed, reported, controller, generation,
                   issued, late, delays, rollback>>

\* A request the controller has given up reaches the agent after all.
ApplyLate(m) ==
    /\ m \in late /\ late' = late \ {m}
    /\ \E result \in Handle(agent[m.client], m.op, m.generation) :
          agent' = [agent EXCEPT ![m.client] = result[1]]
    /\ UNCHANGED <<phase, call, up, deployed, reported, controller, generation,
                   issued, delays, rollback>>

-----------------------------------------------------------------------------
(* The controller's requests.                                              *)

Op == IF phase = "rollback" THEN "reset" ELSE phase

Pending(c) == phase \in Ops \cup {"rollback"} /\ call[c] \in {"first", "second"}

GiveUp_ThirdAttempt(c) ==
    \/ call[c] = "first" /\ call' = [call EXCEPT ![c] = "second"]
    \/ call[c] = "second" /\ call' = [call EXCEPT ![c] = "third"]
    \/ call' = [call EXCEPT ![c] = "failed"]

\* _request_with_retry(): an OSError is tried once more, an error answer,
\* an empty answer or a cancelled operation is not.
GiveUp(c) ==
    \/ call[c] = "first" /\ call' = [call EXCEPT ![c] = "second"]
    \/ call' = [call EXCEPT ![c] = "failed"]

Answered(c) ==
    /\ Pending(c) /\ c \in up
    /\ \E result \in Handle(agent[c], Op, generation) :
          /\ agent' = [agent EXCEPT ![c] = result[1]]
          /\ call' = [call EXCEPT ![c] = result[2]]
    /\ UNCHANGED <<phase, up, deployed, reported, controller, generation,
                   issued, late, delays, rollback>>

AnswerLost(c) ==
    /\ Pending(c) /\ c \in up /\ Op # "status"
    /\ \E result \in Handle(agent[c], Op, generation) :
          agent' = [agent EXCEPT ![c] = result[1]]
    /\ GiveUp(c)
    /\ UNCHANGED <<phase, up, deployed, reported, controller, generation,
                   issued, late, delays, rollback>>

RequestLost(c) ==
    /\ Pending(c)
    /\ GiveUp(c)
    /\ UNCHANGED <<phase, up, agent, deployed, reported, controller, generation,
                   issued, late, delays, rollback>>

RequestLate(c) ==
    /\ delays < MaxLate /\ Pending(c) /\ c \in up /\ Op # "status"
    /\ delays' = delays + 1
    /\ late' = late \cup {[client |-> c, op |-> Op, generation |-> generation]}
    /\ GiveUp(c)
    /\ UNCHANGED <<phase, up, agent, deployed, reported, controller, generation,
                   issued, rollback>>

-----------------------------------------------------------------------------
(* start_matrix(), stop_all() and their caller.                            *)

StartMatrix_NoReset ==
    /\ phase = "idle" /\ deployed /\ controller = "none" /\ issued < MaxGeneration
    /\ controller' = "empty" /\ issued' = issued + 1 /\ generation' = issued + 1
    /\ Send("load")
    /\ UNCHANGED <<up, agent, deployed, reported, late, delays, rollback>>

\* setup_traffic(): a new controller starts its matrix, a reset first.  The
\* callers stop an old controller before.
StartMatrix ==
    /\ phase = "idle" /\ deployed /\ controller = "none" /\ issued < MaxGeneration
    /\ controller' = "empty" /\ issued' = issued + 1 /\ generation' = issued + 1
    /\ Send("reset")
    /\ UNCHANGED <<up, agent, deployed, reported, late, delays, rollback>>

NextPhase == [reset |-> "load", load |-> "enable", enable |-> "status"]

\* A phase of start_matrix ends; one failed client rolls every client back.
PhaseEnds ==
    /\ phase \in DOMAIN NextPhase /\ Settled
    /\ Send(IF Failures = {} THEN NextPhase[phase] ELSE "rollback")
    /\ UNCHANGED <<up, agent, deployed, reported, controller, generation,
                   issued, late, delays, rollback>>

\* The readiness loop: all ready, another turn, or the deadline.
StatusEnds ==
    /\ phase = "status" /\ Settled
    /\ IF \A c \in Clients : call[c] = "ok"
       THEN /\ Rest
            /\ controller' = "active" /\ rollback' = FALSE
       ELSE /\ \/ Failures = {} /\ Send("status")
               \/ Send("rollback")
            /\ UNCHANGED <<controller, rollback>>
    /\ UNCHANGED <<up, agent, deployed, reported, generation, issued, late, delays>>

\* _reset_all_best_effort(): its failures are dropped, the start raises.
RollbackEnds ==
    /\ phase = "rollback" /\ Settled
    /\ Rest
    /\ generation' = 0 /\ rollback' = (Failures # {})
    /\ UNCHANGED <<up, agent, deployed, reported, controller, issued, late, delays>>

\* stop_traffic(): without a generation there is nothing to disable.
StopAll ==
    /\ phase = "idle" /\ controller # "none"
    /\ IF controller = "active"
       THEN Send("disable") /\ UNCHANGED controller
       ELSE UNCHANGED <<phase, call>> /\ controller' = "none"
    /\ UNCHANGED <<up, agent, deployed, reported, generation, issued, late, delays, rollback>>

StopEnds_IgnoresFailures ==
    /\ phase = "disable" /\ Settled
    /\ Rest
    /\ controller' = "none" /\ generation' = 0
    /\ UNCHANGED <<up, agent, deployed, reported, issued, late, delays, rollback>>

\* A client that was not disabled keeps the controller and its generation.
StopEnds ==
    /\ phase = "disable" /\ Settled
    /\ Rest
    /\ IF Failures = {} THEN controller' = "none" /\ generation' = 0
                        ELSE UNCHANGED <<controller, generation>>
    /\ UNCHANGED <<up, agent, deployed, reported, issued, late, delays, rollback>>

Ends == PhaseEnds \/ StatusEnds \/ RollbackEnds \/ StopEnds \/ DeployEnds \/ UndeployEnds

Step(c) == StartClient(c) \/ StopClient(c) \/ Answered(c) \/ AnswerLost(c)
           \/ RequestLost(c) \/ RequestLate(c)

Next ==
    \/ Deploy \/ StartMatrix \/ StopAll
    \/ PhaseEnds \/ StatusEnds \/ RollbackEnds \/ StopEnds \/ DeployEnds \/ UndeployEnds
    \/ \E c \in Clients : \/ StartClient(c) \/ StopClient(c) \/ Answered(c)
                          \/ AnswerLost(c) \/ RequestLost(c) \/ RequestLate(c)
                          \/ FlowsChange(c)
    \/ \E m \in late : ApplyLate(m)

Spec == Init /\ [][Next]_vars

StatusLoopEnds == phase = "status" /\ StatusEnds /\ phase' # "status"

\* Every attempt has a timeout and every loop a deadline; the readiness loop
\* does not turn for ever (READY_TIMEOUT_SECONDS).
Fairness ==
    /\ \A c \in Clients : WF_vars(Step(c))
    /\ WF_vars(Ends)
    /\ SF_vars(StatusLoopEnds)

LiveSpec == Spec /\ Fairness

-----------------------------------------------------------------------------
(* Properties.                                                             *)

\* Every variable holds a value the code can put there.
TypeOK ==
    /\ phase \in Phases /\ call \in [Clients -> Calls]
    /\ up \subseteq Clients /\ agent \in [Clients -> Agents]
    /\ deployed \in BOOLEAN /\ reported \subseteq Clients
    /\ controller \in {"none", "empty", "active"}
    /\ generation \in 0 .. MaxGeneration /\ issued \in 0 .. MaxGeneration
    /\ delays \in 0 .. MaxLate
    /\ late \subseteq [client : Clients, op : Ops, generation : 0 .. MaxGeneration]
    /\ rollback \in BOOLEAN

\* The topology switches generations as one unit: plans of two generations
\* are never loaded at the same time, whatever requests fail half way
\* (the reset at the head of start_matrix).
OnePlan ==
    \A c, d \in Clients :
        agent[c].generation # 0 /\ agent[d].generation # 0
            => agent[c].generation = agent[d].generation

\* Two clients never send for two generations, although one given-up request
\* is applied at any later time (load_plan and reset stop the sender, enable
\* compares the generation).
OneSender ==
    \A c, d \in Clients :
        agent[c].enabled /\ agent[d].enabled => agent[c].generation = agent[d].generation

\* A released controller has left no client sending, unless the failed
\* start before it could not reset every client.
StoppedIsSilent ==
    controller = "none" /\ phase = "idle" /\ ~rollback =>
        \A c \in Clients : ~agent[c].enabled

\* After stop_traffic() no client sends any more.
ReleasedIsSilent ==
    controller = "none" /\ phase = "idle" => \A c \in Clients : ~agent[c].enabled

\* A deployment that raised leaves no agent running except the ones its
\* error names (deploy_client_agents cleans up every scheduled client).
FailedDeployReports ==
    phase = "idle" /\ ~deployed => up \subseteq reported

Idle == phase = "idle"

\* Every call of the controller comes to an end.
CallsEnd == ~Idle ~> Idle

=============================================================================
