---------------------------- MODULE FlapEvidence ----------------------------
(***************************************************************************)
(* Whether the observation of a link fault is whole (platform/scenario:    *)
(* effects.py and incident_backend.py, faults/services/periodic.py).       *)
(*                                                                         *)
(* A fault on an access link makes the probes of the client behind it fail *)
(* locally, which the audit of the probe plan cannot tell from a broken    *)
(* client.  Such errors are excused: of the client for the whole window    *)
(* when its link is held down, and only in the cycles that overlap a       *)
(* verified outage when the link flaps.  The outages are read off the      *)
(* history of the controller that runs beside the probes; the window is    *)
(* judged some time after it ended, while the controller is still at work. *)
(*                                                                         *)
(* Time is in ticks.  Between two ticks the link does not change; the      *)
(* transactions of the controller, and the changes of the link within      *)
(* them, happen at ticks.                                                  *)
(***************************************************************************)
EXTENDS Integers, Sequences, SequencesExt, FiniteSets

CONSTANTS
    Pairs,         \* probed pairs of clients
    Access,        \* the client behind the access link
    Cycle,         \* ticks of a probe cycle
    Batches,       \* port batches of an epoch
    Start, End,    \* the observation window
    MaxTime,       \* bound on the time of the verdict
    HistoryLimit,  \* 50: phases the controller remembers
    Foreign        \* sources whose probes may also fail for another reason

VARIABLES
    kind,       \* "flap_access", "flap_core" or "down_access"
    now,
    link,       \* whether the faulted link forwards
    ctl,        \* the controller: "up", "downing", "down", "upping", "failed" or "held"
    startedAt,  \* of the transaction in progress
    since,      \* when the last transaction was verified
    history,    \* PeriodicController.history
    cause,      \* why probes of the current cycle failed locally, per source
    rows,       \* probe records
    stage,      \* "observe", "accepted" or "refused"
    unsettled,  \* history variable: ticks after which the link was not verified up
    downs       \* history variable: when the link went down

ctlVars == <<link, ctl, startedAt, since, history, downs>>
vars == <<kind, now, ctlVars, cause, rows, stage, unsettled>>

Sources == {p[1] : p \in Pairs}

(***************************************************************************)
(* The controller and the link                                             *)
(***************************************************************************)
Phase(p) == [phase |-> p, started |-> startedAt, time |-> now]

\* _run after wait(up_time), and start() at time 0
BeginDown ==
    /\ ctl = "up" /\ now > since
    /\ ctl' = "downing" /\ startedAt' = now
    /\ UNCHANGED <<link, since, history, downs>>

LinkGoesDown ==
    /\ ctl = "downing" /\ link
    /\ link' = FALSE /\ downs' = downs \cup {now}
    /\ UNCHANGED <<ctl, startedAt, since, history>>

DownVerified ==
    /\ ctl = "downing" /\ ~link
    /\ LET longer == Append(history, Phase("fault"))
       IN  history' = SubSeq(longer, IF Len(longer) > HistoryLimit THEN Len(longer) - HistoryLimit + 1 ELSE 1, Len(longer))
    /\ ctl' = "down" /\ since' = now
    /\ UNCHANGED <<link, startedAt, downs>>

\* _run after wait(down_time)
BeginUp ==
    /\ ctl = "down" /\ now > since
    /\ ctl' = "upping" /\ startedAt' = now
    /\ UNCHANGED <<link, since, history, downs>>

LinkComesUp ==
    /\ ctl = "upping" /\ ~link
    /\ link' = TRUE
    /\ UNCHANGED <<ctl, startedAt, since, history, downs>>

UpVerified ==
    /\ ctl = "upping" /\ link
    /\ history' = Append(history, Phase("healthy"))
    /\ ctl' = "up" /\ since' = now
    /\ UNCHANGED <<link, startedAt, downs>>

\* a transaction of the controller raised: error is set, the thread ends
ControllerFails ==
    /\ ctl \in {"downing", "upping"}
    /\ ctl' = "failed"
    /\ UNCHANGED <<link, startedAt, since, history, downs>>

Controller ==
    /\ stage = "observe"
    /\ BeginDown \/ LinkGoesDown \/ DownVerified \/ BeginUp \/ LinkComesUp \/ UpVerified \/ ControllerFails
    /\ UNCHANGED <<kind, now, cause, rows, stage, unsettled>>

(***************************************************************************)
(* The probes                                                              *)
(***************************************************************************)
AccessDown == kind # "flap_core" /\ ~link

\* What may go wrong with the probes a source sends during the next tick.
Causes(s) ==
    {"none"} \cup (IF s = Access /\ AccessDown THEN {"link"} ELSE {})
             \cup (IF s \in Foreign THEN {"foreign", "socket"} ELSE {})

\* A cycle ends with a record per pair, stamped with its end; those after
\* the window are in no query.
Tick ==
    /\ stage = "observe" /\ now < MaxTime
    /\ now' = now + 1
    /\ unsettled' = IF ctl = "up" THEN unsettled ELSE unsettled \cup {now}
    /\ \E c \in [Sources -> {"none", "link", "foreign", "socket"}] :
          /\ \A s \in Sources : c[s] \in Causes(s)
          /\ LET worst == [s \in Sources |-> IF cause[s] = "none" THEN c[s] ELSE cause[s]]
             IN  IF now' % Cycle = 0
                 THEN /\ cause' = [s \in Sources |-> "none"]
                      /\ rows' = rows \cup
                           {[src |-> p[1], dst |-> p[2], time |-> now', batch |-> (now' \div Cycle) % Batches,
                             cause |-> worst[p[1]]] : p \in {q \in Pairs : now' < End}}
                 ELSE cause' = worst /\ UNCHANGED rows
    /\ UNCHANGED <<kind, ctlVars, stage>>

(***************************************************************************)
(* The verdict                                                             *)
(***************************************************************************)
\* _observed_periodic_phases
ObservedPhases_Open(h) ==
    LET before == SelectSeq(h, LAMBDA p : p.time <= Start)
    IN  (IF before = <<>> THEN <<>> ELSE <<Last(before)>>) \o SelectSeq(h, LAMBDA p : p.time > Start)

ObservedPhases(h) ==
    LET before == SelectSeq(h, LAMBDA p : p.time <= Start)
    IN  (IF before = <<>> THEN <<>> ELSE <<Last(before)>>)
        \o SelectSeq(h, LAMBDA p : p.time > Start /\ p.time <= End)

Repeated(phases) ==
    \E i \in 1 .. Len(phases) - 2 :
        phases[i].phase = "fault" /\ phases[i + 1].phase = "healthy" /\ phases[i + 2].phase = "fault"

\* _periodic_client_outages
Outages_Verified(h) ==
    {o \in {[start |-> h[i].time, end |-> IF i < Len(h) /\ h[i + 1].time < End THEN h[i + 1].time ELSE End] :
               i \in {j \in DOMAIN h : h[j].phase = "fault"}} : o.start < o.end}

Outages(h) ==
    {o \in {[start |-> h[i].started, end |-> IF i < Len(h) /\ h[i + 1].time < End THEN h[i + 1].time ELSE End] :
               i \in {j \in DOMAIN h : h[j].phase = "fault"}} : o.start < o.end}

\* summarize_coverage of the records in the window
InWindow == {r \in rows : r.time >= Start /\ r.time < End}
Valid == {r \in InWindow : r.cause = "none"}
Invalid == InWindow \ Valid
Task(r) == <<r.src, r.dst, r.batch>>
Missing == {<<p[1], p[2], b>> : p \in Pairs, b \in 0 .. Batches - 1} \ {Task(r) : r \in Valid}

\* _outage_explains_local_error
Explains_Episode(o, r) == r.cause # "socket" /\ r.src = Access

Explains(o, r) ==
    /\ r.cause # "socket"
    /\ r.src = Access
    /\ r.time - Cycle < o.end
    /\ r.time > o.start

\* scoped_integrity_errors with bounded outages, with an excluded client, and with neither
IntegrityErrors(outages, excluded) ==
    IF outages # {}
    THEN LET explained == {r \in Invalid : \E o \in outages : Explains(o, r)}
         IN  \/ explained # Invalid
             \/ ~(Missing \subseteq {Task(r) : r \in explained})
             \/ Valid = {}
    ELSE IF excluded # {}
    THEN \/ \E r \in Invalid : r.cause = "socket"
         \/ \E t \in Missing \cup {Task(r) : r \in Invalid} : t[1] \notin excluded /\ t[2] \notin excluded
         \/ ~\E r \in Valid : r.src \notin excluded /\ r.dst \notin excluded
    ELSE Missing # {} \/ Invalid # {}

\* validate_effect of link_flapping: at least two verified outages
EffectErrors == kind # "down_access" /\ (ctl = "failed" \/ ~Repeated(ObservedPhases(history)))

Validate ==
    /\ stage = "observe" /\ now >= End
    /\ LET outages == IF kind = "flap_access" /\ ~EffectErrors THEN Outages(history) ELSE {}
           excluded == IF kind = "down_access" THEN {Access} ELSE {}
       IN  stage' = IF EffectErrors \/ IntegrityErrors(outages, excluded) THEN "refused" ELSE "accepted"
    /\ UNCHANGED <<kind, now, ctlVars, cause, rows, unsettled>>

Finished == stage # "observe" /\ UNCHANGED vars

\* The injection has returned: its first fault phase is verified at time 0.
Init ==
    /\ kind \in {"flap_access", "flap_core", "down_access"}
    /\ now = 0 /\ link = FALSE /\ startedAt = 0 /\ since = 0 /\ downs = {0} /\ unsettled = {}
    /\ ctl = IF kind = "down_access" THEN "held" ELSE "down"
    /\ history = IF kind = "down_access" THEN <<>> ELSE <<[phase |-> "fault", started |-> 0, time |-> 0]>>
    /\ cause = [s \in Sources |-> "none"] /\ rows = {} /\ stage = "observe"

Next == Controller \/ Tick \/ Validate \/ Finished
Spec == Init /\ [][Next]_vars

-----------------------------------------------------------------------------
(***************************************************************************)
(* Properties                                                              *)
(***************************************************************************)
\* A sound observation is not thrown away: it is refused only if a probe
\* failed for a reason other than the link, the controller failed, the link
\* did not come up and go down again in the window, or nothing was
\* observed; or if, when the window is judged, an outage that began in it
\* is not yet verified, and so in no history.  However else the
\* transactions of the controller fall on the cycles of the probes, a
\* failure the link caused is excused.
NoFalseRefusal ==
    stage = "refused" =>
        \/ \E r \in InWindow : r.cause \in {"foreign", "socket"}
        \/ ctl = "failed"
        \/ ~\E i \in 2 .. Len(history) - 1 :
                history[i].phase = "healthy" /\ history[i].time > Start /\ history[i + 1].time <= End
        \/ {r \in InWindow : r.cause = "none" /\ r.src # Access} = {}
        \/ ctl = "downing" /\ startedAt < End

\* A failure that the fault does not account for is never excused: not of
\* another client, and not of the client of a flapping link in a cycle
\* through which the link was verified up.
OnlyTheOutageIsExcused ==
    stage = "accepted" =>
        \A r \in rows :
            r.time >= Start /\ r.time < End /\ r.cause # "none" =>
                /\ r.src = Access /\ r.cause # "socket"
                /\ kind = "flap_access" => (r.time - Cycle .. r.time - 1) \cap unsettled # {}

\* An episode offered as a flapping link did flap while it was observed: the
\* link went down twice, the second time no later than the window's end.
FlapIsReal ==
    stage = "accepted" /\ kind # "down_access" =>
        /\ Cardinality({d \in downs : d <= End}) >= 2
        /\ \E t \in Start .. End - 1 : t \in unsettled
=============================================================================
