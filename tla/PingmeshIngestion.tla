-------------------------- MODULE PingmeshIngestion --------------------------
(***************************************************************************)
(* How a Pingmesh observation window is closed (pingmesh/                  *)
(* _detector_ingestion.py, _detector_query.py, _detector_coverage.py).     *)
(* A client probes the frames of its plan cycle after cycle; each target   *)
(* of a frame gives one row, which reaches InfluxDB late, in any order and *)
(* field by field.  The detector waits for history, lets the window pass,  *)
(* and reads frame progress around the window and the snapshot inside it   *)
(* until it can prove that every row of the window has arrived.            *)
(***************************************************************************)
EXTENDS Integers, Sequences, SequencesExt, FiniteSets, FiniteSetsExt

CONSTANTS Frames,     \* the client's frames: one sequence of target sets
          Logs,       \* possible runs of the client: sequences of cycle numbers
          Interval,   \* cycle_interval_seconds, in units of time
          WindowSize, \* length of the observation window
          MaxTime,    \* bound on time
          HistoryBy,  \* bound on the time at which the window begins
          InOrder,    \* whether rows reach InfluxDB in the order of their times
          MaxErrors   \* bound on failed queries and expired deadlines

VARIABLES log,    \* the cycle numbers of the client, slot by slot
          offset, \* startup delay
          now,
          seen,   \* per row: 0 absent, 1 some of its fields, 2 all of them
          d,      \* the detector
          errors
vars == <<log, offset, now, seen, d, errors>>

Epoch == Len(Frames)
Expected(c) == Frames[(c % Epoch) + 1]
Targets == UNION ToSet(Frames)
Names == SetToSeq(Targets)
(* The rows of the run.  A frame's rows are written one after the other.   *)
RowsOf(l, o) ==
    UNION {{[slot |-> k, cyc |-> l[k], dst |-> x,
             t |-> o + (k - 1) * Interval + Cardinality({y \in Expected(l[k]) : IndexFirstSubSeq(<<y>>, Names) < IndexFirstSubSeq(<<x>>, Names)})] :
               x \in Expected(l[k])} : k \in DOMAIN l}
Rows == DOMAIN seen
Emitted == {r \in Rows : r.t <= now}
Visible(a, b) == {r \in Rows : a <= r.t /\ r.t < b /\ seen[r] > 0}

(***************************************************************************)
(* _boundary_padding_seconds: the longest run of empty frames plus two.    *)
(***************************************************************************)
LongestGap == Max({0} \cup {n \in 1..Epoch : \E k \in 1..Epoch :
                              \A j \in k..(k + n - 1) : Frames[((j - 1) % Epoch) + 1] = {}})
BoundaryPadding == (LongestGap + 2) * Interval

Init ==
    /\ log \in Logs /\ offset \in 0..(Interval - 1)
    /\ now = 0 /\ seen = [r \in RowsOf(log, offset) |-> 0] /\ errors = 0
    /\ d = [pc |-> "history", start |-> 0, pad |-> BoundaryPadding, prog |-> {}, part |-> {},
            snap |-> {}, torn |-> {}, result |-> "none"]
End == d.start + WindowSize

------------------------------------------------------------------------------
(* The surroundings: time, and rows on their way to InfluxDB.              *)
Tick ==
    /\ now < MaxTime /\ (d.pc = "history" => now < HistoryBy)
    /\ now' = now + 1
    /\ UNCHANGED <<log, offset, seen, d, errors>>
Deliver(r) ==
    /\ r \in Emitted /\ seen[r] < 2
    /\ InOrder => \A s \in Rows : s.t < r.t => seen[s] = 2
    /\ \E v \in (seen[r] + 1)..2 : seen' = [seen EXCEPT ![r] = v]
    /\ UNCHANGED <<log, offset, now, d, errors>>

(***************************************************************************)
(* _progress_frames and audit_ingestion.  A repeated cycle at another time *)
(* and a cycle that falls with time are taken for a restart of the source. *)
(***************************************************************************)
Repeated_Cycle(S) == \E r, s \in S : r.cyc = s.cyc /\ r.t # s.t
Repeated(S) == \E r, s \in S : r.cyc = s.cyc /\ r.dst = s.dst /\ r.t # s.t
Reversed(S) == \E r, s \in S : r.t < s.t /\ s.cyc < r.cyc
In(S) == {r \in S : d.start <= r.t /\ r.t < End}
BeforeStart(S) == {r.cyc : r \in {x \in S : x.t < d.start}}
AfterEnd(S) == {r.cyc : r \in {x \in S : x.t >= End}}
HasBoundaries(S) == BeforeStart(S) # {} /\ AfterEnd(S) # {}
FrameOf(S, c) == {r \in S : r.cyc = c}
Between(S) == Max(BeforeStart(S))..Min(AfterEnd(S))
ExpectedRows(S) == IF HasBoundaries(S) THEN In(UNION {FrameOf(S, c) : c \in Between(S)}) ELSE {}
MissingTargets_Empty(S) == \E c \in Between(S) : FrameOf(S, c) = {} /\ Expected(c) # {}
MissingTargets(S) == \E c \in Between(S) : {r.dst : r \in FrameOf(S, c)} # Expected(c)
Invalid == Repeated(d.prog) \/ Reversed(d.prog) \/ Repeated(d.snap)
Incomplete ==
    \/ In(d.part) # {} \/ d.torn # {}
    \/ ~HasBoundaries(d.prog)
    \/ HasBoundaries(d.prog) /\ MissingTargets(d.prog)
    \/ d.snap # ExpectedRows(d.prog)
Audit == IF Invalid THEN "invalid" ELSE IF Incomplete THEN "pending" ELSE "ready"

(***************************************************************************)
(* wait_for_history: the window begins once a complete frame is visible.   *)
(***************************************************************************)
Full(S) == {r \in S : seen[r] = 2}
Torn(S) == {r \in S : seen[r] = 1}
HistoryReady(S) == \E r \in S : {x.dst : x \in FrameOf(S, r.cyc)} = Expected(r.cyc)
Widened_Doubles(p) == p * 2
Widened(p) == Min({p * 2, Max({p, now + 1})})
WaitForHistory ==
    LET S == Full(Visible(Max({0, now - d.pad}), now))
    IN /\ d.pc = "history"
       /\ IF Repeated(S) THEN d' = [d EXCEPT !.pc = "done", !.result = "invalid"]
          ELSE IF HistoryReady(S) THEN d' = [d EXCEPT !.pc = "window", !.start = now, !.pad = BoundaryPadding]
          ELSE d' = [d EXCEPT !.pad = Widened(@)]
    /\ UNCHANGED <<log, offset, now, seen, errors>>
EndWindow ==
    /\ d.pc = "window" /\ now >= End
    /\ d' = [d EXCEPT !.pc = "progress"]
    /\ UNCHANGED <<log, offset, now, seen, errors>>

(***************************************************************************)
(* _query_covered_snapshot: progress first, then the snapshot; whatever    *)
(* arrives between the two queries shows up as a mismatch.                 *)
(***************************************************************************)
ContextEnd_NoPadding == Min({now, End})
ContextEnd == Min({now, End + d.pad})
QueryProgress ==
    LET S == Visible(Max({0, d.start - d.pad}), ContextEnd)
    IN /\ d.pc = "progress"
       /\ d' = [d EXCEPT !.pc = "snapshot", !.prog = Full(S), !.part = Torn(S)]
       /\ UNCHANGED <<log, offset, now, seen, errors>>
QuerySnapshot ==
    LET S == Visible(d.start, End)
    IN /\ d.pc = "snapshot"
       /\ d' = [d EXCEPT !.pc = "audit", !.snap = Full(S), !.torn = Torn(S)]
       /\ UNCHANGED <<log, offset, now, seen, errors>>
Decide ==
    /\ d.pc = "audit"
    /\ d' = IF Audit = "pending"
            THEN [d EXCEPT !.pc = "progress", !.pad = IF HasBoundaries(d.prog) THEN @ ELSE Widened(@)]
            ELSE [d EXCEPT !.pc = "done", !.result = Audit]
    /\ UNCHANGED <<log, offset, now, seen, errors>>
(* A shard that fails, a deadline that expires, or a cancellation.         *)
GiveUp ==
    /\ d.pc \in {"history", "progress", "snapshot"} /\ errors < MaxErrors
    /\ d' = [d EXCEPT !.pc = "done", !.result = "not_ready"]
    /\ errors' = errors + 1
    /\ UNCHANGED <<log, offset, now, seen>>
Done == d.pc = "done" /\ UNCHANGED vars

Detector == WaitForHistory \/ EndWindow \/ QueryProgress \/ QuerySnapshot \/ Decide
Next == Tick \/ (\E r \in Rows : Deliver(r)) \/ Detector \/ GiveUp \/ Done
Spec == Init /\ [][Next]_vars
(* Time goes on, rows arrive, and the detector goes on retrying.           *)
FairSpec == Spec /\ WF_vars(Tick) /\ WF_vars(\E r \in Rows : Deliver(r)) /\ WF_vars(Detector)

(***************************************************************************)
(* summarize_coverage of the snapshot against the frames of the plan.      *)
(***************************************************************************)
Covered_OffByOne == UNION {{<<x, k>> : x \in Frames[k]} : k \in 1..Epoch}
                    \subseteq {<<r.dst, r.cyc % Epoch>> : r \in d.snap}
Covered == UNION {{<<x, k>> : x \in Frames[k]} : k \in 1..Epoch}
           \subseteq {<<r.dst, (r.cyc % Epoch) + 1>> : r \in d.snap}
Restarted == \E k \in 2..Len(log) : log[k] # log[k - 1] + 1

------------------------------------------------------------------------------
(* Detector and rows have their types.                                     *)
TypeOK ==
    /\ now \in 0..MaxTime /\ Rows = RowsOf(log, offset) /\ \A r \in Rows : seen[r] \in 0..2
    /\ d.pc \in {"history", "window", "progress", "snapshot", "audit", "done"}
    /\ d.result \in {"none", "ready", "invalid", "not_ready"} /\ d.prog \subseteq Rows
    /\ d.pad <= 2 * MaxTime + BoundaryPadding

(* "Prove all nonempty frames between two observed boundaries are          *)
(* present": a window reported ready has every row the client sent in it,  *)
(* whatever order the rows arrived in.                                     *)
ReadyIsComplete == d.result = "ready" => d.snap = In(Rows)

(* A client that never restarted is never taken for one that did, in       *)
(* whatever order, or part by part, its rows arrive (audit_ingestion).     *)
NoFalseAlarm == d.result = "invalid" => Restarted

(* A window of complete_window_seconds that is ready covers every          *)
(* combination of the plan (compile_pingmesh_plan, summarize_coverage).    *)
ReadyCovers == d.result = "ready" => Covered

Closed == d.result \in {"ready", "invalid", "not_ready"}

(* When rows arrive and nobody gives up, a window after a complete history *)
(* is closed: the padding grows until both boundaries are in sight.        *)
WindowCloses == ~Closed ~> Closed
=============================================================================
