------------------------------ MODULE BgpEvents ------------------------------
(***************************************************************************)
(* query_bgp_events (toolkit/_core/observability/bgp_ops.py) over what the *)
(* BGP collector wrote about one session of one device.  Time is counted   *)
(* in polls.  At each poll the session is "up", "down" or "gone" (missing  *)
(* from the summary), the collection "failed", or no collector ran         *)
(* ("dead"; the next process starts with an empty tracker).                *)
(***************************************************************************)
EXTENDS Naturals, Integers, Sequences, SequencesExt, FiniteSets, FiniteSetsExt

CONSTANTS Histories,  \* sequences of polls
          FullPolls,  \* the sets of polls that write a full snapshot
          Scopes,     \* "absolute" and "relative" scopes
          Tolerance   \* the freshness tolerance, in polls

VARIABLES q,    \* the query and the history it runs on
          ans   \* the answer, or Pending
vars == <<q, ans>>

Pending == [path |-> "none"]
Queries == {[h |-> h, full |-> f, from |-> w, mode |-> m, state |-> s] :
               h \in Histories, f \in FullPolls, w \in 1..3, m \in Scopes,
               s \in {"non_established", "all", "established"}}
Init == q \in Queries /\ ans = Pending

------------------------------------------------------------------------------
(* What the collector wrote: bgp_neighbors rows (established ones only in  *)
(* full snapshots), transition events by the tracker of the process that   *)
(* polled, one heartbeat and one bgp_collection row per poll.              *)
Times == DOMAIN q.h
Window == {t \in Times : t >= q.from}
Good(t) == q.h[t] \in {"up", "down", "gone"}
RowsIn(S) == {t \in S : q.h[t] = "down" \/ (q.h[t] = "up" /\ t \in q.full)}
Polled(S) == {t \in S : q.h[t] # "dead"}
Known(t) == {u \in 1..(t - 1) : Good(u) /\ \A v \in u..t : q.h[v] # "dead"}
Previous(t) == IF \A u \in Known(t) : q.h[u] = "gone" THEN "none" ELSE q.h[Max(Known(t))]
EventsIn_OnlyRows(S) == {t \in S : q.h[t] \in {"up", "down"} /\ Previous(t) \notin {"none", q.h[t]}}
EventsIn(S) == {t \in S : Good(t) /\ Previous(t) \notin {"none", q.h[t]}}

(***************************************************************************)
(* _bgp_event_index_covers_scope looks at the first and the last heartbeat *)
(* and at their number.                                                    *)
(***************************************************************************)
Covers ==
    /\ Polled(Window) # {}
    /\ Min(Polled(Window)) <= q.from + Tolerance
    /\ Max(Polled(Window)) >= Len(q.h) - Tolerance

(***************************************************************************)
(* The classification both paths share, from pairs of states in the order  *)
(* of time and the states seen in the window.                              *)
(***************************************************************************)
Up(s) == s = "up"
EventType_StateOnly(pairs, states) ==
    LET down == \E s \in states : ~Up(s)
        back == \E p \in pairs : ~Up(p[1]) /\ Up(p[2])
    IN CASE down /\ back -> "session_flap"
         [] down /\ ~back -> "session_down"
         [] ~down /\ back -> "session_recovered"
         [] OTHER -> IF q.state = "all" THEN "established_observed" ELSE "none"
EventType(pairs, states) ==
    LET down == \E p \in pairs : Up(p[1]) /\ ~Up(p[2])
        back == \E p \in pairs : ~Up(p[1]) /\ Up(p[2])
    IN CASE down /\ back -> "session_flap"
         [] down /\ ~back -> "session_down"
         [] ~down /\ back -> "session_recovered"
         [] ~down /\ ~back /\ (\E s \in states : ~Up(s)) -> "non_established_observed"
         [] OTHER -> IF q.state = "all" THEN "established_observed" ELSE "none"
Reported(type, states, latest) ==
    /\ type # "none"
    /\ q.state = "non_established" => \E s \in states : ~Up(s)
    /\ q.state = "established" => Up(latest)
SessionEvent(prior, first, latest, pairs, order) ==
    LET ps == pairs \cup (IF prior = "none" THEN {} ELSE {<<prior, first>>})
        states == ToSet(order)
        type == EventType(ps, states)
    IN IF Reported(type, states, latest)
       THEN {[type |-> type, previous |-> prior, latest |-> latest, states |-> order]} ELSE {}
(* dict.fromkeys: first occurrences, in order.                             *)
Unique(s) == FoldLeft(LAMBDA acc, x : IF x \in ToSet(acc) THEN acc ELSE Append(acc, x), <<>>, s)
InOrder(S) == SelectSeq([t \in Times |-> t], LAMBDA t : t \in S)
(* prior rows are queried for absolute scopes only.                        *)
Prior == LET P == RowsIn(Times \ Window)
         IN IF q.mode = "relative" \/ P = {} THEN "none" ELSE q.h[Max(P)]

(***************************************************************************)
(* _build_bgp_events: from the rows of the window.                         *)
(***************************************************************************)
SnapshotSession_WindowOnly ==
    LET R == InOrder(RowsIn(Window))
        st == [k \in DOMAIN R |-> q.h[R[k]]]
    IN IF R = <<>> THEN {}
       ELSE SessionEvent("none", Head(st), Last(st),
                         {<<st[k], st[k + 1]>> : k \in 1..(Len(st) - 1)}, Unique(st))
SnapshotSession ==
    LET R == InOrder(RowsIn(Window))
        st == [k \in DOMAIN R |-> q.h[R[k]]]
    IN IF R = <<>> THEN {}
       ELSE SessionEvent(Prior, Head(st), Last(st),
                         {<<st[k], st[k + 1]>> : k \in 1..(Len(st) - 1)}, Unique(st))

(***************************************************************************)
(* _query_bgp_event_fast_rows and _build_bgp_events_fast: from the events, *)
(* the first and the last row of the window and the last row before it.    *)
(***************************************************************************)
Candidate == q.state = "all" \/ EventsIn(Window) # {} \/ \E t \in RowsIn(Window) : q.h[t] = "down"
FirstState(E, R) == IF R # {} THEN q.h[Min(R)] ELSE q.h[Min(E)]
Latest(E, R) == IF E # {} /\ (R = {} \/ Max(E) >= Max(R)) THEN q.h[Max(E)] ELSE q.h[Max(R)]
FastSession ==
    LET E == EventsIn(Window)
        R == RowsIn(Window)
        line == InOrder(E \cup (IF R = {} THEN {} ELSE {Min(R), Max(R)}))
    IN IF ~Candidate \/ E \cup R = {} THEN {}
       ELSE SessionEvent(Prior, FirstState(E, R), Latest(E, R),
                         {<<Previous(t), q.h[t]>> : t \in E},
                         Unique([k \in DOMAIN line |-> q.h[line[k]]]))

(***************************************************************************)
(* The collection_gap events of both paths: the last collection failed, or *)
(* there was none.                                                         *)
(***************************************************************************)
Gap_OnlyFailed ==
    IF Polled(Window) # {} /\ q.h[Max(Polled(Window))] = "failed" THEN {"collection_gap"} ELSE {}
Gap ==
    IF Polled(Window) = {} THEN {"no_collection_samples"}
    ELSE IF q.h[Max(Polled(Window))] = "failed" THEN {"collection_gap"} ELSE {}
(* The status of a prefix_count query, which has no other path.            *)
PrefixStatus == IF Covers /\ \A t \in Polled(Window) : q.h[t] # "failed" THEN "ok" ELSE "incomplete"
Answer(p) == [path |-> p, prefix |-> PrefixStatus, events |-> IF p = "fast" THEN FastSession ELSE SnapshotSession, gaps |-> Gap]
Query ==
    /\ ans = Pending
    /\ ans' = Answer(IF Covers THEN "fast" ELSE "snapshot")
    /\ UNCHANGED q
Done == ans # Pending /\ UNCHANGED vars
Next == Query \/ Done
Spec == Init /\ [][Next]_vars

------------------------------------------------------------------------------
(* What happened: successive good polls that differ, the later one in the  *)
(* window.  A missing neighbour counts as a state.                         *)
Before(t) == {u \in 1..(t - 1) : Good(u)}
Changes == {t \in Window : Good(t) /\ Before(t) # {} /\ q.h[t] # q.h[Max(Before(t))]}
Downs == {t \in Changes : Up(q.h[Max(Before(t))])}
Backs == {t \in Changes : Up(q.h[t]) /\ \E u \in Before(t) : q.h[u] # "gone"}
Answered == ans # Pending
Continuous == \A t \in Times : q.h[t] # "dead"
FullSnapshots == q.full = Times
Types == {e.type : e \in ans.events}

(* A session that was lost in the window is reported as lost by the fast   *)
(* path of query_bgp_events, with sparse snapshots too.                    *)
DownIsReported ==
    Answered /\ Continuous /\ Downs # {} /\ ans.path = "fast" /\ q.state # "established"
    => Types # {} /\ Types \subseteq {"session_down", "session_flap"}

(* With full snapshots of a neighbour that is never missing and an         *)
(* absolute scope, the two paths give the same answer.                     *)
PathsAgree ==
    Answered /\ Continuous /\ FullSnapshots /\ q.mode = "absolute" /\ (\A t \in Times : q.h[t] # "gone")
    => SnapshotSession = FastSession

(* The device is silent at the end of the window only if the answer says   *)
(* so: an answer without a gap rests on a good last collection, and the    *)
(* fast path is taken on fresh heartbeats only.                            *)
SilenceIsNotHealth ==
    Answered /\ ans.gaps = {} =>
        /\ \E t \in Window : Good(t) /\ \A u \in Window : u > t => q.h[u] = "dead"
        /\ ans.path = "fast" \/ ans.prefix = "ok" => \E t \in Window : Good(t) /\ t >= Len(q.h) - Tolerance

(* "Find BGP session transitions": a transition that the fast path reports *)
(* happened in the window (no missing neighbour: it would leave no row).   *)
NoInventedTransition ==
    Answered /\ Continuous /\ ans.path = "fast" /\ (\A t \in Times : q.h[t] # "gone")
    => /\ Types \cap {"session_down", "session_flap"} # {} => Downs # {}
       /\ Types \cap {"session_recovered", "session_flap"} # {} => Backs # {}
(* The same where each poll writes a full snapshot.                        *)
NoInventedTransitionFull == FullSnapshots => NoInventedTransition

(* "Emit a heartbeat proving that transition indexing covered one poll":   *)
(* a window whose heartbeats cover it has every transition in its index.   *)
HeartbeatsProve == Answered /\ Covers => Changes \subseteq EventsIn(Window)
=============================================================================
