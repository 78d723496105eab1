---------------------------- MODULE BgpCollector ----------------------------
(***************************************************************************)
(* The BGP collector sidecar (observability/bgp_collector.py): rounds of   *)
(* paced device polls by a thread pool, the transition tracker, and the    *)
(* segmented spool on disk that Telegraf tails into InfluxDB.  A batch is  *)
(* what one poll of one device writes; line formatting is left out, its    *)
(* size in units is kept.  Each device has one neighbour, whose session is *)
(* established with many or with fewer prefixes ("up", "fewer"), is "down" *)
(* or is missing from the summary ("gone").                                *)
(***************************************************************************)
EXTENDS Naturals, Sequences, Functions, FiniteSets

CONSTANTS Devices,      \* the routing devices, in launch order
          MaxBytes,     \* max_bytes: size of the whole spool
          SegmentBytes, \* segment_bytes: size at which a segment is sealed
          EventBytes,   \* size of a batch with an event; without one it is 1
          MarkerBytes,  \* size of a segment marker
          Sessions,     \* the session states the routers go through
          MaxCrashes    \* bound on the deaths of the collector process

VARIABLES sess,    \* the session of each device, as the router knows it
          prev,    \* BgpTransitionTracker._previous
          round,   \* the iteration of run_loop, with the device whose lines it writes
          batch,   \* results of the pool's futures not yet written
          active,  \* lines of the active segment: batches and markers
          sealed,  \* sealed segments: lines, and how many of them Telegraf delivered
          tail,    \* lines of the active segment that Telegraf delivered
          marked,  \* segment ids whose marker is in InfluxDB
          last,    \* per device: the last good poll in the spool
          crashes
spool == <<active, sealed, tail, marked>>
vars == <<sess, prev, round, batch, active, sealed, tail, marked, last, crashes>>

Dev == Range(Devices)
States == {"up", "fewer", "down", "gone"}
NoBatch == [seen |-> "none", events |-> {}]

Init ==
    /\ sess \in [Dev -> {"up", "down"}]
    /\ prev = [d \in Dev |-> "none"]
    /\ round = [pc |-> "wait", next |-> 1, running |-> {}, stop |-> FALSE, writing |-> "none"]
    /\ batch = [d \in Dev |-> NoBatch]
    /\ active = <<>> /\ sealed = {} /\ tail = 0 /\ marked = {}
    /\ last = [d \in Dev |-> "none"]
    /\ crashes = 0

(***************************************************************************)
(* normalize_bgp_state and the events of one poll: a change of the         *)
(* normalised state, or of the prefix count of an established session.     *)
(***************************************************************************)
Normalized(s) == IF s \in {"up", "fewer"} THEN "ESTABLISHED" ELSE s
EventType(a, b) ==
    IF Normalized(a) = "ESTABLISHED" THEN "session_down"
    ELSE IF Normalized(b) = "ESTABLISHED" THEN "session_recovered" ELSE "session_state_changed"
Transitions(a, b) ==
    IF a = "none" \/ a = b THEN {}
    ELSE IF Normalized(a) = Normalized(b) THEN {"prefix_count"} ELSE {EventType(a, b)}

(***************************************************************************)
(* BgpTransitionTracker.process.  A failed collection leaves the tracker   *)
(* alone; a neighbour that was never seen is not tracked as missing.       *)
(***************************************************************************)
Tracked_EveryPoll(p, s) == IF s = "failed" THEN "none" ELSE s
Tracked(p, s) == IF s = "failed" \/ (s = "gone" /\ p = "none") THEN p ELSE s
Processed(p, s) == [seen |-> s, events |-> IF s = "failed" THEN {} ELSE Transitions(p, Tracked(p, s))]

(* What the spool shows of a session after a batch: a neighbour that is    *)
(* missing shows only if it was known before.                              *)
Shown(l, s) == IF s = "failed" \/ (s = "gone" /\ l \in {"none", "lost"}) THEN l ELSE s

(***************************************************************************)
(* The spool: sizes, and the identity of the segment that is sealed next.  *)
(* The identity is the largest timestamp in the file, so it is new unless  *)
(* the file ends with a marker written before a crash.                     *)
(***************************************************************************)
BatchSize(b) == IF b.events = {} THEN 1 ELSE EventBytes
Units(file, lines) == UNION {{file} \X {k} \X (1 .. lines[k].size) : k \in DOMAIN lines}
SizeOf(lines) == Cardinality(Units(0, lines))
Stored == Units(0, active) \cup UNION {Units(g.id, g.lines) : g \in sealed}
SpoolSize == Cardinality(Stored)
Line(d) == [kind |-> "batch", size |-> BatchSize(batch[d])]
Marker(i) == [kind |-> "marker", size |-> MarkerBytes, id |-> i]
IdsIn(lines) == {lines[k].id : k \in {x \in DOMAIN lines : lines[x].kind = "marker"}}
InUse == {g.id : g \in sealed} \cup IdsIn(active) \cup UNION {IdsIn(g.lines) : g \in sealed}
SegmentId ==
    IF active[Len(active)].kind = "marker" THEN active[Len(active)].id
    ELSE LET used == InUse \cup marked
         IN  CHOOSE i \in 1 .. (Cardinality(used) + 1) : i \notin used

(***************************************************************************)
(* run_loop and _collect_bgp_lines_paced: one future per device, submitted *)
(* in turn; the signal handler ends the submissions.                       *)
(***************************************************************************)
BeginRound ==
    /\ round.pc = "wait" /\ ~round.stop
    /\ round' = [round EXCEPT !.pc = "round", !.next = 1]
    /\ UNCHANGED <<sess, prev, batch, spool, last, crashes>>
SubmitDevice ==
    /\ round.pc = "round" /\ round.next <= Len(Devices)
    /\ round' = [round EXCEPT !.next = @ + 1, !.running = @ \cup {Devices[round.next]}]
    /\ UNCHANGED <<sess, prev, batch, spool, last, crashes>>
BreakOnStop ==
    /\ round.pc = "round" /\ round.next <= Len(Devices) /\ round.stop
    /\ round' = [round EXCEPT !.next = Len(Devices) + 1]
    /\ UNCHANGED <<sess, prev, batch, spool, last, crashes>>
(* _collect_device_bgp in a pool thread: docker exec answers, fails or     *)
(* runs into its timeout.                                                  *)
CollectDevice(d) ==
    /\ d \in round.running
    /\ \E s \in {sess[d], "failed"} :
          /\ batch' = [batch EXCEPT ![d] = Processed(prev[d], s)]
          /\ prev' = [prev EXCEPT ![d] = Tracked(prev[d], s)]
    /\ round' = [round EXCEPT !.running = @ \ {d}]
    /\ UNCHANGED <<sess, spool, last, crashes>>

(***************************************************************************)
(* _write_segmented_lines, called by the main thread for a done future.    *)
(* BufferError leaves the pool's context and with it the round.            *)
(***************************************************************************)
Full_ActiveOnly(n) == SizeOf(active) + n > MaxBytes
Full(n) == SpoolSize + n > MaxBytes
RefuseBatch(d) ==
    /\ round.pc = "round" /\ batch[d] # NoBatch
    /\ Full(BatchSize(batch[d]))
    /\ round' = [round EXCEPT !.pc = "failed"]
    /\ UNCHANGED <<sess, prev, batch, spool, last, crashes>>
NeedsRotation(d) == active # <<>> /\ SizeOf(active) + BatchSize(batch[d]) > SegmentBytes
(* _rotate_active_segment, up to the fsync of the marker ...               *)
WriteMarker(d) ==
    /\ round.pc = "round" /\ batch[d] # NoBatch
    /\ ~Full(BatchSize(batch[d])) /\ NeedsRotation(d)
    /\ IF Full(MarkerBytes)
       THEN round' = [round EXCEPT !.pc = "failed"] /\ UNCHANGED active
       ELSE round' = [round EXCEPT !.pc = "seal", !.writing = d] /\ active' = Append(active, Marker(SegmentId))
    /\ UNCHANGED <<sess, prev, batch, sealed, tail, marked, last, crashes>>
(* ... and the os.replace, after which a new active segment is touched.    *)
SealSegment ==
    /\ round.pc = "seal"
    /\ sealed' = sealed \cup {[id |-> active[Len(active)].id, lines |-> active, sent |-> tail]}
    /\ active' = <<>> /\ tail' = 0
    /\ round' = [round EXCEPT !.pc = "append"]
    /\ UNCHANGED <<sess, prev, batch, marked, last, crashes>>
(* The append that ends the call.                                          *)
AppendBatch(d) ==
    /\ batch[d] # NoBatch
    /\ \/ round.pc = "round" /\ ~Full(BatchSize(batch[d])) /\ ~NeedsRotation(d)
       \/ round.pc = "append" /\ round.writing = d
    /\ active' = Append(active, Line(d))
    /\ batch' = [batch EXCEPT ![d] = NoBatch]
    /\ last' = [last EXCEPT ![d] = Shown(@, batch[d].seen)]
    /\ round' = [round EXCEPT !.pc = "round", !.writing = "none"]
    /\ UNCHANGED <<sess, prev, sealed, tail, marked, crashes>>
(* The except of run_loop, once the pool's threads are done: results that  *)
(* were not written are dropped.                                           *)
AbortRound ==
    /\ round.pc = "failed" /\ round.running = {}
    /\ round' = [round EXCEPT !.pc = "wait"]
    /\ batch' = [d \in Dev |-> NoBatch]
    /\ last' = [d \in Dev |-> IF batch[d] # NoBatch /\ batch[d].seen # "failed" THEN "lost" ELSE last[d]]
    /\ UNCHANGED <<sess, prev, spool, crashes>>
RoundDone == round.next > Len(Devices) /\ round.running = {} /\ \A d \in Dev : batch[d] = NoBatch
CollectDone ==
    /\ round.pc = "round" /\ RoundDone
    /\ round' = [round EXCEPT !.pc = IF sealed = {} THEN "wait" ELSE "clean"]
    /\ UNCHANGED <<sess, prev, batch, spool, last, crashes>>

(***************************************************************************)
(* _query_ingested_segments and _delete_ingested_segments: a query that    *)
(* fails deletes nothing.  The identity of a deleted segment never comes   *)
(* back, so its marker is dropped from the model.                          *)
(***************************************************************************)
Deletable_AnyLine(g) == g.sent > 0
Deletable(g) == g.id \in marked
DeleteIngested ==
    /\ round.pc = "clean"
    /\ sealed' = {g \in sealed : ~Deletable(g)}
    /\ marked' = {i \in marked : ~\E g \in sealed : g.id = i}
    /\ round' = [round EXCEPT !.pc = "wait"]
    /\ UNCHANGED <<sess, prev, batch, active, tail, last, crashes>>
QueryFails ==
    /\ round.pc = "clean"
    /\ round' = [round EXCEPT !.pc = "wait"]
    /\ UNCHANGED <<sess, prev, batch, spool, last, crashes>>

(***************************************************************************)
(* SIGTERM lets the iteration finish and ends the loop; the death of the   *)
(* process ends it anywhere.  A new process starts with a new tracker.     *)
(***************************************************************************)
Stop ==
    /\ ~round.stop /\ round.pc # "dead" /\ crashes < MaxCrashes
    /\ round' = [round EXCEPT !.stop = TRUE] /\ crashes' = crashes + 1
    /\ UNCHANGED <<sess, prev, batch, spool, last>>
Crash ==
    /\ round.pc # "dead" /\ crashes < MaxCrashes
    /\ round' = [round EXCEPT !.pc = "dead", !.running = {}, !.writing = "none"] /\ crashes' = crashes + 1
    /\ UNCHANGED <<sess, prev, batch, spool, last>>
Start ==
    /\ round.pc = "dead" \/ (round.pc = "wait" /\ round.stop)
    /\ round' = [pc |-> "wait", next |-> 1, running |-> {}, stop |-> FALSE, writing |-> "none"]
    /\ prev' = [d \in Dev |-> "none"]
    /\ batch' = [d \in Dev |-> NoBatch]
    /\ last' = [d \in Dev |-> "none"]
    /\ UNCHANGED <<sess, spool, crashes>>

(***************************************************************************)
(* The surroundings: the router's session changes; Telegraf delivers the   *)
(* lines of each file in order.  Lines it reads again after a rename are   *)
(* the same points and change nothing.                                     *)
(***************************************************************************)
SessionChanges(d) ==
    /\ \E s \in Sessions \ {sess[d]} : sess' = [sess EXCEPT ![d] = s]
    /\ UNCHANGED <<prev, round, batch, spool, last, crashes>>
Arrived(l) == marked' = IF l.kind = "marker" THEN marked \cup {l.id} ELSE marked
IngestActive ==
    /\ tail < Len(active)
    /\ tail' = tail + 1 /\ Arrived(active[tail + 1])
    /\ UNCHANGED <<sess, prev, round, batch, active, sealed, last, crashes>>
IngestSealed ==
    /\ \E g \in sealed :
          /\ g.sent < Len(g.lines)
          /\ sealed' = (sealed \ {g}) \cup {[g EXCEPT !.sent = @ + 1]}
          /\ Arrived(g.lines[g.sent + 1])
    /\ UNCHANGED <<sess, prev, round, batch, active, tail, last, crashes>>

Write == \E d \in Dev : RefuseBatch(d) \/ WriteMarker(d) \/ AppendBatch(d)
Collector == BeginRound \/ SubmitDevice \/ BreakOnStop \/ Write \/ SealSegment \/ AbortRound \/ CollectDone
Next ==
    \/ Collector \/ DeleteIngested \/ QueryFails \/ Stop \/ Crash \/ Start
    \/ \E d \in Dev : CollectDevice(d) \/ SessionChanges(d)
    \/ IngestActive \/ IngestSealed
Spec == Init /\ [][Next]_vars

(* docker exec has a timeout and the pool's threads run; the loop goes on; *)
(* Telegraf is alive; InfluxDB answers again and again.                    *)
FairSpec ==
    /\ Spec /\ WF_vars(Collector) /\ \A d \in Dev : WF_vars(CollectDevice(d))
    /\ WF_vars(DeleteIngested \/ QueryFails) /\ SF_vars(DeleteIngested)
    /\ WF_vars(Start) /\ WF_vars(IngestActive) /\ WF_vars(IngestSealed)

------------------------------------------------------------------------------
(* The collector's state has its type; a marker names one segment only.    *)
TypeOK ==
    /\ sess \in [Dev -> States] /\ prev \in [Dev -> States \cup {"none"}]
    /\ round.pc \in {"wait", "round", "seal", "append", "failed", "clean", "dead"}
    /\ round.next \in 1..(Len(Devices) + 1) /\ round.running \subseteq Dev
    /\ last \in [Dev -> States \cup {"none", "lost"}]
    /\ tail \in 0..Len(active) /\ marked \subseteq Nat \ {0}
    /\ \A g, h \in sealed : g.id = h.id => g = h

(* "Maximum total BGP spool size before failing closed" (--max-bytes).     *)
SpoolBounded == SpoolSize <= MaxBytes

(* The spool outgrows max_bytes by one marker at most, whatever is sealed, *)
(* crashes or is retried: _write_segmented_lines checks for the batch and  *)
(* _rotate_active_segment for the marker, neither for both.                *)
SpoolNearlyBounded == SpoolSize <= MaxBytes + MarkerBytes

Delivered(g) == \A k \in (g.sent + 1)..Len(g.lines) : g.lines[k].kind = "marker"
DeletedWasDeliveredStep == \A g \in sealed : (\A h \in sealed' : h.id # g.id) => Delivered(g)

(* _delete_ingested_segments removes a sealed segment only when each batch *)
(* in it is in InfluxDB, also when a crash left a marker in its middle.    *)
DeletedWasDelivered == [][DeletedWasDeliveredStep]_vars

TransitionsCompleteStep ==
    \A d \in Dev :
      /\ Len(active') > Len(active) /\ batch[d] # NoBatch /\ batch'[d] = NoBatch
      /\ batch[d].seen # "failed" /\ last[d] # "lost"
      => batch[d].events = Transitions(last[d], Tracked(last[d], batch[d].seen))

(* As long as the process runs and no poll of the device was dropped, each *)
(* change between two successive good polls in the spool comes with        *)
(* exactly its event, and a new process invents none.                      *)
TransitionsComplete == [][TransitionsCompleteStep]_vars

BetweenRounds == round.pc = "wait"

(* A round comes to its end, BufferError or not, and the next one begins.  *)
RoundEnds == ~BetweenRounds ~> BetweenRounds

(* "refusing to overwrite unconsumed telemetry": a full spool that holds a *)
(* segment which InfluxDB has confirmed gets room again.                   *)
FullSpoolDrains == [](Full(1) /\ (\E g \in sealed : g.id \in marked) => <>~Full(1))
=============================================================================
