---------------------------- MODULE PingmeshPlan ----------------------------
(***************************************************************************)
(* The probe plan of a fabric (platform/pingmesh/planner.py).              *)
(*                                                                         *)
(* Which clients probe which, in what frames of destinations and source    *)
(* ports, and how many of the probed pairs could witness a fault of each   *)
(* link.  The candidate coverage is computed from the number of pairs      *)
(* between two racks and from shortest-path predecessors, never from the   *)
(* pairs and the paths themselves; the properties compute it from those.   *)
(***************************************************************************)
EXTENDS FabricPlan, FiniteSetsExt

CONSTANTS
    MinWitnesses,   \* 1, and 2 in the largest scales
    PortPool        \* 434: source ports below the responder's port

VARIABLE plan

vars == <<fabricVars, plan>>

ClientsOf(r) == [p \in 0 .. config.clients - 1 |-> ClientIndex(r, p + 1, config.clients)]
RackOf(i) == ((i - 1) \div config.clients) + 1
AllClients == 1 .. Clients(config)
AllRacks == 1 .. Racks(config)

\* cross_rack_pairs, or as many as the larger of the two racks has clients
PairCount == IF config.pairs # 0 THEN config.pairs ELSE config.clients

\* The pairs between racks left < right, whose indices in the list are one less.
Matching_NoWrap(left, right) ==
    {<<ClientsOf(left)[0], ClientsOf(right)[(left + right - 2 + r) % config.clients]>> : r \in 0 .. PairCount - 1}

Matching(left, right) ==
    {<<ClientsOf(left)[(left + right - 2 + r) % config.clients],
       ClientsOf(right)[(left + right - 2 + r) % config.clients]>> : r \in 0 .. PairCount - 1}

Cross == UNION {Matching(x[1], x[2]) : x \in {y \in AllRacks \X AllRacks : y[1] < y[2]}}

\* Directed pairs: all within a rack, the matching both ways between racks.
Pairs ==
    {p \in AllClients \X AllClients : p[1] # p[2] /\ RackOf(p[1]) = RackOf(p[2])}
    \cup Cross \cup {<<p[2], p[1]>> : p \in Cross}

\* peers: the targets of each client
PeersOf(pairs) == [i \in AllClients |-> {p[2] : p \in {q \in pairs : q[1] = i}}]
MostPeers(peers) == Max({Cardinality(peers[i]) : i \in AllClients})

BatchSize(peers) == IF config.batch # 0 THEN config.batch ELSE MostPeers(peers)
DestinationBatches(peers) == (MostPeers(peers) + BatchSize(peers) - 1) \div BatchSize(peers)
PortBatches == (config.ports + config.perCycle - 1) \div config.perCycle
Ports(b) == {p \in 0 .. config.ports - 1 : p \div config.perCycle = b}

\* The targets of a client in the order of the manifest, numbered from 0.
TargetsIn_Inclusive(targets, d, size) ==
    {t \in targets : Position(t, targets) - 1 \in d * size .. (d + 1) * size}

TargetsIn(targets, d, size) ==
    {t \in targets : Position(t, targets) - 1 \in d * size .. (d + 1) * size - 1}

\* The frame of one cycle: regular probes over every socket of the port batch,
\* and one DF probe per target on the socket its place in the frame selects.
Frame(peers, i, n) ==
    LET b == n \div DestinationBatches(peers)
        d == n % DestinationBatches(peers)
        active == TargetsIn(peers[i], d, BatchSize(peers))
    IN  [port |-> b, destination |-> d,
         rtt |-> active \X Ports(b),
         df |-> {<<t, (b * config.perCycle) + ((Position(t, active) - 1) % Cardinality(Ports(b)))>> : t \in active}]

(***************************************************************************)
(* _candidate_coverage                                                     *)
(***************************************************************************)
Rack(r) == Pair(RackRole(config), r)
Graph ==
    LET wires == {<<SwitchOf(x[1]), SwitchOf(x[2])>> : x \in Directed}
    IN  [d \in DOMAIN fabric.switch |-> {e[2] : e \in {f \in wires : f[1] = d}}]
Depth == 5     \* bound: more hops than a shortest path of either family has

\* The switches at each distance from a rack switch.
Layers(graph, s) ==
    LET upTo[n \in 0 .. Depth] ==
            IF n = 0 THEN {s} ELSE LET near == upTo[n - 1] IN near \cup UNION {graph[d] : d \in near}
    IN  [n \in 0 .. Depth |-> IF n = 0 THEN {s} ELSE upTo[n] \ upTo[n - 1]]

Distance(layers, d) == CHOOSE n \in 0 .. Depth : d \in layers[n]

Backwards_AnyPredecessor(graph, layers, dest) ==
    LET far == Distance(layers, dest)
    IN  UNION {{e \in layers[n] \X layers[n + 1] : e[1] \in graph[e[2]]} : n \in 0 .. far - 1}

\* The directed links of the shortest paths to `dest', walked back from it.
Backwards(graph, layers, dest) ==
    LET far == Distance(layers, dest)
        at[n \in 0 .. far] ==   \* switches n hops before dest on some shortest path
            IF n = 0 THEN {dest}
            ELSE UNION {graph[d] \cap layers[far - n] : d \in at[n - 1]}
    IN  UNION {{e \in layers[far - n - 1] \X at[n] : e[1] \in graph[e[2]]} : n \in 0 .. far - 1}

Connected == {Rack(r) : r \in AllRacks} \subseteq UNION {Layers(Graph, Rack(1))[n] : n \in 0 .. Depth}

\* witnesses of the directed links between switches
SwitchWitnesses ==
    LET graph == Graph
        onPath == [x \in AllRacks \X AllRacks |->
            IF x[1] = x[2] THEN {} ELSE Backwards(graph, Layers(graph, Rack(x[1])), Rack(x[2]))]
        edges == {<<SwitchOf(x[1]), SwitchOf(x[2])>> : x \in Directed}
    IN  [e \in edges |-> PairCount * Cardinality({x \in DOMAIN onPath : e \in onPath[x]})]

NoPlan == [peers |-> <<>>, frames |-> <<>>, witnesses |-> <<>>]

PlanFits(peers) ==
    /\ Clients(config) >= 2
    /\ PairCount <= config.clients
    /\ \A i \in AllClients : peers[i] # {}
    /\ config.perCycle <= config.ports
    /\ config.ports <= PortPool

\* minimum_witnesses and covered_switches, client links included
Witnessed(peers, w) ==
    /\ \A e \in DOMAIN w : w[e] >= MinWitnesses
    /\ \A i \in AllClients : Cardinality(peers[i]) >= MinWitnesses
    /\ \A d \in DOMAIN fabric.switch : d[1] = RackRole(config) \/ \E e \in DOMAIN w : w[e] > 0 /\ d \in {e[1], e[2]}

Init == FabricInit /\ plan = NoPlan

\* compile_pingmesh_plan, or its ValueError.
Compile ==
    /\ stage = "built"
    /\ LET peers == PeersOf(Pairs)
           epoch == DestinationBatches(peers) * PortBatches
           witnesses == SwitchWitnesses
       IN  IF PlanFits(peers) /\ Connected /\ Witnessed(peers, witnesses)
           THEN /\ stage' = "compiled"
                /\ plan' = [peers |-> peers, witnesses |-> witnesses,
                            frames |-> [i \in AllClients |-> [n \in 0 .. epoch - 1 |-> Frame(peers, i, n)]]]
           ELSE stage' = "rejected" /\ plan' = plan
    /\ UNCHANGED <<config, fabric>>

BuildFabric == Build /\ UNCHANGED plan

\* The plan is immutable once compiled.
Finished == stage \in {"compiled", "rejected"} /\ UNCHANGED vars

Next == BuildFabric \/ Compile \/ Finished

Spec == Init /\ [][Next]_vars

-----------------------------------------------------------------------------

(***************************************************************************)
(* Each task once: over one epoch a client sends exactly one regular probe *)
(* from every source port to every peer, and exactly one DF probe to every *)
(* peer in every port batch.  summarize_coverage relies on it.             *)
(***************************************************************************)
EveryTaskOnce ==
    stage = "compiled" => \A i \in AllClients :
        LET frames == plan.frames[i]
        IN  /\ \A t \in plan.peers[i], p \in 0 .. config.ports - 1 :
                  Cardinality({n \in DOMAIN frames : <<t, p>> \in frames[n].rtt}) = 1
            /\ \A t \in plan.peers[i], b \in 0 .. PortBatches - 1 :
                  Cardinality({n \in DOMAIN frames : frames[n].port = b /\ \E d \in frames[n].df : d[1] = t}) = 1
            /\ \A n \in DOMAIN frames : frames[n].df \subseteq frames[n].rtt

(***************************************************************************)
(* Witness counts are true: the number the plan gives for a link is the    *)
(* number of probed pairs of clients in different racks one of whose       *)
(* shortest paths uses the link in that direction.                         *)
(***************************************************************************)
WitnessesAreReal ==
    stage = "compiled" =>
        LET graph == Graph
            layers == [d \in DOMAIN graph |-> Layers(graph, d)]
            dist == [x \in (DOMAIN fabric.switch) \X (DOMAIN fabric.switch) |-> Distance(layers[x[1]], x[2])]
            pairs == {p \in AllClients \X AllClients : p[2] \in plan.peers[p[1]] /\ RackOf(p[1]) # RackOf(p[2])}
            uses(s, t, e) == dist[s, e[1]] + 1 + dist[e[2], t] = dist[s, t]
        IN  \A e \in DOMAIN plan.witnesses :
                plan.witnesses[e] = Cardinality({p \in pairs : uses(Rack(RackOf(p[1])), Rack(RackOf(p[2])), e)})

(***************************************************************************)
(* The mesh reaches everyone: with the default number of pairs every       *)
(* client probes a client of every other rack and is probed by one, so a   *)
(* fault of one access link is seen from every rack.                       *)
(***************************************************************************)
EveryRackSeesEveryClient ==
    (stage = "compiled" /\ config.pairs = 0) =>
        \A i \in AllClients : \A r \in AllRacks \ {RackOf(i)} :
            \E out, in \in AllClients :
                /\ RackOf(out) = r /\ out \in plan.peers[i]
                /\ RackOf(in) = r /\ i \in plan.peers[in]
=============================================================================
