----------------------------- MODULE Placement ------------------------------
(***************************************************************************)
(* Where the generated scenarios put their faults (scenario/generator.py,  *)
(* scenario/candidates.py, faults/catalog.py).                             *)
(*                                                                         *)
(* For every necessary coverage unit of a fabric the generator looks for a *)
(* switch, and a neighbour if the unit names a position, whose fault a     *)
(* probed pair of clients can see, and for a pair that stays a control.    *)
(* It never enumerates paths: CandidatePaths decides membership from       *)
(* distances.  The shuffle of the pairs is the choice of any that          *)
(* qualifies, the stable hash that breaks ties any fixed order.            *)
(***************************************************************************)
EXTENDS PingmeshPlan, SequencesExt

CONSTANT Seeds

VARIABLES
    seed,
    adj,      \* neighbours of each switch
    dist,     \* distances between switches
    paths,    \* reference: the shortest paths between racks, enumerated
    unit,     \* index of the coverage unit that is being placed
    order,    \* the places for it that are still to be tried: <<root, peer>>
    uses,     \* device_uses
    linkUses, \* link_uses
    placed    \* the placement of this unit

placeVars == <<seed, adj, dist, paths, unit, order, uses, linkUses, placed>>
allVars == <<vars, placeVars>>

(***************************************************************************)
(* coverage_units.                                                         *)
(***************************************************************************)
NoPeer == Pair("none", 0)
Unit(f, role, at, mech, scope) == [fault |-> f, role |-> role, at |-> at, mech |-> mech, scope |-> scope]
On(f, places, mech) == [i \in 1 .. Len(places) |-> Unit(f, places[i][1], places[i][2], mech, "")]
OnEach(fs, places) == FlattenSeq([i \in 1 .. Len(fs) |-> On(fs[i], places, "")])
OnRoles(f, roles) == [i \in 1 .. Len(roles) |-> Unit(f, roles[i], "", "", "")]

Positions(c) ==
    IF IsClos(c) THEN <<<<"leaf", "client">>, <<"leaf", "spine">>, <<"spine", "leaf">>>>
    ELSE <<<<"edge", "client">>, <<"edge", "agg">>, <<"agg", "edge">>, <<"agg", "core">>, <<"core", "agg">>>>
Roles(c) == IF IsClos(c) THEN <<"leaf", "spine">> ELSE <<"edge", "agg", "core">>

Mangling == {"packet_loss", "packet_corruption", "high_latency", "mtu_mismatch"}
PortFaults ==
    <<"link_down", "link_flapping", "interface_ip_misconfig", "packet_loss", "packet_corruption", "high_latency",
      "mtu_mismatch", "acl_source_misconfig", "acl_destination_misconfig", "acl_l4_port_misconfig">>
SessionFaults ==
    <<"routing_loop", "bgp_as_mismatch", "bgp_auth_mismatch", "bgp_update_source_mismatch", "bgp_neighbor_shutdown",
      "bgp_max_prefix_misconfig", "route_flapping">>

CoverageUnits(c) ==
    LET access == Roles(c)[1]
        last == Roles(c)[Len(Roles(c))]
        fabricPlaces == Tail(Positions(c))
        import(role, scope) == Unit("route_filter_misconfig", role, "", "import_filter", scope)
    IN  IF c.validation
        THEN <<Unit("link_down", "leaf", "spine", "", ""), Unit("device_down", "spine", "", "", ""),
               Unit("bgp_auth_mismatch", "leaf", "spine", "", "")>>
        ELSE OnEach(PortFaults, Positions(c))
             \o OnRoles("device_down", Roles(c)) \o OnRoles("bgp_process_down", Roles(c))
             \o <<Unit("blackhole_route", access, "", "", "source"), Unit("blackhole_route", access, "", "", "destination")>>
             \o OnRoles("blackhole_route", Tail(Roles(c)))
             \o <<Unit("static_route_misconfig", access, "", "", "")>>
             \o OnEach(SessionFaults, fabricPlaces)
             \o <<Unit("route_origination_misconfig", access, "", "network_statement_missing", ""),
                  Unit("route_origination_misconfig", access, "", "origination_policy_deny", "")>>
             \o On("route_filter_misconfig", fabricPlaces, "export_filter")
             \o <<import(access, "missing"), import(access, "reduced"), import(last, "missing")>>
             \o (IF IsClos(c) THEN <<>> ELSE <<import("agg", "missing"), import("agg", "reduced_remote_pod")>>)
             \o <<Unit("ecmp_misconfig", access, "", "max_paths_limit", "")>>
             \o (IF IsClos(c) THEN <<>>
                 ELSE <<Unit("ecmp_misconfig", "edge", "", "multipath_relax_disabled", ""),
                        Unit("ecmp_misconfig", "agg", "", "max_paths_limit", "remote_pod"),
                        Unit("ecmp_misconfig", "agg", "", "multipath_relax_disabled", "remote_pod")>>)

(***************************************************************************)
(* CandidatePaths.                                                         *)
(***************************************************************************)
PlannedPairs == {p \in AllClients \X AllClients : p[2] \in plan.peers[p[1]]}
Attached(i) == Rack(RackOf(i))
IsClient(d) == d[1] = "client"

distance(graph, root) == LET layers == Layers(graph, root) IN [d \in DOMAIN graph |-> Distance(layers, d)]

contains(src, dst, root, peer) ==
    LET s == Attached(src)
        t == Attached(dst)
    IN  CASE IsClient(peer) -> dst = peer[2] /\ root = t
          [] peer = NoPeer  -> dist[s][root] + dist[t][root] = dist[s][t]
          [] OTHER          -> dist[s][root] + 1 + dist[t][peer] = dist[s][t]

Reversed(u) == u.fault \in {"routing_loop", "route_flapping"} \/ u.mech = "export_filter"

affected_pairs_OneWay(u, root, peer, a) ==
    LET forward(p) == contains(p[1], p[2], root, peer)
        back(p) == contains(p[2], p[1], root, peer)
        eligible(p) ==
            CASE u.fault = "acl_source_misconfig"  -> p[1] = a[1] /\ forward(p)
              [] u.fault = "acl_l4_port_misconfig" -> forward(p)
              [] u.fault \in Mangling              -> forward(p) \/ back(p)
              [] OTHER                             -> p[2] = a[2] /\ forward(p)
    IN  {a} \cup {p \in PlannedPairs : eligible(p)}
affected_pairs(u, root, peer, a) ==
    LET forward(p) == contains(p[1], p[2], root, peer)
        back(p) == contains(p[2], p[1], root, peer)
        member(p) == IF Reversed(u) THEN contains(p[1], p[2], peer, root) ELSE forward(p)
        returning(p) == IF Reversed(u) THEN contains(p[2], p[1], peer, root) ELSE back(p)
        eligible(p) ==
            CASE u.fault = "acl_source_misconfig"  -> (p[1] = a[1] /\ forward(p)) \/ (p[2] = a[1] /\ back(p))
              [] u.fault = "acl_l4_port_misconfig" -> forward(p)
              [] u.fault \in Mangling              -> forward(p) \/ back(p)
              [] u.fault = "routing_loop"          -> \/ p[2] = a[2] /\ contains(p[1], p[2], root, NoPeer)
                                                      \/ p[1] = a[2] /\ contains(p[2], p[1], root, NoPeer)
              [] OTHER                             -> (p[2] = a[2] /\ member(p)) \/ (p[1] = a[2] /\ returning(p))
    IN  {a} \cup {p \in PlannedPairs : eligible(p)}

(***************************************************************************)
(* _CandidateIndex.place: the pairs that can be the anchor of a place, and *)
(* the controls of an anchor.                                              *)
(***************************************************************************)
Pod(d) == IF d[1] \in {"agg", "edge"} THEN ((d[2] - 1) \div Half(config)) + 1 ELSE 0
\* neighbours of the root on a shortest path to the target
Hops(root, t) == {n \in adj[root] : dist[t][n] + 1 = dist[t][root]}
NeedsHops(u) == u.fault \in {"ecmp_misconfig", "route_filter_misconfig"} /\ ~Reversed(u)

HopsSuffice_Any(u, root, t) == NeedsHops(u) => Hops(root, t) # {}
HopsSuffice_Several(u, root, t) == NeedsHops(u) => Cardinality(Hops(root, t)) >= 2
HopsSuffice(u, root, t) ==
    NeedsHops(u) =>
        /\ Hops(root, t) # {}
        /\ u.fault = "ecmp_misconfig" \/ u.scope \in {"reduced", "reduced_remote_pod"} => Cardinality(Hops(root, t)) >= 2
        /\ u.role = "agg" /\ (u.fault = "ecmp_misconfig" \/ u.scope = "reduced_remote_pod") => Pod(root) # Pod(t)

Anchors(u, root, peer) ==
    {p \in PlannedPairs :
        LET s == Attached(p[1])
            t == Attached(p[2])
        IN  /\ IF Reversed(u) THEN contains(p[1], p[2], peer, root) ELSE contains(p[1], p[2], root, peer)
            /\ u.fault = "route_origination_misconfig" \/ u.scope = "destination" => t = root
            /\ u.scope = "source" \/ u.fault = "static_route_misconfig" => s = root /\ t # root
            /\ HopsSuffice(u, root, t)
            /\ u.fault = "static_route_misconfig" => \E c \in AllClients \ {p[1]} : Attached(c) = root}

ByDestination == {"acl_destination_misconfig", "route_origination_misconfig", "route_filter_misconfig", "routing_loop",
                  "blackhole_route", "static_route_misconfig", "route_flapping"}
Controls_Forward(u, root, peer, a) ==
    {p \in PlannedPairs \ {a} :
        CASE u.fault = "acl_source_misconfig" -> a[1] \notin {p[1], p[2]} /\ contains(p[1], p[2], root, peer)
          [] u.fault \in ByDestination        -> a[2] \notin {p[1], p[2]}
          [] u.fault \in {"device_down", "bgp_process_down", "ecmp_misconfig"} -> ~contains(p[1], p[2], root, NoPeer)
          [] OTHER -> ~contains(p[1], p[2], root, peer)}
Controls(u, root, peer, a) ==
    {p \in PlannedPairs \ {a} :
        CASE u.fault = "acl_source_misconfig" -> a[1] \notin {p[1], p[2]} /\ contains(p[1], p[2], root, peer)
          [] u.fault \in ByDestination        -> a[2] \notin {p[1], p[2]}
          [] u.fault \in {"device_down", "bgp_process_down", "ecmp_misconfig"} -> ~contains(p[1], p[2], root, NoPeer)
          [] OTHER -> /\ ~contains(p[1], p[2], root, peer)
                      /\ peer # NoPeer /\ ~IsClient(peer) => ~contains(p[1], p[2], peer, root)
                      /\ IsClient(peer) => peer[2] \notin {p[1], p[2]}}

\* The neighbours an import filter is put on.
Filtered(u, root, t) ==
    IF u.scope = "missing" THEN adj[root] ELSE {CHOOSE n \in Hops(root, t) : TRUE}

(***************************************************************************)
(* The order in which places are tried: least used pods, devices, ranges   *)
(* of numbers and links first.  Every placement of a role counts for its   *)
(* device, pod and range at once, so those counts are sums over devices.   *)
(***************************************************************************)
StableHash(k, d) == (d[2] * (2 * seed + 1) + k * 3 + seed) % 7
Less(a, b) == \E i \in DOMAIN a : a[i] < b[i] /\ \A j \in 1 .. i - 1 : a[j] = b[j]
Sorted(S, key(_)) ==
    LET ranked == [x \in S |-> key(x)]
        place == [x \in S |-> Cardinality({y \in S : Less(ranked[y], ranked[x])})]
    IN  [n \in 1 .. Cardinality(S) |-> CHOOSE x \in S : place[x] = n - 1]

OfRole(role) == {d \in DOMAIN fabric.switch : d[1] = role}
Total(count, S) == MapThenSumSet(LAMBDA d : count[d], S)
Bucket(d) == Min({2, ((d[2] - 1) * 3) \div Cardinality(OfRole(d[1]))})

Roots_AnyDevice(u, k, count) ==
    Sorted(OfRole(u.role), LAMBDA d :
        <<IF Pod(d) = 0 THEN 0 ELSE Total(count, {x \in OfRole(u.role) : Pod(x) = Pod(d)}),
          Total(count, {x \in OfRole(u.role) : Bucket(x) = Bucket(d)}), StableHash(k, d), d[2]>>)
Roots(u, k, count) ==
    Sorted(OfRole(u.role), LAMBDA d :
        <<IF Pod(d) = 0 THEN 0 ELSE Total(count, {x \in OfRole(u.role) : Pod(x) = Pod(d)}),
          count[d], Total(count, {x \in OfRole(u.role) : Bucket(x) = Bucket(d)}), StableHash(k, d), d[2]>>)

PeersAt(u, root) ==
    CASE u.at = ""       -> {NoPeer}
      [] u.at = "client" -> {Pair("client", i) : i \in {j \in AllClients : Attached(j) = root}}
      [] OTHER           -> {d \in adj[root] : d[1] = u.at}
LinkCount(links, root, peer) == Cardinality({i \in DOMAIN links : links[i] = {root, peer}})

OrderFor(k, count, links) ==
    LET u == CoverageUnits(config)[k]
        roots == Roots(u, k, count)
        peers(root) == Sorted(PeersAt(u, root), LAMBDA d : <<LinkCount(links, root, d), StableHash(k, d), d[2]>>)
    IN  FlattenSeq([i \in DOMAIN roots |-> LET ps == peers(roots[i]) IN [j \in DOMAIN ps |-> <<roots[i], ps[j]>>]])

(***************************************************************************)
(* generate.                                                               *)
(***************************************************************************)
ShortestPaths(graph, s, t) ==
    LET walks[n \in 0 .. Depth - 1] ==
            IF n = 0 THEN {<<s>>} ELSE UNION {{Append(w, d) : d \in graph[w[Len(w)]]} : w \in walks[n - 1]}
        arrive(n) == {w \in walks[n] : w[Len(w)] = t}
    IN  arrive(CHOOSE n \in 0 .. Depth - 1 : arrive(n) # {} /\ \A k \in 0 .. n - 1 : arrive(k) = {})

PlaceInit ==
    /\ Init /\ seed \in Seeds /\ adj = <<>> /\ dist = <<>> /\ paths = <<>>
    /\ unit = 0 /\ order = <<>> /\ uses = <<>> /\ linkUses = <<>> /\ placed = <<>>

Plan == (BuildFabric \/ Compile) /\ UNCHANGED placeVars

BuildIndex ==
    /\ stage = "compiled" /\ stage' = "placing"
    /\ LET graph == Graph IN
       /\ adj' = graph /\ dist' = [d \in DOMAIN graph |-> distance(graph, d)]
       /\ paths' = [x \in AllRacks \X AllRacks |-> ShortestPaths(graph, Rack(x[1]), Rack(x[2]))]
    /\ uses' = [d \in DOMAIN fabric.switch |-> 0] /\ unit' = 0
    /\ UNCHANGED <<config, fabric, plan, seed, order, linkUses, placed>>

NextUnit ==
    /\ stage = "placing" /\ unit < Len(CoverageUnits(config))
    /\ stage' = "trying" /\ unit' = unit + 1 /\ order' = OrderFor(unit + 1, uses, linkUses)
    /\ placed' = <<>> /\ UNCHANGED <<config, fabric, plan, seed, adj, dist, paths, uses, linkUses>>

Placed(u, root, peer, a, controls) ==
    /\ stage' = "placing" /\ order' = <<>>
    /\ placed' = [unit |-> u, root |-> root, peer |-> peer, anchor |-> a, controls |-> controls,
                  affected |-> affected_pairs(u, root, peer, a),
                  filtered |-> IF u.mech = "import_filter" THEN Filtered(u, root, Attached(a[2])) ELSE {}]
    /\ uses' = [uses EXCEPT ![root] = @ + 1]
    /\ linkUses' = IF peer = NoPeer THEN linkUses ELSE Append(linkUses, {root, peer})

\* One place: the first pair in the shuffled order that qualifies is its anchor.
Try ==
    /\ stage = "trying" /\ order # <<>>
    /\ LET u == CoverageUnits(config)[unit]
           root == Head(order)[1]
           peer == Head(order)[2]
           skip == order' = Tail(order) /\ UNCHANGED <<stage, uses, linkUses, placed>>
           anchors == Anchors(u, root, peer)
       IN  \/ anchors = {} /\ skip
           \/ \E a \in anchors :
                LET controls == Controls(u, root, peer, a)
                IN  CASE controls # {}     -> Placed(u, root, peer, a, controls)
                      [] config.validation -> Placed(u, root, peer, a, {<<a[2], a[1]>>})    \* a comparison
                      [] OTHER             -> skip
    /\ UNCHANGED <<config, fabric, plan, seed, adj, dist, paths, unit>>

\* ValueError: no planned candidate for a necessary coverage unit.
NoPlace ==
    /\ stage = "trying" /\ order = <<>>
    /\ stage' = "unplaced" /\ UNCHANGED <<config, fabric, plan, placeVars>>

Generated ==
    /\ \/ stage \in {"rejected", "unplaced"}
       \/ stage = "placing" /\ unit = Len(CoverageUnits(config))
    /\ UNCHANGED allVars

PlaceNext == Plan \/ BuildIndex \/ NextUnit \/ Try \/ NoPlace \/ Generated
PlaceSpec == PlaceInit /\ [][PlaceNext]_allVars

-----------------------------------------------------------------------------

\* The packets of a probe and of its answer, with every path they may take.
Legs(p) == {p, <<p[2], p[1]>>}
Routes(leg) ==
    {<<Pair("client", leg[1])>> \o w \o <<Pair("client", leg[2])>> : w \in paths[RackOf(leg[1]), RackOf(leg[2])]}
Visits(leg, d) == \E w \in Routes(leg) : d \in ToSet(w)
Crosses(leg, d, e) == \E w \in Routes(leg) : \E i \in 1 .. Len(w) - 1 : w[i] = d /\ w[i + 1] = e

(***************************************************************************)
(* The affected pairs of a scenario are exactly the planned pairs one of   *)
(* whose packets, probe or answer, both belongs to the traffic the fault   *)
(* is configured for and has a shortest path through the faulted switch or *)
(* over the faulted link in the direction the fault acts on.               *)
(***************************************************************************)
Hit(u, root, peer, a, leg) ==
    /\ CASE u.fault = "acl_source_misconfig" -> leg[1] = a[1]
         [] u.fault \in Mangling \cup {"acl_l4_port_misconfig"} -> TRUE
         [] OTHER -> leg[2] = a[2]
    /\ CASE peer = NoPeer \/ u.fault = "routing_loop" -> Visits(leg, root)
         [] Reversed(u) -> Crosses(leg, peer, root)
         [] OTHER       -> Crosses(leg, root, peer)
AffectedIsExact ==
    placed # <<>> =>
        LET legs(p) == IF placed.unit.fault = "acl_l4_port_misconfig" THEN {p} ELSE Legs(p)
        IN  placed.affected = {p \in PlannedPairs : \E leg \in legs(p) :
                                  Hit(placed.unit, placed.root, placed.peer, placed.anchor, leg)}

(***************************************************************************)
(* A control stays healthy: neither its probe nor its answer is traffic    *)
(* the fault acts on.  For a fault of a switch or a link that is any       *)
(* traffic through it, in either direction.  The comparison of a           *)
(* validation fabric proves nothing and is excepted, as the code says.     *)
(***************************************************************************)
ControlsUntouched ==
    (placed # <<>> /\ ~config.validation) =>
        LET u == placed.unit
            touched(leg) ==
                CASE u.fault = "acl_source_misconfig" -> leg[1] = placed.anchor[1]
                  [] u.fault \in ByDestination        -> leg[2] = placed.anchor[2]
                  [] placed.peer = NoPeer             -> Visits(leg, placed.root)
                  [] OTHER -> Crosses(leg, placed.root, placed.peer) \/ Crosses(leg, placed.peer, placed.root)
        IN  placed.controls # {} /\ \A p \in placed.controls : \A leg \in Legs(p) : ~touched(leg)

(***************************************************************************)
(* An import filter has the scope its unit names: "missing" leaves the     *)
(* switch no shortest way to the prefix, "reduced" takes one away and      *)
(* leaves another, and a fault of equal-cost routing hits a switch that    *)
(* has several.                                                            *)
(***************************************************************************)
ScopeIsReal ==
    placed # <<>> =>
        LET u == placed.unit
            t == Attached(placed.anchor[2])
            ways == {w[2] : w \in {v \in UNION {paths[x] : x \in DOMAIN paths} : v[1] = placed.root /\ v[Len(v)] = t /\ Len(v) > 1}}
            hops == IF placed.root[1] = RackRole(config) THEN ways ELSE Hops(placed.root, t)
        IN  /\ u.scope = "missing" => hops \subseteq placed.filtered
            /\ u.scope \in {"reduced", "reduced_remote_pod"} => placed.filtered # {} /\ hops \ placed.filtered # {}
            /\ u.fault = "ecmp_misconfig" => Cardinality(hops) >= 2

(***************************************************************************)
(* Every necessary coverage unit finds a place, whatever the shuffle: in   *)
(* a validation fabric, and in a benchmark fabric with several racks of    *)
(* several clients and several ways between them.                          *)
(***************************************************************************)
Roomy(c) == c.clients >= 2 /\ Racks(c) >= 2 /\ (IF IsClos(c) THEN c.spines ELSE Half(c)) >= 2
EveryUnitPlaced == config.validation \/ Roomy(config) => stage # "unplaced"

(***************************************************************************)
(* Faults are spread: no switch hosts two scenarios more than another of   *)
(* its role, over every pod and every range of numbers.                    *)
(***************************************************************************)
EvenlySpread ==
    stage \in {"placing", "trying"} =>
        \A d, e \in DOMAIN uses : d[1] = e[1] => uses[d] <= uses[e] + 1
=============================================================================
