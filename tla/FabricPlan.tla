----------------------------- MODULE FabricPlan -----------------------------
(***************************************************************************)
(* The plans of CLOS and fat-tree fabrics (platform/topology:              *)
(* clos_builder.py, fat_tree_builder.py, planning.py, plan.py, config.py   *)
(* and the checks of models/topology.py).                                  *)
(*                                                                         *)
(* A builder computes three things apart from each other: which devices a  *)
(* link joins and on which ports, which address each port has, and which   *)
(* neighbours each switch opens a BGP session with.  They must agree, or a *)
(* deployed lab converges to something other than the declared topology.   *)
(*                                                                         *)
(* A device is a pair of a role and an index, a port a pair of a device    *)
(* and the number in its interface name, an address a tuple of the numbers *)
(* that make it up.  The pools an allocation can exhaust are constants.    *)
(***************************************************************************)
EXTENDS Integers, FiniteSets, Sequences

CONSTANTS
    Configs,        \* the configurations to build
    Octet,          \* 255: largest index that fits one octet of an address
    RackCapacity,   \* 64: /30 access links of the /24 of a rack
    FabricPool,     \* 16384: /30 subnets of a fabric /16
    AsnLow, AsnHigh,\* the private 16 bit AS numbers
    FirstOffset,    \* 10: management offsets of devices start above it
    PreferredOffset \* 200: the collector's management offset in a small fabric

VARIABLES
    config,   \* the configuration
    stage,    \* "config", "built", "rejected" or "compiled"
    fabric    \* the FabricPlan

fabricVars == <<config, stage, fabric>>

Pair(role, i) == <<role, i>>
Named(role, n) == {Pair(role, i) : i \in 1 .. n}
Before(p, q) == p[1] < q[1] \/ (p[1] = q[1] /\ p[2] < q[2])
Rank(p, S) == Cardinality({q \in S : Before(q, p)})       \* index of p in sorted(S)
Position(x, S) == Cardinality({y \in S : y <= x})          \* port of x in enumerate(sorted(S), start=1)

\* ClientAddressing: one /24 per rack, one /30 per access link.
AccessFits(racks, clients) == racks \in 1 .. Octet /\ clients \in 1 .. RackCapacity
Access(rack, pos, host) == <<192, 168, rack, (pos - 1) * 4 + host>>
ClientIndex(rack, pos, perRack) == (rack - 1) * perRack + pos

(***************************************************************************)
(* CLOS: every spine meets every leaf.                                     *)
(***************************************************************************)
ClosValid(c) ==
    /\ c.spines \in 1 .. Octet
    /\ AccessFits(c.leafs, c.clients)
    /\ c.spineAsn \in AsnLow .. AsnHigh
    /\ c.leafAsn >= AsnLow /\ c.leafAsn + c.leafs - 1 <= AsnHigh
    /\ c.spineAsn \notin c.leafAsn .. c.leafAsn + c.leafs - 1

ClosSpine(c, i) ==
    [asn |-> c.spineAsn, router |-> <<10, 0, 0, i>>, mgmt |-> FirstOffset + i, ports |-> c.leafs,
     interfaces |-> [l \in 1 .. c.leafs |-> <<10, i, l, 1>>],
     neighbors |-> {<<<<10, i, l, 2>>, c.leafAsn + l - 1>> : l \in 1 .. c.leafs}]

ClosLeaf(c, l) ==
    [asn |-> c.leafAsn + l - 1, router |-> <<10, 0, 1, l>>, mgmt |-> FirstOffset + c.spines + l,
     ports |-> c.spines + c.clients,
     interfaces |-> [p \in 1 .. c.spines + c.clients |->
         IF p <= c.spines THEN <<10, p, l, 2>> ELSE Access(l, p - c.spines, 1)],
     neighbors |-> {<<<<10, s, l, 1>>, c.spineAsn>> : s \in 1 .. c.spines}]

ClosLinks(c) ==
    {<<<<Pair("spine", s), l>>, <<Pair("leaf", l), s>>>> : s \in 1 .. c.spines, l \in 1 .. c.leafs}
    \cup {<<<<Pair("leaf", l), c.spines + p>>, <<Pair("client", ClientIndex(l, p, c.clients)), 1>>>> :
              l \in 1 .. c.leafs, p \in 1 .. c.clients}

(***************************************************************************)
(* Fat-tree: k pods of k/2 aggregation and k/2 edge switches.              *)
(***************************************************************************)
Half(c) == c.k \div 2
Cores(c) == Half(c) * Half(c)
Aggs(c) == c.k * Half(c)

FatTreeValid(c) ==
    /\ c.k >= 2 /\ c.k % 2 = 0 /\ c.clients \in 1 .. Half(c)
    /\ AccessFits(Aggs(c), c.clients)
    /\ Cores(c) <= Octet /\ Aggs(c) <= Octet
    /\ c.asn >= AsnLow /\ c.asn + Cores(c) + 2 * Aggs(c) - 1 <= AsnHigh
    /\ c.k * Half(c) * Half(c) <= FabricPool

CoreAgg_ByPod(c) ==
    {<<((pod - 1) % Half(c)) * Half(c) + o, (pod - 1) * Half(c) + a>> :
        pod \in 1 .. c.k, a \in 1 .. Half(c), o \in 1 .. Half(c)}

CoreAgg(c) ==
    {<<(a - 1) * Half(c) + o, (pod - 1) * Half(c) + a>> : pod \in 1 .. c.k, a \in 1 .. Half(c), o \in 1 .. Half(c)}

AggEdge(c) ==
    {<<(pod - 1) * Half(c) + a, (pod - 1) * Half(c) + e>> : pod \in 1 .. c.k, a \in 1 .. Half(c), e \in 1 .. Half(c)}

Lower(net, x) == {p[2] : p \in {q \in DOMAIN net : q[1] = x}}
Upper(net, x) == {p[1] : p \in {q \in DOMAIN net : q[2] = x}}
\* The links of both kinds, each with the number of the /30 it is given.
Wiring(c) ==
    LET numbered(S) == [p \in S |-> Rank(p, S)]
    IN  [ca |-> numbered(CoreAgg(c)), ae |-> numbered(AggEdge(c))]
CoreAggIp(w, p, host) == <<10, 1, w.ca[p], host>>
AggEdgeIp_CorePool(w, p, host) == <<10, 1, w.ae[p], host>>
AggEdgeIp(w, p, host) == <<10, 2, w.ae[p], host>>
AggAsn(c, i) == c.asn + Cores(c) + i - 1
EdgeAsn(c, i) == c.asn + Cores(c) + Aggs(c) + i - 1
\* the n-th of a set of numbers in increasing order
Nth(S, n) == CHOOSE x \in S : Position(x, S) = n

FatCore(c, w, i) ==
    LET down == Lower(w.ca, i)
    IN  [asn |-> c.asn + i - 1, router |-> <<10, 0, 1, i>>, mgmt |-> FirstOffset + i, ports |-> c.k,
         interfaces |-> [n \in 1 .. Cardinality(down) |-> CoreAggIp(w, <<i, Nth(down, n)>>, 1)],
         neighbors |-> {<<CoreAggIp(w, <<i, a>>, 2), AggAsn(c, a)>> : a \in down}]

FatAgg(c, w, i) ==
    LET up == Upper(w.ca, i)
        down == Lower(w.ae, i)
    IN  [asn |-> AggAsn(c, i), router |-> <<10, 0, 2, i>>, mgmt |-> FirstOffset + Cores(c) + i, ports |-> c.k,
         interfaces |-> [n \in 1 .. Half(c) + Cardinality(down) |->
             IF n <= Half(c) THEN CoreAggIp(w, <<Nth(up, n), i>>, 2)
                             ELSE AggEdgeIp(w, <<i, Nth(down, n - Half(c))>>, 1)],
         neighbors |-> {<<CoreAggIp(w, <<x, i>>, 1), c.asn + x - 1>> : x \in up}
                       \cup {<<AggEdgeIp(w, <<i, e>>, 2), EdgeAsn(c, e)>> : e \in down}]

FatEdge(c, w, i) ==
    LET up == Upper(w.ae, i)
    IN  [asn |-> EdgeAsn(c, i), router |-> <<10, 0, 3, i>>, mgmt |-> FirstOffset + Cores(c) + Aggs(c) + i,
         ports |-> Half(c) + c.clients,
         interfaces |-> [n \in 1 .. Half(c) + c.clients |->
             IF n <= Half(c) THEN AggEdgeIp(w, <<Nth(up, n), i>>, 2) ELSE Access(i, n - Half(c), 1)],
         neighbors |-> {<<AggEdgeIp(w, <<a, i>>, 1), AggAsn(c, a)>> : a \in up}]

FatLinks_AggPort(c, w) ==
    {<<<<Pair("core", p[1]), Position(p[2], Lower(w.ca, p[1]))>>,
       <<Pair("agg", p[2]), Position(p[1], Upper(w.ca, p[2]))>>>> : p \in DOMAIN w.ca}
    \cup {<<<<Pair("agg", p[1]), Half(c) + 1 + (p[2] % Half(c))>>,
            <<Pair("edge", p[2]), Position(p[1], Upper(w.ae, p[2]))>>>> : p \in DOMAIN w.ae}
    \cup {<<<<Pair("edge", e), Half(c) + p>>, <<Pair("client", ClientIndex(e, p, c.clients)), 1>>>> :
              e \in 1 .. Aggs(c), p \in 1 .. c.clients}

FatLinks(c, w) ==
    {<<<<Pair("core", p[1]), Position(p[2], Lower(w.ca, p[1]))>>,
       <<Pair("agg", p[2]), Position(p[1], Upper(w.ca, p[2]))>>>> : p \in DOMAIN w.ca}
    \cup {<<<<Pair("agg", p[1]), Half(c) + Position(p[2], Lower(w.ae, p[1]))>>,
            <<Pair("edge", p[2]), Position(p[1], Upper(w.ae, p[2]))>>>> : p \in DOMAIN w.ae}
    \cup {<<<<Pair("edge", e), Half(c) + p>>, <<Pair("client", ClientIndex(e, p, c.clients)), 1>>>> :
              e \in 1 .. Aggs(c), p \in 1 .. c.clients}

(***************************************************************************)
(* Either family.                                                          *)
(***************************************************************************)
IsClos(c) == c.family = "clos"
Valid(c) == IF IsClos(c) THEN ClosValid(c) ELSE FatTreeValid(c)
Racks(c) == IF IsClos(c) THEN c.leafs ELSE Aggs(c)
RackRole(c) == IF IsClos(c) THEN "leaf" ELSE "edge"
Clients(c) == Racks(c) * c.clients
Switches(c) ==
    IF IsClos(c) THEN Named("spine", c.spines) \cup Named("leaf", c.leafs)
    ELSE Named("core", Cores(c)) \cup Named("agg", Aggs(c)) \cup Named("edge", Aggs(c))
Links(c, w) == IF IsClos(c) THEN ClosLinks(c) ELSE FatLinks(c, w)

PlanOf(c, w, d) ==
    CASE d[1] = "spine" -> ClosSpine(c, d[2])
      [] d[1] = "leaf"  -> ClosLeaf(c, d[2])
      [] d[1] = "core"  -> FatCore(c, w, d[2])
      [] d[1] = "agg"   -> FatAgg(c, w, d[2])
      [] d[1] = "edge"  -> FatEdge(c, w, d[2])

\* management offset of a client
ClientOffset(c, i) == FirstOffset + Cardinality(Switches(c)) + i
LastOffset(c) == ClientOffset(c, Clients(c))
Allocated(c) == FirstOffset + 1 .. LastOffset(c)

\* host_ip: neither the network nor the broadcast address of the subnet
Host(c, offset) == offset \in 1 .. c.subnet - 2

DefaultCollector_Unguarded(c) ==
    IF IsClos(c) /\ Host(c, PreferredOffset) THEN PreferredOffset
    ELSE IF Host(c, LastOffset(c) + 1) THEN LastOffset(c) + 1
    ELSE c.subnet - 2

DefaultCollector(c) ==
    IF IsClos(c) /\ LastOffset(c) < PreferredOffset /\ Host(c, PreferredOffset) THEN PreferredOffset
    ELSE IF Host(c, LastOffset(c) + 1) THEN LastOffset(c) + 1
    ELSE c.subnet - 2

Collector(c) == IF c.collector # 0 THEN c.collector ELSE DefaultCollector(c)

\* validate_collector
CollectorFits(c) == Host(c, Collector(c)) /\ Collector(c) \notin Allocated(c)

\* The checks of TopologyManifest: management addresses, data addresses and
\* router ids are unique and links and clients refer to devices that exist.
ManifestValid(c, f) ==
    LET known == DOMAIN f.switch \cup Named("client", Clients(c))
        offsets == {f.switch[d].mgmt : d \in DOMAIN f.switch} \cup {ClientOffset(c, i) : i \in 1 .. Clients(c)}
    IN  /\ Cardinality(offsets) = Cardinality(known)
        /\ \A i, j \in DOMAIN f.access : i # j => f.access[i] # f.access[j]
        /\ \A d, e \in DOMAIN f.switch : d # e => f.switch[d].router # f.switch[e].router
        /\ \A x \in f.links : {x[1][1], x[2][1]} \subseteq known
        /\ Named(RackRole(c), Racks(c)) \subseteq DOMAIN f.switch

\* FabricPlan.__post_init__: no port carries two links and a switch has all its
\* required ports wired.
WellFormed(f) ==
    /\ \A x, y \in f.links : x # y => {x[1], x[2]} \cap {y[1], y[2]} = {}
    /\ \A d \in DOMAIN f.switch :
          Cardinality({x \in f.links : d \in {x[1][1], x[2][1]}}) = f.switch[d].ports

NoFabric == [switch |-> <<>>, links |-> {}, access |-> <<>>, collector |-> 0]

Fabric(c) ==
    LET w == IF IsClos(c) THEN <<>> ELSE Wiring(c)
    IN  [switch |-> [d \in Switches(c) |-> PlanOf(c, w, d)],
         links |-> Links(c, w),
         access |-> [i \in 1 .. Clients(c) |-> Access(((i - 1) \div c.clients) + 1, ((i - 1) % c.clients) + 1, 2)],
         collector |-> Collector(c)]

FabricInit == config \in Configs /\ stage = "config" /\ fabric = NoFabric

\* build_clos_plan or build_fat_tree_plan up to the manifest; ValueError on any check.
Build ==
    /\ stage = "config"
    /\ LET fits == /\ Valid(config)
                   /\ \A o \in Allocated(config) : Host(config, o)
                   /\ CollectorFits(config)
           built == Fabric(config)
       IN  IF fits /\ ManifestValid(config, built) /\ WellFormed(built)
           THEN stage' = "built" /\ fabric' = built
           ELSE stage' = "rejected" /\ fabric' = fabric
    /\ UNCHANGED config
-----------------------------------------------------------------------------

Built == stage \in {"built", "compiled"}
SwitchOf(p) == p[1]
AddressOf(p) == fabric.switch[SwitchOf(p)].interfaces[p[2]]
\* links between two switches, in both directions
FabricLinks == {x \in fabric.links : SwitchOf(x[2])[1] # "client"}
Directed == FabricLinks \cup {<<x[2], x[1]>> : x \in FabricLinks}

(***************************************************************************)
(* Links, addresses and sessions agree: the BGP neighbours of a switch are *)
(* exactly the switches its ports are wired to, each named by the address  *)
(* of the port at the other end and by that switch's own AS number, and no *)
(* two ends of one session are in the same AS.                             *)
(***************************************************************************)
SessionsMatchLinks ==
    Built => LET wires == Directed IN \A d \in DOMAIN fabric.switch :
        LET far == {x[2] : x \in {y \in wires : SwitchOf(y[1]) = d}}
        IN  /\ fabric.switch[d].neighbors = {<<AddressOf(p), fabric.switch[SwitchOf(p)].asn>> : p \in far}
            /\ \A p \in far : fabric.switch[SwitchOf(p)].asn # fabric.switch[d].asn

(***************************************************************************)
(* One subnet per link: the two ends of a link are the two hosts of a /30, *)
(* and no other port or client of the fabric has an address in it.         *)
(***************************************************************************)
SubnetPerLink ==
    Built =>
        LET end(p) == IF SwitchOf(p)[1] = "client" THEN fabric.access[SwitchOf(p)[2]] ELSE AddressOf(p)
            net(a) == <<a[1], a[2], a[3], IF a[1] = 192 THEN a[4] \div 4 ELSE 0>>
            host(a) == IF a[1] = 192 THEN a[4] % 4 ELSE a[4]
        IN  \A x \in fabric.links :
                /\ net(end(x[1])) = net(end(x[2]))
                /\ {host(end(x[1])), host(end(x[2]))} = {1, 2}
                /\ \A y \in fabric.links \ {x} : net(end(y[1])) # net(end(x[1]))

(***************************************************************************)
(* A fabric that fits is built: the checks of the manifest and of the plan *)
(* reject nothing that the validation of the configuration let through,    *)
(* and the default collector never lands on a device while an address      *)
(* above the devices is free.                                              *)
(***************************************************************************)
ValidIsBuilt ==
    (stage = "rejected" /\ fabric = NoFabric) =>
        \/ ~Valid(config)
        \/ config.collector # 0
        \/ ~Host(config, LastOffset(config) + 1)

(***************************************************************************)
(* No single point of failure: where a rack switch has two uplinks, the    *)
(* loss of any one switch above the racks leaves every pair of racks       *)
(* connected.                                                              *)
(***************************************************************************)
Redundant ==
    (Built /\ (IF IsClos(config) THEN config.spines ELSE Half(config)) >= 2) =>
        LET edges == {<<SwitchOf(x[1]), SwitchOf(x[2])>> : x \in Directed}
        IN  \A lost \in {d \in DOMAIN fabric.switch : d[1] # RackRole(config)} :
            LET kept == {e \in edges : lost \notin {e[1], e[2]}}
                reach[n \in 0 .. 6] ==
                    IF n = 0 THEN {Pair(RackRole(config), 1)}
                    ELSE LET sofar == reach[n - 1] IN sofar \cup {e[2] : e \in {f \in kept : f[1] \in sofar}}
            IN  Named(RackRole(config), Racks(config)) \subseteq reach[6]
=============================================================================
