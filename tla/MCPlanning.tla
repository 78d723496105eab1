----------------------------- MODULE MCPlanning -----------------------------
(****************************************************************************)
(* What is computed before a lab exists, for TLC: the plan of the fabric,    *)
(* the plan of its probes, the place of every fault of the catalogue, and    *)
(* the plan of background traffic.                                           *)
(****************************************************************************)
EXTENDS Integers

VARIABLES
    part,   \* the component that a behaviour is about
    \* its variables, in the order of its own declaration
    s1, s2, s3, s4, s5, s6, s7, s8, s9, s10, s11, s12, s13

vars == <<part, s1, s2, s3, s4, s5, s6, s7, s8, s9, s10, s11, s12, s13>>

\* Configurations: the fields of FabricPlan, of PingmeshPlan and of Placement.
Fields(family) ==
    [family |-> family, spines |-> 0, leafs |-> 0, k |-> 0, clients |-> 1,
     spineAsn |-> 1, leafAsn |-> 2, asn |-> 1, subnet |-> 64, collector |-> 0,
     pairs |-> 0, batch |-> 0, ports |-> 2, perCycle |-> 1, validation |-> FALSE]
Clos(s, l, c) == [Fields("clos") EXCEPT !.spines = s, !.leafs = l, !.clients = c]
FatTree(k, c) == [Fields("fat-tree") EXCEPT !.k = k, !.clients = c]

\* Addresses, ports and AS numbers of fabrics of any size around the limits.
FabricConfigs ==
    {[Clos(s, l, c) EXCEPT !.subnet = net, !.collector = col, !.spineAsn = asn] :
        s \in 1 .. 4, l \in 1 .. 4, c \in 1 .. 4, net \in {16, 32}, col \in {0, 7}, asn \in {0, 1, 3}}
    \cup {[FatTree(k, c) EXCEPT !.subnet = net, !.asn = asn] :
        k \in 2 .. 4, c \in 0 .. 3, net \in {32, 64}, asn \in {1, 50}}

\* Probe policies over fabrics with one to four racks of one to three clients.
PlanConfigs ==
    {[Clos(s, l, c) EXCEPT !.pairs = q, !.batch = b, !.ports = n, !.perCycle = m] :
        s \in 1 .. 2, l \in 1 .. 4, c \in 1 .. 3, q \in 0 .. 3, b \in {0, 2, 3}, n \in {1, 3, 4}, m \in 1 .. 2}
    \cup {[FatTree(4, c) EXCEPT !.pairs = q] : c \in 1 .. 2, q \in 0 .. 1}
    \cup {FatTree(2, 1)}

\* Fabrics of the shape of the packaged scales, to place faults in.
ClosShapes ==
    {[Clos(2, 2, 1) EXCEPT !.validation = TRUE, !.ports = 1]}
    \cup {[Clos(s, l, c) EXCEPT !.ports = 1] : s \in 1 .. 3, l \in 1 .. 4, c \in 1 .. 2}
FatShapes == {[FatTree(4, 2) EXCEPT !.ports = 1]}

\* Traffic under client rates and switch limits from ample to prohibitive.
NoLimit == -1
TrafficShape(family, r, c, w) == [family |-> family, racks |-> r, clients |-> c, width |-> w]
TrafficShapes ==
    {TrafficShape("clos", r, c, w) : r \in 1 .. 5, c \in 1 .. 4, w \in 1 .. 2}
    \cup {TrafficShape("fat-tree", 2, 1, 1), TrafficShape("fat-tree", 8, 1, 2), TrafficShape("fat-tree", 8, 2, 2)}
TrafficConfigs ==
    {[family |-> f.family, racks |-> f.racks, clients |-> f.clients, width |-> f.width, base |-> base, limit |-> limit] :
        f \in TrafficShapes, base \in {50, 250}, limit \in {NoLimit, 100, 300, 500, 1000}}

Fabric == INSTANCE PingmeshPlan WITH
    Octet <- 8, RackCapacity <- 3, FabricPool <- 16, AsnLow <- 1, AsnHigh <- 40,
    FirstOffset <- 4, PreferredOffset <- 12, MinWitnesses <- 1, PortPool <- 3,
    Configs <- FabricConfigs, config <- s1, stage <- s2, fabric <- s3, plan <- s4
Probe == INSTANCE PingmeshPlan WITH
    Octet <- 8, RackCapacity <- 3, FabricPool <- 16, AsnLow <- 1, AsnHigh <- 40,
    FirstOffset <- 4, PreferredOffset <- 12, MinWitnesses <- 1, PortPool <- 3,
    Configs <- PlanConfigs, config <- s1, stage <- s2, fabric <- s3, plan <- s4
Place == INSTANCE Placement WITH
    Octet <- 8, RackCapacity <- 3, FabricPool <- 16, AsnLow <- 1, AsnHigh <- 40,
    FirstOffset <- 4, PreferredOffset <- 12, MinWitnesses <- 1, PortPool <- 3,
    Configs <- ClosShapes, Seeds <- {0, 1, 2}, config <- s1, stage <- s2,
    fabric <- s3, plan <- s4, seed <- s5, adj <- s6, dist <- s7, paths <- s8,
    unit <- s9, order <- s10, uses <- s11, linkUses <- s12, placed <- s13
PlaceTree == INSTANCE Placement WITH
    Octet <- 8, RackCapacity <- 3, FabricPool <- 16, AsnLow <- 1, AsnHigh <- 40,
    FirstOffset <- 4, PreferredOffset <- 12, MinWitnesses <- 1, PortPool <- 3,
    Configs <- FatShapes, Seeds <- {0}, config <- s1, stage <- s2, fabric <- s3,
    plan <- s4, seed <- s5, adj <- s6, dist <- s7, paths <- s8, unit <- s9,
    order <- s10, uses <- s11, linkUses <- s12, placed <- s13
Traffic == INSTANCE TrafficPlan WITH
    Configs <- TrafficConfigs, FlowsPerClient <- 4, ListenerPool <- 4,
    BaseSwitchLimit <- 1000, config <- s1, stage <- s2, round <- s3, turn <- s4,
    flows <- s5, incoming <- s6, clientPps <- s7, switchPps <- s8

Init ==
    \/ part = "fabric" /\ Fabric!Init /\ s5 = 0 /\ s6 = 0 /\ s7 = 0 /\ s8 = 0 /\ s9 = 0 /\ s10 = 0 /\ s11 = 0 /\ s12 = 0 /\ s13 = 0
    \/ part = "probe" /\ Probe!Init /\ s5 = 0 /\ s6 = 0 /\ s7 = 0 /\ s8 = 0 /\ s9 = 0 /\ s10 = 0 /\ s11 = 0 /\ s12 = 0 /\ s13 = 0
    \/ part = "place" /\ Place!PlaceInit
    \/ part = "place_tree" /\ PlaceTree!PlaceInit
    \/ part = "traffic" /\ Traffic!Init /\ s9 = 0 /\ s10 = 0 /\ s11 = 0 /\ s12 = 0 /\ s13 = 0

FabricWorks == part = "fabric" /\ Fabric!Next /\ UNCHANGED <<part, s5, s6, s7, s8, s9, s10, s11, s12, s13>>
ProbeWorks == part = "probe" /\ Probe!Next /\ UNCHANGED <<part, s5, s6, s7, s8, s9, s10, s11, s12, s13>>
PlaceWorks == part = "place" /\ Place!PlaceNext /\ UNCHANGED <<part>>
PlaceTreeWorks == part = "place_tree" /\ PlaceTree!PlaceNext /\ UNCHANGED <<part>>
TrafficWorks == part = "traffic" /\ Traffic!Next /\ UNCHANGED <<part, s9, s10, s11, s12, s13>>

Next ==
    \/ FabricWorks \/ ProbeWorks \/ PlaceWorks \/ PlaceTreeWorks
    \/ TrafficWorks

Spec == Init /\ [][Next]_vars
-----------------------------------------------------------------------------

\* A fabric that fits is built, and the checks of the manifest and of the plan
\* reject nothing that validation let through. The BGP neighbours of a switch
\* are exactly the switches its ports are wired to, each by the address and the
\* AS number of the other end; the two ends of a link are the hosts of a subnet
\* that nobody else is in; and where a rack switch has two uplinks, the loss of
\* any one switch above leaves all racks connected. Over one epoch a client
\* sends exactly one regular probe from every source port, and one DF probe in
\* every port batch, to every peer; the witness count of a link is the number of
\* probed pairs one of whose shortest paths uses it in that direction; and with
\* the default number of pairs every client probes, and is probed from, every
\* other rack.
FabricIsSoundAndCovered ==
    /\ part = "fabric" =>
           /\ Fabric!SessionsMatchLinks
           /\ Fabric!SubnetPerLink
           /\ Fabric!ValidIsBuilt
           /\ Fabric!Redundant
    /\ part = "probe" =>
           /\ Probe!EveryTaskOnce
           /\ Probe!WitnessesAreReal
           /\ Probe!EveryRackSeesEveryClient

\* Every necessary coverage unit finds a place, whatever the shuffle, and no
\* switch hosts two scenarios more than another of its role. The affected pairs
\* of a scenario are exactly the planned pairs whose probe or answer is traffic
\* of the fault and may pass the faulted place in the faulted direction, a
\* control is none of that traffic, and a filter leaves as many ways as its
\* unit names. The comparison of a validation fabric is excepted.
PlacedWhereItShows ==
    /\ part = "place" =>
           /\ Place!AffectedIsExact
           /\ Place!ControlsUntouched
           /\ Place!ScopeIsReal
           /\ Place!EveryUnitPlaced
           /\ Place!EvenlySpread
    /\ part = "place_tree" =>
           /\ PlaceTree!AffectedIsExact
           /\ PlaceTree!ControlsUntouched
           /\ PlaceTree!ScopeIsReal
           /\ PlaceTree!EveryUnitPlaced
           /\ PlaceTree!EvenlySpread

\* A generated plan passes the validation that follows it, so the running
\* totals of the admission are never below what the flows really load; every
\* flow has a listener of its own, although its port is computed before it is
\* admitted; a client with fewer flows than it may have could admit no further
\* one, and without switch limits no client is stranded.
TrafficIsAdmissible ==
    part = "traffic" =>
        /\ Traffic!GeneratedIsValid
        /\ Traffic!OneListenerPerFlow
        /\ Traffic!NothingLeftToAdmit
        /\ Traffic!Balanced
=============================================================================
