----------------------------- MODULE TrafficPlan -----------------------------
(***************************************************************************)
(* The standard background traffic of a fabric (platform/traffic:          *)
(* generator.py, planner.py, estimator.py).                                *)
(*                                                                         *)
(* Flows are admitted one by one, greedily, against budgets kept as        *)
(* running totals: flows out of and into a client, the packets a client    *)
(* sends and the packets each switch forwards.  A flow admitted is never   *)
(* withdrawn.  The finished matrix is estimated again from its flows and   *)
(* validated against the same limits before traffic is started.            *)
(*                                                                         *)
(* Rates are exact: one unit is 1/2856 packet per second, in which a UDP   *)
(* packet of 1428 bytes and a TCP packet of 1400 both have whole numbers.  *)
(* The switches over which a flow spreads evenly (all spines, the          *)
(* aggregation switches of a pod, all cores) carry equal load and are one  *)
(* group, whose total is compared with the limit times its width.          *)
(***************************************************************************)
EXTENDS Integers, FiniteSets, FiniteSetsExt

CONSTANTS
    Configs,          \* the topologies and limits to plan for
    FlowsPerClient,   \* 4
    ListenerPool,     \* 4: ports a client listens on
    BaseSwitchLimit   \* 1000

VARIABLES
    config,     \* [family, racks, clients per rack, width of groups, base, limit]
    stage,      \* "plan", "planned", "accepted" or "rejected"
    round,      \* round_index
    turn,       \* the client whose turn it is
    flows,      \* the admitted flows
    incoming,   \* incoming_flow_count
    clientPps,  \* client_pps
    switchPps   \* switch_pps, per group of switches

vars == <<config, stage, round, turn, flows, incoming, clientPps, switchPps>>

NoLimit == -1   \* switch_pps_limit is None
Unit == 2856

Clients == 1 .. config.racks * config.clients
RackOf(c) == ((c - 1) \div config.clients) + 1
PodOf(rack) == ((rack - 1) \div config.width) + 1
SentBy(c) == {f \in flows : f.src = c}

(***************************************************************************)
(* generator.py: the rate of a client shrinks with the limit of a switch,  *)
(* and is shared by its flows as bandwidths of whole kilobits per second.  *)
(***************************************************************************)
\* int(round(n / d)), halves to even
Rounded(n, d) ==
    LET q == n \div d
        r == 2 * (n % d)
    IN  IF r > d \/ (r = d /\ q % 2 = 1) THEN q + 1 ELSE q

MaxPpsPerClient ==
    IF config.limit = NoLimit THEN config.base
    ELSE Min({config.base, Max({1, Rounded(config.base * config.limit, BaseSwitchLimit)})})

PacketBytes == [udp |-> 1428, tcp |-> 1400]

Bandwidth_Megabits(proto) ==
    LET bits4 == Max({MaxPpsPerClient, 4}) * PacketBytes[proto] * 8
    IN  1000 * Max({bits4 \div 4000000, 1})

\* kbit/s; bits4 is four times the rate of one of four flows of at least 1 pps
Bandwidth(proto) ==
    LET bits4 == Max({MaxPpsPerClient, 4}) * PacketBytes[proto] * 8
    IN  IF bits4 >= 4000000 THEN 1000 * (bits4 \div 4000000)
        ELSE Max({bits4 \div 4000, 100})

\* estimate_flow_pps in units of 1/2856 packet per second
FlowPps(proto) == Bandwidth(proto) * 5 * (71400 \div PacketBytes[proto])

(***************************************************************************)
(* estimator.py: the load a flow adds to the switches of its path.         *)
(***************************************************************************)
Rack(r) == <<"rack", r>>
Pod(p) == <<"pod", p>>
Top == <<"top", 0>>
Groups == {Rack(r) : r \in 1 .. config.racks}
          \cup (IF config.family = "clos" THEN {Top} ELSE {Top} \cup {Pod(PodOf(r)) : r \in 1 .. config.racks})
Width(g) == CASE g[1] = "rack" -> 1
              [] g[1] = "pod" -> config.width
              [] OTHER -> IF config.family = "clos" THEN config.width ELSE config.width * config.width

\* switch_path_pps: both ends, then the spines, or the pods and the cores
PathPps(src, dst, pps) ==
    LET a == RackOf(src)
        b == RackOf(dst)
    IN  [g \in Groups |->
            CASE g = Rack(a) /\ a = b -> 2 * pps
              [] g \in {Rack(a), Rack(b)} /\ a # b -> pps
              [] config.family = "clos" /\ g = Top /\ a # b -> pps
              [] config.family = "fat-tree" /\ g \in {Pod(PodOf(a)), Pod(PodOf(b))} /\ a # b -> pps
              [] config.family = "fat-tree" /\ g = Top /\ PodOf(a) # PodOf(b) -> pps
              [] OTHER -> 0]

\* estimate_client_pps and estimate_switch_pps: from the flows of the plan
EstimatedClientPps(c) == MapThenSumSet(LAMBDA f : FlowPps(f.proto), SentBy(c))
EstimatedSwitchPps(g) == MapThenSumSet(LAMBDA f : PathPps(f.src, f.dst, FlowPps(f.proto))[g], flows)

(***************************************************************************)
(* planner.py                                                              *)
(***************************************************************************)
NextProtocol(src) == IF Cardinality(SentBy(src)) % 2 = 0 THEN "udp" ELSE "tcp"

\* admission_error, and the check of the listener pool before it
Admissible_SourceSide(src, dst) ==
    LET pps == FlowPps(NextProtocol(src))
    IN  /\ incoming[dst] < ListenerPool
        /\ Cardinality(SentBy(src)) < FlowsPerClient
        /\ incoming[dst] < FlowsPerClient
        /\ clientPps[src] + pps <= MaxPpsPerClient * Unit
        /\ config.limit = NoLimit
           \/ switchPps[Rack(RackOf(src))] + pps <= config.limit * Unit

Admissible(src, dst) ==
    LET pps == FlowPps(NextProtocol(src))
        path == PathPps(src, dst, pps)
    IN  /\ incoming[dst] < ListenerPool
        /\ Cardinality(SentBy(src)) < FlowsPerClient
        /\ incoming[dst] < FlowsPerClient
        /\ clientPps[src] + pps <= MaxPpsPerClient * Unit
        /\ config.limit = NoLimit
           \/ \A g \in Groups : path[g] > 0 => switchPps[g] + path[g] <= config.limit * Unit * Width(g)

\* candidate_pools: destinations the client does not send to yet
Pool(src, kind) ==
    {dst \in Clients \ ({src} \cup {f.dst : f \in SentBy(src)}) :
        (RackOf(src) # RackOf(dst)) <=> (kind = "cross")}

\* the first admissible candidate by incoming flows, then by distance after the client
CyclicRank(src, dst) == (dst - src) % Cardinality(Clients)
Preferred(src, S) ==
    CHOOSE d \in S : \A e \in S \ {d} :
        \/ incoming[d] < incoming[e]
        \/ incoming[d] = incoming[e] /\ CyclicRank(src, d) < CyclicRank(src, e)

Slot_OfSource(src, dst) == Cardinality(SentBy(src))
Slot(src, dst) == incoming[dst]   \* dst_port less listener_port_base

\* admit_flow
Admit(src, dst) ==
    LET proto == NextProtocol(src)
        path == PathPps(src, dst, FlowPps(proto))
    IN  /\ flows' = flows \cup {[src |-> src, dst |-> dst, slot |-> Slot(src, dst), proto |-> proto]}
        /\ clientPps' = [clientPps EXCEPT ![src] = @ + FlowPps(proto)]
        /\ incoming' = [incoming EXCEPT ![dst] = @ + 1]
        /\ switchPps' = [g \in Groups |-> switchPps[g] + path[g]]

PreferredPool == IF round < 3 THEN "cross" ELSE "intra"
FallbackPool == IF PreferredPool = "cross" THEN "intra" ELSE "cross"

\* The two calls of try_add_from_pool in a client's turn.
TryAdd_NoFallback(src) ==
    LET preferred == {d \in Pool(src, PreferredPool) : Admissible(src, d)}
    IN  IF preferred # {} THEN Admit(src, Preferred(src, preferred))
        ELSE UNCHANGED <<flows, incoming, clientPps, switchPps>>

TryAdd(src) ==
    LET preferred == {d \in Pool(src, PreferredPool) : Admissible(src, d)}
        fallback == {d \in Pool(src, FallbackPool) : Admissible(src, d)}
    IN  IF preferred # {} THEN Admit(src, Preferred(src, preferred))
        ELSE IF fallback # {} THEN Admit(src, Preferred(src, fallback))
        ELSE UNCHANGED <<flows, incoming, clientPps, switchPps>>

Turn ==
    /\ stage = "plan"
    /\ TryAdd(turn)
    /\ IF turn < Cardinality(Clients) THEN turn' = turn + 1 /\ UNCHANGED <<round, stage>>
       ELSE /\ turn' = 1
            /\ round' = round + 1
            /\ stage' = IF round + 1 < FlowsPerClient THEN "plan" ELSE "planned"
    /\ UNCHANGED config

\* validate_traffic_config, on the estimates the plan reports
Validate ==
    /\ stage = "planned"
    /\ stage' = IF /\ \A c \in Clients : EstimatedClientPps(c) <= MaxPpsPerClient * Unit
                   /\ config.limit = NoLimit
                      \/ \A g \in Groups : EstimatedSwitchPps(g) <= config.limit * Unit * Width(g)
                THEN "accepted" ELSE "rejected"
    /\ UNCHANGED <<config, round, turn, flows, incoming, clientPps, switchPps>>

Finished == stage \in {"accepted", "rejected"} /\ UNCHANGED vars

Init ==
    /\ config \in Configs
    /\ stage = "plan" /\ round = 0 /\ turn = 1 /\ flows = {}
    /\ incoming = [c \in Clients |-> 0]
    /\ clientPps = [c \in Clients |-> 0]
    /\ switchPps = [g \in Groups |-> 0]

Next == Turn \/ Validate \/ Finished
Spec == Init /\ [][Next]_vars

-----------------------------------------------------------------------------
(***************************************************************************)
(* Properties                                                              *)
(***************************************************************************)
\* setup_traffic generates and validates in a row, and a refusal fails the
\* scenario: the running totals the admission compares are never below what
\* the flows really put on a client or a switch.
GeneratedIsValid == stage # "rejected"

\* Every flow has a listener of its own: the flows into a destination have
\* different ports, the first of its pool without a gap, although each port
\* is computed from a counter before it is known that the flow is admitted.
OneListenerPerFlow ==
    \A dst \in Clients :
        LET into == {f \in flows : f.dst = dst}
        IN  {f.slot : f \in into} = 0 .. Cardinality(into) - 1 /\ Cardinality(into) <= ListenerPool

\* The one pass of each round gives up nothing: a client that ends with
\* fewer flows than it may have could admit no further destination.
\* Budgets only shrink, so a client refused once is refused for good.
NothingLeftToAdmit ==
    stage = "accepted" =>
        \A src \in Clients : Cardinality(SentBy(src)) < FlowsPerClient =>
            \A dst \in Clients \ {src} :
                \/ \E f \in SentBy(src) : f.dst = dst
                \/ Cardinality({f \in flows : f.dst = dst}) >= ListenerPool
                \/ EstimatedClientPps(src) + FlowPps(NextProtocol(src)) > MaxPpsPerClient * Unit
                \/ config.limit # NoLimit /\ \E g \in Groups :
                       EstimatedSwitchPps(g) + PathPps(src, dst, FlowPps(NextProtocol(src)))[g]
                           > config.limit * Unit * Width(g)

\* Where no switch is limited and the rate of a client is not below the
\* smallest bandwidth of four flows, every client sends, and receives, all
\* the flows it may: the greedy order never strands a client.
Balanced ==
    stage = "accepted" /\ config.limit = NoLimit /\ config.base >= 36 =>
        LET quota == Min({FlowsPerClient, Cardinality(Clients) - 1})
        IN  \A c \in Clients : Cardinality(SentBy(c)) = quota /\ incoming[c] = quota
=============================================================================
