------------------------------ MODULE Router -------------------------------
(***************************************************************************)
(* A network of routers, sources/router/route_router.c: broadcasts flooded *)
(* under a hop limit and a table of broadcasts already seen, unicast       *)
(* frames forwarded along static routes.  The application registers ports  *)
(* and routes before the traffic begins, as the examples do.               *)
(*                                                                         *)
(* A port of a node is named by the neighbour it leads to; a link holds    *)
(* what the sender's port has put out and the receiver has not yet handled *)
(* (the wire and the receive queue).  A frame is its header and the number *)
(* of the message it carries.                                              *)
(***************************************************************************)
EXTENDS Integers, Sequences, FiniteSets

CONSTANTS
    Nodes,
    Networks,       \* what the application builds, one of these: records of
                    \* wires  (the neighbours of each node)
                    \* routes (of each node: a port for each destination it knows)
                    \* ttl    (the ttl a message starts with)
                    \* sends  (who may send to whom)
    None,
    All,            \* ROUTE_BROADCAST_ADDR
    MaxPorts,       \* cfg_max_ports
    MaxNodes,       \* cfg_max_nodes
    SeenSize,       \* cfg_seen_table_size
    SeenExpire,     \* cfg_seen_expire_ms
    SeqMod,         \* values of the uint8_t sequence number
    TimeMod,        \* values of the uint32_t clock
    LinkSize,       \* frames a link and the queue behind it hold
    MaxSends,       \* bound on the messages sent
    QuietTick       \* time passes only while no frame is in flight: transit is
                    \* short against seen_expire_ms

Links   == {l \in Nodes \X Nodes : l[1] # l[2]}
Entries == 0..(SeenSize - 1)
Ids     == 1..MaxSends

ASSUME NetworkAssumption ==
    /\ All \notin Nodes /\ None \notin Nodes
    /\ \A w \in Networks :
          /\ w.wires \in [Nodes -> SUBSET Nodes] /\ DOMAIN w.routes = Nodes
          /\ \A n \in Nodes :
                /\ n \notin w.wires[n] /\ Cardinality(w.wires[n]) <= MaxPorts
                /\ Cardinality(DOMAIN w.routes[n]) <= MaxNodes
          /\ w.ttl \in Nat /\ w.sends \subseteq Nodes \X (Nodes \cup {All})
ASSUME SizeAssumption ==
    /\ MaxPorts \in Nat /\ MaxNodes \in Nat /\ SeenSize \in Nat \ {0} /\ SeenExpire \in Nat \ {0}
    /\ SeqMod \in Nat \ {0} /\ TimeMod \in Nat \ {0}
    /\ LinkSize \in Nat /\ MaxSends \in Nat /\ QuietTick \in BOOLEAN

VARIABLES
    network,                    \* the network that is built
    ports, route_table,         \* of each node
    seen_table, seen_index,     \* of each node
    current_ms,                 \* written by the tick, the same at every node
    link,                       \* the frames on each link
    sends,                      \* history: the messages sent, in order
    delivered                   \* history: how often each node delivered each

config == <<network, ports, route_table>>
vars   == <<config, seen_table, seen_index, current_ms, link, sends, delivered>>

Init ==
    /\ network \in Networks
    /\ ports = [n \in Nodes |-> {}]
    /\ route_table = [n \in Nodes |-> [d \in {} |-> None]]
    /\ seen_table = [n \in Nodes |-> [e \in Entries |->
                        [valid |-> FALSE, src |-> None, seq |-> 0, timestamp_ms |-> 0]]]
    /\ seen_index = [n \in Nodes |-> 0]
    /\ current_ms = 0
    /\ link = [l \in Links |-> <<>>]
    /\ sends = <<>>
    /\ delivered = [n \in Nodes |-> [m \in Ids |-> 0]]

-----------------------------------------------------------------------------
(* Configuration.                                                          *)

\* route_router_port_register
PortRegister(n, m) ==
    /\ m \in network.wires[n] \ ports[n]
    /\ Cardinality(ports[n]) < MaxPorts
    /\ ports' = [ports EXCEPT ![n] = @ \cup {m}]
    /\ UNCHANGED <<network, route_table, seen_table, seen_index, current_ms, link,
                   sends, delivered>>

\* route_router_table_set, once the ports are there.
TableSet(n) ==
    /\ ports[n] = network.wires[n]
    /\ route_table[n] # network.routes[n]
    /\ Cardinality(DOMAIN network.routes[n]) <= MaxNodes
    /\ route_table' = [route_table EXCEPT ![n] = network.routes[n]]
    /\ UNCHANGED <<network, ports, seen_table, seen_index, current_ms, link,
                   sends, delivered>>

\* The traffic begins when every node is configured.
Built == ports = network.wires /\ route_table = network.routes

-----------------------------------------------------------------------------
(* router_seen_check_and_add                                               *)

\* (int32_t)(now - timestamp_ms) >= (int32_t)seen_expire_ms
Expired(e) == LET age == (current_ms - e.timestamp_ms) % TimeMod
              IN  age < TimeMod \div 2 /\ age >= SeenExpire

Remembers(e, f) == e.valid /\ ~Expired(e) /\ e.src = f.src /\ e.seq = f.seq

\* Mutant: only the places before the index are looked at.
SeenBelowIndex(n, f) ==
    \E i \in Entries : i < seen_index[n] /\ Remembers(seen_table[n][i], f)

Seen(n, f) == \E i \in Entries : Remembers(seen_table[n][i], f)

\* The loop drops the expired entries it passes; it stops at the one it finds.
Purged(n, f) ==
    [i \in Entries |->
        LET e == seen_table[n][i] IN
        IF Expired(e) /\ \A j \in Entries : j < i => ~Remembers(seen_table[n][j], f)
        THEN [e EXCEPT !.valid = FALSE] ELSE e]

\* Mutant: always over the first entry.
WritesAtFirst(n, table, i) == i = 0

\* Where a new entry goes: the first free place, or else over the entry the index
\* is at.
WritesAt(n, table, i) ==
    \/ ~table[i].valid /\ \A j \in Entries : j < i => table[j].valid
    \/ i = seen_index[n] /\ \A j \in Entries : table[j].valid

\* Mutant: the index runs off the end.
AdvanceUnwrapped(i) == i + 1

Advance(i) == IF i = SeenSize - 1 THEN 0 ELSE i + 1

\* The whole of router_seen_check_and_add for a frame, found or not.
SeenCheckAndAdd(n, f) ==
    IF Seen(n, f)
    THEN /\ seen_table' = [seen_table EXCEPT ![n] = Purged(n, f)]
         /\ UNCHANGED seen_index
    ELSE \E i \in Entries :
         /\ WritesAt(n, Purged(n, f), i)
         /\ seen_table' = [seen_table EXCEPT ![n] = [Purged(n, f) EXCEPT ![i] =
                [valid |-> TRUE, src |-> f.src, seq |-> f.seq, timestamp_ms |-> current_ms]]]
         /\ seen_index' = [seen_index EXCEPT ![n] = IF i = @ THEN Advance(i) ELSE @]

-----------------------------------------------------------------------------
(* Links.                                                                  *)

\* f is put out on the ports of n to the nodes of ps; a port whose link is full
\* refuses it, which the router only counts.
Sent(links, n, ps, f) ==
    [l \in Links |-> IF l[1] = n /\ l[2] \in ps \cap ports[n] /\ Len(links[l]) < LinkSize
                     THEN Append(links[l], f) ELSE links[l]]

\* n takes the first frame of the link from m.
Arrives(n, m) == <<m, n>> \in Links /\ link[<<m, n>>] # <<>>
Frame(n, m)   == Head(link[<<m, n>>])
Taken(n, m)   == [link EXCEPT ![<<m, n>>] = Tail(@)]

\* router_lookup
Knows(n, d) == d \in DOMAIN route_table[n]

Deliver(n, f) == delivered' = [delivered EXCEPT ![n][f.id] = @ + 1]

-----------------------------------------------------------------------------
(* route_router_send                                                       *)

\* A node numbers its broadcasts, and apart from them its requests, one by one.
SeqOf(n, dst) ==
    Cardinality({k \in DOMAIN sends : sends[k].src = n /\ (sends[k].dst = All <=> dst = All)})
        % SeqMod

Message(n, dst) ==
    [id |-> Len(sends) + 1, src |-> n, seq |-> SeqOf(n, dst), dst |-> dst, ttl |-> network.ttl]

SendBroadcast(n) ==
    LET f == Message(n, All) IN
    /\ Built /\ Len(sends) < MaxSends /\ <<n, All>> \in network.sends
    /\ SeenCheckAndAdd(n, f)
    /\ link' = Sent(link, n, ports[n], f)
    /\ sends' = Append(sends, f)
    /\ UNCHANGED <<config, current_ms, delivered>>

SendUnicast(n, d) ==
    LET f == Message(n, d) IN
    /\ Built /\ Len(sends) < MaxSends /\ <<n, d>> \in network.sends
    /\ Knows(n, d)
    /\ link' = Sent(link, n, {route_table[n][d]}, f)
    /\ sends' = Append(sends, f)
    /\ UNCHANGED <<config, seen_table, seen_index, current_ms, delivered>>

-----------------------------------------------------------------------------
(* router_handle_frame                                                     *)

\* The hop limit is looked at before the destination.
DropTtl(n, m) ==
    /\ Arrives(n, m)
    /\ Frame(n, m).ttl = 0
    /\ link' = Taken(n, m)
    /\ UNCHANGED <<config, seen_table, seen_index, current_ms, sends, delivered>>

IsBroadcast(n, m) == Arrives(n, m) /\ Frame(n, m).ttl > 0 /\ Frame(n, m).dst = All

DropSeen(n, m) ==
    /\ IsBroadcast(n, m)
    /\ Seen(n, Frame(n, m))
    /\ SeenCheckAndAdd(n, Frame(n, m))
    /\ link' = Taken(n, m)
    /\ UNCHANGED <<config, current_ms, sends, delivered>>

\* Mutants: the last hop is not used; a hop is not counted.
FloodPortsShort(n, m, f) == IF f.ttl > 2 THEN ports[n] \ {m} ELSE {}
HopUncounted(f) == f

\* A frame on its next hop.
Hop(f) == [f EXCEPT !.ttl = @ - 1]

\* Hop limit permitting, a new broadcast goes to every port but the one it came
\* from, and then up.
FloodPorts(n, m, f) == IF f.ttl > 1 THEN ports[n] \ {m} ELSE {}

Flood(n, m) ==
    LET f == Frame(n, m) IN
    /\ IsBroadcast(n, m)
    /\ ~Seen(n, f)
    /\ SeenCheckAndAdd(n, f)
    /\ link' = Sent(Taken(n, m), n, FloodPorts(n, m, f), Hop(f))
    /\ Deliver(n, f)
    /\ UNCHANGED <<config, current_ms, sends>>

IsUnicast(n, m) == Arrives(n, m) /\ Frame(n, m).ttl > 0 /\ Frame(n, m).dst # All

Receive(n, m) ==
    /\ IsUnicast(n, m)
    /\ Frame(n, m).dst = n
    /\ Deliver(n, Frame(n, m))
    /\ link' = Taken(n, m)
    /\ UNCHANGED <<config, seen_table, seen_index, current_ms, sends>>

DropNoRoute(n, m) ==
    /\ IsUnicast(n, m)
    /\ Frame(n, m).dst # n
    /\ ~Knows(n, Frame(n, m).dst)
    /\ link' = Taken(n, m)
    /\ UNCHANGED <<config, seen_table, seen_index, current_ms, sends, delivered>>

\* Forwarded by the table alone, if need be to the port the frame came from.
Forward(n, m) ==
    LET f == Frame(n, m) IN
    /\ IsUnicast(n, m)
    /\ f.dst # n
    /\ Knows(n, f.dst)
    /\ link' = Sent(Taken(n, m), n, {route_table[n][f.dst]}, Hop(f))
    /\ UNCHANGED <<config, seen_table, seen_index, current_ms, sends, delivered>>

Handle(n, m) == \/ DropTtl(n, m) \/ DropSeen(n, m) \/ Flood(n, m)
                \/ Receive(n, m) \/ DropNoRoute(n, m) \/ Forward(n, m)

-----------------------------------------------------------------------------
(* route_router_tick, and the specification.                               *)

Quiet == \A l \in Links : link[l] = <<>>

Tick ==
    /\ Built /\ (QuietTick => Quiet)
    /\ current_ms' = (current_ms + 1) % TimeMod
    /\ UNCHANGED <<config, seen_table, seen_index, link, sends, delivered>>

Next ==
    \/ \E n, m \in Nodes : PortRegister(n, m)
    \/ \E n \in Nodes : TableSet(n)
    \/ \E n \in Nodes : SendBroadcast(n)
    \/ \E n, d \in Nodes : SendUnicast(n, d)
    \/ \E n, m \in Nodes : Handle(n, m)
    \/ Tick

Spec == Init /\ [][Next]_vars

\* Every node polls its receive queue again and again.
FairSpec == Spec /\ \A n \in Nodes : WF_vars(\E m \in Nodes : Handle(n, m))

-----------------------------------------------------------------------------
(* Properties.                                                             *)

\* The tables hold what the code's types allow, and no more ports than there is room for.
TypeOK ==
    /\ ports \in [Nodes -> SUBSET Nodes]
    /\ \A n \in Nodes : Cardinality(ports[n]) <= MaxPorts
    /\ seen_table \in [Nodes -> [Entries ->
           [valid : BOOLEAN, src : Nodes \cup {None}, seq : 0..(SeqMod - 1),
            timestamp_ms : 0..(TimeMod - 1)]]]
    /\ seen_index \in [Nodes -> Entries]
    /\ current_ms \in 0..(TimeMod - 1)

\* As long as the table has room for the broadcasts under way, every node delivers
\* a broadcast at most once and its sender not at all, whatever copies reach them
\* over which paths; and a unicast frame is delivered to its destination alone.
DeliverOnce ==
    \A k \in DOMAIN sends : \A n \in Nodes :
        /\ delivered[n][k] <= 1
        /\ delivered[n][k] > 0 => n # sends[k].src /\ sends[k].dst \in {All, n}

\* A node never remembers a broadcast twice.
SeenUnique ==
    \A n \in Nodes : \A i, j \in Entries :
        LET e == seen_table[n][i]  d == seen_table[n][j] IN
        e.valid /\ d.valid /\ e.src = d.src /\ e.seq = d.seq => i = j

\* The nodes a frame reaches from n within so many hops along the routes to d.
Follows(n, d) ==
    LET at[h \in 0..network.ttl] ==
            CASE h = 0 -> n
              [] h > 0 /\ (at[h - 1] = d \/ ~Knows(at[h - 1], d)) -> at[h - 1]
              [] OTHER -> route_table[at[h - 1]][d]
    IN  at[network.ttl]

\* Message k is where it was sent to, if its destination is within the hop limit.
Arrived(k) ==
    LET f == sends[k] IN
    IF f.dst = All THEN \A n \in Nodes \ {f.src} : ports[n] # {} => delivered[n][k] > 0
    ELSE Follows(f.src, f.dst) = f.dst => delivered[f.dst][k] > 0

\* Every message gets through: a broadcast to all other nodes, a unicast frame to
\* a destination that the routes lead to within the hop limit.
GetsThrough == \A k \in Ids : k \in DOMAIN sends ~> k \in DOMAIN sends /\ Arrived(k)

\* Whatever the routes and however small the table, the network comes to rest:
\* no frame circulates for ever.
ComesToRest == <>[]Quiet
=============================================================================
