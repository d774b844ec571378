----------------------------- MODULE Simulation ----------------------------
(***************************************************************************)
(* The four networks of examples/example_simulation.c, as the Router is to *)
(* build them.  A port is named by the neighbour it leads to.  Each test   *)
(* of the example prints how many messages a node has received, and how    *)
(* many it expects: one, everywhere.                                       *)
(***************************************************************************)
EXTENDS Router, TLC

CONSTANTS Root, A, B, C, D, E, F    \* node ids 0x10 and 0x01 to 0x06

\* sim_connect: every cable makes two nodes neighbours.
Connected(cables) == [n \in Nodes |-> {m \in Nodes : {n, m} \in cables /\ n # m}]

\* A table that leads to all these nodes through one port.
Via(port, dests) == [d \in dests |-> port]

\* Nodes of the example that take no part have no table.
Tables(routes) == routes @@ [n \in Nodes |-> Via(None, {})]

\* test_star: B, C and D around a centre.
Star ==
    LET leaf == Via(Root, {Root, B, C, D}) IN
    [ttl |-> 8, sends |-> {<<B, C>>},
     wires |-> Connected({{Root, B}, {Root, C}, {Root, D}}),
     routes |-> Tables((Root :> (B :> B @@ C :> C @@ D :> D))
                       @@ (B :> leaf) @@ (C :> leaf) @@ (D :> leaf))]

\* test_chain: A - B - C - D, and a message from end to end.
Chain ==
    [ttl |-> 8, sends |-> {<<A, D>>},
     wires |-> Connected({{A, B}, {B, C}, {C, D}}),
     routes |-> Tables((A :> Via(B, {B, C, D}))
                       @@ (B :> (A :> A @@ C :> C @@ D :> C))
                       @@ (C :> (A :> B @@ B :> B @@ D :> D))
                       @@ (D :> Via(C, {A, B, C})))]

\* test_tree: B over D and E, C over F, both under the root; from one subtree to the
\* other.
Tree ==
    LET all == {Root, B, C, D, E, F} IN
    [ttl |-> 8, sends |-> {<<D, F>>},
     wires |-> Connected({{Root, B}, {Root, C}, {B, D}, {B, E}, {C, F}}),
     routes |-> Tables((Root :> (Via(B, {B, D, E}) @@ Via(C, {C, F})))
                       @@ (B :> (D :> D @@ E :> E @@ Via(Root, {Root, C, F})))
                       @@ (C :> (F :> F @@ Via(Root, {Root, B, D, E})))
                       @@ (D :> Via(B, all)) @@ (E :> Via(B, all)) @@ (F :> Via(C, all)))]

\* test_ring: A - B - C - D - A and a diagonal from A to C; a message to D and a
\* broadcast, both from A.
Ring ==
    [ttl |-> 8, sends |-> {<<A, D>>, <<A, All>>},
     wires |-> Connected({{A, B}, {B, C}, {C, D}, {D, A}, {A, C}}),
     routes |-> Tables((A :> (B :> B @@ C :> C @@ D :> D))
                       @@ (B :> (A :> A @@ Via(C, {C, D})))
                       @@ (C :> (A :> A @@ B :> B @@ D :> D))
                       @@ (D :> (A :> A @@ Via(C, {B, C}))))]
=============================================================================
