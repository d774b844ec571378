----------------------------- MODULE MCRouter ------------------------------
(* Instances of Router for TLC: the networks of the example, and two that  *)
(* bring the hop limit and the size of the seen table to bear.             *)
EXTENDS Simulation

\* A ring in which a broadcast must use its last hop to reach the far corner; the
\* nodes know each other clockwise, but C does not know D.
Square ==
    [ttl |-> 2, sends |-> {A, B, D} \X {A, B, C, D, All},
     wires |-> Connected({{A, B}, {B, C}, {C, D}, {D, A}}),
     routes |-> Tables((A :> (B :> B @@ C :> B @@ D :> D))
                       @@ (B :> (A :> A @@ C :> C @@ D :> C))
                       @@ (C :> (A :> D @@ B :> B))
                       @@ (D :> (A :> A @@ B :> A @@ C :> C)))]

\* Three nodes, each a neighbour of the others: A and B each think that the other
\* leads to C.
Triangle ==
    [ttl |-> 3, sends |-> {A, B} \X {A, B, C, All},
     wires |-> Connected({{A, B}, {B, C}, {C, A}}),
     routes |-> Tables((A :> (B :> B @@ C :> B)) @@ (B :> (A :> A @@ C :> A))
                       @@ (C :> (A :> B @@ B :> A)))]

Examples == {Star, Chain, Tree, Ring, Square}
Looping  == {Triangle}
=============================================================================
