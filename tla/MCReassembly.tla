--------------------------- MODULE MCReassembly ----------------------------
(* Instances of Reassembly for TLC.                                        *)
EXTENDS Reassembly

\* The fragments of a message: n of one unit each.
Fragments(msg, src, seq, n) ==
    {[msg |-> msg, src |-> src, seq |-> seq, total |-> n, idx |-> k, len |-> 1] :
        k \in 0..(n - 1)}

\* Two long messages and a short one from one node, a message beyond MaxPayload
\* and two malformed fragments (an index beyond its total, a total beyond
\* MaxFrags) from another.
AllFrames ==
    Fragments("A", 1, 0, 3) \cup Fragments("B", 1, 1, 2) \cup Fragments("C", 1, 2, 1)
    \cup {[f EXCEPT !.len = 2] : f \in Fragments("D", 2, 0, 2)}
    \cup {[msg |-> "E", src |-> 2, seq |-> 1, total |-> 2, idx |-> 2, len |-> 1],
            [msg |-> "F", src |-> 2, seq |-> 2, total |-> 4, idx |-> 0, len |-> 1]}
=============================================================================
