--------------------------- MODULE MCReliability ---------------------------
(* Instances of Reliability for TLC.                                       *)
EXTENDS Reliability

CONSTANT b

\* A message of two fragments and one of one, for a table of two; the second has the
\* number of a broadcast that b hears.
TwoCalls == {[dest |-> b, seq |-> 0, total |-> 2], [dest |-> b, seq |-> 1, total |-> 1]}
=============================================================================
