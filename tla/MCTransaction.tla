--------------------------- MODULE MCTransaction ---------------------------
(* Instances of Transaction for TLC.                                       *)
EXTENDS Transaction, TLC

CONSTANTS a1, a2, s1, s2, n1

\* Every call on a thread of its own.
OwnThread == [c \in Calls |-> c]

\* One application thread makes all calls, one after the other.
OneThread == [c \in Calls |-> 1]

\* The two synchronous calls differ in nothing but their names.
Callers == Permutations({s1, s2})
=============================================================================
