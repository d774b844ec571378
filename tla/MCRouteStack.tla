---------------------------- MODULE MCRouteStack ---------------------------
(* Instances of RouteStack for TLC.                                        *)
EXTENDS RouteStack

CONSTANTS first, second, server

Ask(k, n) == [id |-> k, src |-> n, dst |-> server]

\* Two nodes ask a third, one of them twice.
OneMore == {Ask(1, first), Ask(2, first), Ask(3, second)}

\* Two nodes ask a third, each once.
TwoClients == {Ask(1, first), Ask(2, second)}
=============================================================================
