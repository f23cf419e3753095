------------------------------ MODULE MCRouteRun ------------------------------
(* Small instances of RouteRun for TLC. *)
EXTENDS RouteRun

CONSTANTS a, b, w1, w2
=============================================================================
