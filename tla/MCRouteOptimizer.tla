-------------------------- MODULE MCRouteOptimizer --------------------------
(***************************************************************************)
(* RouteOptimizer with values for TLC: an address, a destination with a    *)
(* route of several next hops and a default one, two devices and the       *)
(* windows of two templates.                                               *)
(***************************************************************************)
EXTENDS RouteOptimizer

CONSTANTS lo, eth0, cubic

OneAndTwo == <<"address", "net", "net">>
TwoTables == <<{"local"}, {"multipath"}, {"default"}>>
TwoWindows == {[cwnd |-> 4, rwnd |-> 7, loopback |-> 9],
               [cwnd |-> 1, rwnd |-> 7, loopback |-> 2]}
=============================================================================
