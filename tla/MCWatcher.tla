----------------------------- MODULE MCWatcher ------------------------------
(***************************************************************************)
(* Watcher with values for TLC: two interfaces, queues of two events, so   *)
(* that they overflow, and four changes, so that one interface changes    *)
(* before, during and after a pass for the other.                          *)
(***************************************************************************)
EXTENDS Watcher

CONSTANTS eth0, eth1
=============================================================================
