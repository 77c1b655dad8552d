---------------------------- MODULE MCClassifier ----------------------------
(***************************************************************************)
(* Classifier with values for TLC: two links, one of them a tunnel by its  *)
(* name, enough indexes for one of them to come back.                      *)
(***************************************************************************)
EXTENDS Classifier

CONSTANTS ens1, wg0
=============================================================================
