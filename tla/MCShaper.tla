------------------------------ MODULE MCShaper ------------------------------
(***************************************************************************)
(* Shaper with values for TLC.  A machine has an interface with an IFB of  *)
(* its own beside a link that is skipped, or two interfaces that share an  *)
(* IFB.  The former asks for up to three signatures, one of them out of    *)
(* range, and its IFBs vanish; the settings of one of the others drift,    *)
(* and the deletion of their IFB may fail.                                 *)
(***************************************************************************)
EXTENDS Shaper, TLC

CONSTANTS eth0, eth1, eth2, veth0, ifb0, ifb1, ifbV, s1, s2, s3

AllIfbs == eth0 :> ifb0 @@ eth1 :> ifb1 @@ eth2 :> ifb1 @@ veth0 :> ifbV
AllAsk == eth0 :> {s1, s2, s3} @@ eth1 :> {s1} @@ eth2 :> {s1}

OneIfb == eth0 :> ifb0
OneAsks == eth0 :> {s1, s2}
=============================================================================
