------------------------------ MODULE MCStartup ------------------------------
(***************************************************************************)
(* Startup with values for TLC: the smaller tier is the one that fits, and *)
(* the stack of the greater one does not fit the word; a directory has both *)
(* tiers and no template for client, one tier and a template that cannot   *)
(* be parsed, or no common.conf.                                           *)
(***************************************************************************)
EXTENDS Startup, TLC

TwoTiers == {1, 4}
TierLimits == (1 :> [nofile |-> 10, stack |-> 2, nrOpen |-> 12])
                @@ (4 :> [nofile |-> 20, stack |-> 20, nrOpen |-> 20])
ThreeDirectories ==
    {[common |-> TRUE, tiers |-> {1, 4}, modes |-> {"server", "aggregate"}, bad |-> {}],
     [common |-> TRUE, tiers |-> {4}, modes |-> {"client", "server"}, bad |-> {"client"}],
     [common |-> FALSE, tiers |-> {1}, modes |-> {"client"}, bad |-> {}]}
=============================================================================
