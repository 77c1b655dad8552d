------------------------------ MODULE WorkList -------------------------------
(***************************************************************************)
(* What the watch loop of internal/traffic/netlink_watcher.go promises,    *)
(* without subscriptions, queues and tickers: a list of interfaces to see  *)
(* to.  A change puts its interface on the list, passes take what is on    *)
(* the list when they start, and an interface leaves it only when a pass   *)
(* that has seen its last change is done with it.  Three things may lose   *)
(* an interface from the list: a change before both subscriptions are      *)
(* there, a failure, and the end.  Watcher is shown to implement it.       *)
(***************************************************************************)
CONSTANTS
    Names,    \* the interfaces
    Fallible  \* passes may fail

VARIABLES
    work,  \* what is to be done about each interface
    blind, \* not every change is heard of yet
    over   \* the loop has ended, or is going to

vars == <<work, blind, over>>

In(s) == {n \in Names : work[n] = s}
Put(S, s) == [n \in Names |-> IF n \in S THEN s ELSE work[n]]

\* The first pass is for every interface.
Init ==
    /\ work = [n \in Names |-> "claimed"]
    /\ blind = TRUE
    /\ over = FALSE

\* n changes.  A pass that has not listed the links yet will see it; one that
\* has, has seen n as it was, and n is to do again.  An event without a name
\* may bring back some that were lost.
Change(n) ==
    \E s \in {"todo", "claimed", "lost"}, S \in SUBSET In("lost") :
        /\ s = "lost" => blind \/ over'
        /\ work[n] = "claimed" => s = "claimed"
        /\ work' = [Put(S, "todo") EXCEPT ![n] = s]

\* So may an event whose interface is unknown.
Recover == \E S \in SUBSET In("lost") : work' = Put(S, "todo")

\* A pass starts for some of what is to do, one at a time ...
Claim ==
    /\ In("claimed") \cup In("taken") = {}
    /\ \E S \in SUBSET In("todo") : work' = Put(S, "claimed")

\* ... sees all of it as it is ...
Take == work' = Put(In("claimed"), "taken")

\* ... and is done with it.  What has failed is lost, unless an event for it
\* is still on its way.
Finish ==
    \E failed \in SUBSET In("taken") : \E S \in SUBSET failed :
        /\ failed # {} => Fallible \/ over
        /\ work' = [n \in Names |-> IF n \in S THEN "todo"
                                    ELSE IF n \in failed THEN "lost"
                                    ELSE IF work[n] = "taken" THEN "clean" ELSE work[n]]

\* A pass that cannot list the links forgets what it was for in the same way.
Fail ==
    /\ Fallible
    /\ \E S \in SUBSET In("claimed") :
         work' = [n \in Names |-> IF n \in S THEN "todo"
                                  ELSE IF work[n] = "claimed" THEN "lost" ELSE work[n]]

Next ==
    /\ blind' \in {blind, FALSE}
    /\ over' \in {over, TRUE}
    /\ \/ \E n \in Names : Change(n)
       \/ Recover \/ Claim \/ Take \/ Finish \/ Fail
       \/ UNCHANGED work

Spec == Init /\ [][Next]_vars

=============================================================================
