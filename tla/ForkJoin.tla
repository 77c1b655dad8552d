------------------------------ MODULE ForkJoin -------------------------------
(***************************************************************************)
(* What applyToLinks of internal/traffic/shaper_apply.go promises its      *)
(* caller, without goroutines and channels: every link of the list is      *)
(* handled once, in any order, and when all of them have been, the links   *)
(* that failed are reported.  LinkPool is shown to implement it.           *)
(***************************************************************************)

VARIABLES
    tasks,    \* the links of the list.  Never changes.
    result,   \* what has become of each of them
    reported, \* applyToLinks has returned ...
    errors    \* ... the errors of these links

vars == <<tasks, result, reported, errors>>

Results == {"skipped", "ok", "failed"}

Init ==
    /\ result = [t \in tasks |-> "none"]
    /\ reported = FALSE
    /\ errors = {}

\* A link has one result, and keeps it.
Handle(t) ==
    /\ result[t] = "none"
    /\ \E r \in Results : result' = [result EXCEPT ![t] = r]
    /\ UNCHANGED <<tasks, reported, errors>>

\* Nothing is reported before the last link has been handled, and nothing is
\* left out.
Report ==
    /\ ~reported
    /\ \A t \in tasks : result[t] # "none"
    /\ reported' = TRUE
    /\ errors' = {t \in tasks : result[t] = "failed"}
    /\ UNCHANGED <<tasks, result>>

Next == (\E t \in tasks : Handle(t)) \/ Report

Spec == Init /\ [][Next]_vars

=============================================================================
