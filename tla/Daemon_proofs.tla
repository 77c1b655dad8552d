---------------------------- MODULE Daemon_proofs ----------------------------
(***************************************************************************)
(* Proofs about Daemon: its types, that Run never waits without a watch    *)
(* loop or the error of one, and that it does not return under a pass.     *)
(* They rest on one more fact: an error on watchErrs is that of a          *)
(* goroutine that is over.                                                 *)
(***************************************************************************)
EXTENDS Daemon, TLAPS

Inv ==
    /\ TypeOK
    /\ NoSilentDeath
    /\ watchErrs => watch = "over"

LEMMA InvInit == Init => Inv
BY DEF Init, Inv, TypeOK, NoSilentDeath, Mains

LEMMA DieInv ==
    ASSUME Inv, NEW how \in {"none", "failure", "signal", "kill"}, Die(how),
           unit' \in {"inactive", "active", "stopping"}
    PROVE  Inv'
BY DEF Inv, TypeOK, NoSilentDeath, Die, Mains

LEMMA NewProcessInv ==
    ASSUME Inv, NewProcess, unit' \in {"inactive", "active", "stopping"}
    PROVE  Inv'
BY DEF Inv, TypeOK, NoSilentDeath, NewProcess, Mains

LEMMA DeliverInv ==
    ASSUME Inv, Deliver, unit' \in {"inactive", "active", "stopping"}
    PROVE  Inv'
<1>1. CASE notify
  BY <1>1 DEF Deliver, Inv, TypeOK, NoSilentDeath
<1>2. CASE ~notify
  BY <1>2, DieInv DEF Deliver
<1> QED BY <1>1, <1>2

LEMMA InvStep == Inv /\ [Next]_vars => Inv'
<1> SUFFICES ASSUME Inv, [Next]_vars PROVE Inv'
  OBVIOUS
<1>0. unit \in {"inactive", "active", "stopping"}
  BY DEF Inv, TypeOK
<1>1. CASE Signal
  BY <1>0, <1>1, DeliverInv DEF Signal
<1>2. CASE Handling
  <2>1. CASE HandleSignal
    BY <2>1 DEF HandleSignal, Inv, TypeOK, NoSilentDeath
  <2>2. CASE StopNotify
    BY <2>2 DEF StopNotify, Inv, TypeOK, NoSilentDeath
  <2> QED BY <1>2, <2>1, <2>2 DEF Handling
<1>3. CASE SignalContext
  BY <1>3 DEF SignalContext, Inv, TypeOK, NoSilentDeath, Mains, Stages
<1>4. CASE NoTemplates \/ StageFails \/ SelectErr \/ Wait
  <2>1. Die("failure") /\ UNCHANGED unit
    BY <1>4 DEF NoTemplates, StageFails, SelectErr, Wait
  <2> QED BY <1>0, <2>1, DieInv
<1>5. CASE StageDone
  <2>1. main \in Stages \ {"apply"} /\ main' \in Stages
    BY <1>5 DEF StageDone, After, Stages
  <2> QED BY <1>5, <2>1 DEF StageDone, sigs, Inv, TypeOK, NoSilentDeath, Mains, Stages
<1>6. CASE Spawn
  BY <1>6 DEF Spawn, sigs, Inv, TypeOK, NoSilentDeath, Mains, Stages
<1>7. CASE EnterSelect \/ SelectDone
  BY <1>7 DEF EnterSelect, SelectDone, sigs, Inv, TypeOK, NoSilentDeath, Mains
<1>8. CASE PassBegins \/ PassEnds \/ WatchFails
  BY <1>8 DEF PassBegins, PassEnds, WatchFails, sigs, Inv, TypeOK, NoSilentDeath
<1>9. CASE Report \/ WatchDone
  BY <1>9 DEF Report, WatchDone, sigs, Inv, TypeOK, NoSilentDeath
<1>10. CASE StartUnit \/ Restart
  BY <1>0, <1>10, NewProcessInv DEF StartUnit, Restart
<1>11. CASE StopUnit
  BY <1>11, DeliverInv DEF StopUnit
<1>12. CASE StopTimeout \/ Kill \/ Reboot
  BY <1>0, <1>12, DieInv DEF StopTimeout, Kill, Reboot
<1>13. CASE UnitEnds
  BY <1>13 DEF UnitEnds, sigs, Inv, TypeOK, NoSilentDeath
<1>14. CASE UNCHANGED vars
  BY <1>14 DEF vars, sigs, Inv, TypeOK, NoSilentDeath
<1> QED BY <1>1, <1>2, <1>3, <1>4, <1>5, <1>6, <1>7, <1>8, <1>9, <1>10, <1>11,
           <1>12, <1>13, <1>14 DEF Next, Starting, Running, Watching, Systemd

\* Every variable keeps a value the program can give it; in particular the
\* goroutine of the watch loop is there exactly when the services have been
\* applied.
THEOREM TypeCorrect == Spec => []TypeOK
<1>1. Inv => TypeOK
  BY DEF Inv
<1> QED BY <1>1, InvInit, InvStep, PTL DEF Spec

\* Run waits in its select only beside a watch loop that works, or with the
\* error of one that has failed before it.
THEOREM NoSilentDeathHolds == Spec => []NoSilentDeath
<1>1. Inv => NoSilentDeath
  BY DEF Inv
<1> QED BY <1>1, InvInit, InvStep, PTL DEF Spec

\* Both ways out of Run, the error of the watch loop and the end of wg.Wait,
\* leave the goroutine of the watch loop at its end.
THEOREM ReturnsAfterWatchHolds == Spec => ReturnsAfterWatch
<1> DEFINE Returns == main \in {"select", "wait"} /\ main' = "none" /\ death' = "failure"
<1>1. ASSUME Inv, [Next]_vars
      PROVE  [Returns => watch = "over"]_vars
  <2> SUFFICES ASSUME Next, Returns PROVE watch = "over"
    BY <1>1
  <2>1. CASE SelectErr \/ Wait
    BY <1>1, <2>1 DEF SelectErr, Wait, Inv
  <2>2. CASE Signal \/ StopUnit \/ StopTimeout \/ Kill \/ Reboot
    BY <2>2 DEF Signal, StopUnit, StopTimeout, Kill, Reboot, Deliver, Die
  <2>3. CASE Handling \/ EnterSelect \/ SelectDone \/ PassBegins \/ WatchFails \/ Watching
    BY <2>3 DEF Handling, HandleSignal, StopNotify, EnterSelect, SelectDone, PassBegins,
                WatchFails, Watching, Report, WatchDone, PassEnds
  <2>4. CASE Starting
    BY <2>4 DEF Starting, SignalContext, NoTemplates, StageDone, StageFails, Spawn, Stages
  <2>5. CASE StartUnit \/ Systemd
    BY <2>5 DEF StartUnit, Systemd, Restart, UnitEnds, NewProcess, Alive
  <2> QED BY <2>1, <2>2, <2>3, <2>4, <2>5 DEF Next, Running
<1> QED BY <1>1, InvInit, InvStep, PTL DEF Spec, ReturnsAfterWatch
=============================================================================
