------------------------------- MODULE Daemon --------------------------------
(***************************************************************************)
(* The life of the daemon: main and signalContext of cmd/tcsss/main.go,    *)
(* Daemon.Run of internal/app/daemon.go with the goroutine of the watch    *)
(* loop, and the unit of systemd/tcsss.service that starts it, stops it    *)
(* and restarts it.                                                        *)
(*                                                                         *)
(* The four services of Run are one step each: they end with or without an *)
(* error (SysctlApply, Shaper and Watcher open them up).                   *)
(***************************************************************************)

CONSTANT PoolReturns   \* a pass ends.  FALSE for the source as it is, see LinkPool

ASSUME DaemonAssumption == PoolReturns \in BOOLEAN

VARIABLES
    unit,       \* systemd's view: inactive, active, stopping
    main,       \* where the main goroutine is
    death,      \* how the last process ended
    notify,     \* whether signals go to the channel: before signalContext and
                \* after signal.Stop they do not
    signals,    \* the channel, of capacity 1, holds a signal
    handler,    \* the goroutine of signalContext
    cancelled,  \* the context
    watch,      \* the goroutine of Run that calls Watch
    watchErrs   \* the channel, of capacity 1, holds an error

sigs == <<notify, signals, handler>>
vars == <<unit, main, death, sigs, cancelled, watch, watchErrs>>

Stages == {"validate", "sysctl", "limits", "rlimit", "apply"}
Mains == Stages \cup {"none", "init", "spawned", "select", "wait"}

NewProcess ==
    /\ main' = "init"
    /\ death' = "none"
    /\ notify' = FALSE
    /\ signals' = FALSE
    /\ handler' = "none"
    /\ cancelled' = FALSE
    /\ watch' = "none"
    /\ watchErrs' = FALSE

Init ==
    /\ unit = "inactive"
    /\ main = "none"
    /\ death = "none"
    /\ notify = FALSE
    /\ signals = FALSE
    /\ handler = "none"
    /\ cancelled = FALSE
    /\ watch = "none"
    /\ watchErrs = FALSE

Alive == main # "none"

\* The end of the process is the end of its goroutines.
Die(how) ==
    /\ death' = how
    /\ main' = "none"
    /\ notify' = FALSE
    /\ signals' = FALSE
    /\ handler' = "none"
    /\ watch' = "none"
    /\ watchErrs' = FALSE
    /\ cancelled' = FALSE

-----------------------------------------------------------------------------
(***************************************************************************)
(* Signals.                                                                *)
(***************************************************************************)

\* The runtime puts a signal on the channel and drops it when there is one; a
\* signal nobody is notified of ends the process.
Deliver ==
    IF notify THEN signals' = TRUE /\ UNCHANGED <<main, death, notify, handler, cancelled,
                                                  watch, watchErrs>>
    ELSE Die("signal")

\* SIGINT, SIGTERM or SIGHUP from anybody but systemd.
Signal == Alive /\ Deliver /\ UNCHANGED unit

\* signalContext: Notify, and the goroutine that waits for a signal ...
SignalContext ==
    /\ main = "init"
    /\ main' = "validate"
    /\ notify' = TRUE
    /\ handler' = "waiting"
    /\ UNCHANGED <<unit, death, signals, cancelled, watch, watchErrs>>

\* ... cancels the context ...
HandleSignal ==
    /\ handler = "waiting"
    /\ signals
    /\ signals' = FALSE
    /\ cancelled' = TRUE
    /\ handler' = "stopping"
    /\ UNCHANGED <<unit, main, death, notify, watch, watchErrs>>

\* ... and takes the notification back.
StopNotify ==
    /\ handler = "stopping"
    /\ notify' = FALSE
    /\ handler' = "over"
    /\ UNCHANGED <<unit, main, death, signals, cancelled, watch, watchErrs>>

-----------------------------------------------------------------------------
(***************************************************************************)
(* main and Run.                                                           *)
(***************************************************************************)
MutAfterRlimitFirst == [validate |-> "rlimit", rlimit |-> "sysctl", sysctl |-> "limits",
                        limits |-> "apply"]

After == [validate |-> "sysctl", sysctl |-> "limits", limits |-> "rlimit",
          rlimit |-> "apply"]

\* resolveTemplateDir finds no directory: the process ends before it would
\* handle signals.
NoTemplates ==
    /\ main = "init"
    /\ Die("failure")
    /\ UNCHANGED unit

\* The modules and the runtime are there; a service has been applied.
StageDone ==
    /\ main \in Stages \ {"apply"}
    /\ main' = After[main]
    /\ UNCHANGED <<unit, death, sigs, cancelled, watch, watchErrs>>

\* Any of them fails: Run returns the error and main exits with 1.
StageFails ==
    /\ main \in Stages
    /\ main = "apply" => PoolReturns
    /\ Die("failure")
    /\ UNCHANGED unit

\* TrafficManager.Apply is done, the goroutine is started.
Spawn ==
    /\ main = "apply"
    /\ PoolReturns
    /\ main' = "spawned"
    /\ watch' = "loop"
    /\ UNCHANGED <<unit, death, sigs, cancelled, watchErrs>>

EnterSelect ==
    /\ main = "spawned"
    /\ main' = "select"
    /\ UNCHANGED <<unit, death, sigs, cancelled, watch, watchErrs>>

MutSelectDoneReturns ==
    /\ main = "select"
    /\ cancelled
    /\ Die("failure")
    /\ UNCHANGED unit

MutSelectDoneForgotten ==
    /\ main = "select"
    /\ cancelled
    /\ watchErrs
    /\ main' = "wait"
    /\ UNCHANGED <<unit, death, sigs, cancelled, watch, watchErrs>>

\* The select of Run, when the context is done ...
SelectDone ==
    /\ main = "select"
    /\ cancelled
    /\ main' = "wait"
    /\ UNCHANGED <<unit, death, sigs, cancelled, watch, watchErrs>>

MutSelectErrReturnsNil ==
    /\ main = "select"
    /\ watchErrs
    /\ Die("success")
    /\ UNCHANGED unit

\* ... or when the watch loop has failed: Run returns its error.
SelectErr ==
    /\ main = "select"
    /\ watchErrs
    /\ Die("failure")
    /\ UNCHANGED unit

\* wg.Wait; Run returns the error of the context, which is an error for main.
Wait ==
    /\ main = "wait"
    /\ watch = "over"
    /\ Die("failure")
    /\ UNCHANGED unit

-----------------------------------------------------------------------------
(***************************************************************************)
(* The goroutine of the watch loop.                                        *)
(***************************************************************************)
PassBegins ==
    /\ watch = "loop"
    /\ watch' = "pass"
    /\ UNCHANGED <<unit, main, death, sigs, cancelled, watchErrs>>

PassEnds ==
    /\ watch = "pass"
    /\ PoolReturns
    /\ watch' = "loop"
    /\ UNCHANGED <<unit, main, death, sigs, cancelled, watchErrs>>

\* A subscription fails or is closed, or a panic is recovered.
WatchFails ==
    /\ watch \in {"loop", "pass"}
    /\ watch' = "failed"
    /\ UNCHANGED <<unit, main, death, sigs, cancelled, watchErrs>>

MutReportUnbuffered ==
    /\ watch = "failed"
    /\ watch' = "over"
    /\ watchErrs' = (main = "select")
    /\ UNCHANGED <<unit, main, death, sigs, cancelled>>

\* The error goes to watchErrs, where there is room for it.
Report ==
    /\ watch = "failed"
    /\ watch' = "over"
    /\ watchErrs' = TRUE
    /\ UNCHANGED <<unit, main, death, sigs, cancelled>>

\* The error of a cancelled context is not reported.
WatchDone ==
    /\ watch = "loop"
    /\ cancelled
    /\ watch' = "over"
    /\ UNCHANGED <<unit, main, death, sigs, cancelled, watchErrs>>

-----------------------------------------------------------------------------
(***************************************************************************)
(* systemd.                                                                *)
(***************************************************************************)
StartUnit ==
    /\ unit = "inactive"
    /\ unit' = "active"
    /\ NewProcess

\* KillSignal=SIGTERM.
StopUnit ==
    /\ unit = "active"
    /\ Alive
    /\ unit' = "stopping"
    /\ Deliver

\* TimeoutStopSec.
StopTimeout ==
    /\ unit = "stopping"
    /\ Alive
    /\ Die("kill")
    /\ UNCHANGED unit

\* SIGKILL from elsewhere: out of memory, or RLIMIT_CPU, which the daemon sets for
\* itself.
Kill ==
    /\ Alive
    /\ Die("kill")
    /\ UNCHANGED unit

\* The system starts again; the unit is started with it, or later.
Reboot ==
    /\ unit' = "inactive"
    /\ Die("none")

\* Restart=on-failure: an exit code or SIGKILL, but not the signals that are
\* meant to end a process.
Restart ==
    /\ unit = "active"
    /\ ~Alive
    /\ death \in {"failure", "kill"}
    /\ NewProcess
    /\ UNCHANGED unit

UnitEnds ==
    /\ ~Alive
    /\ unit = "stopping" \/ (unit = "active" /\ death \notin {"failure", "kill"})
    /\ unit' = "inactive"
    /\ UNCHANGED <<main, death, sigs, cancelled, watch, watchErrs>>

-----------------------------------------------------------------------------
Handling == HandleSignal \/ StopNotify
Starting == SignalContext \/ NoTemplates \/ StageDone \/ StageFails \/ Spawn
Running == EnterSelect \/ SelectDone \/ SelectErr \/ Wait
Watching == Report \/ WatchDone \/ PassEnds
Systemd == Restart \/ UnitEnds

Next ==
    \/ Signal \/ Handling
    \/ Starting \/ Running
    \/ PassBegins \/ WatchFails \/ Watching
    \/ StartUnit \/ StopUnit \/ StopTimeout \/ Systemd
    \/ Kill \/ Reboot

Spec == Init /\ [][Next]_vars

\* The goroutines run; the select of the watch loop does not pass by a context
\* that is done for ever; systemd does its work, and its stop timeout is not
\* needed.
FairSpec ==
    /\ Spec
    /\ WF_vars(Handling) /\ WF_vars(Starting) /\ WF_vars(Running)
    /\ WF_vars(Report) /\ WF_vars(PassEnds) /\ SF_vars(WatchDone)
    /\ WF_vars(Systemd)

-----------------------------------------------------------------------------
(***************************************************************************)
(* Properties.                                                             *)
(***************************************************************************)

\* Every variable has a value the program can give it; the goroutine of the
\* watch loop is there once the services have been applied.
TypeOK ==
    /\ unit \in {"inactive", "active", "stopping"}
    /\ main \in Mains
    /\ death \in {"none", "failure", "signal", "kill"}
    /\ {notify, signals, cancelled, watchErrs} \subseteq BOOLEAN
    /\ handler \in {"none", "waiting", "stopping", "over"}
    /\ watch \in {"none", "loop", "pass", "failed", "over"}
    /\ watch # "none" <=> main \in {"spawned", "select", "wait"}

\* The daemon does not live on without its watch loop: as long as the context
\* is not cancelled, the loop runs or its error is on the way to Run.
NoSilentDeath ==
    (main \in {"spawned", "select"} /\ ~cancelled) =>
        watch \in {"loop", "pass", "failed"} \/ watchErrs

\* Run does not return under a watch loop that is still at work: only a signal
\* or systemd's timeout ends a pass in the middle.
ReturnsAfterWatch ==
    [][(main \in {"select", "wait"} /\ main' = "none" /\ death' = "failure") =>
         watch = "over"]_vars

\* A watch loop that has failed leads to a new process, unless somebody wants
\* the daemon to end or the system starts again.
WatcherRecovers ==
    (unit = "active" /\ watch = "failed") ~>
        \/ main = "init"
        \/ unit = "stopping" \/ death = "signal"
        \/ unit = "inactive" /\ death = "none"

\* The daemon can be stopped at any time, without systemd's timeout: no signal
\* that is to stop it is lost.
StopCompletes == unit = "stopping" ~> unit = "inactive"

=============================================================================
