------------------------------ MODULE LinkPool ------------------------------
(***************************************************************************)
(* The worker pool of one shaping pass: applyToLinks and linkWorker of     *)
(* internal/traffic/shaper_apply.go.                                       *)
(*                                                                         *)
(* applyToLinks puts the links of the pass on a buffered channel, closes   *)
(* it, waits for a WaitGroup of workers and then drains two more buffered  *)
(* channels, one with the errors of the failed links and one with the      *)
(* counters of each worker.  What happens to a link (processLink) is one   *)
(* step here with three possible results; the module Shaper opens it up.   *)
(*                                                                         *)
(* A channel holding the links in the order they were sent is modelled by  *)
(* two cursors: links 1..fed have been sent, links 1..taken received.      *)
(***************************************************************************)
EXTENDS Integers, Sequences, FiniteSets

CONSTANTS
    MaxLinks,           \* a pass lists between 0 and MaxLinks links
    DefaultWorkerCount, \* defaultWorkerCount, 4 in the source
    CloseOrders         \* the values of deferredClose looked at

ASSUME LinkPoolAssumption ==
    /\ MaxLinks \in Nat
    /\ DefaultWorkerCount \in Nat \ {0}
    /\ CloseOrders \subseteq BOOLEAN

Links == 1..MaxLinks
Workers == 1..DefaultWorkerCount

VARIABLES
    numLinks,   \* len(links)
    deferredClose, \* TRUE in the source: errCh and statsCh are closed by
                   \* defer, after the return expression has drained them.
                   \* FALSE closes them as soon as the workers are gone, the
                   \* order the draining loops rely on.  Never changes.
    caller,     \* the statement applyToLinks is at
    wg,         \* the counter of the WaitGroup
    fed,        \* links sent on workCh
    taken,      \* links received from workCh
    workClosed, \* workCh is closed
    errCh,      \* the links whose errors are on errCh
    statsCh,    \* the workerStats on statsCh
    closed,     \* errCh and statsCh are closed
    worker,     \* the statement each worker is at
    holds,      \* the link each worker has received last, 0 before the first
    stats,      \* the counters of each worker
    outcome,    \* what processLink has returned for each link
    errs,       \* summarizeLinkResults: the errors collected
    total       \* summarizeLinkResults: the counters added up

call == <<numLinks, deferredClose>>
callerVars == <<wg, fed, workClosed, closed, errs, total>>
workerVars == <<taken, worker, holds, stats, outcome>>
vars == <<call, caller, callerVars, errCh, statsCh, workerVars>>

Stats == [processed : Nat, failed : Nat]
NoStats == [processed |-> 0, failed |-> 0]

(***************************************************************************)
(* Sizes of the pool and of its channels.                                  *)
(***************************************************************************)
WorkerCount == IF numLinks < DefaultWorkerCount THEN numLinks
                                                ELSE DefaultWorkerCount

MutErrCapPerWorker == WorkerCount

ErrCap == numLinks

StatsCap == WorkerCount

(***************************************************************************)
(* The initial state: applyToLinks has been called with some list.         *)
(***************************************************************************)
Init ==
    /\ numLinks \in 0..MaxLinks
    /\ deferredClose \in CloseOrders
    /\ caller = "enter"
    /\ wg = 0
    /\ fed = 0
    /\ taken = 0
    /\ workClosed = FALSE
    /\ errCh = <<>>
    /\ statsCh = <<>>
    /\ closed = FALSE
    /\ worker = [w \in Workers |-> "none"]
    /\ holds = [w \in Workers |-> 0]
    /\ stats = [w \in Workers |-> NoStats]
    /\ outcome = [l \in Links |-> "none"]
    /\ errs = <<>>
    /\ total = NoStats

-----------------------------------------------------------------------------
(***************************************************************************)
(* The caller.                                                             *)
(***************************************************************************)

\* Nothing to do for an empty list.
ReturnEmpty ==
    /\ caller = "enter"
    /\ numLinks = 0
    /\ caller' = "returned"
    /\ UNCHANGED <<call, callerVars, errCh, statsCh, workerVars>>

\* wg.Add and go for every worker.  The workers find workCh empty and open
\* until the caller has left this loop, so its iterations are one step.
StartLinkWorkers ==
    /\ caller = "enter"
    /\ numLinks > 0
    /\ wg' = WorkerCount
    /\ worker' = [w \in Workers |-> IF w <= WorkerCount THEN "recv" ELSE "none"]
    /\ caller' = "feed"
    /\ UNCHANGED <<call, fed, workClosed, closed, errs, total, errCh,
                   statsCh, taken, holds, stats, outcome>>

Feed ==
    /\ caller = "feed"
    /\ fed < numLinks
    /\ fed' = fed + 1
    /\ UNCHANGED <<call, caller, wg, workClosed, closed, errs, total,
                   errCh, statsCh, workerVars>>

CloseWork ==
    /\ caller = "feed"
    /\ fed = numLinks
    /\ workClosed' = TRUE
    /\ caller' = "wait"
    /\ UNCHANGED <<call, wg, fed, closed, errs, total, errCh, statsCh,
                   workerVars>>

Wait ==
    /\ caller = "wait"
    /\ wg = 0
    /\ caller' = IF deferredClose THEN "drainErrs" ELSE "close"
    /\ UNCHANGED <<call, callerVars, errCh, statsCh, workerVars>>

\* range errCh receives while there is something to receive ...
DrainErr ==
    /\ caller = "drainErrs"
    /\ errCh # <<>>
    /\ errs' = Append(errs, Head(errCh))
    /\ errCh' = Tail(errCh)
    /\ UNCHANGED <<call, caller, wg, fed, workClosed, closed, total,
                   statsCh, workerVars>>

MutEndErrsWhenEmpty ==
    /\ caller = "drainErrs"
    /\ errCh = <<>>
    /\ caller' = "drainStats"
    /\ UNCHANGED <<call, callerVars, errCh, statsCh, workerVars>>

\* ... and ends only when the channel is closed.
EndErrs ==
    /\ caller = "drainErrs"
    /\ errCh = <<>>
    /\ closed
    /\ caller' = "drainStats"
    /\ UNCHANGED <<call, callerVars, errCh, statsCh, workerVars>>

Plus(s, t) == [processed |-> s.processed + t.processed,
               failed |-> s.failed + t.failed]

MutDrainStatsLast ==
    /\ caller = "drainStats"
    /\ statsCh # <<>>
    /\ total' = Head(statsCh)
    /\ statsCh' = Tail(statsCh)
    /\ UNCHANGED <<call, caller, wg, fed, workClosed, closed, errs, errCh,
                   workerVars>>

DrainStats ==
    /\ caller = "drainStats"
    /\ statsCh # <<>>
    /\ total' = Plus(total, Head(statsCh))
    /\ statsCh' = Tail(statsCh)
    /\ UNCHANGED <<call, caller, wg, fed, workClosed, closed, errs, errCh,
                   workerVars>>

EndStats ==
    /\ caller = "drainStats"
    /\ statsCh = <<>>
    /\ closed
    /\ caller' = IF deferredClose THEN "close" ELSE "returned"
    /\ UNCHANGED <<call, callerVars, errCh, statsCh, workerVars>>

\* The deferred closes run when the return expression has been evaluated.
CloseChannels ==
    /\ caller = "close"
    /\ closed' = TRUE
    /\ caller' = IF deferredClose THEN "returned" ELSE "drainErrs"
    /\ UNCHANGED <<call, wg, fed, workClosed, errs, total, errCh, statsCh,
                   workerVars>>

Caller ==
    \/ ReturnEmpty \/ StartLinkWorkers \/ Feed \/ CloseWork \/ Wait
    \/ DrainErr \/ EndErrs \/ DrainStats \/ EndStats \/ CloseChannels

-----------------------------------------------------------------------------
(***************************************************************************)
(* The workers.                                                            *)
(***************************************************************************)

Receive(w) ==
    /\ worker[w] = "recv"
    /\ taken < fed
    /\ taken' = taken + 1
    /\ holds' = [holds EXCEPT ![w] = taken + 1]
    /\ worker' = [worker EXCEPT ![w] = "process"]
    /\ UNCHANGED <<call, caller, callerVars, errCh, statsCh, stats, outcome>>

\* processLink returns.  A link the pass is not meant for is "skipped": it is
\* counted nowhere.  A link it leaves alone because of its class is "ok".
ProcessLink(w) ==
    /\ worker[w] = "process"
    /\ \E o \in {"skipped", "ok", "failed"} :
         /\ outcome' = [outcome EXCEPT ![holds[w]] = o]
         /\ stats' = [stats EXCEPT
              ![w] = Plus(@, [processed |-> IF o = "skipped" THEN 0 ELSE 1,
                              failed |-> IF o = "failed" THEN 1 ELSE 0])]
         /\ worker' = [worker EXCEPT
              ![w] = IF o = "failed" THEN "sendErr" ELSE "recv"]
    /\ UNCHANGED <<call, caller, callerVars, errCh, statsCh, taken, holds>>

\* A return where the source has the send, with wg.Done at the end of the
\* worker and not deferred.
MutSendErrReturns(w) ==
    /\ worker[w] = "sendErr"
    /\ errCh' = Append(errCh, holds[w])
    /\ worker' = [worker EXCEPT ![w] = "gone"]
    /\ UNCHANGED <<call, caller, callerVars, statsCh, taken, holds, stats,
                   outcome>>

\* A failed link is taken again at once, uncounted.
MutSendErrRetries(w) ==
    /\ worker[w] = "sendErr"
    /\ worker' = [worker EXCEPT ![w] = "process"]
    /\ stats' = [stats EXCEPT ![w] = [processed |-> @.processed - 1,
                                     failed |-> @.failed - 1]]
    /\ UNCHANGED <<call, caller, callerVars, errCh, statsCh, taken, holds,
                   outcome>>

SendErr(w) ==
    /\ worker[w] = "sendErr"
    /\ Len(errCh) < ErrCap
    /\ errCh' = Append(errCh, holds[w])
    /\ worker' = [worker EXCEPT ![w] = "recv"]
    /\ UNCHANGED <<call, caller, callerVars, statsCh, taken, holds, stats,
                   outcome>>

\* range workCh ends: the channel is closed and empty.
EndWork(w) ==
    /\ worker[w] = "recv"
    /\ taken = fed
    /\ workClosed
    /\ worker' = [worker EXCEPT ![w] = "sendStats"]
    /\ UNCHANGED <<call, caller, callerVars, errCh, statsCh, taken, holds,
                   stats, outcome>>

SendStats(w) ==
    /\ worker[w] = "sendStats"
    /\ Len(statsCh) < StatsCap
    /\ statsCh' = Append(statsCh, stats[w])
    /\ worker' = [worker EXCEPT ![w] = "done"]
    /\ UNCHANGED <<call, caller, callerVars, errCh, taken, holds, stats,
                   outcome>>

\* wg.Done both deferred and called.
MutWgDoneAgain(w) ==
    /\ worker[w] = "done"
    /\ wg' = wg - 2
    /\ worker' = [worker EXCEPT ![w] = "gone"]
    /\ UNCHANGED <<call, caller, fed, workClosed, closed, errs, total,
                   errCh, statsCh, taken, holds, stats, outcome>>

\* The deferred wg.Done.
WgDone(w) ==
    /\ worker[w] = "done"
    /\ wg' = wg - 1
    /\ worker' = [worker EXCEPT ![w] = "gone"]
    /\ UNCHANGED <<call, caller, fed, workClosed, closed, errs, total,
                   errCh, statsCh, taken, holds, stats, outcome>>

Worker(w) ==
    \/ Receive(w) \/ ProcessLink(w) \/ SendErr(w)
    \/ EndWork(w) \/ SendStats(w) \/ WgDone(w)

-----------------------------------------------------------------------------
Terminated == caller = "returned" /\ UNCHANGED vars

Next == Caller \/ (\E w \in Workers : Worker(w)) \/ Terminated

\* The Go scheduler runs every goroutine that can run, and the commands
\* behind processLink end.
Fairness == WF_vars(Caller) /\ \A w \in Workers : WF_vars(Worker(w))

Spec == Init /\ [][Next]_vars

FairSpec == Spec /\ Fairness

-----------------------------------------------------------------------------
(***************************************************************************)
(* Properties.                                                             *)
(***************************************************************************)

CallerPCs == {"enter", "feed", "wait", "close", "drainErrs", "drainStats",
              "returned"}
WorkerPCs == {"none", "recv", "process", "sendErr", "sendStats", "done", "gone"}
Outcomes == {"none", "skipped", "ok", "failed"}

\* Every variable has a value the program can give it: the WaitGroup's counter
\* stays between 0 and the number of workers (below 0 it panics), and the
\* links sent and received stay within the list.
TypeOK ==
    /\ numLinks \in 0..MaxLinks
    /\ deferredClose \in BOOLEAN
    /\ caller \in CallerPCs
    /\ wg \in 0..DefaultWorkerCount
    /\ fed \in 0..numLinks
    /\ taken \in 0..fed
    /\ workClosed \in BOOLEAN
    /\ closed \in BOOLEAN
    /\ errCh \in Seq(Links)
    /\ statsCh \in Seq(Stats)
    /\ worker \in [Workers -> WorkerPCs]
    /\ holds \in [Workers -> 0..MaxLinks]
    /\ stats \in [Workers -> Stats]
    /\ outcome \in [Links -> Outcomes]
    /\ errs \in Seq(Links)
    /\ total \in Stats

\* A worker's send neither blocks nor panics.  Nobody receives from errCh and
\* statsCh until the workers are gone, so a worker that found either of them full
\* would wait for the caller while the caller waits for the worker; and a worker
\* that was still to send when they are closed would end the daemon.
SendsSucceed ==
    \A w \in Workers :
        /\ worker[w] = "sendErr" => ~closed /\ Len(errCh) < ErrCap
        /\ worker[w] = "sendStats" => ~closed /\ Len(statsCh) < StatsCap

Joined == caller \in {"close", "drainErrs", "drainStats", "returned"}
Failed == {l \in 1..numLinks : outcome[l] = "failed"}
Processed == {l \in 1..numLinks : outcome[l] \in {"ok", "failed"}}
CollectedErrs == errs \o errCh

\* Once the caller has seen the workers finish, every link of the list has been
\* handed to processLink, and the errors collected or still on errCh are those
\* of the failed links, one for each.
ErrorsConserved ==
    Joined =>
        /\ \A l \in 1..numLinks : outcome[l] # "none"
        /\ {CollectedErrs[i] : i \in DOMAIN CollectedErrs} = Failed
        /\ Len(CollectedErrs) = Cardinality(Failed)

\* What applyToLinks reports, "failed" and "processed", counts every link that
\* failed or was processed exactly once, whatever worker it went to.
SummaryExact ==
    caller = "returned" =>
        /\ total.failed = Cardinality(Failed)
        /\ total.processed = Cardinality(Processed)
        /\ Len(errs) = total.failed

Errs == {errs[i] : i \in DOMAIN errs}

FJ == INSTANCE ForkJoin WITH
        tasks <- 1..numLinks,
        result <- [l \in 1..numLinks |-> outcome[l]],
        reported <- caller = "returned",
        errors <- IF caller = "returned" THEN Errs ELSE {}

\* The pool implements ForkJoin: whatever the workers do, every link of the list
\* is handled once, none twice, and applyToLinks returns after the last of them,
\* with the errors of the links that failed.
HandlesEachOnce == FJ!Spec

\* With the deferred closes, a list that is not empty never gets past the loop
\* over errCh: the loop waits for a close that waits for the loop.
NeverPastDrain ==
    (deferredClose /\ numLinks > 0) =>
        caller \in {"enter", "feed", "wait", "drainErrs"}

\* The workers always finish and the caller always gets past wg.Wait; once the
\* channels are closed in time, applyToLinks returns.
PoolJoins == <>(IF deferredClose THEN Joined ELSE caller = "returned")

\* applyToLinks always returns, so that the pass goes on to pruneStaleIfbs and
\* the daemon to its watch loop.
ApplyToLinksReturns == <>(caller = "returned")

=============================================================================
