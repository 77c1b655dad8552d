# A TLA+ model of tcsss

tcsss is a daemon that shapes the traffic of every interface of a machine with
CAKE queues, ingress through an IFB device per interface, and that applies
kernel parameters and resource limits when it starts. This directory holds TLA+
modules of its parts, the TLC configurations that check them, and proofs for
TLAPS. Paths below are relative to `internal/traffic/` unless they say more.

**The finding to know first.** `applyToLinks` (`shaper_apply.go:78-102`) ranges
over two channels in its `return` expression and closes them in `defer`s, which
run only after that expression: with at least one link to look at it never
returns, and neither does `Daemon.Run` get to its watch loop. `LinkPool` shows
it (run `pool_returns`) and `NeverPastDrainHolds` proves it for every list and
every pool. Everything behind that point would be unreachable in an honest
model, so `Shaper`, `Watcher` and `Daemon` have a constant `PoolReturns`: FALSE
is the source as it is, TRUE is the source with the two closes moved in front of
the drain. The runs use TRUE and say what the rest of the design does once that
is repaired; their invariants are proved for both values. Findings in those
modules are marked "once applyToLinks returns".

## Inventory

| Component | Source | State it keeps | Operations |
|---|---|---|---|
| Link worker pool | `shaper_apply.go` | channels `workCh`, `errCh`, `statsCh`, a WaitGroup, counters | `applyToLinks`, `linkWorker`, `summarizeLinkResults` |
| Shaping passes | `shaper_apply.go`, `shaper_steps.go`, `shaper_cleanup.go`, `ifb_manager.go`, `tc_executor.go`, `signature.go` | `appliedSignatures`, `didInitialCleanup`; the kernel's links, qdiscs, filters and IFBs | `applyInterfaces`, the profile steps, `ensureIfb`, `pruneStaleIfbs`, `cleanupSkippedVirtualInterfaces`, `cleanupStaleSignatures` |
| Watch loop | `netlink_watcher.go` | two subscriptions, `pendingChanges`, tickers | `AddLink`, `AddAddr`, `applyPending`, end of the loop |
| Classifier | `classifier*.go` | `externalLinkIndexes`, `virtualCache`, `lastRefresh` | `RefreshExternalInterfaces`, `Classify` |
| Sysctl applier | `internal/syslimit/sysctlconf.go` | none; `sysctl.conf`, the kernel parameters, the hugepage mode | `Apply` |
| Daemon and unit | `cmd/tcsss/main.go`, `internal/app/daemon.go`, `systemd/tcsss.service` | context, signal channel, `watchErrs`, WaitGroup | start, `Run`, signals, restart |
| Route optimizer | `internal/route/` | its windows; the kernel's routes | `Optimize`: three jobs, detection of the primary NIC |
| Limits, rlimits | `internal/syslimit/limits.go`, `rlimit.go` | none; `limits.conf`, `system.conf`, systemd's defaults, the limits of the process | `Apply` of each |
| Template selection | `internal/config/selector.go`, `main.go` | none; the template directory | validation, mode and tier resolution |
| Ethtool offloads | `ethtool_manager.go` | none; NIC features | parse, set |
| Start-up checks, errors, settings | `internal/detector`, `internal/errors`, `deps.go`, `settings.go` | none | |

How they interact: `main` looks for a template directory and chooses the mode.
`Daemon.Run` calls the sysctl, limits and rlimit appliers, which each read the
directory anew, and then `Shaper.Apply`, which begins with the route optimizer;
each error but the optimizer's ends the process. The first applier sets the
parameter the kernel checks the third one's limits against, and systemd starts
the next process with what the second has written. Then a
goroutine runs `Shaper.Watch`, whose loop reads both subscriptions into
`pendingChanges` and calls `applyInterfaces` from a ticker, in the same
goroutine: while a pass runs nobody reads the subscriptions, the context or the
other ticker. A pass lists the links, has the classifier refresh its routes, and
hands the links to the worker pool; a worker classifies its link, compares
signatures and runs some ten netlink calls and `tc` commands. The kernel is
shared with everybody, and it answers each change tcsss makes with an event of
its own. A watch loop that fails reports on `watchErrs`, which ends the process;
systemd restarts it. The context comes from a goroutine that waits for one signal.

What is hard here: goroutines and three channels with exact capacities; a list
of links that is stale from the moment it is taken; devices shared by name
truncation; commands that fail or are killed half way; signatures and caches
that outlive what they describe; events that arrive during a pass or are caused
by it; files that are truncated before they are written; restarts that judge by a
file what an earlier life has done; routes that are written back as they were
when they were listed; appliers that depend on each other's effects and read
their input at different moments. `PROJECT.json` lists each of these hazards
with its line and the properties that watch it.

What makes each component correct:

- *pool*: it ends, sends never block or panic, every error and every link is
  counted exactly once;
- *passes*: no traffic is redirected to a deleted IFB, an interface that is
  reported as configured is, one that is skipped is configured already, no IFB is
  left over, no link that is not to be shaped keeps a redirection;
- *watch loop*: no change is forgotten, every change is followed by a pass that
  covers it, the loop comes to rest, it can be stopped;
- *classifier*: what is cached is not older than promised, and every link gets
  the profile of its class;
- *sysctl applier*: when it reports success, file, kernel parameters and
  hugepage mode are as the templates say, and the administrator's lines are there;
- *daemon*: it never lives on without its watch loop, never ends under a pass,
  recovers from a failed loop and stops when asked;
- *appliers of the limits*: after a start that nothing disturbed the daemon, the
  sessions and the services have the limits of the tier, whatever earlier starts
  have left behind; the mode chosen is one there is a template for;
- *route optimizer*: it never changes where packets go, leaves alone what somebody
  has decided about a route, and reports success only for routes that are tuned.

## Modules

Each component has a module `X`, a module `MCX` with the values for TLC, its
configurations `MCX_*.cfg`, and `X_proofs` with theorems. A definition `MutY` in
front of `Y` is `Y` with a plausible bug; `PROJECT.json` says which property
notices it. `PROJECT.json` also maps every definition to its lines.

Where the code does not keep a promise in certain moments, and a test or a
reader would want to know that it keeps it in all others, a *ghost* variable
records that such a moment has come and for whom, and the property leaves out
just that. Ghosts guard no action. They are `moved`, `touched` and `unclean` (Shaper),
`dirty` and `missed` (Watcher), `steady`, `mistaken` and `listFailed`
(Classifier), `admin` and `harmed` (SysctlApply), `moved` and `raced`
(RouteOptimizer; `picked` there excuses nothing), `disturbed` (Startup). "Known limits" below lists what they stand for.

**LinkPool.** The caller and each worker have a program counter; one action per
channel operation. `workCh` is two cursors (it is filled and closed before
anybody could tell the difference), `errCh` and `statsCh` are sequences with the
capacities of the source. `processLink` is one step that is skipped, succeeds or
fails. `deferredClose` is the order of the closes and never changes: TRUE is the
source, FALSE has the closes in front of the drain.

**ForkJoin** is what `applyToLinks` promises its caller, without goroutines: each
link of the list is handled once, in any order, and the errors returned are those
of the links that failed. LinkPool has it as `FJ == INSTANCE ForkJoin WITH` its
list, the outcome of each link and, once the caller has returned, the errors it
has drained; `HandlesEachOnce == FJ!Spec`.

**Shaper.** The kernel (`present`, `want`, `tuned`, `tc`, `ifb`) and the pass.
`StartPass` lists the links; `CleanupSkipped`, `Receive`, the steps
`SetLinkParams` .. `AddFilter`, `Record` and `Prune` are the netlink calls and
commands in the order of the source, each acting on the kernel as it is at that
moment and deciding from the list or from attributes read earlier. Any command
may fail (`Fail`), links appear, vanish and change at any moment, somebody else
may change settings or delete IFBs, and the process may end anywhere and start
again on what it has left (`Restart`). A signature stands for MTU, queue length,
qdiscs and offloads of a profile; `tuned` says that MTU and queue length are the
profile's. `moved` holds the interfaces others have changed since the list of the
pass, `touched` those others, or a profile that failed, have changed since their
signature was recorded, `unclean` the skipped links whose ingress qdisc the initial
cleanup could not delete. `CleanupSkipped` is the three deletions for one link, of
which any may fail and the others go on. `machine` is a choice of the
links there may be at all, so that one run has several small machines instead of a
big one. Setting the offloads is not a step: its failures are ignored by the code,
so no property could depend on it.

**Watcher.** From the first `Apply` to the end of `Watch`. A pass is three
steps, its start, the moment it lists, its end. `dirty` holds the interfaces
that have changed since a pass that listed them as they are has ended, `missed`
those of them that the source does not take up again. Both
subscriptions are bounded queues that close when they overflow, as the netlink
library does behind a socket error. `Echo` is the event the kernel sends for a
change tcsss makes itself.

**WorkList** is what the loop promises, without queues and tickers: each interface
is `clean`, `todo`, `claimed` by a pass that has not listed the links yet, `taken`
by one that has seen its last change, or `lost`. Only a pass that is done makes
what it has taken clean; a change before both subscriptions, a failure and the end
of the loop are all that may lose one. Watcher reads these states off its queues,
pending changes and pass (`Work`) and has `WL == INSTANCE WorkList WITH` them;
`ListsEveryChange == WL!Spec`.

**Classifier.** Links with indexes, default routes of two families with one next hop
(`defaults`) or several (`hops`), the two caches with their age, and passes that refresh family by family and classify
link by link. Time is counted in ticks, `Interval` of which make
`refreshInterval` (30 s). `steady` says how long the default routes of an index
have not changed, `mistaken` holds the names whose kind was read in a moment
without a link or that have come back as another kind, `listFailed` says that a
route list of the last refresh failed. Configuring a link is reduced to the class
it gets the profile of. `TrueClass` is the class by the comments of `Classify` and
`isExternalInterface`, for which a route with several next hops is a default route
like any other; in netlink's list it has no link index and the code passes it over
(`RouteList`, `FetchRoutes`).

**SysctlApply.** `Apply` over several lives of the daemon. `file` is
`sysctl.conf` as programs read it, `disk` as a power failure leaves it. A file is
a function from keys to kinds of line: the template's text, the same value
spelled differently, another value, or none. `Merge`, the comparison of texts,
truncation, write, sync, reload and hugepage mode are actions; `Faults` selects
what may go wrong. `harmed` says which of kernel parameters, hugepage mode and
other lines a fault has put out of step, until something puts it right.

**RouteOptimizer.** The kernel's routes and `Optimize` of one process
after the other with any windows. A job lists (`Fetch`), which selects lines, and
then changes them one by one (`ApplyRouteChange`), each as it was listed; a
command may fail before or after its effect (`ChangeFails`); a failed job lets the
next one go on. Routes are numbered in the order of the listings, and `KeyOf` gives
each the key by which the kernel finds it: table, destination, TOS and metric.
Several may have the same key, those of two NICs in one subnet or of one address on
two devices. `Changes` is what the kernel then does with `ip route change`: the line
takes the place of the first route of its key, whatever its device, unless it asks
for one that is there already. `Understood` is what `cleanRouteLine` makes of a line: one with a
locked MTU or several next hops becomes one that `ip` refuses. `DetectPrimaryNIC`
takes the device of any answer netlink or `ip route show` may give. Others change
routes at any moment; `moved` holds the keys of those since `Optimize` was called,
`raced` those since the job listed them, `picked` the routes the last job has
selected for the NIC.

**Daemon.** The main goroutine, the signal goroutine, the goroutine of `Watch`,
the two channels of capacity one between them, and the unit. The services of
`Run` are one step each. SIGKILL may come at any moment, from a kernel that is
out of memory or from the RLIMIT_CPU the daemon sets for itself, and the machine
may be started again.

**Startup** extends Daemon, and composes its life with what the stages do: the
directory and the choice of mode and tier, the sysctl applier (one step, with the
outcomes SysctlApply gives it), the limits applier statement by statement, the
rlimit applier limit by limit. Each action is an action of Daemon together with
what it means for the files, systemd and the process, so that every behaviour of
Startup is one of Daemon (`ImplementsDaemon`). A file is the tier it was written
for. A directory is the tiers and the modes it has files for, those of the modes that
cannot be parsed, and whether there is a `common.conf`; it stands for the first valid
one of the four candidates of `main.go:122-150`, or for four that are not, and
`Resolve` is the look whether it is valid. `disturbed` says that in this life a step
has failed or the directory has changed; the history before this life may be anything.

The other modules are joined by their interfaces: LinkPool opens up the worker
phase of a Shaper pass (and shows that it ends), Shaper opens up the pass of
Watcher and Classifier, Watcher opens up the states `loop`, `pass` and `failed` of
Daemon's `watch`, RouteOptimizer the beginning of its stage `apply`, and
SysctlApply its stage `sysctl`.

## Runs

Passing runs:

| Run | Shows | Bounds |
|---|---|---|
| `pool` | In both orders of the closes: LinkPool implements ForkJoin, the capacities suffice, nobody sends on a closed channel, errors and links are counted once, the workers finish. In the source's order the caller never gets past the drain; in the other one it returns. | 0 to 4 links, 2 workers; 111,240 states |
| `shaper` | Passes for any names, any command failing, the three of the initial cleanup each on its own, links that come, go, come back and change, IFBs that vanish, drift, restarts and the leftovers of an earlier version, all at once: no interface is redirected to a deleted IFB; a skipped link stays redirected only if it is `unclean`; a profile that runs without an error leaves what its signature says; an interface that is skipped is shaped or `touched`; a pass leaves no IFB without use but those whose deletion may fail. | two machines: an interface that asks for any of 3 signatures beside a link to skip, and two interfaces with one IFB; 2 workers; 2,901,473 states |
| `watcher` | Changes at any moment, events without a name, address events of links that are gone, overflows, failing passes, a signal: every change that is not `missed` is queued, pending or covered, and covered in the end; Watcher implements WorkList; the loop comes to rest and can be stopped. | 2 interfaces, queues of 2, 4 changes and failures; 49,198 states |
| `classifier` | Links and routes that change at any moment, route lists that fail: the caches are right but for the names and refreshes the ghosts name, and links are then classified right, except the virtual ones that have default routes only as one of several next hops. | 2 names, one a tunnel, 3 indexes, 2 families, interval of 2 ticks, 4 changes; 1,370,800 states |
| `sysctl` | Under all nine faults: success means that the file has the templates' lines, and whatever is not `harmed` is as it should be. | 3 keys, one in no template, one unknown to the kernel; 1,666,918 states |
| `startup` | Starts on directories that differ and change, failing steps, signals, kills, stops and reboots in any order: an undisturbed start gives daemon, sessions and services the limits of the tier and finds the template of its mode; no silent death; no return under a pass; a failed loop leads to a new process; a stop completes. | 2 tiers of which one fits, 3 directories, 2 disturbances; KB = 4 and Word = 64 for 1024 and 2^64; 372,708 states |
| `routes` | Optimize again and again, with commands that fail before or after their effect and others who change routes, two of which share a key: no route is added or removed; a route that is alone with its key stays on its device, locked MTUs and algorithms others have chosen stay, and success means that it is tuned for this call. | 3 routes (a local address; one with several next hops and a default one, of the same key), 2 devices, 2 windows, 1 algorithm, routes of 1 key changed by others in each call; 695,064 states |

`pool` and `pool_returns` are checked without deadlock detection, because the
source's order of the closes does deadlock. Every other run detects deadlocks.

Runs that end in a counterexample; each is a finding of `PROJECT.json`, with the
sentence of the repository it contradicts:

| Run | Property | The code |
|---|---|---|
| `pool_returns` | `ApplyToLinksReturns` | The drain waits for a close that waits for the drain. |
| `shaper_skip_failure` | `SkippedIsConfigured` | A profile that fails half way leaves the signature of the one before; asked for that one again, the interface is skipped. |
| `watcher_failed` | `EveryChangeReapplied` | Pending changes are cleared before the pass; a pass that fails forgets them. |
| `sysctl_reload` | `AppliedMeansInForce` | After a failed reload the next start finds the file unchanged and succeeds without a reload. |
| `routes_mode` | `WindowsFollowMode` | What tcsss has tuned in one mode has a congestion control, and is passed over in the next: success is reported with the old windows. |

### Known limits of the code

What the passing properties leave out, by a ghost or by a condition of their own.
Where a violation run is named it shows the case; of the others the traces were
looked at while the condition was written, by a property without it.

- `touched`: a profile that failed half way (`shaper_skip_failure`); an interface
  deleted and created again under its name before `cleanupStaleSignatures` has
  run; settings somebody else has changed. All three are skipped by a signature
  that no longer holds (`isAlreadyConfigured`, `shaper_apply.go:379`). A fourth is
  not `touched`, needs two interfaces with one IFB, and is why `SkipIsSound` asks of
  these only if nobody else deletes IFBs: somebody deletes the IFB, the worker of one
  interface creates it anew, and the other is skipped with its redirection still to
  the old device.
- `unclean`: when the deletion of the ingress qdisc of a skipped link fails and that
  of its IFB succeeds (`ifb_manager.go:142-152`), the link stays redirected to a
  device that is gone and drops what it receives. The initial cleanup is not
  repeated in this process. `NoSkippedRedirect` says that a failure of this one
  command is what it takes; nothing else in the cleanup or in any pass does it.
- IFBs that two interfaces share: the worker of one gives it its own parameters, so
  `FinishesShaped` and `SkipIsSound` say of these what the interface is, not the IFB.
- `missed`: a pass that failed (`watcher_failed`); a change between the list of
  the first pass and the subscriptions, which neither sees (`netlink_watcher.go:65`).
- `harmed`: a reload that failed or was skipped because the write before it was
  cut short (`sysctl_reload`); a reboot, after which the early return for an
  unchanged file leaves the hugepage mode unset (`sysctlconf.go:102`); a kill
  between truncation and write, which loses the administrator's lines
  (`sysctlconf.go:21`); a file that cannot be read and counts as empty.
- `listFailed`: a route list that fails is cached as an empty one for
  `refreshInterval` (`classifier_cache.go:35`).
- `mistaken`: a link deleted in the middle of a pass has no sysfs entry, and is
  cached as physical under its name for ever (`classifier_detect.go:28`); a name
  that comes back as another kind. Both sides of the hazard at
  `classifier_detect.go:16` are excused by it; the property is that there is no third.
- `BehindMultipath`: a virtual link whose default route is one with several next
  hops gets the profile of an internal link, where `classifier.go:54` takes
  "interfaces with default routes" for external and `classifier_cache.go:87` has "It
  has a default route". The code disagrees with its comments here
  (`classifier_cache.go:45` passes over routes without a link index), and
  `ClassifiedRight` leaves out these links alone.
- `steady`: a default route that moves without an event of its link starts no
  pass, and a pass within the interval uses older routes, so a link keeps the
  profile of its old class until something else happens to it. `ExternalFresh` and
  `ClassifiedRight` say what holds of a pass, not that there is one.
- `raced`: what others have done to a route between the listing and the command is
  undone, device included (`internal/route/optimizer.go:362`).
- `Alone`: of several routes with one key the first is replaced by the line of
  any (`internal/route/optimizer.go:277-288`). With two NICs in one subnet, or one
  address on two devices, the line of the second takes the place of the first: with
  nobody racing a route changes its device and its own congestion control is gone,
  or the route that was selected stays as it was while another is changed, and
  `Optimize` reports success. `ForwardingKept` says of such routes only that none is
  added or removed, `DecidedIsKept` and `SuccessMeansTuned` say nothing of them.
- `disturbed`: `setrlimit`, a write or the reexec that fails is only logged; a
  directory that changes between two appliers gives each its own tier. The next
  undisturbed start puts all of it right, but not a reload that has failed:
  `RuntimeGuaranteed` has to assume that the parameters are in force, and then the
  number of open files is refused (`sysctl_reload` says why they may not be).
- A directory whose best template cannot be parsed and that has none for client is
  accepted at start and makes the sysctl applier fail for ever (`main.go:65`);
  `TemplateFound` leaves such templates out.
- `SameForAll` is about nofile and stack, and about products that fit the word: that
  `rlimit.go:105` wraps for greater ones is in the run and excused, and that
  `rlimit.cpu` is read as minutes by PAM and as seconds by the others is not covered.
- The keys the kernel knows (`KernelKeys`) do not change in SysctlApply: a module
  that is loaded later and brings a parameter with it is not covered.

### Bounds, and why they are enough

- Pool: four links and two workers let a worker take several links, fail twice
  in a row, let both workers fail at once, and lists be shorter than the pool.
  Capacities are proved for all sizes.
- Shaper: what a pass does to an interface depends on others only through a
  shared IFB, which the second machine shows; the first can therefore do with one
  interface and allow everything else, and with one link to skip, whose IFB no
  interface has. Two signatures make a change and a change back, a third is out of
  range; the interfaces that share an IFB ask for one, and their settings drift on one
  of the two. There is no bound on the length of a behaviour: the state is
  finite. Every property is proved for all machines and all assignments of IFBs.
- Watcher: an interface that changes while another is pending or in a pass, a
  third change while the queue (of 2 instead of 32) is full, and one more; a
  failing pass counts as one of the four (`MaxChanges`).
- Classifier: an index is given out twice, so that a cached index can outlive its
  link and a name its kind; an interval of two ticks separates "just read", "old"
  and "due".
- Startup: one tier fits the memory and one does not, the stack of the greater one
  overflows the word, and the unit's LimitNOFILE is beyond the kernel's first
  limit; directories with both tiers, with one tier and a mode that cannot be parsed,
  and without `common.conf`. Two disturbances let one be answered by another in the
  next life. The number of lives is not bounded.
- Routes: a local address, which may be on the loopback device or not, and, in the
  main table, two routes of one key, of which one is refused by `ip` and one is not;
  each may be there or not, so that both are also alone with their key. Broadcast
  and unicast lines take no branch of their own. Foreign changes to one key per call
  lie between any two statements; the theorems are for any number of routes, keys and
  changes.
- Sysctl: one key for each combination that merge and reload tell apart. The
  number of lives is not bounded.

### Fairness

- Pool: weak fairness of the caller and of each worker, because the Go scheduler
  runs every goroutine that can run and `processLink` ends (its commands have a
  timeout).
- Watcher: weak fairness of the pass and of the subscriptions; strong fairness of
  each case of the `select`, which chooses at random among the ready ones, so a
  case that is ready again and again is not passed by for ever. `Environment` is
  not fair, and its changes are finite.
- Daemon and Startup: weak fairness of the goroutines and of the appliers, whose
  commands end, strong fairness of the case of a
  context that is done in the watch loop's `select`, weak fairness of systemd.
  The stop timeout is not fair: `StopCompletes` does not lean on it for a process
  that ends by itself.
- Shaper, Classifier, SysctlApply and RouteOptimizer state safety only and assume
  none. That a pass ends rests on the pool (`PoolJoins`), the only place in one that
  can wait; the rest are loops over lists and commands with a timeout.

## Proofs

`tlapm X_proofs.tla` checks the theorems of a component, for all values of its
constants that satisfy the module's assumption. Each goes by an inductive
invariant; what is in it besides the property, and why:

- **LinkPool** (`TypeCorrect`, `SendsSucceedHolds`, `NeverPastDrainHolds`,
  `ErrorsConservedHolds`, `HandlesEachOnceHolds`, `SummaryExactHolds`,
  `StepsRunOut`, `OnlyTheDrainHangs`, `HangsForGood`). `CountInv` counts
  workers: the errors on `errCh` together with the workers that hold a link are
  at most the links received; the counters on `statsCh` together with the
  workers that have not sent theirs are at most the pool; and the WaitGroup is
  the number of workers that are left. From this a worker about to send finds
  room, and after `wg.Wait` nobody can send. `CountMove` says how a count
  changes when one worker moves. `DrainInv` says that with deferred closes the
  caller has not closed and is not past the drain. `ReceivedInv` says which
  worker holds which link, `ErrInv` that the errors drained, on the channel and
  in a worker's hand are those of the links that failed, each once, `EndInv`
  what is left at the end; with the three (`LinkInv`) each step is a step of
  ForkJoin or none. `SumInv` says that the counters of the workers, on the
  channel and in the caller's total add up to the links processed and failed; a
  sum is the cardinality of a set of pairs there, and "Sums" says what one more
  element does to it, because a recursive sum needs induction over data. The
  last three are what can be proved of `PoolJoins` and `ApplyToLinksReturns`
  without fairness: `Left` gets smaller with every step, so there are at most
  `MaxSteps`; and a state in which no guard of the caller or a worker holds
  (`CanMove`) is the return or `Hangs`, which only the order of the source
  reaches, and from which nothing moves. That the program does take a step it
  can take is fairness, which stays with TLC.
- **Shaper** (`TypeCorrect`, `NoDeadRedirectHolds`, `NoSkippedRedirectHolds`,
  `FinishesShapedHolds`, `SkipIsSoundHolds` and `NoOrphanIfbHolds`, which assume
  nothing beyond the module's assumption, and `SkippedIsConfiguredWhenCalm`, below).
  `CoreOK` and `BusyInRange` are the types with the fact that only a signature in
  range is at work; `GhostStep` does the ghosts apart. `RedirectInv`: an interface is
  redirected to its own IFB or not at all; a link the running pass has not listed has
  no redirection yet, because nobody works on it; what is left to prune is not
  required. The list is stale, but only in directions that do no harm: a link that is
  gone needs nothing, and one that came later has nothing to lose. `SkippedInv` says
  where a skipped link may still have a redirection: before its turn in the first
  cleanup of the process, or as one of `unclean`. `KnownInv` says what a pass knows of
  an interface, `OrphanInv` that every IFB was in the list or is required, or is one
  whose deletion may fail. `ShapedInv` says, step by step, what a worker has done for
  the interface (`DoneForLink`) and for its IFB (`DoneForIfb`), and that it stays
  done, or the IFB is gone and the profile cannot end; and that what a recorded
  signature says is there (`AppliedTrue`), which is what skipping rests on. Of an
  IFB that is shared nothing is said but that it exists: the worker of the other
  interface gives it its own parameters. `SkipIsSoundHolds` also takes
  `NoDeadRedirect`, for interfaces whose IFB nobody else deletes.
  `SkippedIsConfigured` has a violation run; `Calm` is what it takes for it to
  hold: no shared IFB, no failing step of a worker, nobody else's settings, no
  names that come back. `ExcusedInv` says that under `Calm` an interface that is
  `touched` has no signature, lacks its IFB or is being worked on; TLC violates
  the property when any of the last three parts of `Calm` is dropped.
- **Watcher** (`TypeCorrect`, `NoLostChangeHolds`, `ListsEveryChangeHolds`). The
  property is inductive with the types and `PassInv`; `AppendHolds` and `TailHolds`
  say what sending and receiving leave on a queue, `ReceiveKeeps` that a receive
  loses nothing. For the refinement there is a lemma per action of WorkList
  (`ChangeWork` .. `FinishWork`), and `OnwardStep` for what never turns back.
- **Classifier** (`TypeCorrect`, `KindCachedHolds`, `ExternalFreshHolds`,
  `ClassifiedRightHolds`). `KindInv` adds to `KindCached` what it says of names
  without a link. `FreshInv` adds that an index whose routes are unchanged for
  longer than the cache's age is cached for what it is, and, during a refresh,
  that what has been found is right for the families that have been read.
  `ClassifiedRight` follows from the two: an index that is cached right differs from
  the comments only by the routes with several next hops, which is `BehindMultipath`.
- **SysctlApply** (`TypeCorrect`, `AppliedInFileHolds`, `AppliedInKernelHolds`,
  `HugepageSetHolds`, `OtherLinesKeptHolds`, under any faults, and
  `InForceWithoutLoadFaults`). `SettledInv` says
  that what is written is settled and stays so until success; `AppliedInv` adds
  that a settled file between two lives has been loaded (`LoadedInv`) and the
  hugepage mode set (`HugepageInv`), and that the merge in progress still has the
  administrator's lines (`OthersInv`), each unless harmed.
  `InForceWithoutLoadFaults` is the other side of the run `sysctl_reload`: of the
  nine faults only a failing write, a failing reload, a cancelled context and a
  kill (`LoadFaults`) can harm the parameters, and with the other five success
  means what it says. TLC shows that each of the four alone is enough.
- **Daemon** (`TypeCorrect`, `NoSilentDeathHolds`, `ReturnsAfterWatchHolds`). `Inv`
  adds that an error is on `watchErrs` only when the goroutine of Watch is over.
- **RouteOptimizer** (`TypeCorrect`, `ForwardingKeptHolds`, `DecidedIsKeptHolds`,
  `SuccessMeansTunedHolds`). What is listed, not `raced` and alone with its key is
  as it was listed, until its line's turn (`ListInv`); a route that is alone with its
  key stays so through every step of Optimize (`AloneKept`), because a change never
  adds or removes one (`ChangesThere`), and is then the one its line changes. And each
  job that is over without an error has tuned what it selected, which no later job
  changes (`DoneInv`).
- **Startup** (`ImplementsDaemon`, `StartupNoSilentDeath`, `StartupTypeCorrect`,
  `RuntimeGuaranteedHolds`, `SameForAllHolds`, `TemplateFoundHolds`). What holds of
  Daemon holds of Startup because it implements it. `StartupInv` says of an
  undisturbed start what it has read (`HasRead`), written (`HasWritten`) and set
  (`HasSet`) at each statement; that no limit is refused (`NotRefused`) rests on the
  tier of the merged file being the one in force, and on every template's
  fs.nr_open being at least its nofile, which `StartupAssumption` states.

Only model-checked: everything under fairness (`PoolJoins`,
`ChangesReapplied`, `Quiesces`, `ShutdownCompletes`, `WatcherRecovers`,
`StopCompletes`), which is out of the prover's reach together with ENABLED.
`ErrorsConserved` is only proved: the run checks `HandlesEachOnce`, which says the
same of what is returned.

## Not modelled

- Offloads (`ethtool_manager.go`): failures are ignored and nothing reads them back.
- The values of the expressions in a traffic template: RouteOptimizer takes any
  windows, Startup only whether a template can be parsed.
- The looks for kernel modules and commands at start (`internal/detector`), which
  keep no state: Daemon has them as a stage that may fail.
- Renames of links: a name is a link's identity in Shaper and Watcher.
- Addresses: an address event only makes its link pending.
- Contents of a profile, wording of the signature, comments in `sysctl.conf`.
- `internal/errors` and logging; `internal/config/types.go` and
  `internal/detector/memory.go`, which nobody calls.

Hazards of `PROJECT.json` without a property say what is missing for one.

## Plan

What could come next, in the order of its worth:

1. *TrafficManager*, composing Watcher and Shaper: pending names from the kernel's
   events of Shaper's own steps, IFBs deleted by somebody else, renames; then the
   hazards at `shaper_apply.go:339` and `shaper_cleanup.go:23` get properties.
2. *Termination by measure*, as `StepsRunOut` and `OnlyTheDrainHangs` do it for the
   pool: a pass of Shaper, whose steps are bounded by its list as long as nothing
   interferes, and the end of the watch loop after a signal.
3. *Stuck states of Daemon and Startup*: where the daemon can wait for ever for a
   reason other than the pool.
