--------------------------- MODULE RouteOptimizer ---------------------------
(***************************************************************************)
(* internal/route: Optimize, which every full pass of the Shaper begins    *)
(* with.  Three jobs, one after the other, each list routes with `ip route *)
(* show`, select some of the lines and give each of them an MTU, windows   *)
(* and a locked congestion control by `ip route change <line> ...`.        *)
(*                                                                         *)
(* A line is written back with everything it said when it was listed, so   *)
(* what others have changed since then is undone.  The kernel finds the    *)
(* route to change by its key: table, destination, TOS and metric.  Several *)
(* routes may have the same one, those of two NICs in one subnet or of an  *)
(* address on two devices, and the first of them is replaced, whatever its *)
(* device.                                                                 *)
(*                                                                         *)
(* Every netlink call and command may fail.  Of a route's attributes there *)
(* are its kind, its device, which stands for all else that decides where  *)
(* packets go, and the metrics tcsss writes.                               *)
(***************************************************************************)
EXTENDS Integers, FiniteSets

CONSTANTS
    NumRoutes,   \* routes there may be, in the order of the listings
    Keys,        \* what the kernel finds a route by ...
    KeyOf,       \* ... and that of each route
    KindsOf,     \* bound: what a route may be
    Devs,        \* devices ...
    Lo,          \* ... the loopback one ...
    Virtual,     \* ... and those with isVirtualName, which Lo is one of
    NoDev,
    Windows,     \* window configurations: a traffic template's, in bytes
    MSSBytes,
    CongCtls,    \* congestion control algorithms
    Cubic,
    NoCc,        \* a route without one
    MaxMoved     \* bound: keys others change routes of while Optimize runs

Routes == 1..NumRoutes

\* The lines of ip route show table local and those of ip route show.
LocalKinds == {"local", "broadcast"}
MainKinds == {"default", "multipath", "unicast"}

ASSUME RouteOptimizerAssumption ==
    /\ NumRoutes \in Nat
    /\ KeyOf \in [Routes -> Keys]
    /\ KindsOf \in [Routes -> SUBSET (LocalKinds \cup MainKinds)]
    /\ \A k, l \in Routes :
         KeyOf[k] = KeyOf[l] => \/ KindsOf[k] \cup KindsOf[l] \subseteq LocalKinds
                               \/ KindsOf[k] \cup KindsOf[l] \subseteq MainKinds
    /\ IsFiniteSet(Keys)
    /\ Virtual \subseteq Devs /\ Lo \in Virtual /\ NoDev \notin Devs
    /\ Windows \subseteq [cwnd : Int, rwnd : Int, loopback : Int]
    /\ MSSBytes \in Nat \ {0}
    /\ Cubic \in CongCtls /\ NoCc \notin CongCtls
    /\ MaxMoved \in Nat

VARIABLES
    route,    \* the kernel's routes, the first of a key first
    cfg,      \* the windows of this process
    at,       \* the statement Optimize is at
    job,      \* the routeJob it is at
    list,     \* the lines selected from the job's listing ...
    left,     \* ... and which of them are still to be changed
    nic,      \* the primary NIC
    congctl,  \* the congestion control for its routes
    jobErr,   \* a change of the job has failed
    err,      \* Optimize will return an error
    \* Ghosts.
    picked,   \* the routes selected for the NIC
    moved,    \* keys others have changed routes of since Optimize was called ...
    raced     \* ... and since the listing of the job

process == <<cfg, at, job, list, left, nic, congctl, jobErr, err>>
ghosts == <<picked, moved, raced>>
vars == <<route, process, ghosts>>

(***************************************************************************)
(* Parameters.                                                             *)
(***************************************************************************)

BytesToSegments(bytes) ==
    IF bytes <= 0 THEN 0 ELSE (bytes + MSSBytes - 1) \div MSSBytes

Metrics(mtu, cwnd, rwnd, cc) ==
    [mtu |-> mtu, mtuLock |-> FALSE,
     initcwnd |-> BytesToSegments(cwnd), initrwnd |-> BytesToSegments(rwnd),
     cc |-> cc, ccLock |-> TRUE]

LoopbackParams == Metrics(65520, cfg.loopback, cfg.loopback, Cubic)
LocalParams == Metrics(1500, cfg.cwnd, cfg.rwnd, Cubic)
NicParams == Metrics(1500, cfg.cwnd, cfg.rwnd, congctl)

Params == IF job = "loopback" THEN LoopbackParams
          ELSE IF job = "local" THEN LocalParams ELSE NicParams

\* What others write: an MTU that is to stay, an algorithm, or nothing.
OwnMetrics(mtu, cc) ==
    [mtu |-> mtu, mtuLock |-> mtu > 0, initcwnd |-> 0, initrwnd |-> 0,
     cc |-> cc, ccLock |-> FALSE]
NoMetrics == OwnMetrics(0, NoCc)
ForeignMetrics ==
    {NoMetrics, OwnMetrics(1400, NoCc)} \cup {OwnMetrics(0, c) : c \in CongCtls}

NoRoute == [there |-> FALSE, kind |-> "none", dev |-> NoDev, down |-> FALSE,
            metrics |-> NoMetrics]

\* The routes others make.  The loopback device does not lose its link.
Foreign(k) ==
    {NoRoute} \cup
      {r \in [there : {TRUE}, kind : KindsOf[k], dev : Devs, down : BOOLEAN,
              metrics : ForeignMetrics] :
         r.down => r.dev # Lo}

(***************************************************************************)
(* The filters.                                                            *)
(***************************************************************************)
ShouldOptimizeLoopback(r) == r.there /\ r.kind = "local" /\ r.dev = Lo

ShouldOptimizeLocal(r) ==
    r.there /\ r.kind = "local" /\ r.dev # Lo /\ ~r.down

MutShouldOptimizeNIC(r) ==
    r.there /\ r.kind \in MainKinds /\ ~r.down /\ r.dev = nic

\* A line that has a congestion control is left alone.
ShouldOptimizeNIC(r) ==
    /\ r.there /\ r.kind \in MainKinds /\ ~r.down
    /\ r.metrics.cc = NoCc /\ r.dev = nic

Filter(r) ==
    \/ job = "loopback" /\ ShouldOptimizeLoopback(r)
    \/ job = "local" /\ ShouldOptimizeLocal(r)
    \/ job = "nic" /\ ShouldOptimizeNIC(r)

-----------------------------------------------------------------------------
Init ==
    /\ route \in [Routes -> UNION {Foreign(k) : k \in Routes}]
    /\ \A k \in Routes : route[k] \in Foreign(k)
    /\ cfg \in Windows
    /\ at = "idle"
    /\ job = "none"
    /\ list = [k \in Routes |-> NoRoute]
    /\ left = {}
    /\ nic = NoDev
    /\ congctl = Cubic
    /\ jobErr = FALSE
    /\ err = FALSE
    /\ picked = {}
    /\ moved = {}
    /\ raced = {}

\* A full pass begins.
Optimize ==
    /\ at \in {"idle", "returned"}
    /\ at' = "fetch"
    /\ job' = "loopback"
    /\ nic' = NoDev
    /\ congctl' = Cubic
    /\ err' = FALSE
    /\ picked' = {}
    /\ moved' = {}
    /\ UNCHANGED <<route, cfg, list, left, jobErr, raced>>

\* The end of a job: its error is kept, and does not stop the next one.
NextJob(failed) ==
    /\ err' = (err \/ failed)
    /\ \/ job = "loopback" /\ job' = "local" /\ at' = "fetch"
       \/ job = "local" /\ job' = "nic" /\ at' = "detect"
       \/ job = "nic" /\ job' = "none" /\ at' = "returned"

\* fetchRoutes and filterRoutes.
Fetch ==
    /\ at = "fetch"
    /\ left' = {k \in Routes : Filter(route[k])}
    /\ list' = [k \in Routes |-> IF k \in left' THEN route[k] ELSE NoRoute]
    /\ at' = "apply"
    /\ picked' = IF job = "nic" THEN left' ELSE {}
    /\ UNCHANGED <<route, cfg, job, nic, congctl, jobErr, err, moved, raced>>

FetchFails ==
    /\ at = "fetch"
    /\ NextJob(TRUE)
    /\ UNCHANGED <<route, cfg, list, left, nic, congctl, jobErr, ghosts>>

IsFirst(k, routes) == k \in routes /\ \A l \in routes : k <= l

\* cleanRouteLine takes each attribute away with the word behind it: of
\* "mtu lock 1400" the number stays, and ip does not understand the line.  Nor
\* does it understand the line of a single nexthop.
Understood(k) == ~list[k].metrics.mtuLock /\ list[k].kind # "multipath"

\* The route a line asks for.
Line(k) == [list[k] EXCEPT !.metrics = Params]

\* The routes that are there with the key of a line.
Aliases(k) == {l \in Routes : KeyOf[l] = KeyOf[k] /\ route[l].there}

\* The kernel takes two routes for one, whatever the state of their device.
SameRoute(r, s) == r.kind = s.kind /\ r.dev = s.dev /\ r.metrics = s.metrics

\* A local address written back without its device is one of the loopback's.
MutChangesToLo(k) ==
    /\ Understood(k)
    /\ \E first \in Routes :
         /\ IsFirst(first, Aliases(k))
         /\ route' = [route EXCEPT ![first] =
                        [Line(k) EXCEPT !.dev = IF list[k].kind = "local" THEN Lo ELSE @]]

\* ip route change finds the routes of the key.  If the line asks for one of
\* them as it is, nothing changes, and unless it is the first the command
\* fails.  Otherwise the line takes the place of the first.
Changes(k) ==
    /\ Understood(k)
    /\ \E first \in Routes :
         /\ IsFirst(first, Aliases(k))
         /\ \/ SameRoute(route[first], Line(k)) /\ UNCHANGED route
            \/ /\ \A l \in Aliases(k) : ~SameRoute(route[l], Line(k))
               /\ route' = [route EXCEPT ![first] = Line(k)]

ApplyRouteChange(k) ==
    /\ at = "apply"
    /\ IsFirst(k, left)
    /\ Changes(k)
    /\ left' = left \ {k}
    /\ UNCHANGED <<cfg, at, job, list, nic, congctl, jobErr, err, ghosts>>

MutChangeFails(k) ==
    /\ at = "apply"
    /\ IsFirst(k, left)
    /\ left' = left \ {k}
    /\ UNCHANGED <<route, cfg, at, job, list, nic, congctl, jobErr, err, ghosts>>

\* ip fails, or is killed for its timeout before or after it has changed the
\* route.  The first error is kept, and the next line is tried.
ChangeFails(k) ==
    /\ at = "apply"
    /\ IsFirst(k, left)
    /\ UNCHANGED route \/ Changes(k)
    /\ jobErr' = TRUE
    /\ left' = left \ {k}
    /\ UNCHANGED <<cfg, at, job, list, nic, congctl, err, ghosts>>

MutEndJobEarly ==
    /\ at = "apply"
    /\ jobErr \/ left = {}
    /\ NextJob(jobErr)
    /\ list' = [k \in Routes |-> NoRoute]
    /\ jobErr' = FALSE
    /\ raced' = {}
    /\ UNCHANGED <<route, cfg, left, nic, congctl, picked, moved>>

EndJob ==
    /\ at = "apply"
    /\ left = {}
    /\ NextJob(jobErr)
    /\ list' = [k \in Routes |-> NoRoute]
    /\ jobErr' = FALSE
    /\ raced' = {}
    /\ UNCHANGED <<route, cfg, left, nic, congctl, picked, moved>>

(***************************************************************************)
(* getPrimaryNIC and getCurrentCongestionControl.                          *)
(***************************************************************************)
DeviceOf(routes) ==
    IF routes = {} THEN NoDev ELSE route[CHOOSE k \in routes : IsFirst(k, routes)].dev

InMain == {k \in Routes : route[k].there /\ route[k].kind \in MainKinds}
Defaults == {k \in InMain : route[k].kind = "default"}
Physical == {k \in InMain : route[k].dev \notin Virtual}

\* Over netlink: the first physical device, as far as the links of the routes
\* are found.  The loop for defaults takes those without a destination, and in
\* netlink's list they have one.  A route with several next hops has no link.
NICFromNetlink(found) ==
    DeviceOf({k \in Physical \cap found : route[k].kind # "multipath"})

\* From the lines of ip route show: the first default, or else the first physical
\* device.
NICFromCommand ==
    IF Defaults # {} THEN DeviceOf(Defaults)
    ELSE DeviceOf({k \in Physical : ~route[k].down})

Detected ==
    {NICFromNetlink(found) : found \in SUBSET Routes} \cup {NICFromCommand}

\* The algorithm is that of the kernel, or cubic when it cannot be read.
DetectPrimaryNIC ==
    /\ at = "detect"
    /\ nic' \in Detected \cap Devs
    /\ congctl' \in CongCtls
    /\ at' = "fetch"
    /\ UNCHANGED <<route, cfg, job, list, left, jobErr, err, ghosts>>

DetectFails ==
    /\ at = "detect"
    /\ NextJob(TRUE)
    /\ UNCHANGED <<route, cfg, list, left, nic, congctl, jobErr, ghosts>>

-----------------------------------------------------------------------------
(***************************************************************************)
(* Others.                                                                 *)
(***************************************************************************)

\* The kernel, DHCP, a routing daemon or an administrator.
OthersChange(k) ==
    /\ Cardinality(moved \cup {KeyOf[k]}) <= MaxMoved
    /\ \E r \in Foreign(k) \ {route[k]} : route' = [route EXCEPT ![k] = r]
    /\ moved' = moved \cup {KeyOf[k]}
    /\ raced' = IF at = "apply" THEN raced \cup {KeyOf[k]} ELSE raced
    /\ UNCHANGED <<process, picked>>

\* The daemon stops or is killed, and starts again with the windows of any
\* template.
Restart ==
    /\ cfg' \in Windows
    /\ at' = "idle"
    /\ job' = "none"
    /\ list' = [k \in Routes |-> NoRoute]
    /\ left' = {}
    /\ nic' = NoDev
    /\ congctl' = Cubic
    /\ jobErr' = FALSE
    /\ err' = FALSE
    /\ picked' = {}
    /\ moved' = {}
    /\ raced' = {}
    /\ UNCHANGED route

Program ==
    \/ Fetch \/ FetchFails \/ EndJob \/ DetectPrimaryNIC \/ DetectFails
    \/ \E k \in Routes : ApplyRouteChange(k) \/ ChangeFails(k)

Next == Optimize \/ Program \/ Restart \/ \E k \in Routes : OthersChange(k)

Spec == Init /\ [][Next]_vars

-----------------------------------------------------------------------------
(***************************************************************************)
(* Properties.                                                             *)
(***************************************************************************)
MetricSet == [mtu : Nat, mtuLock : BOOLEAN, initcwnd : Nat, initrwnd : Nat,
              cc : CongCtls \cup {NoCc}, ccLock : BOOLEAN]
Entries == [there : BOOLEAN, kind : LocalKinds \cup MainKinds \cup {"none"},
            dev : Devs \cup {NoDev}, down : BOOLEAN, metrics : MetricSet]

\* Every variable has a value the program or the kernel can give it, and what is
\* left to be changed has been selected by the job.
TypeOK ==
    /\ route \in [Routes -> Entries]
    /\ list \in [Routes -> Entries]
    /\ cfg \in Windows
    /\ at \in {"idle", "fetch", "apply", "detect", "returned"}
    /\ job \in {"none", "loopback", "local", "nic"}
    /\ left \subseteq {k \in Routes : Filter(list[k])}
    /\ nic \in Devs \cup {NoDev}
    /\ congctl \in CongCtls
    /\ jobErr \in BOOLEAN /\ err \in BOOLEAN
    /\ picked \subseteq Routes
    /\ raced \subseteq moved /\ moved \subseteq Keys

\* No other route has the key of this one.
Alone(k) == \A l \in Routes \ {k} : KeyOf[l] = KeyOf[k] => ~route[l].there

\* Optimize (what changes process is not a step of others) never adds or removes
\* a route, and never changes where packets go.  There are two exceptions to the
\* second: it undoes what others have done to the routes of a key between the
\* listing and the command, and of two routes with one key the first becomes
\* what the line of the other says, its device included.
ForwardingKept ==
    [][process' # process => \A k \in Routes :
         /\ route'[k].there = route[k].there
         /\ KeyOf[k] \notin raced /\ Alone(k) =>
              route'[k].kind = route[k].kind /\ route'[k].dev = route[k].dev]_vars

\* What others have decided about a route: an MTU that is locked and, in the main
\* table, a congestion control; tcsss locks those it sets.
Decided(r) ==
    \/ r.metrics.mtuLock
    \/ r.kind \in MainKinds /\ r.metrics.cc # NoCc /\ ~r.metrics.ccLock

\* A route others have decided about is left as it is, with the exceptions of
\* ForwardingKept.
DecidedIsKept ==
    [][process' # process => \A k \in Routes :
         KeyOf[k] \notin raced /\ Alone(k) /\ Decided(route[k]) => route'[k] = route[k]]_vars

\* When Optimize reports no error, every route with a key of its own that nobody
\* else has changed meanwhile is as this call is to make it: those of the local
\* table have the parameters of this process; those of the NIC had a congestion
\* control, or have the parameters of this process.
SuccessMeansTuned ==
    at = "returned" /\ ~err =>
        \A k \in {l \in Routes : KeyOf[l] \notin moved /\ Alone(l)} :
            /\ ShouldOptimizeLoopback(route[k]) => route[k].metrics = LoopbackParams
            /\ ShouldOptimizeLocal(route[k]) => route[k].metrics = LocalParams
            /\ ~ShouldOptimizeNIC(route[k])
            /\ k \in picked => route[k].metrics = NicParams

\* After a pass that reports no error, the windows of the NIC's routes are those
\* of the selected mode, unless others have decided about them.  The code leaves
\* alone what it has set itself in another mode.
WindowsFollowMode ==
    at = "returned" /\ ~err =>
        \A k \in {l \in InMain : KeyOf[l] \notin moved /\ Alone(l)} :
            route[k].dev = nic /\ ~route[k].down /\ ~Decided(route[k]) =>
                /\ route[k].metrics.initcwnd = NicParams.initcwnd
                /\ route[k].metrics.initrwnd = NicParams.initrwnd

=============================================================================
