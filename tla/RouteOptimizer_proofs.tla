------------------------ MODULE RouteOptimizer_proofs ------------------------
(***************************************************************************)
(* Proofs about RouteOptimizer, for every table of routes, every device,   *)
(* every configuration of the windows and every number of changes others   *)
(* make: its types, and its three properties.                              *)
(*                                                                         *)
(* They rest on three facts about a job, for the keys others have changed  *)
(* no route of since the listing: a route with a line still to be changed  *)
(* is there; if no other has its key, it is what the line says; and one    *)
(* that is not to be changed any more is as the job leaves it.             *)
(***************************************************************************)
EXTENDS RouteOptimizer, TLAPS

\* Where Optimize is, and what it holds there.
PhaseInv ==
    /\ at \in {"idle", "returned"} <=> job = "none"
    /\ at = "detect" => job = "nic"
    /\ at # "apply" => left = {} /\ raced = {} /\ ~jobErr

\* What is left to be changed is there, and is as it was listed if its key is its
\* own, unless others have changed a route of the key.
ListInv ==
    \A k \in left : KeyOf[k] \notin raced =>
        route[k].there /\ (Alone(k) => list[k] = route[k])

TypeInv == TypeOK /\ PhaseInv

LoopbackTuned(k) ==
    ShouldOptimizeLoopback(route[k]) => route[k].metrics = LoopbackParams
LocalTuned(k) ==
    ShouldOptimizeLocal(route[k]) => route[k].metrics = LocalParams
NicTuned(k) ==
    ~ShouldOptimizeNIC(route[k]) /\ (k \in picked => route[k].metrics = NicParams)

\* What the jobs have done so far to a route nobody else has changed, as long as
\* nothing has failed.
DoneFor(k) ==
    /\ job = "loopback" /\ at = "apply" /\ ~jobErr => k \in left \/ LoopbackTuned(k)
    /\ job \in {"local", "nic"} \/ at = "returned" => LoopbackTuned(k)
    /\ job = "local" /\ at = "apply" /\ ~jobErr => k \in left \/ LocalTuned(k)
    /\ job = "nic" \/ at = "returned" => LocalTuned(k)
    /\ job = "nic" /\ at = "apply" /\ ~jobErr => k \in left \/ NicTuned(k)
    /\ at = "returned" => NicTuned(k)

DoneInv ==
    ~err => \A k \in Routes : KeyOf[k] \notin moved /\ Alone(k) => DoneFor(k)

IInv == TypeInv /\ ListInv /\ DoneInv

-----------------------------------------------------------------------------
(***************************************************************************)
(* Parameters and entries.                                                 *)
(***************************************************************************)

\* What bytesToSegments returns for every size: the least number of segments
\* that holds the bytes.
LEMMA SegmentsCover ==
    ASSUME NEW b \in Int
    PROVE  /\ BytesToSegments(b) \in Nat
           /\ b <= BytesToSegments(b) * MSSBytes
           /\ b > 0 => (BytesToSegments(b) - 1) * MSSBytes < b
<1>1. MSSBytes \in Nat /\ MSSBytes > 0
  BY RouteOptimizerAssumption
<1>2. CASE b <= 0
  BY <1>1, <1>2, SMT DEF BytesToSegments
<1>3. CASE b > 0
  <2> DEFINE n == b + MSSBytes - 1
             q == n \div MSSBytes
             r == n % MSSBytes
  <2>1. n \in Nat
    BY <1>1, <1>3
  <2>2. q \in Nat /\ r \in 0..(MSSBytes - 1) /\ n = MSSBytes * q + r
    <3> HIDE DEF n
    <3> QED BY <1>1, <2>1, SMT
  <2>3. BytesToSegments(b) = q
    BY <1>3 DEF BytesToSegments
  <2>4. MSSBytes * q = q * MSSBytes /\ (q - 1) * MSSBytes = q * MSSBytes - MSSBytes
    <3> HIDE DEF q
    <3> QED BY <1>1, <2>2, SMT
  <2> HIDE DEF q, r
  <2>5. b <= q * MSSBytes /\ (q - 1) * MSSBytes < b
    <3> DEFINE p == q * MSSBytes
    <3>1. p \in Int
      BY <1>1, <2>2, SMT
    <3>2. p = n - r /\ (q - 1) * MSSBytes = p - MSSBytes
      BY <2>2, <2>4, <1>1, <1>3, <3>1, SMT
    <3> HIDE DEF p
    <3>3. b <= p /\ p - MSSBytes < b
      BY <3>1, <3>2, <2>2, <1>1, <1>3, SMT
    <3> QED BY <3>2, <3>3 DEF p
  <2> QED BY <2>2, <2>3, <2>5
<1> QED BY <1>2, <1>3

\* What the jobs write are metrics, with a congestion control.
LEMMA ParamsType ==
    ASSUME cfg \in Windows, congctl \in CongCtls
    PROVE  /\ LoopbackParams \in MetricSet /\ LoopbackParams.cc = Cubic
           /\ LocalParams \in MetricSet /\ LocalParams.cc = Cubic
           /\ NicParams \in MetricSet /\ NicParams.cc = congctl
           /\ Params \in MetricSet
<1>1. cfg \in [cwnd : Int, rwnd : Int, loopback : Int] /\ Cubic \in CongCtls
  BY RouteOptimizerAssumption
<1>2. /\ BytesToSegments(cfg.cwnd) \in Nat
      /\ BytesToSegments(cfg.rwnd) \in Nat
      /\ BytesToSegments(cfg.loopback) \in Nat
  <2>1. cfg.cwnd \in Int /\ cfg.rwnd \in Int /\ cfg.loopback \in Int
    BY <1>1
  <2> QED BY <2>1, SegmentsCover
<1>3. LoopbackParams \in MetricSet /\ LoopbackParams.cc = Cubic
  BY <1>1, <1>2 DEF LoopbackParams, Metrics, MetricSet
<1>4. LocalParams \in MetricSet /\ LocalParams.cc = Cubic
  BY <1>1, <1>2 DEF LocalParams, Metrics, MetricSet
<1>5. NicParams \in MetricSet /\ NicParams.cc = congctl
  BY <1>2 DEF NicParams, Metrics, MetricSet
<1> QED BY <1>3, <1>4, <1>5 DEF Params

\* What others write are entries of the table.
LEMMA ForeignType == ASSUME NEW k \in Routes PROVE Foreign(k) \subseteq Entries
<1>1. NoMetrics \in MetricSet
  BY DEF NoMetrics, OwnMetrics, MetricSet
<1>2. ForeignMetrics \subseteq MetricSet
  <2>1. OwnMetrics(1400, NoCc) \in MetricSet
    BY DEF OwnMetrics, MetricSet
  <2>2. ASSUME NEW c \in CongCtls PROVE OwnMetrics(0, c) \in MetricSet
    BY DEF OwnMetrics, MetricSet
  <2> QED BY <1>1, <2>1, <2>2 DEF ForeignMetrics
<1>3. NoRoute \in Entries
  BY <1>1 DEF NoRoute, Entries
<1>4. KindsOf[k] \subseteq LocalKinds \cup MainKinds
  BY RouteOptimizerAssumption
<1> QED BY <1>2, <1>3, <1>4 DEF Foreign, Entries

-----------------------------------------------------------------------------
(***************************************************************************)
(* Types.                                                                  *)
(***************************************************************************)
LEMMA TypeInit == Init => TypeInv
<1> SUFFICES ASSUME Init PROVE TypeInv
  OBVIOUS
<1>1. NoRoute \in Entries
  BY DEF NoRoute, Entries, NoMetrics, OwnMetrics, MetricSet
<1>2. route \in [Routes -> Entries]
  <2>1. \A k \in Routes : route[k] \in Entries
    BY ForeignType DEF Init
  <2> QED BY <2>1 DEF Init
<1>3. list \in [Routes -> Entries]
  BY <1>1 DEF Init
<1>4. congctl \in CongCtls
  BY RouteOptimizerAssumption DEF Init
<1> QED BY <1>2, <1>3, <1>4 DEF Init, TypeInv, TypeOK, PhaseInv

\* A route after a change is an entry of the table.
LEMMA ChangesType ==
    ASSUME TypeOK, NEW k \in Routes, Changes(k)
    PROVE  route' \in [Routes -> Entries]
<1>1. Params \in MetricSet
  BY ParamsType DEF TypeOK
<1>2. list[k] \in Entries
  BY DEF TypeOK
<1>3. Line(k) \in Entries
  BY <1>1, <1>2 DEF Entries, Line
<1>4. PICK first \in Routes : route' = route \/ route' = [route EXCEPT ![first] = Line(k)]
  BY DEF Changes
<1> QED BY <1>3, <1>4 DEF TypeOK

LEMMA TypeStep == TypeInv /\ [Next]_vars => TypeInv'
<1> SUFFICES ASSUME TypeInv, [Next]_vars PROVE TypeInv'
  OBVIOUS
<1> USE DEF TypeInv
<1>0. NoRoute \in Entries /\ Cubic \in CongCtls
  BY RouteOptimizerAssumption DEF NoRoute, Entries, NoMetrics, OwnMetrics, MetricSet
<1>1. CASE Optimize
  BY <1>1, <1>0 DEF Optimize, TypeOK, PhaseInv
<1>2. CASE Fetch
  <2>1. list' \in [Routes -> Entries]
    BY <1>2, <1>0 DEF Fetch, ghosts, TypeOK
  <2>2. left' \subseteq {k \in Routes : Filter(list[k])'}
    <3> SUFFICES ASSUME NEW k \in left' PROVE k \in Routes /\ Filter(list[k])'
      OBVIOUS
    <3>1. k \in Routes /\ Filter(route[k]) /\ list'[k] = route[k]
      BY <1>2 DEF Fetch
    <3>2. job' = job /\ nic' = nic
      BY <1>2 DEF Fetch
    <3> QED BY <3>1, <3>2
        DEF Filter, ShouldOptimizeLoopback, ShouldOptimizeLocal, ShouldOptimizeNIC
  <2> QED BY <1>2, <2>1, <2>2 DEF Fetch, ghosts, TypeOK, PhaseInv
<1>3. CASE FetchFails
  BY <1>3 DEF FetchFails, NextJob, ghosts, TypeOK, PhaseInv
<1>4. CASE EndJob
  BY <1>4, <1>0 DEF EndJob, NextJob, ghosts, TypeOK, PhaseInv
<1>5. CASE DetectPrimaryNIC
  BY <1>5 DEF DetectPrimaryNIC, ghosts, TypeOK, PhaseInv
<1>6. CASE DetectFails
  BY <1>6 DEF DetectFails, NextJob, ghosts, TypeOK, PhaseInv
<1>7. ASSUME NEW k \in Routes, ApplyRouteChange(k) \/ ChangeFails(k) PROVE TypeInv'
  <2>1. route' \in [Routes -> Entries]
    <3>1. Changes(k) \/ route' = route
      BY <1>7 DEF ApplyRouteChange, ChangeFails
    <3> QED BY <3>1, ChangesType DEF TypeOK
  <2>2. left' \subseteq {l \in Routes : Filter(list[l])'}
    <3>1. left' \subseteq left /\ job' = job /\ nic' = nic /\ list' = list
      BY <1>7 DEF ApplyRouteChange, ChangeFails
    <3> QED BY <3>1
        DEF TypeOK, Filter, ShouldOptimizeLoopback, ShouldOptimizeLocal, ShouldOptimizeNIC
  <2> QED BY <1>7, <2>1, <2>2 DEF ApplyRouteChange, ChangeFails, ghosts, TypeOK, PhaseInv
<1>8. ASSUME NEW k \in Routes, OthersChange(k) PROVE TypeInv'
  <2>1. route' \in [Routes -> Entries]
    BY <1>8, ForeignType DEF OthersChange, TypeOK
  <2>2. left' \subseteq {l \in Routes : Filter(list[l])'}
    BY <1>8 DEF OthersChange, process, TypeOK, Filter, ShouldOptimizeLoopback,
                ShouldOptimizeLocal, ShouldOptimizeNIC
  <2>3. KeyOf[k] \in Keys
    BY RouteOptimizerAssumption
  <2> QED BY <1>8, <2>1, <2>2, <2>3 DEF OthersChange, process, ghosts, TypeOK, PhaseInv
<1>9. CASE Restart
  BY <1>9, <1>0 DEF Restart, ghosts, TypeOK, PhaseInv
<1>10. CASE UNCHANGED vars
  BY <1>10 DEF vars, process, ghosts, TypeOK, PhaseInv, Filter, ShouldOptimizeLoopback,
               ShouldOptimizeLocal, ShouldOptimizeNIC
<1> QED BY <1>1, <1>2, <1>3, <1>4, <1>5, <1>6, <1>7, <1>8, <1>9, <1>10 DEF Next, Program

\* Every variable has a value the program or the kernel can give it.
THEOREM TypeCorrect == Spec => []TypeOK
<1>1. TypeInv => TypeOK
  BY DEF TypeInv
<1> QED BY TypeInit, TypeStep, <1>1, PTL DEF Spec

-----------------------------------------------------------------------------
(***************************************************************************)
(* What Optimize may change.                                               *)
(***************************************************************************)

\* A change adds and removes no route.
LEMMA ChangesThere ==
    ASSUME TypeOK, NEW k \in left, Changes(k), NEW l \in Routes
    PROVE  route'[l].there = route[l].there
<1>1. list[k].there /\ list[k] \in Entries
  BY DEF TypeOK, Filter, ShouldOptimizeLoopback, ShouldOptimizeLocal, ShouldOptimizeNIC
<1>2. Line(k).there
  BY <1>1 DEF Line, Entries
<1>3. PICK first \in Routes :
        /\ IsFirst(first, Aliases(k))
        /\ route' = route \/ route' = [route EXCEPT ![first] = Line(k)]
  BY DEF Changes
<1>4. route[first].there
  BY <1>3 DEF IsFirst, Aliases
<1>5. route \in [Routes -> Entries] /\ route[first] \in Entries /\ Line(k).there = TRUE
  <2>1. route \in [Routes -> Entries] /\ list[k].there \in BOOLEAN
    BY <1>1 DEF TypeOK, Entries
  <2>2. Line(k).there = list[k].there
    BY <1>1 DEF Line, Entries
  <2> QED BY <1>2, <2>1, <2>2
<1>6. route[first].there = TRUE
  BY <1>4, <1>5 DEF Entries
<1> QED BY <1>3, <1>5, <1>6

\* So a route has its key to itself after a change if it had it before.
LEMMA AloneKept ==
    ASSUME TypeOK, NEW k \in left, Changes(k), NEW l \in Routes
    PROVE  Alone(l)' <=> Alone(l)
BY ChangesThere DEF Alone

\* What a change does to a route with a key of its own of which nobody else has
\* changed a route since the listing: nothing, unless the line is its own, and
\* then it gives the route, which the job has selected, the metrics of the job.
LEMMA ChangesUnraced ==
    ASSUME TypeOK, ListInv, NEW k \in left, Changes(k),
           NEW l \in Routes, KeyOf[l] \notin raced, Alone(l)
    PROVE  \/ route'[l] = route[l] /\ l # k
           \/ /\ l = k
              /\ Filter(route[k]) /\ Understood(k) /\ list[k] = route[k]
              /\ route'[k] = [route[k] EXCEPT !.metrics = Params]
<1>0. k \in Routes /\ Filter(list[k]) /\ route \in [Routes -> Entries]
  BY DEF TypeOK
<1>1. PICK first \in Routes :
        /\ IsFirst(first, Aliases(k))
        /\ \/ SameRoute(route[first], Line(k)) /\ route' = route
           \/ route' = [route EXCEPT ![first] = Line(k)]
  BY DEF Changes
<1>2. first \in Routes /\ KeyOf[first] = KeyOf[k] /\ route[first].there
  BY <1>1 DEF IsFirst, Aliases
<1>3. CASE l = k
  <2>1. list[k] = route[k] /\ Filter(route[k]) /\ Understood(k)
    BY <1>0, <1>3 DEF ListInv, Changes
  <2>2. first = k
    BY <1>2, <1>3 DEF Alone
  <2>3. Line(k) = [route[k] EXCEPT !.metrics = Params]
    BY <2>1 DEF Line
  <2>4. route'[k] = [route[k] EXCEPT !.metrics = Params]
    <3>1. CASE route' = [route EXCEPT ![first] = Line(k)]
      BY <1>0, <2>2, <2>3, <3>1
    <3>2. CASE SameRoute(route[first], Line(k)) /\ route' = route
      <4>1. route[k] \in Entries
        BY <1>0
      <4>2. route[k].metrics = Params
        BY <2>2, <2>3, <3>2, <4>1 DEF SameRoute, Entries
      <4> QED BY <3>2, <4>1, <4>2 DEF Entries
    <3> QED BY <1>1, <3>1, <3>2
  <2> QED BY <1>3, <2>1, <2>4
<1>4. CASE l # k
  <2>1. first # l
    <3> SUFFICES ASSUME first = l PROVE FALSE
      OBVIOUS
    <3>1. KeyOf[k] = KeyOf[l]
      BY <1>2
    <3>2. route[k].there
      BY <3>1 DEF ListInv
    <3> QED BY <1>0, <1>4, <3>1, <3>2 DEF Alone
  <2> QED BY <1>0, <1>1, <1>4, <2>1
<1> QED BY <1>3, <1>4

\* In a step that is Optimize's or a restart, a route is changed by a change only.
LEMMA OwnSteps ==
    ASSUME [Next]_vars, process' # process
    PROVE  \/ route' = route
           \/ \E k \in left : Changes(k) /\ at = "apply" /\ left' = left \ {k}
                              /\ UNCHANGED <<list, raced>>
<1>1. CASE Optimize \/ Fetch \/ FetchFails \/ EndJob \/ DetectPrimaryNIC
             \/ DetectFails \/ Restart
  BY <1>1 DEF Optimize, Fetch, FetchFails, EndJob, DetectPrimaryNIC, DetectFails, Restart
<1>2. ASSUME NEW k \in Routes, ApplyRouteChange(k) \/ ChangeFails(k)
      PROVE  \/ route' = route
             \/ \E l \in left : Changes(l) /\ at = "apply" /\ left' = left \ {l}
                                /\ UNCHANGED <<list, raced>>
  BY <1>2 DEF ApplyRouteChange, ChangeFails, IsFirst, ghosts
<1>3. ASSUME NEW k \in Routes, OthersChange(k) PROVE FALSE
  BY <1>3 DEF OthersChange
<1>4. CASE UNCHANGED vars
  BY <1>4 DEF vars
<1> QED BY <1>1, <1>2, <1>3, <1>4 DEF Next, Program

LEMMA ListStep == TypeInv /\ ListInv /\ [Next]_vars => ListInv'
<1> SUFFICES ASSUME TypeInv, ListInv, [Next]_vars, NEW l \in left', KeyOf[l] \notin raced'
             PROVE  (route[l].there /\ (Alone(l) => list[l] = route[l]))'
  BY DEF ListInv
<1> USE DEF TypeInv
<1>1. CASE Optimize \/ FetchFails \/ EndJob \/ DetectPrimaryNIC \/ DetectFails \/ Restart
  BY <1>1 DEF Optimize, FetchFails, EndJob, NextJob, DetectPrimaryNIC, DetectFails, Restart, PhaseInv
<1>2. CASE Fetch
  BY <1>2 DEF Fetch, Filter, ShouldOptimizeLoopback, ShouldOptimizeLocal, ShouldOptimizeNIC
<1>3. ASSUME NEW k \in Routes, ApplyRouteChange(k) \/ ChangeFails(k)
      PROVE  (route[l].there /\ (Alone(l) => list[l] = route[l]))'
  <2>1. l \in left /\ l # k /\ k \in left /\ l \in Routes /\ list' = list /\ raced' = raced
    BY <1>3 DEF ApplyRouteChange, ChangeFails, ghosts, TypeOK, IsFirst
  <2>2. route[l].there /\ (Alone(l) => list[l] = route[l])
    BY <2>1 DEF ListInv
  <2>3. CASE route' = route
    BY <2>1, <2>2, <2>3 DEF Alone
  <2>4. CASE Changes(k)
    <3>1. route'[l].there
      BY <2>1, <2>2, <2>4, ChangesThere
    <3>2. Alone(l)' => Alone(l)
      BY <2>1, <2>4, AloneKept
    <3>3. Alone(l) => route'[l] = route[l]
      BY <2>1, <2>4, ChangesUnraced
    <3> QED BY <2>1, <2>2, <3>1, <3>2, <3>3
  <2> QED BY <1>3, <2>3, <2>4 DEF ApplyRouteChange, ChangeFails
<1>4. ASSUME NEW k \in Routes, OthersChange(k)
      PROVE  (route[l].there /\ (Alone(l) => list[l] = route[l]))'
  <2>1. l \in left /\ l \in Routes /\ list' = list /\ at = "apply"
    BY <1>4 DEF OthersChange, process, TypeOK, PhaseInv
  <2>2. raced' = raced \cup {KeyOf[k]}
    BY <1>4, <2>1 DEF OthersChange
  <2>3. KeyOf[l] # KeyOf[k] /\ KeyOf[l] \notin raced
    BY <2>2
  <2>4. \A m \in Routes : KeyOf[m] = KeyOf[l] => route'[m] = route[m]
    BY <1>4, <2>3 DEF OthersChange, TypeOK
  <2>5. Alone(l)' => Alone(l)
    BY <2>4 DEF Alone
  <2> QED BY <2>1, <2>3, <2>4, <2>5 DEF ListInv
<1>5. CASE UNCHANGED vars
  BY <1>5 DEF vars, process, ghosts, ListInv, Alone
<1> QED BY <1>1, <1>2, <1>3, <1>4, <1>5 DEF Next, Program

LEMMA ListAlways == Spec => [](TypeInv /\ ListInv)
<1>1. Init => ListInv
  BY DEF Init, ListInv
<1> QED BY <1>1, TypeInit, TypeStep, ListStep, PTL DEF Spec

\* Optimize never adds or removes a route, and never changes where packets go,
\* except that it undoes what others have done to the routes of a key between the
\* listing and the command, and that one route of a key may become another one.
THEOREM ForwardingKeptHolds == Spec => ForwardingKept
<1>1. ASSUME TypeInv, ListInv, [Next]_vars, process' # process, NEW k \in Routes
      PROVE  /\ route'[k].there = route[k].there
             /\ KeyOf[k] \notin raced /\ Alone(k) =>
                  route'[k].kind = route[k].kind /\ route'[k].dev = route[k].dev
  <2>1. CASE route' = route
    BY <2>1
  <2>2. ASSUME NEW l \in left, Changes(l)
        PROVE  /\ route'[k].there = route[k].there
               /\ KeyOf[k] \notin raced /\ Alone(k) =>
                    route'[k].kind = route[k].kind /\ route'[k].dev = route[k].dev
    <3>1. route'[k].there = route[k].there
      BY <1>1, <2>2, ChangesThere DEF TypeInv
    <3>2. ASSUME KeyOf[k] \notin raced, Alone(k)
          PROVE  route'[k].kind = route[k].kind /\ route'[k].dev = route[k].dev
      <4>1. route[k] \in Entries
        BY <1>1 DEF TypeInv, TypeOK
      <4>2. route'[k] = route[k] \/ route'[k] = [route[k] EXCEPT !.metrics = Params]
        BY <1>1, <2>2, <3>2, ChangesUnraced DEF TypeInv
      <4> QED BY <4>1, <4>2 DEF Entries
    <3> QED BY <3>1, <3>2
  <2> QED BY <1>1, <2>1, <2>2, OwnSteps
<1>2. TypeInv /\ ListInv /\ [Next]_vars =>
        [process' # process => \A k \in Routes :
           /\ route'[k].there = route[k].there
           /\ KeyOf[k] \notin raced /\ Alone(k) =>
                route'[k].kind = route[k].kind /\ route'[k].dev = route[k].dev]_vars
  BY <1>1
<1> QED BY <1>2, ListAlways, PTL DEF Spec, ForwardingKept

\* What others have decided about a route is left alone: a locked MTU and, in the
\* main table, a congestion control.
THEOREM DecidedIsKeptHolds == Spec => DecidedIsKept
<1>1. ASSUME TypeInv, ListInv, [Next]_vars, process' # process, NEW k \in Routes,
             KeyOf[k] \notin raced, Alone(k), Decided(route[k])
      PROVE  route'[k] = route[k]
  <2>1. CASE route' = route
    BY <2>1
  <2>2. ASSUME NEW l \in left, Changes(l)
        PROVE  route'[k] = route[k]
    <3>1. ASSUME k = l, Filter(route[k]), Understood(k), list[k] = route[k]
          PROVE  FALSE
      BY <1>1, <3>1 DEF Decided, Filter, Understood, ShouldOptimizeLoopback,
                        ShouldOptimizeLocal, ShouldOptimizeNIC, MainKinds
    <3> QED BY <1>1, <2>2, <3>1, ChangesUnraced DEF TypeInv
  <2> QED BY <1>1, <2>1, <2>2, OwnSteps
<1>2. TypeInv /\ ListInv /\ [Next]_vars =>
        [process' # process => \A k \in Routes :
           KeyOf[k] \notin raced /\ Alone(k) /\ Decided(route[k])
             => route'[k] = route[k]]_vars
  BY <1>1
<1> QED BY <1>2, ListAlways, PTL DEF Spec, DecidedIsKept

-----------------------------------------------------------------------------
(***************************************************************************)
(* What the jobs have done.                                                *)
(***************************************************************************)

\* A change leaves the route as the job wants it, and does not undo what the
\* jobs before have done to it.
LEMMA ChangedIsTuned ==
    ASSUME TypeOK, NEW k \in Routes, Filter(route[k]),
           route'[k] = [route[k] EXCEPT !.metrics = Params],
           UNCHANGED <<cfg, nic, congctl, picked>>
    PROVE  /\ LoopbackTuned(k)'
           /\ job \in {"local", "nic"} => LocalTuned(k)'
           /\ job = "nic" => NicTuned(k)'
<1>1. route[k] \in Entries /\ Params \in MetricSet
  BY ParamsType DEF TypeOK
<1>2. /\ route'[k].there = route[k].there /\ route'[k].dev = route[k].dev
      /\ route'[k].kind = route[k].kind /\ route'[k].down = route[k].down /\ route'[k].metrics = Params
  BY <1>1 DEF Entries
<1>3. /\ LoopbackParams' = LoopbackParams /\ LocalParams' = LocalParams
      /\ NicParams' = NicParams /\ NicParams.cc = congctl /\ congctl # NoCc
  BY ParamsType, RouteOptimizerAssumption
     DEF TypeOK, LoopbackParams, LocalParams, NicParams, Metrics, BytesToSegments
<1>4. CASE job = "loopback"
  BY <1>2, <1>3, <1>4 DEF LoopbackTuned, Params
<1>5. CASE job = "local"
  BY <1>2, <1>3, <1>5 DEF LoopbackTuned, LocalTuned, Params, Filter,
     ShouldOptimizeLocal, ShouldOptimizeLoopback
<1>6. CASE job = "nic"
  BY <1>2, <1>3, <1>6 DEF LoopbackTuned, LocalTuned, NicTuned, Params, Filter,
     ShouldOptimizeLocal, ShouldOptimizeLoopback, ShouldOptimizeNIC, MainKinds
<1> QED BY <1>4, <1>5, <1>6 DEF Filter

LEMMA DoneStep == IInv /\ [Next]_vars => DoneInv'
<1> SUFFICES ASSUME IInv, [Next]_vars, ~err', NEW l \in Routes,
                    KeyOf[l] \notin moved', Alone(l)'
             PROVE  DoneFor(l)'
  BY DEF DoneInv
<1> USE DEF IInv, TypeInv
<1>0. /\ LoopbackTuned(l)' <=> (ShouldOptimizeLoopback(route'[l]) =>
                                  route'[l].metrics = LoopbackParams')
      /\ LocalTuned(l)' <=> (ShouldOptimizeLocal(route'[l]) =>
                                  route'[l].metrics = LocalParams')
  BY DEF LoopbackTuned, LocalTuned, ShouldOptimizeLoopback, ShouldOptimizeLocal
<1>1. CASE Optimize \/ Restart
  BY <1>1 DEF Optimize, Restart, DoneFor
<1>2. CASE FetchFails \/ DetectFails
  BY <1>2 DEF FetchFails, DetectFails, NextJob
<1>3. ASSUME UNCHANGED <<route, cfg>>
      PROVE  /\ LoopbackTuned(l)' <=> LoopbackTuned(l)
             /\ LocalTuned(l)' <=> LocalTuned(l)
             /\ UNCHANGED <<nic, congctl, picked>> => (NicTuned(l)' <=> NicTuned(l))
             /\ Alone(l)' => Alone(l)
  <2>1. LoopbackParams' = LoopbackParams /\ LocalParams' = LocalParams
    BY <1>3 DEF LoopbackParams, LocalParams, Metrics, BytesToSegments
  <2>2. /\ LoopbackTuned(l)' <=> LoopbackTuned(l)
        /\ LocalTuned(l)' <=> LocalTuned(l)
    BY <1>0, <1>3, <2>1 DEF LoopbackTuned, LocalTuned
  <2>3. ASSUME UNCHANGED <<nic, congctl, picked>>
        PROVE  NicTuned(l)' <=> NicTuned(l)
    <3>1. NicParams' = NicParams
      BY <1>3, <2>3 DEF NicParams, Metrics, BytesToSegments
    <3> QED BY <1>3, <2>3, <3>1 DEF NicTuned, ShouldOptimizeNIC
  <2>4. Alone(l)' => Alone(l)
    BY <1>3 DEF Alone
  <2> QED BY <2>2, <2>3, <2>4
<1>4. CASE Fetch
  <2>1. UNCHANGED <<route, cfg, nic, congctl, job, moved, jobErr, err>> /\ at' = "apply" /\ at = "fetch"
    BY <1>4 DEF Fetch
  <2>2. DoneFor(l)
    BY <1>3, <2>1 DEF DoneInv
  <2>3. /\ l \in left' <=> Filter(route[l])
        /\ job = "nic" => picked' = left'
    BY <1>4 DEF Fetch
  <2>4. /\ job = "loopback" => (l \in left' \/ LoopbackTuned(l))
        /\ job = "local" => (l \in left' \/ LocalTuned(l))
    BY <2>3 DEF Filter, LoopbackTuned, LocalTuned
  <2>5. job = "nic" => (l \in left' \/ NicTuned(l)')
    <3>1. ShouldOptimizeNIC(route[l])' <=> ShouldOptimizeNIC(route[l])
      BY <2>1 DEF ShouldOptimizeNIC
    <3> QED BY <2>3, <3>1 DEF Filter, NicTuned
  <2> QED BY <1>3, <2>1, <2>2, <2>4, <2>5 DEF DoneFor
<1>5. CASE EndJob
  <2>1. UNCHANGED <<route, cfg, nic, congctl, picked, moved>> /\ at = "apply" /\ at' # "apply"
    BY <1>5 DEF EndJob, NextJob
  <2>2. ~jobErr /\ left = {} /\ ~err
    BY <1>5 DEF EndJob, NextJob
  <2>3. DoneFor(l)
    BY <1>3, <2>1, <2>2 DEF DoneInv
  <2> QED BY <1>3, <1>5, <2>1, <2>2, <2>3 DEF EndJob, NextJob, DoneFor
<1>6. CASE DetectPrimaryNIC
  <2>1. UNCHANGED <<route, cfg, err, moved>>
    BY <1>6 DEF DetectPrimaryNIC, ghosts
  <2>2. DoneFor(l) /\ job = "nic" /\ job' = job /\ at' = "fetch"
    BY <1>3, <1>6, <2>1 DEF DetectPrimaryNIC, DoneInv, PhaseInv
  <2> QED BY <1>3, <2>1, <2>2 DEF DoneFor
<1>7. ASSUME NEW k \in Routes, ChangeFails(k)
      PROVE  DoneFor(l)'
  <2>1. /\ jobErr' /\ at' = "apply" /\ at = "apply" /\ k \in left
        /\ UNCHANGED <<job, cfg, nic, congctl, moved, err, picked>>
        /\ route' = route \/ Changes(k)
    BY <1>7 DEF ChangeFails, IsFirst, ghosts
  <2>2. KeyOf[l] \notin raced /\ Alone(l)
    <3>1. Alone(l)
      BY <2>1, AloneKept DEF Alone
    <3> QED BY <2>1, <3>1 DEF TypeOK
  <2>3. DoneFor(l)
    BY <2>1, <2>2 DEF DoneInv
  <2>4. /\ job # "loopback" => LoopbackTuned(l)'
        /\ job = "nic" => LocalTuned(l)'
    <3>1. CASE route'[l] = route[l]
      <4>1. LoopbackParams' = LoopbackParams /\ LocalParams' = LocalParams
        BY <2>1 DEF LoopbackParams, LocalParams, Metrics, BytesToSegments
      <4>2. (job # "loopback" => LoopbackTuned(l)) /\ (job = "nic" => LocalTuned(l))
        BY <2>1, <2>3 DEF DoneFor, PhaseInv, TypeOK
      <4> QED BY <1>0, <3>1, <4>1, <4>2 DEF LoopbackTuned, LocalTuned
    <3>2. CASE route'[l] # route[l]
      <4>1. Filter(route[l]) /\ route'[l] = [route[l] EXCEPT !.metrics = Params]
        BY <2>1, <2>2, <3>2, ChangesUnraced
      <4> QED BY <2>1, <4>1, ChangedIsTuned
    <3> QED BY <3>1, <3>2
  <2> QED BY <2>1, <2>4 DEF DoneFor
<1>8. ASSUME NEW k \in Routes, ApplyRouteChange(k)
      PROVE  DoneFor(l)'
  <2>1. /\ at' = "apply" /\ at = "apply" /\ k \in left /\ left' = left \ {k}
        /\ UNCHANGED <<job, cfg, nic, congctl, moved, jobErr, err, picked>>
        /\ Changes(k)
    BY <1>8 DEF ApplyRouteChange, IsFirst, ghosts
  <2>2. KeyOf[l] \notin raced /\ Alone(l)
    <3>1. Alone(l)
      BY <2>1, AloneKept
    <3> QED BY <2>1, <3>1 DEF TypeOK
  <2>3. DoneFor(l)
    BY <2>1, <2>2 DEF DoneInv
  <2>4. CASE l # k /\ route'[l] = route[l]
    <3>1. LoopbackParams' = LoopbackParams /\ LocalParams' = LocalParams /\ NicParams' = NicParams
      BY <2>1 DEF LoopbackParams, LocalParams, NicParams, Metrics, BytesToSegments
    <3>2. /\ LoopbackTuned(l)' <=> LoopbackTuned(l)
          /\ LocalTuned(l)' <=> LocalTuned(l)
      BY <1>0, <2>4, <3>1 DEF LoopbackTuned, LocalTuned
    <3>3. NicTuned(l)' <=> NicTuned(l)
      BY <2>1, <2>4, <3>1 DEF NicTuned, ShouldOptimizeNIC
    <3>4. l \in left' <=> l \in left
      BY <2>1, <2>4
    <3> QED BY <2>1, <2>3, <3>2, <3>3, <3>4 DEF DoneFor
  <2>5. CASE l = k /\ Filter(route[k]) /\ route'[k] = [route[k] EXCEPT !.metrics = Params]
    <3>1. /\ LoopbackTuned(l)'
          /\ job \in {"local", "nic"} => LocalTuned(l)'
          /\ job = "nic" => NicTuned(l)'
      BY <2>1, <2>5, ChangedIsTuned
    <3> QED BY <2>1, <3>1 DEF DoneFor
  <2> QED BY <2>1, <2>2, <2>4, <2>5, ChangesUnraced
<1>9. ASSUME NEW k \in Routes, OthersChange(k) PROVE DoneFor(l)'
  <2>1. /\ UNCHANGED <<cfg, at, job, left, nic, congctl, jobErr, err, picked>>
        /\ moved' = moved \cup {KeyOf[k]}
    BY <1>9 DEF OthersChange, process
  <2>2. \A m \in Routes : KeyOf[m] = KeyOf[l] => route'[m] = route[m]
    BY <1>9, <2>1 DEF OthersChange, TypeOK
  <2>3. KeyOf[l] \notin moved /\ Alone(l) /\ route'[l] = route[l]
    BY <2>1, <2>2 DEF Alone
  <2>4. DoneFor(l)
    BY <2>1, <2>3 DEF DoneInv
  <2>5. LoopbackParams' = LoopbackParams /\ LocalParams' = LocalParams /\ NicParams' = NicParams
    BY <2>1 DEF LoopbackParams, LocalParams, NicParams, Metrics, BytesToSegments
  <2>6. /\ LoopbackTuned(l)' <=> LoopbackTuned(l)
        /\ LocalTuned(l)' <=> LocalTuned(l)
    BY <1>0, <2>3, <2>5 DEF LoopbackTuned, LocalTuned
  <2>7. NicTuned(l)' <=> NicTuned(l)
    BY <2>1, <2>3, <2>5 DEF NicTuned, ShouldOptimizeNIC
  <2> QED BY <2>1, <2>4, <2>6, <2>7 DEF DoneFor
<1>10. CASE UNCHANGED vars
  <2>1. UNCHANGED <<route, cfg, at, job, left, nic, congctl, jobErr, err, picked, moved>>
    BY <1>10 DEF vars, process, ghosts
  <2>2. DoneFor(l)
    BY <1>3, <2>1 DEF DoneInv
  <2> QED BY <1>3, <2>1, <2>2 DEF DoneFor
<1> QED BY <1>1, <1>2, <1>4, <1>5, <1>6, <1>7, <1>8, <1>9, <1>10 DEF Next, Program

\* When Optimize reports no error, every route with a key of its own that nobody
\* else has changed meanwhile is as this call is to make it.
THEOREM SuccessMeansTunedHolds == Spec => []SuccessMeansTuned
<1>1. Init => IInv
  <2>1. Init => ListInv
    BY DEF Init, ListInv
  <2>2. Init => DoneInv
    BY DEF Init, DoneInv, DoneFor
  <2> QED BY <2>1, <2>2, TypeInit DEF IInv
<1>2. IInv /\ [Next]_vars => IInv'
  BY TypeStep, ListStep, DoneStep DEF IInv
<1>3. IInv => SuccessMeansTuned
  BY DEF IInv, DoneInv, DoneFor, SuccessMeansTuned, LoopbackTuned, LocalTuned, NicTuned
<1> QED BY <1>1, <1>2, <1>3, PTL DEF Spec

=============================================================================
