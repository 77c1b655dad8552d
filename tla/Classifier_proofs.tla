-------------------------- MODULE Classifier_proofs --------------------------
(***************************************************************************)
(* Theorems about Classifier, with their proofs.                           *)
(***************************************************************************)
EXTENDS Classifier, TLAPS

\* The actions, as they appear in the steps below.
LEMMA NextCases ==
    ASSUME Next
    PROVE  \/ \E n \in Names : LinkAdd(n) \/ LinkDel(n)
           \/ \E n \in Names, f \in Families : RouteChange(n, f)
           \/ \E f \in Families : Multipath(f)
           \/ Tick \/ StartPass
           \/ \E f \in Families : FetchRoutes(f)
           \/ Refreshed
           \/ \E n \in Names : Configure(n)
           \/ EndPass
BY DEF Next, Environment, Passes

LEMMA InitTypeOK == Init => TypeOK
<1> SUFFICES ASSUME Init PROVE TypeOK
    OBVIOUS
<1>0. {MaxIndex, MaxChanges, Interval} \subseteq Nat
    BY ClassifierAssumption DEF ClassifierAssumption
<1>1. /\ used \in 0..MaxIndex /\ changes \in 0..MaxChanges /\ age \in 0..Interval
      /\ steady \in [Indexes -> 0..Interval]
      /\ index \in [Names -> 0..used] /\ listed \in [Names -> 0..used]
    BY <1>0 DEF Init
<1>2. /\ virtual \in [Names -> BOOLEAN]
      /\ shaped \in [Names -> Classes \cup {"none"}]
      /\ kind \in [Names -> {"unknown", "virtual", "physical"}]
    BY DEF Init
<1>3. /\ defaults \subseteq Families \X Indexes /\ hops \subseteq Families \X Indexes
      /\ external \subseteq Indexes
      /\ mistaken \subseteq Names /\ listFailed \in BOOLEAN
      /\ phase \in {"idle", "refresh", "workers"}
      /\ target \subseteq Names /\ unread \subseteq Families /\ found \subseteq Indexes
    BY DEF Init
<1> QED BY <1>1, <1>2, <1>3 DEF TypeOK

LEMMA OlderType ==
    ASSUME NEW t \in 0..Interval
    PROVE  Older(t) \in 0..Interval
BY ClassifierAssumption DEF Older, ClassifierAssumption

LEMMA ClassType ==
    ASSUME NEW v, NEW e
    PROVE  Class(v, e) \in Classes
BY DEF Class, Classes

LEMMA NextTypeOK == TypeOK /\ [Next]_vars => TypeOK'
<1> SUFFICES ASSUME TypeOK, [Next]_vars PROVE TypeOK'
    OBVIOUS
<1> USE ClassifierAssumption DEF TypeOK, ClassifierAssumption, Indexes
<1>1. CASE UNCHANGED vars
    BY <1>1 DEF vars, env, links, cache, pass, ghosts
<1>2. ASSUME NEW n \in Names, LinkAdd(n) PROVE TypeOK'
    <2> USE <1>2 DEF LinkAdd, Change, cache, pass, ghosts
    <2>1. /\ index' \in [Names -> 0..used'] /\ used' \in 0..MaxIndex
          /\ UNCHANGED <<defaults, hops, steady>>
          /\ listed' \in [Names -> 0..used']
        OBVIOUS
    <2>2. /\ virtual' \in [Names -> BOOLEAN]
          /\ shaped' \in [Names -> Classes \cup {"none"}]
          /\ changes' \in 0..MaxChanges
          /\ mistaken' \subseteq Names
        OBVIOUS
    <2> QED BY <2>1, <2>2
<1>3. ASSUME NEW n \in Names, LinkDel(n) PROVE TypeOK'
    <2>1. index' \in [Names -> 0..used]
        BY <1>3 DEF LinkDel
    <2>2. /\ steady' \in [Indexes -> 0..Interval]
          /\ defaults' \subseteq Families \X Indexes /\ hops' \subseteq Families \X Indexes
        BY <1>3 DEF LinkDel
    <2>3. changes' \in 0..MaxChanges /\ shaped' \in [Names -> Classes \cup {"none"}]
        BY <1>3 DEF LinkDel, Change
    <2>4. UNCHANGED <<virtual, used, cache, pass, ghosts>>
        BY <1>3 DEF LinkDel
    <2> QED BY <2>1, <2>2, <2>3, <2>4 DEF cache, pass, ghosts
<1>4. ASSUME NEW n \in Names, NEW f \in Families, RouteChange(n, f) PROVE TypeOK'
    <2>1. defaults' \subseteq Families \X Indexes
        <3>1. index[n] \in Indexes
            BY <1>4 DEF RouteChange
        <3> QED BY <1>4, <3>1 DEF RouteChange
    <2>2. steady' \in [Indexes -> 0..Interval] /\ changes' \in 0..MaxChanges
        BY <1>4 DEF RouteChange, Change
    <2> QED BY <1>4, <2>1, <2>2 DEF RouteChange, links, cache, pass, ghosts
<1>5. ASSUME NEW f \in Families, Multipath(f) PROVE TypeOK'
    <2>1. changes' \in 0..MaxChanges
        BY <1>5 DEF Multipath, Change
    <2>2. {index[n] : n \in {m \in Names : index[m] # 0}} \subseteq Indexes
        OBVIOUS
    <2>3. hops' \subseteq Families \X Indexes
        BY <1>5, <2>2 DEF Multipath
    <2> QED BY <1>5, <2>1, <2>3 DEF Multipath, links, cache, pass, ghosts
<1>6. CASE Tick
    BY <1>6, OlderType DEF Tick, links, pass, ghosts
<1>7. CASE StartPass
    BY <1>7 DEF StartPass, env, links, cache, ghosts
<1>8. ASSUME NEW f \in Families, FetchRoutes(f) PROVE TypeOK'
    BY <1>8 DEF FetchRoutes, RouteList, env, links, cache, ghosts
<1>9. CASE Refreshed
    BY <1>9 DEF Refreshed, env, links, ghosts
<1>10. ASSUME NEW n \in Names, Configure(n) PROVE TypeOK'
    <2>1. kind' \in [Names -> {"unknown", "virtual", "physical"}]
        BY <1>10 DEF Configure
    <2>2. shaped' \in [Names -> Classes \cup {"none"}]
        BY <1>10, ClassType DEF Configure
    <2> QED BY <1>10, <2>1, <2>2 DEF Configure, env, links
<1>11. CASE EndPass
    BY <1>11 DEF EndPass, env, links, cache, ghosts
<1> QED
    BY <1>1, <1>2, <1>3, <1>4, <1>5, <1>6, <1>7, <1>8, <1>9, <1>10, <1>11, NextCases

\* Every variable keeps a value the program can give it, whatever the
\* environment does.
THEOREM TypeCorrect == Spec => []TypeOK
BY InitTypeOK, NextTypeOK, PTL DEF Spec

-----------------------------------------------------------------------------
(***************************************************************************)
(* The kinds.  A kind that was read when the link was there is right, and  *)
(* stays right while the name comes and goes with links of that kind.      *)
(***************************************************************************)
KindInv ==
    /\ TypeOK
    /\ \A n \in Names \ mistaken :
         kind[n] # "unknown" => (kind[n] = "virtual" <=> virtual[n] \/ n \in Tunnels)

LEMMA NextKindInv == KindInv /\ [Next]_vars => KindInv'
<1> SUFFICES ASSUME KindInv, [Next]_vars PROVE KindInv'
    OBVIOUS
<1>0. TypeOK /\ TypeOK'
    BY NextTypeOK DEF KindInv
<1> USE <1>0 DEF KindInv
<1>1. CASE UNCHANGED <<kind, virtual, mistaken>>
    BY <1>1
<1>2. ASSUME NEW n \in Names, LinkAdd(n) PROVE KindInv'
    <2>1. \A m \in Names \ mistaken' : kind[m] # "unknown" => virtual'[m] = virtual[m]
        BY <1>2 DEF LinkAdd, TypeOK
    <2>2. mistaken \subseteq mistaken' /\ kind' = kind
        BY <1>2 DEF LinkAdd, cache
    <2> QED BY <2>1, <2>2
<1>3. ASSUME NEW n \in Names, Configure(n) PROVE KindInv'
    BY <1>3 DEF Configure, Detected, env, links, TypeOK
<1>4. [Next]_vars => \/ UNCHANGED <<kind, virtual, mistaken>>
                    \/ \E n \in Names : LinkAdd(n) \/ Configure(n)
    BY NextCases
    DEF LinkDel, RouteChange, Multipath, Tick, StartPass, FetchRoutes, Refreshed,
        EndPass, vars, env, links, cache, ghosts
<1> QED BY <1>1, <1>2, <1>3, <1>4

LEMMA KindAlways == Spec => []KindInv
<1>1. Init => KindInv
    BY InitTypeOK DEF Init, KindInv
<1> QED BY <1>1, NextKindInv, PTL DEF Spec

\* The kind cached for a name is the kind of its link, for any number of links
\* and changes, unless it was read when the link was gone or the name has come
\* back as another kind of link since.
THEOREM KindCachedHolds == Spec => []KindCached
<1>1. KindInv => KindCached
    BY DEF KindInv, KindCached
<1> QED BY <1>1, KindAlways, PTL

-----------------------------------------------------------------------------
(***************************************************************************)
(* The default routes.  An index whose routes have not changed since the   *)
(* last refresh, or since the tick the running refresh is in, is known for *)
(* what it is.                                                             *)
(***************************************************************************)
Read == Families \ unread

FreshInv ==
    /\ TypeOK
    /\ phase = "idle" => target = {}
    /\ phase = "refresh" => age = Interval
    /\ ~listFailed =>
         \A i \in Indexes : steady[i] > age => (i \in external <=> HasDefault(i))
    /\ phase = "refresh" /\ ~listFailed =>
         \A i \in Indexes : steady[i] > 0 =>
            (i \in found <=> \E f \in Read : <<f, i>> \in defaults)

LEMMA OlderStep ==
    ASSUME NEW s \in 0..Interval, NEW t \in 0..Interval, Older(s) > Older(t)
    PROVE  s > t
BY ClassifierAssumption DEF Older, ClassifierAssumption

LEMMA NextFreshInv == FreshInv /\ [Next]_vars => FreshInv'
<1> SUFFICES ASSUME FreshInv, [Next]_vars PROVE FreshInv'
    OBVIOUS
<1>0. TypeOK /\ TypeOK'
    BY NextTypeOK DEF FreshInv
<1> USE <1>0 DEF FreshInv, HasDefault, Read
<1>1. CASE UNCHANGED vars
    BY <1>1 DEF vars, env, links, cache, pass, ghosts
<1>2. ASSUME NEW n \in Names, LinkAdd(n) PROVE FreshInv'
    BY <1>2 DEF LinkAdd, cache, pass, ghosts
<1>3. ASSUME NEW n \in Names, LinkDel(n) PROVE FreshInv'
    <2>1. \A i \in Indexes : steady'[i] > 0 =>
            /\ steady'[i] = steady[i]
            /\ \A f \in Families : <<f, i>> \in defaults' <=> <<f, i>> \in defaults
        BY <1>3, ClassifierAssumption
        DEF LinkDel, TypeOK, Indexes, ClassifierAssumption
    <2>2. UNCHANGED <<age, external, phase, target, unread, found, listFailed>>
        BY <1>3 DEF LinkDel, cache, pass, ghosts
    <2>3. \A i \in Indexes : steady'[i] > age => steady'[i] > 0
        BY ClassifierAssumption DEF TypeOK, ClassifierAssumption
    <2>4. ~listFailed' =>
            \A i \in Indexes : steady'[i] > age' => (i \in external' <=> HasDefault(i)')
        BY <2>1, <2>2, <2>3
    <2>5. phase' = "refresh" /\ ~listFailed' =>
            \A i \in Indexes : steady'[i] > 0 =>
               (i \in found' <=> \E f \in Read' : <<f, i>> \in defaults')
        BY <2>1, <2>2
    <2> QED BY <1>0, <2>2, <2>4, <2>5
<1>4. ASSUME NEW n \in Names, NEW f \in Families, RouteChange(n, f) PROVE FreshInv'
    <2>1. \A i \in Indexes : steady'[i] > 0 =>
            /\ steady'[i] = steady[i]
            /\ \A g \in Families : <<g, i>> \in defaults' <=> <<g, i>> \in defaults
        <3> SUFFICES ASSUME NEW i \in Indexes, steady'[i] > 0
                     PROVE  /\ steady'[i] = steady[i]
                            /\ \A g \in Families :
                                 <<g, i>> \in defaults' <=> <<g, i>> \in defaults
            OBVIOUS
        <3>1. i # index[n] /\ steady'[i] = steady[i]
            BY <1>4, ClassifierAssumption DEF RouteChange, TypeOK
        <3> QED BY <1>4, <3>1 DEF RouteChange
    <2>2. UNCHANGED <<age, external, phase, target, unread, found, listFailed>>
        BY <1>4 DEF RouteChange, cache, pass, ghosts
    <2>3. \A i \in Indexes : steady'[i] > age => steady'[i] > 0
        BY ClassifierAssumption DEF TypeOK, ClassifierAssumption
    <2>4. ~listFailed' =>
            \A i \in Indexes : steady'[i] > age' => (i \in external' <=> HasDefault(i)')
        BY <2>1, <2>2, <2>3
    <2>5. phase' = "refresh" /\ ~listFailed' =>
            \A i \in Indexes : steady'[i] > 0 =>
               (i \in found' <=> \E g \in Read' : <<g, i>> \in defaults')
        BY <2>1, <2>2
    <2> QED BY <1>0, <2>2, <2>4, <2>5
<1>5. ASSUME NEW f \in Families, Multipath(f) PROVE FreshInv'
    <2>1. defaults' = defaults
        BY <1>5 DEF Multipath
    <2>2. UNCHANGED <<steady, age, external, phase, target, unread, found, listFailed>>
        BY <1>5 DEF Multipath, cache, pass, ghosts
    <2>3. ~listFailed' =>
            \A i \in Indexes : steady'[i] > age' => (i \in external' <=> HasDefault(i)')
        BY <2>1, <2>2
    <2>4. phase' = "refresh" /\ ~listFailed' =>
            \A i \in Indexes : steady'[i] > 0 =>
               (i \in found' <=> \E g \in Read' : <<g, i>> \in defaults')
        BY <2>1, <2>2
    <2> QED BY <1>0, <2>2, <2>3, <2>4
<1>6. CASE Tick
    <2>1. \A i \in Indexes : steady'[i] > age' => steady[i] > age
        BY <1>6, OlderStep DEF Tick, TypeOK
    <2> QED BY <1>6, <2>1 DEF Tick, pass, ghosts
<1>7. CASE StartPass
    <2>1. UNCHANGED <<steady, age, external, defaults>>
        BY <1>7 DEF StartPass, env, cache
    <2>2. CASE Recent
        BY <1>7, <2>1, <2>2 DEF StartPass
    <2>3. CASE ~Recent
        <3>1. age = Interval /\ \A i \in Indexes : steady[i] <= Interval
            BY <2>3, ClassifierAssumption DEF Recent, TypeOK, ClassifierAssumption
        <3>2. phase' = "refresh" /\ unread' = Families /\ found' = {}
            BY <1>7, <2>3 DEF StartPass
        <3>3. ~\E i \in Indexes : steady'[i] > age'
            BY <2>1, <3>1, ClassifierAssumption DEF TypeOK, ClassifierAssumption
        <3> QED BY <1>0, <2>1, <3>1, <3>2, <3>3
    <2> QED BY <2>2, <2>3
<1>8. ASSUME NEW f \in Families, FetchRoutes(f) PROVE FreshInv'
    <2>1. /\ UNCHANGED <<steady, age, external, defaults, phase, target>>
          /\ phase = "refresh" /\ f \in unread /\ unread' = unread \ {f}
        BY <1>8 DEF FetchRoutes, env, cache
    <2>2. RouteList(f) \ {0} = {i \in Indexes : <<f, i>> \in defaults}
        BY ClassifierAssumption DEF RouteList, Indexes
    <2>3. ~listFailed' => /\ ~listFailed
                         /\ found' = found \cup {i \in Indexes : <<f, i>> \in defaults}
        BY <1>8, <2>2 DEF FetchRoutes
    <2>4. ~listFailed' =>
            \A i \in Indexes : steady[i] > 0 =>
               (i \in found' <=> \E g \in Read' : <<g, i>> \in defaults)
        BY <2>1, <2>3
    <2> QED BY <1>0, <2>1, <2>3, <2>4
<1>9. CASE Refreshed
    BY <1>9 DEF Refreshed, env, ghosts
<1>10. ASSUME NEW n \in Names, Configure(n) PROVE FreshInv'
    BY <1>10 DEF Configure, env
<1>11. CASE EndPass
    BY <1>11 DEF EndPass, env, cache, ghosts
<1> QED
    BY <1>1, <1>2, <1>3, <1>4, <1>5, <1>6, <1>7, <1>8, <1>9, <1>10, <1>11, NextCases

LEMMA FreshAlways == Spec => []FreshInv
<1>1. Init => FreshInv
    BY InitTypeOK, ClassifierAssumption
    DEF Init, FreshInv, Indexes, ClassifierAssumption
<1> QED BY <1>1, NextFreshInv, PTL DEF Spec

\* A pass classifies with default routes at most refreshInterval old, however
\* routes, links and passes follow each other, unless a list of routes failed.
THEOREM ExternalFreshHolds == Spec => ExternalFresh
<1> DEFINE Fresh == Interval > 0 /\ phase # "workers" /\ phase' = "workers" /\ ~listFailed =>
         \A i \in Indexes :
            steady[i] = Interval => (i \in external' <=> HasDefault(i))
<1>1. FreshInv /\ [Next]_vars => [Fresh]_vars
    <2> SUFFICES ASSUME FreshInv, Next, Interval > 0, ~listFailed,
                        phase # "workers", phase' = "workers",
                        NEW i \in Indexes, steady[i] = Interval
                 PROVE  i \in external' <=> HasDefault(i)
        OBVIOUS
    <2>1. CASE StartPass
        BY <2>1, ClassifierAssumption
        DEF StartPass, Recent, FreshInv, TypeOK, cache, ClassifierAssumption
    <2>2. CASE Refreshed
        BY <2>2, ClassifierAssumption
        DEF Refreshed, FreshInv, TypeOK, HasDefault, Read, ClassifierAssumption
    <2>3. ~(StartPass \/ Refreshed) => FALSE
        BY NextCases DEF LinkAdd, LinkDel, RouteChange, Multipath, Tick, FetchRoutes,
                         Configure, EndPass, pass
    <2> QED BY <2>1, <2>2, <2>3
<1> QED BY <1>1, FreshAlways, PTL DEF Spec, ExternalFresh

-----------------------------------------------------------------------------
(***************************************************************************)
(* Both together are what Classify needs.                                  *)
(***************************************************************************)

\* A link that is configured gets the profile of the class it has, whatever has
\* happened to it and to others since the pass listed it, if its kind is not
\* mistaken, its default routes are those of the last refresh and it is not behind
\* a multipath one only.
THEOREM ClassifiedRightHolds == Spec => ClassifiedRight
<1> DEFINE Right ==
         \A n \in target \ target' :
            /\ index[n] # 0 /\ index[n] = listed[n] /\ n \notin mistaken
            /\ steady[index[n]] > age /\ ~listFailed /\ ~BehindMultipath(n)
            => shaped'[n] = TrueClass(n)
<1>1. KindInv /\ FreshInv /\ [Next]_vars => [Right]_vars
    <2> SUFFICES ASSUME KindInv, FreshInv, Next, NEW n \in target \ target',
                        index[n] # 0, index[n] = listed[n], n \notin mistaken,
                        steady[index[n]] > age, ~listFailed, ~BehindMultipath(n)
                 PROVE  shaped'[n] = TrueClass(n)
        OBVIOUS
    <2>1. n \in Names /\ index[n] \in Indexes
        BY ClassifierAssumption DEF KindInv, TypeOK, Indexes, ClassifierAssumption
    <2>2. CASE Configure(n)
        <3>1. kind'[n] = "virtual" <=> virtual[n] \/ n \in Tunnels
            BY <2>1, <2>2 DEF KindInv, TypeOK, Configure, Detected
        <3>2. listed[n] \in external <=> HasDefault(index[n])
            BY <2>1 DEF FreshInv
        <3>3. shaped'[n] = Class(kind'[n] = "virtual",
                                 n \in Tunnels \/ listed[n] \in external)
            BY <2>1, <2>2 DEF KindInv, TypeOK, Configure
        <3>4. TrueClass(n) = Class(virtual[n] \/ n \in Tunnels,
                                   n \in Tunnels \/ HasDefault(index[n]))
            BY <2>1 DEF TrueClass, BehindMultipath, HasDefault, Class
        <3> QED BY <3>1, <3>2, <3>3, <3>4 DEF Class
    <2>3. ~Configure(n) => phase = "idle" /\ StartPass
        BY <2>1, NextCases
        DEF LinkAdd, LinkDel, RouteChange, Multipath, Tick, FetchRoutes, Refreshed,
            Configure, EndPass, StartPass, pass
    <2>4. phase # "idle"
        BY DEF FreshInv
    <2> QED BY <2>2, <2>3, <2>4
<1> QED BY <1>1, KindAlways, FreshAlways, PTL DEF Spec, ClassifiedRight

=============================================================================
