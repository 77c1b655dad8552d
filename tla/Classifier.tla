----------------------------- MODULE Classifier -----------------------------
(***************************************************************************)
(* InterfaceClassifier of internal/traffic and the passes that use it: the *)
(* set of links with a default route, which is read again only when it is  *)
(* refreshInterval old, and the kind of each name, virtual or physical,    *)
(* which is read from sysfs once and kept.                                 *)
(*                                                                         *)
(* A pass lists the links, refreshes the set if it is due, and classifies  *)
(* and configures the links it is for.  How a link is configured is the    *)
(* subject of Shaper; here it ends up with the profile of its class.  Which *)
(* links a pass is for is the subject of Watcher; here it is any choice.   *)
(* Loopback and the names that are never shaped are left out: their class  *)
(* depends on nothing that is cached.                                      *)
(*                                                                         *)
(* Time is counted in ticks.  The routes are read within one tick.         *)
(***************************************************************************)
EXTENDS Integers

CONSTANTS
    Names,          \* names of links
    Tunnels,        \* those with a prefix of externalVirtualPrefixes
    MaxIndex,       \* bound: link indexes given out
    MaxChanges,     \* bound: changes of the environment in a behaviour
    Families,       \* address families, read in their order
    Interval        \* refreshInterval in ticks; 0 refreshes in every pass

ASSUME ClassifierAssumption ==
    /\ Tunnels \subseteq Names
    /\ MaxIndex \in Nat /\ MaxChanges \in Nat /\ Interval \in Nat
    /\ Families \subseteq Nat /\ Families # {}

Indexes == 1..MaxIndex

VARIABLES
    \* The kernel.
    index,      \* the index of the link of each name, 0 for none
    virtual,    \* whether it is virtual, or the last link of that name was
    used,       \* the last index given out
    defaults,   \* the default routes with one next hop: family and index
    hops,       \* the next hops of those with several: family and index
    shaped,     \* the class each link has the profile of
    changes,    \* the changes so far
    steady,     \* ghost: ticks since the defaults of an index changed, up to
                \* Interval
    mistaken,   \* ghost: names whose kind was read when their link was gone, or
                \* whose link is of another kind than when it was read
    listFailed, \* ghost: a list of routes of the last refresh has failed
    \* The classifier.
    external,   \* externalLinkIndexes
    kind,       \* virtualCache
    age,        \* ticks since lastRefresh, up to Interval; Interval when there
                \* was none
    \* The pass.
    phase,
    target,     \* the names the pass is for and has not reached
    listed,     \* the indexes in its list
    unread,     \* the families refresh has not read
    found       \* the indexes it has found

links == <<index, virtual, used>>
env == <<links, defaults, hops, changes, steady>>
cache == <<external, kind, age>>
pass == <<phase, target, listed, unread, found>>
ghosts == <<mistaken, listFailed>>
vars == <<env, shaped, cache, pass, ghosts>>

Classes == {"externalPhysical", "externalVirtual", "internalVirtual"}

\* Classify, from what is known of a link.
Class(isVirtual, isExternal) ==
    IF ~isVirtual THEN "externalPhysical"
    ELSE IF isExternal THEN "externalVirtual" ELSE "internalVirtual"

\* The class a link has by the comments of Classify and isExternalInterface, with
\* nothing cached: it is external if it has a default route, of either sort.
TrueClass(n) ==
    Class(virtual[n] \/ n \in Tunnels,
          n \in Tunnels \/ \E f \in Families : <<f, index[n]>> \in defaults \cup hops)

\* The daemon starts with no link known; those there are come one by one.
Init ==
    /\ index = [n \in Names |-> 0]
    /\ virtual \in [Names -> BOOLEAN]
    /\ used = 0
    /\ defaults = {}
    /\ hops = {}
    /\ shaped = [n \in Names |-> "none"]
    /\ changes = 0
    /\ steady = [i \in Indexes |-> 0]
    /\ external = {}
    /\ kind = [n \in Names |-> "unknown"]
    /\ age = Interval
    /\ mistaken = {}
    /\ listFailed = FALSE
    /\ phase = "idle"
    /\ target = {}
    /\ listed = [n \in Names |-> 0]
    /\ unread = {}
    /\ found = {}

-----------------------------------------------------------------------------
(***************************************************************************)
(* The environment.                                                        *)
(***************************************************************************)
Change == changes < MaxChanges /\ changes' = changes + 1

LinkAdd(n) ==
    /\ Change
    /\ index[n] = 0
    /\ used < MaxIndex
    /\ used' = used + 1
    /\ index' = [index EXCEPT ![n] = used + 1]
    /\ \E v \in BOOLEAN :
         /\ virtual' = [virtual EXCEPT ![n] = v]
         /\ mistaken' = IF kind[n] # "unknown" /\ v # virtual[n]
                        THEN mistaken \cup {n} ELSE mistaken
    /\ shaped' = [shaped EXCEPT ![n] = "none"]
    /\ UNCHANGED <<defaults, hops, steady, cache, pass, listFailed>>

\* Its routes go with it.
LinkDel(n) ==
    /\ Change
    /\ index[n] # 0
    /\ index' = [index EXCEPT ![n] = 0]
    /\ defaults' = {r \in defaults : r[2] # index[n]}
    /\ hops' = {r \in hops : r[2] # index[n]}
    /\ steady' = [steady EXCEPT ![index[n]] = 0]
    /\ shaped' = [shaped EXCEPT ![n] = "none"]
    /\ UNCHANGED <<virtual, used, cache, pass, ghosts>>

\* A link gets or loses a default route of its own.
RouteChange(n, f) ==
    /\ Change
    /\ index[n] # 0
    /\ LET r == <<f, index[n]>>
       IN  defaults' = IF r \in defaults THEN defaults \ {r} ELSE defaults \cup {r}
    /\ steady' = [steady EXCEPT ![index[n]] = 0]
    /\ UNCHANGED <<links, hops, shaped, cache, pass, ghosts>>

\* The default route of a family with several next hops leads over other links,
\* comes or goes.
Multipath(f) ==
    /\ Change
    /\ \E over \in SUBSET {index[n] : n \in {m \in Names : index[m] # 0}} :
         hops' = {r \in hops : r[1] # f} \cup ({f} \X over)
    /\ UNCHANGED <<links, defaults, steady, shaped, cache, pass, ghosts>>

\* RouteList of a family: the index of each default route, 0 for one with several
\* next hops.
RouteList(f) ==
    {i \in Indexes : <<f, i>> \in defaults} \cup {0 : r \in {h \in hops : h[1] = f}}

Older(t) == IF t < Interval THEN t + 1 ELSE t

Tick ==
    /\ phase \in {"idle", "workers"}
    /\ age' = Older(age)
    /\ steady' = [i \in Indexes |-> Older(steady[i])]
    /\ UNCHANGED <<links, defaults, hops, changes, shaped, external, kind, pass, ghosts>>

-----------------------------------------------------------------------------
(***************************************************************************)
(* A pass.                                                                 *)
(***************************************************************************)
MutRecent == age <= Interval

\* RefreshExternalInterfaces does nothing yet.
Recent == age < Interval

\* LinkList, for any of the names, then the decision to refresh.  A pass may
\* have nothing to do here: it is for a link left out.
StartPass ==
    /\ phase = "idle"
    /\ \E only \in SUBSET Names : target' = {n \in only : index[n] # 0}
    /\ listed' = index
    /\ IF Recent THEN phase' = "workers" /\ UNCHANGED <<unread, found, listFailed>>
       ELSE /\ phase' = "refresh"
            /\ unread' = Families
            /\ found' = {}
            /\ listFailed' = FALSE
    /\ UNCHANGED <<env, shaped, cache, mistaken>>

MutFetchRoutes(f) ==
    /\ phase = "refresh"
    /\ f \in unread /\ \A g \in unread : f <= g
    /\ unread' = unread \ {f}
    /\ \/ /\ found' = found \cup RouteList(f)
          /\ UNCHANGED listFailed
       \/ listFailed' = TRUE /\ UNCHANGED found
    /\ UNCHANGED <<env, shaped, cache, phase, target, listed, mistaken>>

\* The default routes of a family with an index.  A list that fails counts as an
\* empty one.
FetchRoutes(f) ==
    /\ phase = "refresh"
    /\ f \in unread /\ \A g \in unread : f <= g
    /\ unread' = unread \ {f}
    /\ \/ /\ found' = found \cup (RouteList(f) \ {0})
          /\ UNCHANGED listFailed
       \/ listFailed' = TRUE /\ UNCHANGED found
    /\ UNCHANGED <<env, shaped, cache, phase, target, listed, mistaken>>

MutRefreshed ==
    /\ phase = "refresh"
    /\ unread = {}
    /\ external' = external \cup found
    /\ age' = 0
    /\ found' = {}
    /\ phase' = "workers"
    /\ UNCHANGED <<env, shaped, kind, target, listed, unread, ghosts>>

Refreshed ==
    /\ phase = "refresh"
    /\ unread = {}
    /\ external' = found
    /\ age' = 0
    /\ found' = {}
    /\ phase' = "workers"
    /\ UNCHANGED <<env, shaped, kind, target, listed, unread, ghosts>>

MutDetected(n) == n \in Tunnels

\* detectVirtualHardware: the name, or what sysfs says of the link that has it
\* now.  Of a link that is gone it says nothing: not virtual.
Detected(n) == n \in Tunnels \/ (index[n] # 0 /\ virtual[n])

\* Classify and the profile of the class, for a link of the list.  The profile
\* goes to the link that has the name now.
Configure(n) ==
    /\ phase = "workers"
    /\ n \in target
    /\ target' = target \ {n}
    /\ kind' = IF kind[n] = "unknown"
               THEN [kind EXCEPT ![n] = IF Detected(n) THEN "virtual" ELSE "physical"]
               ELSE kind
    /\ LET class == Class(kind'[n] = "virtual", n \in Tunnels \/ listed[n] \in external)
       IN  shaped' = IF index[n] = 0 THEN shaped ELSE [shaped EXCEPT ![n] = class]
    /\ mistaken' = IF kind[n] = "unknown" /\ index[n] = 0
                   THEN mistaken \cup {n} ELSE mistaken
    /\ UNCHANGED <<env, external, age, phase, listed, unread, found, listFailed>>

EndPass ==
    /\ phase = "workers"
    /\ target = {}
    /\ phase' = "idle"
    /\ listed' = [n \in Names |-> 0]
    /\ UNCHANGED <<env, shaped, cache, target, unread, found, ghosts>>

Environment ==
    \/ \E n \in Names : LinkAdd(n) \/ LinkDel(n) \/ (\E f \in Families : RouteChange(n, f))
    \/ \E f \in Families : Multipath(f)
    \/ Tick

Passes ==
    \/ StartPass
    \/ \E f \in Families : FetchRoutes(f)
    \/ Refreshed
    \/ \E n \in Names : Configure(n)
    \/ EndPass

Next == Environment \/ Passes

Spec == Init /\ [][Next]_vars

-----------------------------------------------------------------------------
(***************************************************************************)
(* Properties.                                                             *)
(***************************************************************************)

\* Every variable has a value the program or the kernel can give it; only real
\* indexes are cached.
TypeOK ==
    /\ index \in [Names -> 0..used]
    /\ virtual \in [Names -> BOOLEAN]
    /\ used \in 0..MaxIndex
    /\ defaults \subseteq Families \X Indexes
    /\ hops \subseteq Families \X Indexes
    /\ shaped \in [Names -> Classes \cup {"none"}]
    /\ changes \in 0..MaxChanges
    /\ steady \in [Indexes -> 0..Interval]
    /\ external \subseteq Indexes
    /\ kind \in [Names -> {"unknown", "virtual", "physical"}]
    /\ age \in 0..Interval
    /\ mistaken \subseteq Names
    /\ listFailed \in BOOLEAN
    /\ phase \in {"idle", "refresh", "workers"}
    /\ target \subseteq Names
    /\ listed \in [Names -> 0..used]
    /\ unread \subseteq Families
    /\ found \subseteq Indexes

HasDefault(i) == \E f \in Families : <<f, i>> \in defaults

\* What a pass knows of default routes with one next hop is at most
\* refreshInterval old: a route that has been there, or has been gone, for so
\* long is known when the links are classified, unless a list of routes has
\* failed.
ExternalFresh ==
    [][Interval > 0 /\ phase # "workers" /\ phase' = "workers" /\ ~listFailed =>
         \A i \in Indexes :
            steady[i] = Interval => (i \in external' <=> HasDefault(i))]_vars

\* The kind that is cached for a name is the kind of its link, unless the name
\* is mistaken.
KindCached ==
    \A n \in Names \ mistaken :
        index[n] # 0 /\ kind[n] # "unknown" =>
            (kind[n] = "virtual" <=> virtual[n] \/ n \in Tunnels)

\* A virtual link that has a default route only as one of its several next hops.
\* The code does not take it for external.
BehindMultipath(n) ==
    /\ virtual[n] /\ n \notin Tunnels /\ ~HasDefault(index[n])
    /\ \E f \in Families : <<f, index[n]>> \in hops

\* A link that is configured gets the profile of the class it has, if it is
\* still the link that was listed, its kind is not mistaken, its default routes
\* are those of the last refresh and it is not behind a multipath one only.
ClassifiedRight ==
    [][\A n \in target \ target' :
         /\ index[n] # 0 /\ index[n] = listed[n] /\ n \notin mistaken
         /\ steady[index[n]] > age /\ ~listFailed /\ ~BehindMultipath(n)
         => shaped'[n] = TrueClass(n)]_vars

=============================================================================
