------------------------------- MODULE Shaper -------------------------------
(***************************************************************************)
(* The shaping passes of internal/traffic: applyInterfaces with its initial*)
(* cleanup, its workers and its pruning of IFB devices, the signatures by  *)
(* which a pass skips an interface it has configured before, and           *)
(* cleanupStaleSignatures.                                                 *)
(*                                                                         *)
(* The other side is the kernel: interfaces come and go and change while a *)
(* pass runs, and every netlink call or tc/ip command of a worker is a     *)
(* step of its own, which may fail.  A pass decides from the list of links *)
(* it took at its start; a command acts on the kernel as it is then.       *)
(*                                                                         *)
(* A signature stands for everything an interface's profile asks for: MTU, *)
(* queue length, qdiscs and offloads.  A link of Skipped has one of the    *)
(* name prefixes that are never shaped (hasInternalVirtualPrefix).  No     *)
(* prefix is so long that truncateIfb could cut it, so IFBs of skipped and *)
(* of shaped links have different names; two shaped links whose names      *)
(* start with the same 11 characters share one.                            *)
(***************************************************************************)
EXTENDS Integers, FiniteSets

CONSTANTS
    Ifaces,          \* names of links that get a profile
    Skipped,         \* names of links that never get one
    Ifbs,            \* names of IFB devices
    IfbOf,           \* truncateIfb(IfbPrefix + name)
    Sigs,            \* signatures
    BadSigs,         \* signatures whose MTU or queue length is out of range
    NoSig,           \* no signature, default or foreign settings
    NoIfb,           \* no redirection
    Dead,            \* redirection to a device that has been deleted
    MaxWorkers,      \* size of the worker pool
    PoolReturns,     \* applyToLinks returns.  FALSE for the source as it is,
                     \* see LinkPool; TRUE once its channels are closed in time
    \* What the environment may do.
    Machines,        \* bound: which names the links of one machine may have
    Asks,            \* bound: the signatures a name's profiles may ask for
    MayFail,         \* where netlink calls and commands fail or are killed
    Stuck,           \* IFBs whose deletion at the end of a pass may fail
    Vanishing,       \* IFBs somebody else deletes
    Drifting,        \* names of which somebody else changes what tcsss has
                     \* configured
    NamesReused      \* a name comes back before its signature is forgotten

Bases == Ifaces \cup Skipped

ASSUME ShaperAssumption ==
    /\ Ifaces \cap Skipped = {}
    /\ IfbOf \in [Bases -> Ifbs]
    /\ \A b \in Ifaces, s \in Skipped : IfbOf[b] # IfbOf[s]
    /\ BadSigs \subseteq Sigs
    /\ NoSig \notin Sigs
    /\ NoIfb \notin Ifbs /\ Dead \notin Ifbs /\ NoIfb # Dead
    /\ MaxWorkers \in Nat \ {0}
    /\ PoolReturns \in BOOLEAN /\ NamesReused \in BOOLEAN
    /\ Machines \subseteq SUBSET Bases
    /\ Asks \in [Ifaces -> SUBSET Sigs]
    /\ MayFail \subseteq {"cleanup", "worker"}
    /\ Stuck \subseteq Ifbs /\ Vanishing \subseteq Ifbs
    /\ Drifting \subseteq Ifaces

VARIABLES
    machine,   \* one of Machines; it never changes
    \* The kernel.
    present,   \* the links there are, without the IFB devices
    want,      \* the signature each interface's profile asks for, NoSig for
               \* one that is absent
    tuned,     \* its MTU and queue length are the profile's
    tc,        \* its root qdisc, ingress qdisc and ingress redirection
    ifb,       \* the IFB devices
    \* The Shaper.
    applied,           \* appliedSignatures
    didInitialCleanup,
    phase,             \* the statement applyInterfaces is at
    only,              \* the names the pass is for
    seen,              \* the links of the list taken by the pass ...
    seenSig,           \* ... the signature each asks for ...
    seenTuned,         \* ... and whether its MTU and queue length agree
    seenIfbs,          \* the IFB devices in the list
    left,              \* what the cleanup or the pruning has not reached
    step,              \* the next command of the worker that has the link
    attrs,             \* ensureIfb's copy of the attributes of the IFB, while
                       \* it has one
    \* Ghosts.
    moved,     \* interfaces somebody else has changed since the pass's list
    touched,   \* ... or a profile has, without an end, since the list of the
               \* pass that has recorded their signature
    unclean    \* skipped links whose ingress qdisc the initial cleanup of this
               \* process could not delete

kernel == <<present, want, tuned, tc, ifb>>
list == <<only, seen, seenSig, seenTuned, seenIfbs>>
shaper == <<applied, didInitialCleanup, phase, list, left, step, attrs>>
ghosts == <<moved, touched, unclean>>
vars == <<machine, kernel, shaper, ghosts>>

OptSigs == Sigs \cup {NoSig}

NoTc == [root |-> NoSig, ingress |-> FALSE, redirect |-> NoIfb]
NewIfb == [exists |-> TRUE, up |-> FALSE, params |-> NoSig, qdisc |-> NoSig]
NoDevice == [NewIfb EXCEPT !.exists = FALSE]

\* A worker is busy between the link's receipt and its result.
Busy == {"params", "root", "ingress", "ifbLookup", "ifbCreate", "ifbRelook",
         "ifbParams", "ifbUp", "ifbQdisc", "filterDel", "filterAdd", "record"}
Result == {"skipped", "done", "failed"}
Steps == Busy \cup Result \cup {"idle", "queued"}

\* A kernel in which tcsss, or an earlier version of it, may have run before:
\* a skipped link may still be redirected to its IFB.
Init ==
    /\ machine \in Machines
    /\ present \in SUBSET machine
    /\ want \in {w \in [Ifaces -> OptSigs] :
                  \A b \in Ifaces : w[b] \in IF b \in present THEN Asks[b] ELSE {NoSig}}
    /\ tuned = [b \in Ifaces |-> FALSE]
    /\ \E old \in SUBSET (present \cap Skipped) :
         /\ tc = [b \in Bases |-> IF b \in old
                    THEN [NoTc EXCEPT !.ingress = TRUE, !.redirect = IfbOf[b]]
                    ELSE NoTc]
         /\ ifb = [d \in Ifbs |-> IF \E b \in old : IfbOf[b] = d
                    THEN [NewIfb EXCEPT !.up = TRUE]
                    ELSE NoDevice]
    /\ applied = [b \in Ifaces |-> NoSig]
    /\ didInitialCleanup = FALSE
    /\ phase = "idle"
    /\ only = {}
    /\ seen = {}
    /\ seenSig = [b \in Ifaces |-> NoSig]
    /\ seenTuned = [b \in Ifaces |-> FALSE]
    /\ seenIfbs = {}
    /\ left = {}
    /\ step = [b \in Ifaces |-> "idle"]
    /\ attrs = [b \in Ifaces |-> NoDevice]
    /\ moved = {}
    /\ touched = {}
    /\ unclean = {}

-----------------------------------------------------------------------------
(***************************************************************************)
(* applyInterfaces.                                                        *)
(***************************************************************************)

\* What is local to a pass ends with it.
ForgetList ==
    /\ only' = {}
    /\ seen' = {}
    /\ seenSig' = [b \in Ifaces |-> NoSig]
    /\ seenTuned' = [b \in Ifaces |-> FALSE]
    /\ seenIfbs' = {}
    /\ left' = {}
    /\ step' = [b \in Ifaces |-> "idle"]
    /\ attrs' = [b \in Ifaces |-> NoDevice]

MutRequiredIfbs == {IfbOf[b] : b \in seen \cap Ifaces \cap only}

\* determineRequiredIfbs: every link of the list that gets a profile, whether
\* or not the pass is for it.
RequiredIfbs == {IfbOf[b] : b \in seen \cap Ifaces}

\* LinkList succeeds.  A pass for every link, only = nil in the source, has
\* o = Ifaces.
StartPass(o) ==
    /\ phase = "idle"
    /\ only' = o
    /\ seen' = present
    /\ seenSig' = want
    /\ seenTuned' = tuned
    /\ seenIfbs' = {d \in Ifbs : ifb[d].exists}
    /\ left' = IF didInitialCleanup THEN {} ELSE present \cap Skipped
    /\ phase' = "cleanup"
    /\ moved' = {}
    /\ UNCHANGED <<kernel, applied, didInitialCleanup, step, attrs, touched, unclean>>

\* Deleting an IFB cuts off whatever is redirected to it.
CutOff(t, d) == [b \in Bases |-> IF t[b].redirect = d
                                 THEN [t[b] EXCEPT !.redirect = Dead]
                                 ELSE t[b]]

MutCleanupKeepsFilter(s) ==
    /\ phase = "cleanup"
    /\ s \in left
    /\ left' = left \ {s}
    /\ tc' = CutOff([tc EXCEPT ![s].root = NoSig], IfbOf[s])
    /\ ifb' = [ifb EXCEPT ![IfbOf[s]] = NoDevice]
    /\ unclean' = unclean \ {s}
    /\ UNCHANGED <<present, want, tuned, applied, didInitialCleanup, phase,
                   list, step, attrs, moved, touched>>

\* cleanupSkippedVirtualInterfaces for one link: the root qdisc is deleted, then
\* the ingress qdisc with its filter, then the IFB.  Each of the commands may
\* fail, and a failure stops nothing: a link whose ingress qdisc stays can lose
\* the IFB it is redirected to.
CleanupSkipped(s) ==
    /\ phase = "cleanup"
    /\ s \in left
    /\ left' = left \ {s}
    /\ \E fails \in IF "cleanup" \in MayFail THEN SUBSET {"root", "ingress", "ifb"}
                                            ELSE {{}} :
         LET noRoot == IF "root" \in fails THEN tc[s]
                       ELSE [tc[s] EXCEPT !.root = NoSig]
             cleared == IF "ingress" \in fails THEN noRoot
                        ELSE [noRoot EXCEPT !.ingress = FALSE, !.redirect = NoIfb]
             t == [tc EXCEPT ![s] = cleared]
         IN  /\ IF "ifb" \in fails
                THEN tc' = t /\ UNCHANGED ifb
                ELSE /\ tc' = CutOff(t, IfbOf[s])
                     /\ ifb' = [ifb EXCEPT ![IfbOf[s]] = NoDevice]
             /\ unclean' = IF "ingress" \in fails THEN unclean \cup {s} ELSE unclean \ {s}
    /\ UNCHANGED <<present, want, tuned, applied, didInitialCleanup, phase,
                   list, step, attrs, moved, touched>>

\* The cleanup is over and applyToLinks gives the workers the links.  Those
\* the pass is not for, and the skipped ones, are received and dropped.
StartWorkers ==
    /\ phase = "cleanup"
    /\ left = {}
    /\ didInitialCleanup' = TRUE
    /\ phase' = "workers"
    /\ step' = [b \in Ifaces |-> IF b \in seen \cap only THEN "queued" ELSE "idle"]
    /\ UNCHANGED <<kernel, applied, list, left, attrs, ghosts>>

MutJoinSomeLeft ==
    /\ phase = "workers"
    /\ PoolReturns \/ (seen = {} /\ seenIfbs = {})
    /\ \A b \in Ifaces : step[b] \in Result \cup {"idle"}
    /\ phase' = "prune"
    /\ left' = {d \in seenIfbs : ~ifb[d].up}
    /\ UNCHANGED <<kernel, applied, didInitialCleanup, list, step, attrs, ghosts>>

\* applyToLinks returns, with an error or not, and pruneStaleIfbs begins.
Join ==
    /\ phase = "workers"
    /\ PoolReturns \/ (seen = {} /\ seenIfbs = {})
    /\ \A b \in Ifaces : step[b] \in Result \cup {"idle"}
    /\ phase' = "prune"
    /\ left' = seenIfbs \ RequiredIfbs
    /\ UNCHANGED <<kernel, applied, didInitialCleanup, list, step, attrs, ghosts>>

\* pruneStaleIfbs deletes an IFB by index, or else by name, or fails and goes on.
Prune(d) ==
    /\ phase = "prune"
    /\ d \in left
    /\ left' = left \ {d}
    /\ \/ /\ ifb' = [ifb EXCEPT ![d] = NoDevice]
          /\ tc' = CutOff(tc, d)
       \/ d \in Stuck /\ UNCHANGED <<ifb, tc>>
    /\ UNCHANGED <<present, want, tuned, applied, didInitialCleanup, phase,
                   list, step, attrs, ghosts>>

EndPass ==
    /\ phase = "prune"
    /\ left = {}
    /\ phase' = "idle"
    /\ ForgetList
    /\ UNCHANGED <<kernel, applied, didInitialCleanup, ghosts>>

\* The cleanup ticker: it shares the loop with the passes, so none is running.
CleanupStaleSignatures ==
    /\ phase = "idle"
    /\ applied' = [b \in Ifaces |-> IF b \in present THEN applied[b] ELSE NoSig]
    /\ UNCHANGED <<kernel, didInitialCleanup, phase, list, left, step, attrs, ghosts>>

-----------------------------------------------------------------------------
(***************************************************************************)
(* configureProfile, by the worker that has received b.                    *)
(***************************************************************************)
Goto(b, s) == step' = [step EXCEPT ![b] = s]

MutAlreadyConfigured(b) == applied[b] = seenSig[b]

\* isAlreadyConfigured: the signature is the one recorded and the IFB is up.
AlreadyConfigured(b) ==
    /\ applied[b] = seenSig[b]
    /\ ifb[IfbOf[b]].exists
    /\ ifb[IfbOf[b]].up

MutReceiveUnchecked(b) ==
    /\ phase = "workers"
    /\ step[b] = "queued"
    /\ Cardinality({c \in Ifaces : step[c] \in Busy}) < MaxWorkers
    /\ Goto(b, IF AlreadyConfigured(b) THEN "skipped" ELSE "params")
    /\ UNCHANGED <<kernel, applied, didInitialCleanup, phase, list, left, attrs, ghosts>>

\* A free worker receives b.  The lookup of the IFB may fail, which counts as
\* not configured; a signature out of range is an error.
Receive(b) ==
    /\ phase = "workers"
    /\ step[b] = "queued"
    /\ Cardinality({c \in Ifaces : step[c] \in Busy}) < MaxWorkers
    /\ \/ AlreadyConfigured(b) /\ Goto(b, "skipped")
       \/ /\ ~AlreadyConfigured(b) \/ "worker" \in MayFail
          /\ Goto(b, IF seenSig[b] \in BadSigs THEN "failed" ELSE "params")
    /\ UNCHANGED <<kernel, applied, didInitialCleanup, phase, list, left, attrs, ghosts>>

\* Every command of b's worker leaves the rest of the Shaper alone.  One that
\* fails leaves b half configured.
WorkerFrame(b) ==
    /\ touched' = IF step'[b] = "failed" THEN touched \cup {b} ELSE touched
    /\ UNCHANGED <<present, want, applied, didInitialCleanup, phase, list, left,
                   moved, unclean>>

\* A command that fails, before its effect or after it: the profile is given
\* up, and nothing that was done for it is undone.
Fail(b) ==
    /\ "worker" \in MayFail
    /\ step[b] \in Busy
    /\ Goto(b, "failed")
    /\ attrs' = [attrs EXCEPT ![b] = NoDevice]
    /\ UNCHANGED <<tuned, tc, ifb>> /\ WorkerFrame(b)

\* configureLinkParamsStep trusts the attributes of the list.
SetLinkParams(b) ==
    /\ step[b] = "params"
    /\ \/ /\ seenTuned[b]
          /\ Goto(b, "root")
          /\ UNCHANGED tuned
       \/ /\ ~seenTuned[b] /\ b \in present
          /\ Goto(b, "root")
          /\ tuned' = [tuned EXCEPT ![b] = TRUE]
       \/ /\ ~seenTuned[b] /\ b \notin present
          /\ Goto(b, "failed")
          /\ UNCHANGED tuned
    /\ UNCHANGED <<tc, ifb, attrs>> /\ WorkerFrame(b)

\* tc qdisc replace ... root.
ReplaceRoot(b) ==
    /\ step[b] = "root"
    /\ IF b \in present
       THEN /\ Goto(b, "ingress")
            /\ tc' = [tc EXCEPT ![b].root = seenSig[b]]
       ELSE Goto(b, "failed") /\ UNCHANGED tc
    /\ UNCHANGED <<tuned, ifb, attrs>> /\ WorkerFrame(b)

\* tc qdisc replace ... ingress keeps the filter of a qdisc that is there.
ReplaceIngress(b) ==
    /\ step[b] = "ingress"
    /\ IF b \in present
       THEN /\ Goto(b, "ifbLookup")
            /\ tc' = [tc EXCEPT ![b].ingress = TRUE]
       ELSE Goto(b, "failed") /\ UNCHANGED tc
    /\ UNCHANGED <<tuned, ifb, attrs>> /\ WorkerFrame(b)

MutLookupIfbIsEnough(b) ==
    /\ step[b] = "ifbLookup"
    /\ Goto(b, IF ifb[IfbOf[b]].exists THEN "filterDel" ELSE "ifbCreate")
    /\ UNCHANGED <<tuned, tc, ifb, attrs>> /\ WorkerFrame(b)

\* ensureIfb looks the IFB up, and creates it only when it is not found.
LookupIfb(b) ==
    /\ step[b] = "ifbLookup"
    /\ Goto(b, IF ifb[IfbOf[b]].exists THEN "ifbParams" ELSE "ifbCreate")
    /\ attrs' = [attrs EXCEPT ![b] = ifb[IfbOf[b]]]
    /\ UNCHANGED <<tuned, tc, ifb>> /\ WorkerFrame(b)

\* ip link add fails when another worker has added the device in between.
CreateIfb(b) ==
    /\ step[b] = "ifbCreate"
    /\ IF ifb[IfbOf[b]].exists
       THEN Goto(b, "failed") /\ UNCHANGED ifb
       ELSE Goto(b, "ifbRelook") /\ ifb' = [ifb EXCEPT ![IfbOf[b]] = NewIfb]
    /\ UNCHANGED <<tuned, tc, attrs>> /\ WorkerFrame(b)

RelookIfb(b) ==
    /\ step[b] = "ifbRelook"
    /\ Goto(b, IF ifb[IfbOf[b]].exists THEN "ifbParams" ELSE "failed")
    /\ attrs' = [attrs EXCEPT ![b] = ifb[IfbOf[b]]]
    /\ UNCHANGED <<tuned, tc, ifb>> /\ WorkerFrame(b)

\* ip link set ... qlen mtu, when the attributes read differ.  They are read
\* again, or kept when that fails.
SetIfbParams(b) ==
    /\ step[b] = "ifbParams"
    /\ \/ /\ attrs[b].params = seenSig[b]
          /\ Goto(b, "ifbUp")
          /\ UNCHANGED <<ifb, attrs>>
       \/ /\ attrs[b].params # seenSig[b] /\ ifb[IfbOf[b]].exists
          /\ Goto(b, "ifbUp")
          /\ ifb' = [ifb EXCEPT ![IfbOf[b]].params = seenSig[b]]
          /\ \/ attrs' = [attrs EXCEPT ![b] = ifb'[IfbOf[b]]]
             \/ "worker" \in MayFail /\ UNCHANGED attrs
       \/ /\ attrs[b].params # seenSig[b] /\ ~ifb[IfbOf[b]].exists
          /\ Goto(b, "failed")
          /\ attrs' = [attrs EXCEPT ![b] = NoDevice]
          /\ UNCHANGED ifb
    /\ UNCHANGED <<tuned, tc>> /\ WorkerFrame(b)

\* ip link set ... up, when the attributes read say that it is down.
SetIfbUp(b) ==
    /\ step[b] = "ifbUp"
    /\ \/ attrs[b].up /\ Goto(b, "ifbQdisc") /\ UNCHANGED ifb
       \/ /\ ~attrs[b].up /\ ifb[IfbOf[b]].exists
          /\ Goto(b, "ifbQdisc")
          /\ ifb' = [ifb EXCEPT ![IfbOf[b]].up = TRUE]
       \/ /\ ~attrs[b].up /\ ~ifb[IfbOf[b]].exists
          /\ Goto(b, "failed")
          /\ UNCHANGED ifb
    /\ attrs' = [attrs EXCEPT ![b] = NoDevice]
    /\ UNCHANGED <<tuned, tc>> /\ WorkerFrame(b)

ReplaceIfbRoot(b) ==
    /\ step[b] = "ifbQdisc"
    /\ IF ifb[IfbOf[b]].exists
       THEN /\ Goto(b, "filterDel")
            /\ ifb' = [ifb EXCEPT ![IfbOf[b]].qdisc = seenSig[b]]
       ELSE Goto(b, "failed") /\ UNCHANGED ifb
    /\ UNCHANGED <<tuned, tc, attrs>> /\ WorkerFrame(b)

\* replaceFilter deletes the filter; that this fails is ignored.
DeleteFilter(b) ==
    /\ step[b] = "filterDel"
    /\ Goto(b, "filterAdd")
    /\ \/ tc' = [tc EXCEPT ![b].redirect = NoIfb]
       \/ "worker" \in MayFail /\ UNCHANGED tc
    /\ UNCHANGED <<tuned, ifb, attrs>> /\ WorkerFrame(b)

\* tc filter add needs the ingress qdisc, no filter of this preference, and the
\* device it redirects to.  An interface that is absent has no qdisc.
AddFilter(b) ==
    /\ step[b] = "filterAdd"
    /\ IF tc[b].ingress /\ tc[b].redirect = NoIfb /\ ifb[IfbOf[b]].exists
       THEN Goto(b, "record") /\ tc' = [tc EXCEPT ![b].redirect = IfbOf[b]]
       ELSE Goto(b, "failed") /\ UNCHANGED tc
    /\ UNCHANGED <<tuned, ifb, attrs>> /\ WorkerFrame(b)

\* ensureOffloadsStep cannot fail; then the signature is recorded.
Record(b) ==
    /\ step[b] = "record"
    /\ applied' = [applied EXCEPT ![b] = seenSig[b]]
    /\ Goto(b, "done")
    /\ touched' = IF b \in moved THEN touched ELSE touched \ {b}
    /\ UNCHANGED <<kernel, didInitialCleanup, phase, list, left, attrs, moved, unclean>>

Worker(b) ==
    \/ Receive(b) \/ SetLinkParams(b) \/ ReplaceRoot(b) \/ ReplaceIngress(b)
    \/ LookupIfb(b) \/ CreateIfb(b) \/ RelookIfb(b) \/ SetIfbParams(b)
    \/ SetIfbUp(b) \/ ReplaceIfbRoot(b) \/ DeleteFilter(b) \/ AddFilter(b)
    \/ Record(b)

-----------------------------------------------------------------------------
(***************************************************************************)
(* The environment: the kernel, the administrator, the service manager.    *)
(***************************************************************************)

Disturb(b) ==
    /\ moved' = IF b \in seen THEN moved \cup {b} ELSE moved
    /\ touched' = touched \cup {b}
    /\ UNCHANGED unclean

\* A new interface has nothing configured.  Unless NamesReused, its name is one
\* the Shaper knows neither by a signature nor by the list of a pass.
LinkAdd(b) ==
    /\ b \in machine \ present
    /\ b \in Ifaces /\ ~NamesReused => applied[b] = NoSig /\ b \notin seen
    /\ present' = present \cup {b}
    /\ IF b \in Ifaces
       THEN /\ want' \in {[want EXCEPT ![b] = s] : s \in Asks[b]}
            /\ tuned' = [tuned EXCEPT ![b] = FALSE]
            /\ Disturb(b)
       ELSE UNCHANGED <<want, tuned, ghosts>>
    /\ UNCHANGED <<tc, ifb, shaper>>

LinkDel(b) ==
    /\ b \in present
    /\ present' = present \ {b}
    /\ tc' = [tc EXCEPT ![b] = NoTc]
    /\ IF b \in Ifaces
       THEN /\ want' = [want EXCEPT ![b] = NoSig]
            /\ tuned' = [tuned EXCEPT ![b] = FALSE]
            /\ Disturb(b)
       ELSE unclean' = unclean \ {b} /\ UNCHANGED <<want, tuned, moved, touched>>
    /\ UNCHANGED <<ifb, shaper>>

\* A new MTU, or a class that asks for other qdiscs.  The queue length is the
\* same in these profiles, and an MTU that is not overridden is its own target.
WantChange(b) ==
    /\ b \in present \cap Ifaces
    /\ \E s \in Asks[b] \ {want[b]} : want' = [want EXCEPT ![b] = s]
    /\ UNCHANGED <<present, tuned, tc, ifb, shaper, ghosts>>

\* Somebody sets the queue length, or replaces the root qdisc, or deletes the
\* ingress qdisc.
Drift(b) ==
    /\ b \in present \cap Drifting
    /\ \/ tuned' = [tuned EXCEPT ![b] = FALSE] /\ UNCHANGED tc
       \/ tc' = [tc EXCEPT ![b].root = NoSig] /\ UNCHANGED tuned
       \/ /\ tc' = [tc EXCEPT ![b].ingress = FALSE, ![b].redirect = NoIfb]
          /\ UNCHANGED tuned
    /\ Disturb(b)
    /\ UNCHANGED <<present, want, ifb, shaper>>

IfbVanish(d) ==
    /\ d \in Vanishing
    /\ ifb[d].exists
    /\ ifb' = [ifb EXCEPT ![d] = NoDevice]
    /\ tc' = CutOff(tc, d)
    /\ UNCHANGED <<present, want, tuned, shaper, ghosts>>

\* The daemon stops or is killed, at any point, and starts again.
Restart ==
    /\ applied' = [b \in Ifaces |-> NoSig]
    /\ didInitialCleanup' = FALSE
    /\ phase' = "idle"
    /\ ForgetList
    /\ moved' = {}
    /\ touched' = {}
    /\ unclean' = {}
    /\ UNCHANGED kernel

Environment ==
    \/ \E b \in Bases : LinkAdd(b) \/ LinkDel(b)
    \/ \E b \in Ifaces : WantChange(b) \/ Drift(b) \/ Fail(b)
    \/ \E d \in Ifbs : IfbVanish(d)
    \/ Restart

Program ==
    \/ \E o \in SUBSET (machine \cap Ifaces) : StartPass(o)
    \/ \E s \in Skipped : CleanupSkipped(s)
    \/ StartWorkers
    \/ \E b \in Ifaces : Worker(b)
    \/ Join
    \/ \E d \in Ifbs : Prune(d)
    \/ EndPass
    \/ CleanupStaleSignatures

Next == (Program \/ Environment) /\ UNCHANGED machine

Spec == Init /\ [][Next]_vars

-----------------------------------------------------------------------------
(***************************************************************************)
(* Properties.                                                             *)
(***************************************************************************)
Redirects == Ifbs \cup {NoIfb, Dead}
TcState == [root : OptSigs, ingress : BOOLEAN, redirect : Redirects]
IfbState == [exists : BOOLEAN, up : BOOLEAN, params : OptSigs, qdisc : OptSigs]

KernelOK ==
    /\ present \subseteq Bases
    /\ want \in [Ifaces -> OptSigs]
    /\ tuned \in [Ifaces -> BOOLEAN]
    /\ tc \in [Bases -> TcState]
    /\ ifb \in [Ifbs -> IfbState]

ListOK ==
    /\ only \subseteq Ifaces
    /\ seen \subseteq Bases
    /\ seenSig \in [Ifaces -> OptSigs]
    /\ seenTuned \in [Ifaces -> BOOLEAN]
    /\ seenIfbs \subseteq Ifbs

ShaperOK ==
    /\ applied \in [Ifaces -> OptSigs \ BadSigs]
    /\ didInitialCleanup \in BOOLEAN
    /\ phase \in {"idle", "cleanup", "workers", "prune"}
    /\ left \subseteq Skipped \cup Ifbs
    /\ step \in [Ifaces -> Steps]
    /\ attrs \in [Ifaces -> IfbState]

GhostsOK ==
    /\ moved \subseteq Ifaces /\ touched \subseteq Ifaces /\ unclean \subseteq Skipped

\* Every variable has a value the program or the kernel can give it; only a
\* signature in range is ever recorded, and only for an interface.
TypeOK == KernelOK /\ ListOK /\ ShaperOK /\ GhostsOK

\* The ingress traffic of an interface is never redirected to a device the
\* Shaper has deleted: such traffic is dropped.  Passes that are for a few
\* names, and failing ones, prune the IFBs of nobody else.
NoDeadRedirect ==
    \A b \in present \cap Ifaces : IfbOf[b] \notin Vanishing => tc[b].redirect # Dead

\* A link that is not to be shaped is redirected, to an IFB or to one that is
\* gone, only before its turn in the first cleanup of the process, unless that
\* could not delete the redirection: nothing else ever leaves or makes one.
NoSkippedRedirect ==
    \A s \in Skipped \ unclean :
        tc[s].redirect # NoIfb =>
            ~didInitialCleanup /\ (phase = "cleanup" => s \in left)

\* No other interface has a name that is cut to that of b's IFB.
Alone(b) == \A c \in Ifaces : IfbOf[c] = IfbOf[b] => c = b

\* The interface, and its IFB, are as the signature s asks.
LinkShapedAs(b, s) ==
    tuned[b] /\ tc[b] = [root |-> s, ingress |-> TRUE, redirect |-> IfbOf[b]]
IfbShapedAs(b, s) ==
    ifb[IfbOf[b]] = [exists |-> TRUE, up |-> TRUE, params |-> s, qdisc |-> s]
ShapedAs(b, s) == LinkShapedAs(b, s) /\ IfbShapedAs(b, s)

\* The last command of a profile applied without an error leaves the interface
\* as the signature that is then recorded says, and redirected to an IFB that is
\* there; so is the IFB when no other interface has it, even when it was there
\* before in any state, is deleted by others meanwhile, and the attributes read
\* were those of another moment.  Only what others do to the interface itself
\* after the list escapes the pass.
FinishesShaped ==
    [][\A b \in Ifaces \ moved :
         step[b] = "filterAdd" /\ step'[b] = "record"
           => /\ LinkShapedAs(b, seenSig[b])' /\ ifb'[IfbOf[b]].exists
              /\ Alone(b) => IfbShapedAs(b, seenSig[b])']_vars

Skips(b) == step[b] = "queued" /\ step'[b] = "skipped" /\ b \in present

\* An interface that is skipped is shaped as it asks, unless others, or a
\* profile that failed, have changed it since its signature was recorded.  Of one
\* that shares its IFB this is the interface, not the IFB, and only if nobody
\* deletes the IFB.
SkipIsSound ==
    [][\A b \in Ifaces \ touched : Skips(b) =>
         /\ Alone(b) => ShapedAs(b, seenSig[b])
         /\ IfbOf[b] \notin Vanishing => LinkShapedAs(b, seenSig[b])]_vars

\* An interface is skipped only when it "is already configured".
SkippedIsConfigured ==
    [][\A b \in Ifaces : Skips(b) => ShapedAs(b, seenSig[b])]_vars

\* When a pass ends, there is no IFB left that no link of its list needs, neither
\* of those found nor of those created meanwhile, but the ones whose deletion may
\* have failed.
NoOrphanIfb ==
    [][phase = "prune" /\ phase' = "idle" /\ didInitialCleanup'
         => {d \in Ifbs \ Stuck : ifb[d].exists} \subseteq RequiredIfbs]_vars

=============================================================================
