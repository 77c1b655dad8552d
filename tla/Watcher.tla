------------------------------ MODULE Watcher -------------------------------
(***************************************************************************)
(* The watch loop of internal/traffic/netlink_watcher.go, from the first   *)
(* Apply to the end of Watch: two netlink subscriptions, the pending       *)
(* changes, the apply ticker, and the passes as the loop sees them.        *)
(*                                                                         *)
(* What the loop is for are two ghosts.  dirty holds the interfaces that   *)
(* have changed since a pass that saw them as they are was done with them; *)
(* missed those of them whose change the source does not take up again: it *)
(* came between the list of the first pass and the subscriptions, or a     *)
(* pass failed that had them.  A pass is three steps here, its start, the  *)
(* moment it lists the links and its end; the module Shaper opens it up.   *)
(*                                                                         *)
(* A subscription is a socket, a goroutine of the netlink library and a    *)
(* channel of 32 updates.  They are one queue here, of Cap events: an      *)
(* overflow of the socket ends the goroutine, which closes the channel     *)
(* behind the updates that are already on it.                              *)
(***************************************************************************)
EXTENDS Integers, Sequences, FiniteSets

CONSTANTS
    Names,         \* the interfaces
    NoName,        \* an update that carries no name
    Cap,           \* events a subscription holds
    MaxChanges,    \* bound: changes and failures in a behaviour
    PoolReturns,   \* a pass ends.  FALSE for the source as it is, see LinkPool
    MayFail,       \* the passes, of Apply or of Watch, whose LinkList or
                   \* whose configuration of a link may fail
    ChangesInGap   \* changes happen between the list of the first pass and
                   \* the subscriptions

ASSUME WatcherAssumption ==
    /\ NoName \notin Names
    /\ Cap \in Nat \ {0}
    /\ MaxChanges \in Nat
    /\ {PoolReturns, ChangesInGap} \subseteq BOOLEAN
    /\ MayFail \subseteq {"Apply", "Watch"}

Events == Names \cup {NoName}

VARIABLES
    dirty,      \* ghost: the interfaces whose last change no pass has covered
    missed,     \* ghost: ... and that nothing is going to cover
    changes,    \* the changes and the failures so far
    phase,      \* where Apply and then Watch is
    linkCh,     \* the events of the link subscription
    addrCh,     \* the events of the address subscription
    linkClosed,
    addrClosed,
    all,        \* pendingChanges: every link
    names,      \* pendingChanges: these links
    target,     \* what the running pass is for
    cover,      \* ... those it has listed as they still are
    emitted,    \* ... those whose own reconfiguration has caused an event
    cancelled   \* the context is cancelled

pending == <<all, names>>
subs == <<linkCh, addrCh, linkClosed, addrClosed>>
pass == <<target, cover, emitted>>
ghosts == <<dirty, missed>>
vars == <<ghosts, changes, phase, subs, pending, pass, cancelled>>

\* Daemon.Run calls Apply, with nothing configured yet, and then Watch.
Init ==
    /\ dirty = Names
    /\ missed = {}
    /\ changes = 0
    /\ phase = "apply"
    /\ linkCh = <<>>
    /\ addrCh = <<>>
    /\ linkClosed = FALSE
    /\ addrClosed = FALSE
    /\ all = FALSE
    /\ names = {}
    /\ target = Names
    /\ cover = {}
    /\ emitted = {}
    /\ cancelled = FALSE

\* The link subscription is there from its own call on, the address
\* subscription from the next one; both end with Watch.
LinkSubscribed == phase \in {"subscribing", "loop", "pass", "passListed"}
AddrSubscribed == phase \in {"loop", "pass", "passListed"}

-----------------------------------------------------------------------------
(***************************************************************************)
(* The kernel and the netlink library.                                     *)
(***************************************************************************)
SendLink(e) ==
    IF ~LinkSubscribed \/ linkClosed THEN UNCHANGED subs
    ELSE IF Len(linkCh) < Cap
         THEN linkCh' = Append(linkCh, e) /\ UNCHANGED <<addrCh, linkClosed, addrClosed>>
         ELSE linkClosed' = TRUE /\ UNCHANGED <<linkCh, addrCh, addrClosed>>

SendAddr(e) ==
    IF ~AddrSubscribed \/ addrClosed THEN UNCHANGED subs
    ELSE IF Len(addrCh) < Cap
         THEN addrCh' = Append(addrCh, e) /\ UNCHANGED <<linkCh, linkClosed, addrClosed>>
         ELSE addrClosed' = TRUE /\ UNCHANGED <<linkCh, addrCh, linkClosed>>

\* An interface appears, disappears, is set up or down or gets another MTU.
\* Its event may come without a name.  A list taken before is out of date.
\* The change is missed if nobody hears of it and the first list is done.
Changed(n, heard) ==
    /\ changes < MaxChanges
    /\ changes' = changes + 1
    /\ dirty' = dirty \cup {n}
    /\ missed' = IF heard \/ phase = "apply" THEN missed \ {n} ELSE missed \cup {n}
    /\ cover' = cover \ {n}
    /\ UNCHANGED <<phase, pending, target, emitted, cancelled>>

LinkChange(n) ==
    /\ LinkSubscribed \/ ChangesInGap \/ phase = "apply"
    /\ Changed(n, LinkSubscribed)
    /\ SendLink(n) \/ SendLink(NoName)

\* An address is added or removed; its event carries the index of n.
AddrChange(n) ==
    /\ AddrSubscribed \/ ChangesInGap \/ phase = "apply"
    /\ Changed(n, AddrSubscribed)
    /\ SendAddr(n)

\* A pass that changes the MTU or the queue length of an interface, or creates
\* its IFB, makes the kernel send an event of its own.  Only an interface that
\* is not configured already is changed.
Echo(n) ==
    /\ phase \in {"applyListed", "passListed"}
    /\ n \in (cover \cap dirty) \ emitted
    /\ emitted' = emitted \cup {n}
    /\ SendLink(n)
    /\ UNCHANGED <<ghosts, changes, phase, pending, target, cover, cancelled>>

-----------------------------------------------------------------------------
(***************************************************************************)
(* Passes: applyInterfaces for the names of target.                        *)
(***************************************************************************)
\* Run calls Apply, then Watch in a goroutine of its own.
Caller == IF phase \in {"apply", "applyListed"} THEN "Apply" ELSE "Watch"

\* LinkList.  The first pass and the later ones differ in what comes next.
ListLinks ==
    /\ phase \in {"apply", "pass"}
    /\ phase' = IF phase = "apply" THEN "applyListed" ELSE "passListed"
    /\ cover' = target
    /\ UNCHANGED <<ghosts, changes, subs, pending, target, emitted, cancelled>>

Queued(n) ==
    \/ \E i \in DOMAIN linkCh : linkCh[i] \in {n, NoName}
    \/ \E i \in DOMAIN addrCh : addrCh[i] = n

\* What is left of a failing pass: the changes of S it was for.
Forgotten(S) == {n \in dirty \cap S : ~Queued(n)}

MayFailNow == Caller \in MayFail /\ changes < MaxChanges

\* A failing LinkList ends the daemon in Apply, and in the loop only the pass:
\* the error is logged.
ListFails ==
    /\ MayFailNow
    /\ changes' = changes + 1
    /\ phase \in {"apply", "pass"}
    /\ phase' = IF phase = "apply" THEN "stopped" ELSE "loop"
    /\ missed' = missed \cup Forgotten(target)
    /\ target' = {}
    /\ UNCHANGED <<dirty, subs, pending, cover, emitted, cancelled>>

\* The pass is over.  The links that failed are as they were; their errors are
\* logged.  All commands fail when the context is cancelled.
EndPass ==
    /\ PoolReturns
    /\ phase \in {"applyListed", "passListed"}
    /\ phase' = IF phase = "applyListed" THEN "applied" ELSE "loop"
    /\ \E failed \in IF MayFailNow \/ cancelled THEN SUBSET cover ELSE {{}} :
         /\ dirty' = dirty \ (cover \ failed)
         /\ missed' = (missed \ (cover \ failed)) \cup Forgotten(failed)
         /\ changes' = IF failed = {} \/ cancelled THEN changes ELSE changes + 1
    /\ target' = {}
    /\ cover' = {}
    /\ emitted' = {}
    /\ UNCHANGED <<subs, pending, cancelled>>

-----------------------------------------------------------------------------
(***************************************************************************)
(* Watch.                                                                  *)
(***************************************************************************)

\* setupNetlinkSubscriptions: the link subscription, which may fail ...
SubscribeLink ==
    /\ phase = "applied"
    /\ phase' \in {"subscribing", "stopped"}
    /\ UNCHANGED <<ghosts, changes, subs, pending, pass, cancelled>>

\* ... then the one for addresses, which may fail too, and the loop with
\* nothing pending.
SubscribeAddr ==
    /\ phase = "subscribing"
    /\ phase' \in {"loop", "stopped"}
    /\ UNCHANGED <<ghosts, changes, subs, pending, pass, cancelled>>

MutAddNameForgets(n) == names' = {n} /\ UNCHANGED all

AddName(n) == names' = names \cup {n} /\ UNCHANGED all

MutMarkAllKeepsNames == all' = TRUE /\ UNCHANGED names

\* Every link is pending: the names are of no use any more.
MarkAll == all' = TRUE /\ names' = {}

MutAddDropsUnnamed(e) ==
    IF all \/ e = NoName THEN UNCHANGED pending ELSE AddName(e)

\* AddLink: nothing when every link is pending already; an update without a
\* name stands for every link.
AddLink(e) ==
    IF all THEN UNCHANGED pending
    ELSE IF e = NoName THEN MarkAll ELSE AddName(e)

ReceiveLink ==
    /\ phase = "loop"
    /\ linkCh # <<>>
    /\ AddLink(Head(linkCh))
    /\ linkCh' = Tail(linkCh)
    /\ UNCHANGED <<ghosts, changes, phase, addrCh, linkClosed, addrClosed, pass,
                   cancelled>>

MutReceiveAddrUnknown ==
    /\ phase = "loop"
    /\ addrCh # <<>>
    /\ AddLink(Head(addrCh)) \/ UNCHANGED pending
    /\ addrCh' = Tail(addrCh)
    /\ UNCHANGED <<ghosts, changes, phase, linkCh, linkClosed, addrClosed, pass,
                   cancelled>>

\* AddAddr looks the index up.  An interface that is gone by now, or a lookup
\* that fails, makes every link pending.
ReceiveAddr ==
    /\ phase = "loop"
    /\ addrCh # <<>>
    /\ AddLink(Head(addrCh)) \/ AddLink(NoName)
    /\ addrCh' = Tail(addrCh)
    /\ UNCHANGED <<ghosts, changes, phase, linkCh, linkClosed, addrClosed, pass,
                   cancelled>>

MutApplyTickKeeps ==
    /\ phase = "loop"
    /\ all \/ names # {}
    /\ target' = IF all THEN Names ELSE names
    /\ phase' = "pass"
    /\ UNCHANGED <<ghosts, changes, subs, pending, cover, emitted, cancelled>>

\* The apply ticker: applyPending takes a snapshot of what is pending, clears
\* it, and only then starts the pass.
ApplyTick ==
    /\ phase = "loop"
    /\ all \/ names # {}
    /\ target' = IF all THEN Names ELSE names
    /\ all' = FALSE
    /\ names' = {}
    /\ phase' = "pass"
    /\ UNCHANGED <<ghosts, changes, subs, cover, emitted, cancelled>>

\* ... and with nothing pending does nothing.
IdleTick == phase = "loop" /\ ~all /\ names = {} /\ UNCHANGED vars

\* A closed channel ends the loop with an error, once it is empty.
SubscriptionClosed ==
    /\ phase = "loop"
    /\ \/ linkClosed /\ linkCh = <<>>
       \/ addrClosed /\ addrCh = <<>>
    /\ phase' = "stopped"
    /\ UNCHANGED <<ghosts, changes, subs, pending, pass, cancelled>>

\* The signal handler cancels the context, at any time ...
Cancel ==
    /\ ~cancelled
    /\ phase # "stopped"
    /\ cancelled' = TRUE
    /\ UNCHANGED <<ghosts, changes, phase, subs, pending, pass>>

MutContextDoneInPass ==
    /\ phase = "loop"
    /\ cancelled
    /\ all \/ names # {}
    /\ phase' = "stopped"
    /\ UNCHANGED <<ghosts, changes, subs, pending, pass, cancelled>>

\* ... but only the select of the loop looks at it.
ContextDone ==
    /\ phase = "loop"
    /\ cancelled
    /\ phase' = "stopped"
    /\ UNCHANGED <<ghosts, changes, subs, pending, pass, cancelled>>

Terminated == phase = "stopped" /\ UNCHANGED vars

-----------------------------------------------------------------------------
Environment ==
    \/ \E n \in Names : LinkChange(n) \/ AddrChange(n) \/ Echo(n)
    \/ Cancel

Passes == ListLinks \/ ListFails \/ EndPass
Setup == SubscribeLink \/ SubscribeAddr

Next ==
    \/ Environment
    \/ Passes
    \/ Setup
    \/ ReceiveLink \/ ReceiveAddr \/ ApplyTick \/ IdleTick
    \/ SubscriptionClosed \/ ContextDone
    \/ Terminated

Spec == Init /\ [][Next]_vars

\* The loop's goroutine runs, and its select, which chooses at random among
\* the cases that are ready, does not pass one by for ever that is ready again
\* and again.
FairSpec ==
    /\ Spec
    /\ WF_vars(Passes) /\ WF_vars(Setup)
    /\ SF_vars(ReceiveLink) /\ SF_vars(ReceiveAddr) /\ SF_vars(ApplyTick)
    /\ SF_vars(SubscriptionClosed) /\ SF_vars(ContextDone)

-----------------------------------------------------------------------------
(***************************************************************************)
(* Properties.                                                             *)
(***************************************************************************)
Phases == {"apply", "applyListed", "applied", "subscribing", "loop", "pass",
           "passListed", "stopped"}

\* Every variable has a value the program can give it; a queue is never longer
\* than its capacity, and names are not kept beside all.
TypeOK ==
    /\ dirty \subseteq Names
    /\ missed \subseteq dirty
    /\ changes \in 0..MaxChanges
    /\ phase \in Phases
    /\ linkCh \in Seq(Events) /\ Len(linkCh) <= Cap
    /\ addrCh \in Seq(Names) /\ Len(addrCh) <= Cap
    /\ linkClosed \in BOOLEAN
    /\ addrClosed \in BOOLEAN
    /\ all \in BOOLEAN
    /\ names \subseteq Names
    /\ all => names = {}
    /\ target \subseteq Names
    /\ cover \subseteq target
    /\ emitted \subseteq Names
    /\ cancelled \in BOOLEAN

\* The running pass will list n, or has and will be done with it.
Covered(n) ==
    \/ phase \in {"apply", "pass"} /\ n \in target
    \/ phase \in {"applyListed", "passListed"} /\ n \in cover

\* No other change is forgotten: as long as the loop runs, is not being stopped
\* and has its subscriptions, an interface that has changed is mentioned by an
\* event on its way, is pending, or is what the running pass is about, unless
\* it is missed.
NoLostChange ==
    \A n \in dirty :
        \/ Queued(n)
        \/ all \/ n \in names
        \/ Covered(n)
        \/ n \in missed
        \/ phase = "stopped" \/ cancelled \/ linkClosed \/ addrClosed

\* What the loop has to do about n, read off its queues and its pass.
Work(n) ==
    IF n \notin dirty THEN "clean"
    ELSE IF n \in cover THEN "taken"
    ELSE IF phase \in {"apply", "pass"} /\ n \in target THEN "claimed"
    ELSE IF Queued(n) \/ all \/ n \in names THEN "todo" ELSE "lost"

WL == INSTANCE WorkList WITH
        work <- [n \in Names |-> Work(n)],
        blind <- phase \in {"apply", "applyListed", "applied", "subscribing"},
        over <- phase = "stopped" \/ cancelled \/ linkClosed \/ addrClosed,
        Fallible <- MayFail # {}

\* The loop is a list of work: queues, snapshots and passes, whatever their
\* order, lose a change only before the subscriptions, by a failure or at the
\* end, and forget none that a pass has not seen.
ListsEveryChange == WL!Spec

\* Every change but the missed ones is taken up by a pass, whatever else
\* changes, fails and is queued meanwhile.
ChangesReapplied ==
    \A n \in Names : n \in dirty ~> n \notin dirty \/ n \in missed \/ phase = "stopped"

\* "Watches for network interface changes and reapplies policies
\* automatically": every change is taken up.
EveryChangeReapplied ==
    \A n \in Names : n \in dirty ~> n \notin dirty \/ phase = "stopped"

\* The events the passes cause themselves die out: when the environment has
\* come to rest and nothing fails any more, the loop does too.
Quiesces ==
    <>[](phase = "stopped" \/ (phase = "loop" /\ ~all /\ names = {} /\ linkCh = <<>> /\ addrCh = <<>>))

\* A signal ends the loop, also in the middle of a pass or of Apply.
ShutdownCompletes == cancelled ~> phase = "stopped"

=============================================================================
