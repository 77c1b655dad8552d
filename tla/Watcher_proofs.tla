--------------------------- MODULE Watcher_proofs ---------------------------
(***************************************************************************)
(* Proofs about Watcher, for every set of interfaces, every capacity of    *)
(* the subscriptions and every number of changes and failures: its types,  *)
(* that no change is lost but those that are missed by the source, and     *)
(* that the loop implements WorkList.                                      *)
(*                                                                         *)
(* NoLostChange is inductive but for two facts about the passes: the first *)
(* is about every interface, and one that has not listed the links yet, or *)
(* is over, covers none.                                                   *)
(***************************************************************************)
EXTENDS Watcher, TLAPS

PassInv ==
    /\ phase = "apply" => target = Names
    /\ phase \notin {"applyListed", "passListed"} => cover = {}

TypeInv == TypeOK /\ PassInv

-----------------------------------------------------------------------------
(***************************************************************************)
(* Queues.                                                                 *)
(***************************************************************************)

\* What a queue holds it still holds when an element is added, and that too.
LEMMA AppendHolds ==
    ASSUME NEW S, NEW s \in Seq(S), NEW e \in S
    PROVE  /\ \A i \in DOMAIN s : \E j \in DOMAIN Append(s, e) : Append(s, e)[j] = s[i]
           /\ \E j \in DOMAIN Append(s, e) : Append(s, e)[j] = e
<1>1. /\ DOMAIN s = 1..Len(s)
      /\ DOMAIN Append(s, e) = 1..(Len(s) + 1)
      /\ Len(s) \in Nat
  OBVIOUS
<1>2. ASSUME NEW i \in DOMAIN s
      PROVE  \E j \in DOMAIN Append(s, e) : Append(s, e)[j] = s[i]
  <2>1. i \in DOMAIN Append(s, e) /\ Append(s, e)[i] = s[i]
    BY <1>1
  <2> QED BY <2>1
<1>3. Len(s) + 1 \in DOMAIN Append(s, e) /\ Append(s, e)[Len(s) + 1] = e
  BY <1>1
<1> QED BY <1>2, <1>3

\* What a queue holds is its head, or still there when the head is taken.
LEMMA TailHolds ==
    ASSUME NEW S, NEW s \in Seq(S), s # <<>>, NEW i \in DOMAIN s
    PROVE  s[i] = Head(s) \/ \E j \in DOMAIN Tail(s) : Tail(s)[j] = s[i]
<1>1. /\ DOMAIN s = 1..Len(s)
      /\ Len(s) \in Nat
      /\ Head(s) = s[1]
  OBVIOUS
<1>2. CASE i = 1
  BY <1>1, <1>2
<1>3. CASE i # 1
  <2>1. DOMAIN Tail(s) = 1..(Len(s) - 1)
    OBVIOUS
  <2>2. i - 1 \in DOMAIN Tail(s)
    BY <1>1, <1>3, <2>1
  <2>3. Tail(s)[i - 1] = s[i]
    BY <1>1, <1>3, <2>1, <2>2
  <2> QED BY <2>2, <2>3
<1> QED BY <1>2, <1>3

-----------------------------------------------------------------------------
(***************************************************************************)
(* Types.                                                                  *)
(***************************************************************************)
SubsOK ==
    /\ linkCh \in Seq(Events) /\ Len(linkCh) <= Cap
    /\ addrCh \in Seq(Names) /\ Len(addrCh) <= Cap
    /\ linkClosed \in BOOLEAN
    /\ addrClosed \in BOOLEAN

PendingOK ==
    /\ all \in BOOLEAN
    /\ names \subseteq Names
    /\ all => names = {}

OthersOK ==
    /\ dirty \subseteq Names
    /\ missed \subseteq dirty
    /\ changes \in 0..MaxChanges
    /\ phase \in Phases
    /\ target \subseteq Names
    /\ cover \subseteq target
    /\ emitted \subseteq Names
    /\ cancelled \in BOOLEAN

LEMMA TypeParts == TypeOK <=> SubsOK /\ PendingOK /\ OthersOK
BY DEF TypeOK, SubsOK, PendingOK, OthersOK

LEMMA TypePartsNext == TypeOK' <=> SubsOK' /\ PendingOK' /\ OthersOK'
BY DEF TypeOK, SubsOK, PendingOK, OthersOK

LEMMA SendLinkSubs ==
    ASSUME SubsOK, NEW e \in Events, SendLink(e)
    PROVE  SubsOK'
<1>1. Cap \in Nat /\ Len(linkCh) \in Nat
  BY WatcherAssumption DEF SubsOK
<1>2. CASE UNCHANGED subs
  BY <1>2 DEF SubsOK, subs
<1>3. CASE /\ Len(linkCh) < Cap
           /\ linkCh' = Append(linkCh, e)
           /\ UNCHANGED <<addrCh, linkClosed, addrClosed>>
  <2>1. linkCh' \in Seq(Events) /\ Len(linkCh') = Len(linkCh) + 1
    BY <1>3 DEF SubsOK
  <2> QED BY <1>1, <1>3, <2>1 DEF SubsOK
<1>4. CASE linkClosed' = TRUE /\ UNCHANGED <<linkCh, addrCh, addrClosed>>
  BY <1>4 DEF SubsOK
<1> QED BY <1>2, <1>3, <1>4 DEF SendLink

LEMMA SendAddrSubs ==
    ASSUME SubsOK, NEW e \in Names, SendAddr(e)
    PROVE  SubsOK'
<1>1. Cap \in Nat /\ Len(addrCh) \in Nat
  BY WatcherAssumption DEF SubsOK
<1>2. CASE UNCHANGED subs
  BY <1>2 DEF SubsOK, subs
<1>3. CASE /\ Len(addrCh) < Cap
           /\ addrCh' = Append(addrCh, e)
           /\ UNCHANGED <<linkCh, linkClosed, addrClosed>>
  <2>1. addrCh' \in Seq(Names) /\ Len(addrCh') = Len(addrCh) + 1
    BY <1>3 DEF SubsOK
  <2> QED BY <1>1, <1>3, <2>1 DEF SubsOK
<1>4. CASE addrClosed' = TRUE /\ UNCHANGED <<linkCh, addrCh, linkClosed>>
  BY <1>4 DEF SubsOK
<1> QED BY <1>2, <1>3, <1>4 DEF SendAddr

LEMMA AddLinkPending ==
    ASSUME PendingOK, NEW e \in Events, AddLink(e)
    PROVE  PendingOK'
<1>1. CASE UNCHANGED pending
  BY <1>1 DEF PendingOK, pending
<1>2. CASE MarkAll
  BY <1>2 DEF PendingOK, MarkAll
<1>3. CASE ~all /\ e # NoName /\ AddName(e)
  BY <1>3 DEF PendingOK, AddName, Events
<1> QED BY <1>1, <1>2, <1>3 DEF AddLink

-----------------------------------------------------------------------------
LEMMA TypeInit == Init => TypeInv
<1> SUFFICES ASSUME Init PROVE TypeInv
  OBVIOUS
<1>1. SubsOK
  <2>1. Cap \in Nat
    BY WatcherAssumption
  <2>2. linkCh = <<>> /\ addrCh = <<>> /\ ~linkClosed /\ ~addrClosed
    BY DEF Init
  <2>3. linkClosed \in BOOLEAN /\ addrClosed \in BOOLEAN
    BY DEF Init
  <2>4. linkCh \in Seq(Events) /\ addrCh \in Seq(Names)
    BY <2>2
  <2>5. Len(linkCh) = 0 /\ Len(addrCh) = 0
    BY <2>2
  <2>6. Len(linkCh) <= Cap /\ Len(addrCh) <= Cap
    BY <2>1, <2>5
  <2> QED BY <2>3, <2>4, <2>6 DEF SubsOK
<1>2. PendingOK
  BY DEF Init, PendingOK
<1>3. OthersOK
  <2>1. 0 \in 0..MaxChanges
    BY WatcherAssumption
  <2>2. changes \in 0..MaxChanges
    BY <2>1 DEF Init
  <2>3. phase \in Phases
    BY DEF Init, Phases
  <2> QED BY <2>2, <2>3 DEF Init, OthersOK
<1>4. PassInv
  BY DEF Init, PassInv
<1> QED BY <1>1, <1>2, <1>3, <1>4, TypeParts DEF TypeInv

LEMMA TypeStep == TypeInv /\ [Next]_vars => TypeInv'
<1> SUFFICES ASSUME SubsOK, PendingOK, OthersOK, PassInv, [Next]_vars
             PROVE  SubsOK' /\ PendingOK' /\ OthersOK' /\ PassInv'
  BY TypeParts, TypePartsNext DEF TypeInv
<1>1. CASE \E n \in Names : LinkChange(n) \/ AddrChange(n)
  <2>1. PICK n \in Names : LinkChange(n) \/ AddrChange(n)
    BY <1>1
  <2>2. Changed(n, LinkSubscribed) \/ Changed(n, AddrSubscribed)
    BY <2>1 DEF LinkChange, AddrChange
  <2>3. SubsOK'
    <3>1. n \in Events /\ NoName \in Events
      BY DEF Events
    <3> QED BY <2>1, <3>1, SendLinkSubs, SendAddrSubs DEF LinkChange, AddrChange
  <2>4. PendingOK'
    BY <2>2 DEF Changed, pending, PendingOK
  <2>5. OthersOK'
    <3>1. changes' \in 0..MaxChanges
      BY <2>2, WatcherAssumption DEF Changed, OthersOK
    <3>2. missed' \subseteq dirty'
      BY <2>2 DEF Changed, OthersOK
    <3> QED BY <2>2, <3>1, <3>2 DEF Changed, OthersOK
  <2>6. PassInv'
    BY <2>2 DEF Changed, PassInv
  <2> QED BY <2>3, <2>4, <2>5, <2>6
<1>2. CASE \E n \in Names : Echo(n)
  <2>1. PICK n \in Names : Echo(n)
    BY <1>2
  <2>2. SubsOK'
    <3>1. n \in Events
      BY DEF Events
    <3> QED BY <2>1, <3>1, SendLinkSubs DEF Echo
  <2>3. PendingOK' /\ OthersOK' /\ PassInv'
    BY <2>1 DEF Echo, ghosts, pending, PendingOK, OthersOK, PassInv
  <2> QED BY <2>2, <2>3
<1>3. CASE Cancel
  BY <1>3 DEF Cancel, ghosts, subs, pending, pass, SubsOK, PendingOK, OthersOK, PassInv
<1>4. CASE ListLinks
  BY <1>4 DEF ListLinks, ghosts, subs, pending, SubsOK, PendingOK, OthersOK, PassInv, Phases
<1>5. CASE ListFails
  <2>1. missed' \subseteq dirty'
    BY <1>5 DEF ListFails, Forgotten, OthersOK
  <2>2. changes' \in 0..MaxChanges
    BY <1>5, WatcherAssumption DEF ListFails, MayFailNow, OthersOK
  <2> QED BY <1>5, <2>1, <2>2 DEF ListFails, subs, pending, SubsOK, PendingOK,
                                  OthersOK, PassInv, Phases
<1>6. CASE EndPass
  <2>1. PICK failed \in SUBSET cover :
          /\ failed # {} => MayFailNow \/ cancelled
          /\ dirty' = dirty \ (cover \ failed)
          /\ missed' = (missed \ (cover \ failed)) \cup Forgotten(failed)
          /\ changes' = IF failed = {} \/ cancelled THEN changes ELSE changes + 1
    BY <1>6 DEF EndPass
  <2>2. dirty' \subseteq dirty /\ missed' \subseteq dirty'
    BY <2>1 DEF Forgotten, OthersOK
  <2>3. changes' \in 0..MaxChanges
    BY <2>1, WatcherAssumption DEF MayFailNow, OthersOK
  <2> QED BY <1>6, <2>2, <2>3 DEF EndPass, subs, pending, SubsOK, PendingOK,
                                  OthersOK, PassInv, Phases
<1>7. CASE Setup
  BY <1>7 DEF Setup, SubscribeLink, SubscribeAddr, ghosts, subs, pending, pass, SubsOK,
              PendingOK, OthersOK, PassInv, Phases
<1>8. CASE ReceiveLink
  <2>1. PendingOK'
    <3>1. Head(linkCh) \in Events
      BY <1>8 DEF ReceiveLink, SubsOK
    <3> QED BY <1>8, <3>1, AddLinkPending DEF ReceiveLink
  <2>2. SubsOK'
    <3>1. linkCh' \in Seq(Events) /\ Len(linkCh') <= Len(linkCh)
      BY <1>8 DEF ReceiveLink, SubsOK
    <3>2. Len(linkCh') \in Nat /\ Len(linkCh) \in Nat /\ Cap \in Nat
      BY <3>1, WatcherAssumption DEF SubsOK
    <3> QED BY <1>8, <3>1, <3>2 DEF ReceiveLink, SubsOK
  <2>3. OthersOK' /\ PassInv'
    BY <1>8 DEF ReceiveLink, ghosts, pass, OthersOK, PassInv
  <2> QED BY <2>1, <2>2, <2>3
<1>9. CASE ReceiveAddr
  <2>1. PendingOK'
    <3>1. Head(addrCh) \in Events /\ NoName \in Events
      BY <1>9 DEF ReceiveAddr, SubsOK, Events
    <3> QED BY <1>9, <3>1, AddLinkPending DEF ReceiveAddr
  <2>2. SubsOK'
    <3>1. addrCh' \in Seq(Names) /\ Len(addrCh') <= Len(addrCh)
      BY <1>9 DEF ReceiveAddr, SubsOK
    <3>2. Len(addrCh') \in Nat /\ Len(addrCh) \in Nat /\ Cap \in Nat
      BY <3>1, WatcherAssumption DEF SubsOK
    <3> QED BY <1>9, <3>1, <3>2 DEF ReceiveAddr, SubsOK
  <2>3. OthersOK' /\ PassInv'
    BY <1>9 DEF ReceiveAddr, ghosts, pass, OthersOK, PassInv
  <2> QED BY <2>1, <2>2, <2>3
<1>10. CASE ApplyTick
  BY <1>10 DEF ApplyTick, ghosts, subs, SubsOK, PendingOK, OthersOK, PassInv, Phases
<1>11. CASE SubscriptionClosed \/ ContextDone
  BY <1>11 DEF SubscriptionClosed, ContextDone, ghosts, subs, pending, pass, SubsOK,
               PendingOK, OthersOK, PassInv, Phases
<1>12. CASE IdleTick \/ Terminated \/ UNCHANGED vars
  BY <1>12 DEF IdleTick, Terminated, vars, ghosts, subs, pending, pass, SubsOK, PendingOK,
               OthersOK, PassInv
<1> QED BY <1>1, <1>2, <1>3, <1>4, <1>5, <1>6, <1>7, <1>8, <1>9, <1>10, <1>11, <1>12
           DEF Next, Environment, Passes

\* Whatever happens, every variable keeps a value the program can give it: in
\* particular a pass covers only what it is for, and the names are dropped
\* when every link is pending.
THEOREM TypeCorrect == Spec => []TypeOK
<1>1. TypeInv => TypeOK
  BY DEF TypeInv
<1> QED BY <1>1, TypeInit, TypeStep, PTL DEF Spec

-----------------------------------------------------------------------------
(***************************************************************************)
(* No lost change.                                                         *)
(***************************************************************************)
Excused == phase = "stopped" \/ cancelled \/ linkClosed \/ addrClosed
Kept(n) == Queued(n) \/ all \/ n \in names \/ Covered(n) \/ n \in missed \/ Excused

LEMMA NoLostInit == Init => NoLostChange
BY DEF Init, NoLostChange, Covered

\* An event for n that is sent is queued, or its subscription ends; what was
\* queued stays so.
LEMMA LinkQueued ==
    ASSUME SubsOK, NEW e \in Events, SendLink(e)
    PROVE  /\ \A n \in Names : Queued(n) => Queued(n)'
           /\ LinkSubscribed =>
                linkClosed' \/ \E i \in DOMAIN linkCh' : linkCh'[i] = e
<1>1. CASE UNCHANGED subs /\ (~LinkSubscribed \/ linkClosed)
  BY <1>1 DEF subs, Queued
<1>2. CASE linkCh' = Append(linkCh, e) /\ UNCHANGED <<addrCh, linkClosed, addrClosed>>
  <2>1. linkCh \in Seq(Events)
    BY DEF SubsOK
  <2>2. /\ \A i \in DOMAIN linkCh : \E j \in DOMAIN linkCh' : linkCh'[j] = linkCh[i]
        /\ \E j \in DOMAIN linkCh' : linkCh'[j] = e
    BY <1>2, <2>1, AppendHolds
  <2> QED BY <1>2, <2>2 DEF Queued
<1>3. CASE linkClosed' = TRUE /\ UNCHANGED <<linkCh, addrCh, addrClosed>>
  BY <1>3 DEF Queued
<1> QED BY <1>1, <1>2, <1>3 DEF SendLink

LEMMA AddrQueued ==
    ASSUME SubsOK, NEW e \in Names, SendAddr(e)
    PROVE  /\ \A n \in Names : Queued(n) => Queued(n)'
           /\ AddrSubscribed =>
                addrClosed' \/ \E i \in DOMAIN addrCh' : addrCh'[i] = e
<1>1. CASE UNCHANGED subs /\ (~AddrSubscribed \/ addrClosed)
  BY <1>1 DEF subs, Queued
<1>2. CASE addrCh' = Append(addrCh, e) /\ UNCHANGED <<linkCh, linkClosed, addrClosed>>
  <2>1. addrCh \in Seq(Names)
    BY DEF SubsOK
  <2>2. /\ \A i \in DOMAIN addrCh : \E j \in DOMAIN addrCh' : addrCh'[j] = addrCh[i]
        /\ \E j \in DOMAIN addrCh' : addrCh'[j] = e
    BY <1>2, <2>1, AppendHolds
  <2> QED BY <1>2, <2>2 DEF Queued
<1>3. CASE addrClosed' = TRUE /\ UNCHANGED <<linkCh, addrCh, linkClosed>>
  BY <1>3 DEF Queued
<1> QED BY <1>1, <1>2, <1>3 DEF SendAddr

\* What is on its way, queued or pending.
Listed(n) == Queued(n) \/ all \/ n \in names

\* A receive moves the head of a queue to what is pending, and loses nothing.
LEMMA ReceiveKeeps ==
    ASSUME SubsOK, ReceiveLink \/ ReceiveAddr, NEW n \in Names, Listed(n)
    PROVE  Listed(n)'
<1>1. CASE ReceiveLink
  <2>1. (all \/ n \in names) => (all' \/ n \in names')
    BY <1>1 DEF ReceiveLink, AddLink, MarkAll, AddName, pending
  <2>2. (\E i \in DOMAIN addrCh : addrCh[i] = n) => Queued(n)'
    BY <1>1 DEF ReceiveLink, Queued
  <2>3. ASSUME NEW i \in DOMAIN linkCh, linkCh[i] \in {n, NoName}
        PROVE  Queued(n)' \/ all' \/ n \in names'
    <3>1. \/ linkCh[i] = Head(linkCh)
          \/ \E j \in DOMAIN linkCh' : linkCh'[j] = linkCh[i]
      BY <1>1, TailHolds DEF ReceiveLink, SubsOK
    <3>2. CASE linkCh[i] = Head(linkCh)
      BY <1>1, <2>3, <3>2 DEF ReceiveLink, AddLink, MarkAll, AddName, pending
    <3>3. CASE \E j \in DOMAIN linkCh' : linkCh'[j] = linkCh[i]
      BY <2>3, <3>3 DEF Queued
    <3> QED BY <3>1, <3>2, <3>3
  <2> QED BY <2>1, <2>2, <2>3 DEF Listed, Queued
<1>2. CASE ReceiveAddr
  <2>1. (all \/ n \in names) => (all' \/ n \in names')
    BY <1>2 DEF ReceiveAddr, AddLink, MarkAll, AddName, pending
  <2>2. (\E i \in DOMAIN linkCh : linkCh[i] \in {n, NoName}) => Queued(n)'
    BY <1>2 DEF ReceiveAddr, Queued
  <2>3. ASSUME NEW i \in DOMAIN addrCh, addrCh[i] = n
        PROVE  Queued(n)' \/ all' \/ n \in names'
    <3>1. \/ addrCh[i] = Head(addrCh)
          \/ \E j \in DOMAIN addrCh' : addrCh'[j] = addrCh[i]
      BY <1>2, TailHolds DEF ReceiveAddr, SubsOK
    <3>2. CASE addrCh[i] = Head(addrCh)
      BY <1>2, <2>3, <3>2 DEF ReceiveAddr, AddLink, MarkAll, AddName, pending
    <3>3. CASE \E j \in DOMAIN addrCh' : addrCh'[j] = addrCh[i]
      BY <2>3, <3>3 DEF Queued
    <3> QED BY <3>1, <3>2, <3>3
  <2> QED BY <2>1, <2>2, <2>3 DEF Listed, Queued
<1> QED BY <1>1, <1>2

LEMMA NoLostStep ==
    ASSUME TypeInv, NoLostChange, [Next]_vars
    PROVE  NoLostChange'
<1>0. /\ SubsOK /\ PendingOK /\ OthersOK /\ PassInv
      /\ \A n \in dirty : n \in Names /\ Kept(n)
  BY TypeParts DEF TypeInv, NoLostChange, Kept, Excused, OthersOK
<1> SUFFICES ASSUME NEW n \in dirty', ~Excused' PROVE Kept(n)'
  BY DEF NoLostChange, Kept, Excused
<1>1. CASE \E m \in Names : LinkChange(m) \/ AddrChange(m)
  <2>1. PICK m \in Names : LinkChange(m) \/ AddrChange(m)
    BY <1>1
  <2>2. Changed(m, LinkSubscribed) \/ Changed(m, AddrSubscribed)
    BY <2>1 DEF LinkChange, AddrChange
  <2>3. ~Excused
    BY <2>1, <2>2, <1>0 DEF Excused, Changed, LinkChange, AddrChange, SendLink, SendAddr, subs
  <2>4. \A k \in Names : Queued(k) => Queued(k)'
    <3>1. m \in Events /\ NoName \in Events
      BY DEF Events
    <3> QED BY <2>1, <3>1, <1>0, LinkQueued, AddrQueued DEF LinkChange, AddrChange
  <2>5. CASE n = m
    <3>1. CASE phase = "apply"
      BY <1>0, <2>2, <2>5, <3>1 DEF Changed, Kept, Covered, PassInv
    <3>2. CASE LinkChange(m) /\ LinkSubscribed
      <4>1. m \in Events /\ NoName \in Events
        BY DEF Events
      <4>2. \E e \in {m, NoName} :
              linkClosed' \/ \E i \in DOMAIN linkCh' : linkCh'[i] = e
        BY <1>0, <3>2, <4>1, LinkQueued DEF LinkChange
      <4> QED BY <2>5, <4>2 DEF Kept, Excused, Queued
    <3>3. CASE AddrChange(m) /\ AddrSubscribed
      <4>1. addrClosed' \/ \E i \in DOMAIN addrCh' : addrCh'[i] = m
        BY <1>0, <3>3, AddrQueued DEF AddrChange
      <4> QED BY <2>5, <4>1 DEF Kept, Excused, Queued
    <3>4. CASE /\ phase # "apply"
               /\ \/ LinkChange(m) /\ ~LinkSubscribed
                  \/ AddrChange(m) /\ ~AddrSubscribed
      <4>1. m \in missed'
        BY <3>4 DEF LinkChange, AddrChange, Changed
      <4> QED BY <2>5, <4>1 DEF Kept
    <3> QED BY <2>1, <3>1, <3>2, <3>3, <3>4
  <2>6. CASE n # m
    <3>1. n \in dirty /\ n \in Names /\ Kept(n)
      BY <1>0, <2>2, <2>6 DEF Changed
    <3>2. CASE Queued(n)
      BY <2>4, <3>1, <3>2 DEF Kept
    <3>3. CASE ~Queued(n)
      BY <2>2, <2>3, <2>6, <3>1, <3>3 DEF Kept, Covered, Changed, pending
    <3> QED BY <3>2, <3>3
  <2> QED BY <2>5, <2>6
<1>2. CASE \E m \in Names : Echo(m)
  <2>1. PICK m \in Names : Echo(m)
    BY <1>2
  <2>2. n \in dirty /\ n \in Names /\ Kept(n)
    BY <1>0, <2>1 DEF Echo, ghosts
  <2>3. ~Excused
    BY <2>1 DEF Excused, Echo, SendLink, subs
  <2>4. Queued(n) => Queued(n)'
    <3>1. m \in Events
      BY DEF Events
    <3> QED BY <1>0, <2>1, <2>2, <3>1, LinkQueued DEF Echo
  <2> QED BY <2>1, <2>2, <2>3, <2>4 DEF Kept, Covered, Echo, ghosts, pending
<1>3. CASE Cancel
  BY <1>3 DEF Cancel, Excused
<1>4. CASE ListLinks
  BY <1>0, <1>4 DEF ListLinks, Kept, Excused, Queued, Covered, ghosts, subs, pending
<1>5. CASE ListFails
  <2>1. n \in dirty /\ n \in Names /\ Kept(n) /\ ~Excused
    BY <1>0, <1>5 DEF ListFails, Excused, subs
  <2>2. CASE Covered(n) /\ ~Queued(n)
    <3>1. n \in target
      BY <1>5, <2>2 DEF ListFails, Covered
    <3>2. n \in missed'
      BY <1>5, <2>1, <2>2, <3>1 DEF ListFails, Forgotten
    <3> QED BY <3>2 DEF Kept
  <2>3. CASE Queued(n) \/ ~Covered(n)
    BY <1>5, <2>1, <2>3 DEF ListFails, Kept, Queued, subs, pending
  <2> QED BY <2>2, <2>3
<1>6. CASE EndPass
  <2>1. PICK failed \in SUBSET cover :
          /\ dirty' = dirty \ (cover \ failed)
          /\ missed' = (missed \ (cover \ failed)) \cup Forgotten(failed)
    BY <1>6 DEF EndPass
  <2>2. n \in dirty /\ n \in Names /\ Kept(n) /\ ~Excused /\ n \notin cover \ failed
    BY <1>0, <1>6, <2>1 DEF EndPass, Excused, subs
  <2>3. CASE n \in failed /\ ~Queued(n)
    <3>1. n \in missed'
      BY <2>1, <2>2, <2>3 DEF Forgotten
    <3> QED BY <3>1 DEF Kept
  <2>4. CASE Queued(n)
    BY <1>6, <2>4 DEF EndPass, Kept, Queued, subs
  <2>5. CASE n \notin failed
    <3>1. ~Covered(n)
      BY <1>6, <2>2, <2>5 DEF EndPass, Covered
    <3>2. n \in missed => n \in missed'
      BY <2>1, <2>2
    <3> QED BY <1>6, <2>2, <3>1, <3>2 DEF EndPass, Kept, Queued, subs, pending
  <2> QED BY <2>3, <2>4, <2>5
<1>7. CASE Setup
  BY <1>0, <1>7 DEF Setup, SubscribeLink, SubscribeAddr, Kept, Excused, Queued,
                    Covered, ghosts, subs, pending, pass
<1>8. CASE ReceiveLink \/ ReceiveAddr
  <2>1. n \in dirty /\ n \in Names /\ Kept(n) /\ ~Covered(n) /\ ~Excused
    BY <1>0, <1>8 DEF ReceiveLink, ReceiveAddr, ghosts, Excused, Covered
  <2>2. Listed(n) => Listed(n)'
    BY <1>0, <1>8, <2>1, ReceiveKeeps
  <2>3. n \in missed => n \in missed'
    BY <1>8 DEF ReceiveLink, ReceiveAddr, ghosts
  <2> QED BY <2>1, <2>2, <2>3 DEF Kept, Listed
<1>9. CASE ApplyTick
  <2>1. n \in dirty /\ n \in Names /\ Kept(n) /\ ~Covered(n) /\ ~Excused
    BY <1>0, <1>9 DEF ApplyTick, Covered, Excused, ghosts, subs
  <2>2. CASE Queued(n)
    BY <1>9, <2>2 DEF ApplyTick, subs, Queued, Kept
  <2>3. CASE all \/ n \in names
    BY <1>9, <2>1, <2>3, <1>0 DEF ApplyTick, Covered, Kept, PendingOK
  <2>4. CASE n \in missed
    BY <1>9, <2>4 DEF ApplyTick, ghosts, Kept
  <2> QED BY <2>1, <2>2, <2>3, <2>4 DEF Kept
<1>10. CASE SubscriptionClosed \/ ContextDone
  BY <1>10 DEF SubscriptionClosed, ContextDone, Excused
<1>11. CASE IdleTick \/ Terminated \/ UNCHANGED vars
  BY <1>0, <1>11 DEF IdleTick, Terminated, vars, ghosts, subs, pending, pass, Kept, Queued,
                     Covered, Excused
<1> QED BY <1>1, <1>2, <1>3, <1>4, <1>5, <1>6, <1>7, <1>8, <1>9, <1>10, <1>11
           DEF Next, Environment, Passes

\* The watch loop forgets no change but the missed ones, however events, passes
\* and failures interleave: an interface that has changed is queued, pending or
\* the running pass's, until a pass that has seen it as it is ends.
THEOREM NoLostChangeHolds == Spec => []NoLostChange
<1>1. NoLostChange /\ TypeInv /\ [Next]_vars => NoLostChange'
  BY NoLostStep
<1> QED BY <1>1, NoLostInit, TypeInit, TypeStep, PTL DEF Spec
-----------------------------------------------------------------------------
(***************************************************************************)
(* The list of work.  What an action makes of each interface is read off   *)
(* the queues and the pass; the rest is that the interfaces together make  *)
(* a step of WorkList.                                                     *)
(***************************************************************************)
Blind == phase \in {"apply", "applyListed", "applied", "subscribing"}

\* Where the passes stay as they are and nothing that is on its way gets lost,
\* an interface stays as it is, or is found again.
LEMMA SameWork ==
    ASSUME NEW n \in Names, (n \in dirty)' <=> n \in dirty, (n \in cover)' <=> n \in cover,
           UNCHANGED <<phase, target>>, Listed(n) => Listed(n)'
    PROVE  Work(n)' = Work(n) \/ (Work(n) = "lost" /\ Work(n)' = "todo")
BY DEF Work, Listed

\* ... and so do all of them.
LEMMA RecoverWork ==
    ASSUME \A n \in Names : Work(n)' = Work(n) \/ (Work(n) = "lost" /\ Work(n)' = "todo")
    PROVE  WL!Recover
<1> DEFINE S == {n \in Names : Work(n) = "lost" /\ Work(n)' = "todo"}
<1>1. S \in SUBSET WL!In("lost")
  BY DEF WL!In
<1>2. [n \in Names |-> Work(n)'] = WL!Put(S, "todo")
  BY DEF WL!Put
<1> QED BY <1>1, <1>2 DEF WL!Recover

LEMMA SameAll ==
    ASSUME UNCHANGED <<dirty, cover, phase, target>>,
           \A n \in Names : Listed(n) => Listed(n)'
    PROVE  WL!Recover
<1>1. \A n \in Names : Work(n)' = Work(n) \/ (Work(n) = "lost" /\ Work(n)' = "todo")
  <2> SUFFICES ASSUME NEW n \in Names
               PROVE  Work(n)' = Work(n) \/ (Work(n) = "lost" /\ Work(n)' = "todo")
    OBVIOUS
  <2>1. ((n \in dirty)' <=> n \in dirty) /\ ((n \in cover)' <=> n \in cover)
    OBVIOUS
  <2> QED BY <2>1, SameWork
<1> QED BY <1>1, RecoverWork

\* A change puts its interface on the list and takes none off it.
LEMMA ChangeWork ==
    ASSUME TypeInv, NEW n \in Names, LinkChange(n) \/ AddrChange(n)
    PROVE  WL!Change(n)
<1>0. SubsOK /\ OthersOK /\ PassInv
  BY TypeParts DEF TypeInv
<1>1. /\ dirty' = dirty \cup {n}
      /\ cover' = cover \ {n}
      /\ UNCHANGED <<phase, pending, target, emitted, cancelled>>
  BY DEF LinkChange, AddrChange, Changed
<1>2. \A k \in Names : Queued(k) => Queued(k)'
  <2>1. n \in Events /\ NoName \in Events
    BY DEF Events
  <2> QED BY <1>0, <2>1, LinkQueued, AddrQueued DEF LinkChange, AddrChange
<1>3. \A k \in Names \ {n} :
        Work(k)' = Work(k) \/ (Work(k) = "lost" /\ Work(k)' = "todo")
  <2> SUFFICES ASSUME NEW k \in Names, k # n
               PROVE  Work(k)' = Work(k) \/ (Work(k) = "lost" /\ Work(k)' = "todo")
    OBVIOUS
  <2>1. ((k \in dirty)' <=> k \in dirty) /\ ((k \in cover)' <=> k \in cover)
    BY <1>1
  <2>2. Listed(k) => Listed(k)'
    BY <1>1, <1>2 DEF Listed, pending
  <2> QED BY <1>1, <2>1, <2>2, SameWork
<1>4. Work(n)' \in {"todo", "claimed", "lost"}
  BY <1>1 DEF Work
<1>5. Work(n) = "claimed" => Work(n)' = "claimed"
  BY <1>1 DEF Work
<1>6. Work(n)' = "lost" =>
        Blind \/ phase' = "stopped" \/ cancelled' \/ linkClosed' \/ addrClosed'
  <2> SUFFICES ASSUME ~Blind, phase # "stopped", ~linkClosed', ~addrClosed'
               PROVE  Work(n)' # "lost"
    BY <1>1
  <2>1. LinkSubscribed /\ AddrSubscribed
    BY <1>0 DEF OthersOK, Phases, Blind, LinkSubscribed, AddrSubscribed
  <2>2. n \in Events /\ NoName \in Events
    BY DEF Events
  <2>3. CASE LinkChange(n)
    <3>1. \E e \in {n, NoName} : \E i \in DOMAIN linkCh' : linkCh'[i] = e
      BY <1>0, <2>1, <2>2, <2>3, LinkQueued DEF LinkChange
    <3>2. Queued(n)'
      BY <3>1 DEF Queued
    <3> QED BY <3>2 DEF Work
  <2>4. CASE AddrChange(n)
    <3>1. \E i \in DOMAIN addrCh' : addrCh'[i] = n
      BY <1>0, <2>1, <2>4, AddrQueued DEF AddrChange
    <3>2. Queued(n)'
      BY <3>1 DEF Queued
    <3> QED BY <3>2 DEF Work
  <2> QED BY <2>3, <2>4
<1> DEFINE S == {k \in Names \ {n} : Work(k) = "lost" /\ Work(k)' = "todo"}
<1>7. S \in SUBSET WL!In("lost")
  BY DEF WL!In
<1>8. [k \in Names |-> Work(k)'] = [WL!Put(S, "todo") EXCEPT ![n] = Work(n)']
  BY <1>3 DEF WL!Put
<1> QED BY <1>4, <1>5, <1>6, <1>7, <1>8 DEF WL!Change, Blind

\* A pass starts: what is pending is what it is for.
LEMMA ClaimWork ==
    ASSUME TypeInv, ApplyTick
    PROVE  WL!Claim
<1>0. PendingOK /\ OthersOK /\ cover = {} /\ cover' = {}
  BY TypeParts DEF TypeInv, PassInv, ApplyTick
<1>1. \A n \in Names : Queued(n)' <=> Queued(n)
  BY DEF ApplyTick, subs, Queued
<1> DEFINE S == dirty \cap target'
<1>2. \A n \in S : Work(n) = "todo"
  BY <1>0 DEF ApplyTick, Work, PendingOK, OthersOK
<1>3. S \in SUBSET WL!In("todo")
  BY <1>0, <1>2 DEF OthersOK, WL!In
<1>4. \A n \in Names : Work(n)' = IF n \in S THEN "claimed" ELSE Work(n)
  <2>1. \A n \in Names : n \notin target' => ~all /\ n \notin names
    BY DEF ApplyTick
  <2>2. dirty' = dirty /\ phase = "loop" /\ phase' = "pass" /\ ~all' /\ names' = {}
    BY DEF ApplyTick, ghosts
  <2> QED BY <1>0, <1>1, <2>1, <2>2 DEF Work
<1>5. [n \in Names |-> Work(n)'] = WL!Put(S, "claimed")
  BY <1>4 DEF WL!Put
<1>6. WL!In("claimed") \cup WL!In("taken") = {}
  <2>1. \A n \in Names : Work(n) \notin {"claimed", "taken"}
    BY <1>0 DEF Work, ApplyTick
  <2> QED BY <2>1 DEF WL!In
<1> QED BY <1>3, <1>5, <1>6 DEF WL!Claim

\* A pass lists the links: it sees all it is for.
LEMMA TakeWork ==
    ASSUME TypeInv, ListLinks
    PROVE  WL!Take
<1>0. cover = {} /\ cover' = target
  BY DEF TypeInv, PassInv, ListLinks
<1>1. \A n \in Names : Queued(n)' <=> Queued(n)
  BY DEF ListLinks, subs, Queued
<1>2. \A n \in Names : Work(n)' = IF Work(n) = "claimed" THEN "taken" ELSE Work(n)
  BY <1>0, <1>1 DEF ListLinks, Work, ghosts, pending
<1>3. [n \in Names |-> Work(n)'] = WL!Put(WL!In("claimed"), "taken")
  BY <1>2 DEF WL!Put, WL!In
<1> QED BY <1>3 DEF WL!Take

\* A pass that cannot list them is over, and nothing else has changed.
LEMMA FailWork ==
    ASSUME TypeInv, ListFails
    PROVE  WL!Fail
<1>0. cover = {} /\ cover' = {} /\ MayFail # {}
  BY DEF TypeInv, PassInv, ListFails, MayFailNow
<1>1. \A n \in Names : Queued(n)' <=> Queued(n)
  BY DEF ListFails, subs, Queued
<1> DEFINE S == {n \in Names : Work(n) = "claimed" /\ Work(n)' = "todo"}
<1>2. S \in SUBSET WL!In("claimed")
  BY DEF WL!In
<1>3. \A n \in Names :
        Work(n)' = IF n \in S THEN "todo" ELSE IF Work(n) = "claimed" THEN "lost" ELSE Work(n)
  BY <1>0, <1>1 DEF ListFails, Work, pending
<1>4. [n \in Names |-> Work(n)'] =
        [n \in Names |-> IF n \in S THEN "todo"
                         ELSE IF Work(n) = "claimed" THEN "lost" ELSE Work(n)]
  BY <1>3
<1> QED BY <1>0, <1>2, <1>4 DEF WL!Fail

\* A pass ends: what has failed is only still on its way, or lost.
LEMMA FinishWork ==
    ASSUME TypeInv, EndPass
    PROVE  WL!Finish
<1>0. OthersOK /\ cover' = {}
  BY TypeParts DEF TypeInv, EndPass
<1>1. \A n \in Names : Queued(n)' <=> Queued(n)
  BY DEF EndPass, subs, Queued
<1>2. PICK broken \in SUBSET cover :
        /\ broken # {} => MayFail # {} \/ cancelled
        /\ dirty' = dirty \ (cover \ broken)
  BY DEF EndPass, MayFailNow
<1> DEFINE failed == broken \cap dirty
           S == {n \in failed : Work(n)' = "todo"}
<1>3. failed \in SUBSET WL!In("taken") /\ S \in SUBSET failed
  BY <1>0, <1>2 DEF WL!In, Work, OthersOK
<1>4. failed # {} => MayFail # {} \/ Excused
  BY <1>2 DEF Excused
<1>5. \A n \in Names :
        Work(n)' = IF n \in S THEN "todo" ELSE IF n \in failed THEN "lost"
                   ELSE IF Work(n) = "taken" THEN "clean" ELSE Work(n)
  <2> SUFFICES ASSUME NEW n \in Names
               PROVE  Work(n)' = IF n \in S THEN "todo" ELSE IF n \in failed THEN "lost"
                                 ELSE IF Work(n) = "taken" THEN "clean" ELSE Work(n)
    OBVIOUS
  <2>1. Queued(n)' <=> Queued(n)
    BY <1>1
  <2> QED BY <1>0, <1>2, <2>1 DEF EndPass, Work, pending
<1>6. [n \in Names |-> Work(n)'] =
        [n \in Names |->
            IF n \in S THEN "todo" ELSE IF n \in failed THEN "lost"
            ELSE IF [m \in Names |-> Work(m)][n] = "taken" THEN "clean"
            ELSE [m \in Names |-> Work(m)][n]]
  BY <1>5
<1> HIDE DEF S, failed
<1> QED BY <1>3, <1>4, <1>6 DEF WL!Finish, Excused

\* Once both subscriptions are there they stay, or the loop ends; and it does
\* not begin again.
LEMMA OnwardStep ==
    ASSUME SubsOK, SubsOK', [Next]_vars
    PROVE  /\ Blind' => Blind
           /\ Excused => Excused'
<1> USE DEF Blind, Excused, ghosts, subs, pending, pass
<1>1. CASE \E n \in Names : LinkChange(n) \/ AddrChange(n) \/ Echo(n)
  <2>1. /\ phase' = phase /\ cancelled' = cancelled
        /\ linkClosed' = linkClosed \/ linkClosed' = TRUE
        /\ addrClosed' = addrClosed \/ addrClosed' = TRUE
    BY <1>1 DEF LinkChange, AddrChange, Echo, Changed, SendLink, SendAddr
  <2>2. (linkClosed => linkClosed') /\ (addrClosed => addrClosed')
    BY <2>1 DEF SubsOK
  <2> QED BY <2>1, <2>2
<1>2. CASE Cancel
  BY <1>2 DEF Cancel
<1>3. CASE Passes
  BY <1>3 DEF Passes, ListLinks, ListFails, EndPass
<1>4. CASE Setup
  BY <1>4 DEF Setup, SubscribeLink, SubscribeAddr
<1>5. CASE ReceiveLink \/ ReceiveAddr \/ ApplyTick
  BY <1>5 DEF ReceiveLink, ReceiveAddr, ApplyTick
<1>6. CASE SubscriptionClosed \/ ContextDone
  BY <1>6 DEF SubscriptionClosed, ContextDone
<1>7. CASE IdleTick \/ Terminated \/ UNCHANGED vars
  BY <1>7 DEF IdleTick, Terminated, vars
<1> QED BY <1>1, <1>2, <1>3, <1>4, <1>5, <1>6, <1>7 DEF Next, Environment

LEMMA WorkStep ==
    ASSUME TypeInv, [Next]_vars
    PROVE  [WL!Next]_(WL!vars)
<1>0. SubsOK /\ SubsOK'
  BY TypeParts, TypePartsNext, TypeStep DEF TypeInv
<1>1. /\ Blind' \in {Blind, FALSE}
      /\ Excused' \in {Excused, TRUE}
  <2>1. (Blind' => Blind) /\ (Excused => Excused')
    BY <1>0, OnwardStep
  <2>2. Blind \in BOOLEAN /\ Blind' \in BOOLEAN /\ Excused \in BOOLEAN /\ Excused' \in BOOLEAN
    BY DEF Blind, Excused
  <2> QED BY <2>1, <2>2
<1> SUFFICES \/ \E n \in Names : WL!Change(n)
             \/ WL!Recover \/ WL!Claim \/ WL!Take \/ WL!Finish \/ WL!Fail
  BY <1>1 DEF WL!Next, Blind, Excused
<1>2. CASE \E n \in Names : LinkChange(n) \/ AddrChange(n)
  BY <1>2, ChangeWork
<1>3. CASE \E n \in Names : Echo(n)
  <2>1. PICK m \in Names : Echo(m)
    BY <1>3
  <2>2. m \in Events
    BY DEF Events
  <2>3. \A n \in Names : Listed(n) => Listed(n)'
    BY <1>0, <2>1, <2>2, LinkQueued DEF Echo, Listed, pending
  <2> QED BY <2>1, <2>3, SameAll DEF Echo, ghosts
<1>4. CASE Cancel
  BY <1>4, SameAll DEF Cancel, ghosts, subs, pending, pass, Listed, Queued
<1>5. CASE Passes
  BY <1>5, TakeWork, FailWork, FinishWork DEF Passes
<1>6. CASE ReceiveLink \/ ReceiveAddr
  <2>1. \A n \in Names : Listed(n) => Listed(n)'
    BY <1>0, <1>6, ReceiveKeeps
  <2> QED BY <1>6, <2>1, SameAll DEF ReceiveLink, ReceiveAddr, ghosts, pass
<1>7. CASE ApplyTick
  BY <1>7, ClaimWork
<1>8. CASE Setup \/ SubscriptionClosed \/ ContextDone
  <2>1. /\ UNCHANGED <<dirty, cover, target, subs, pending>>
        /\ {phase, phase'} \cap {"apply", "pass"} = {}
    BY <1>8 DEF Setup, SubscribeLink, SubscribeAddr, SubscriptionClosed, ContextDone,
                ghosts, pass
  <2>2. \A n \in Names : Work(n)' = Work(n)
    BY <2>1 DEF Work, Queued, subs, pending
  <2> QED BY <2>2, RecoverWork
<1>9. CASE IdleTick \/ Terminated \/ UNCHANGED vars
  BY <1>9, SameAll DEF IdleTick, Terminated, vars, ghosts, subs, pending, pass, Listed, Queued
<1> QED BY <1>2, <1>3, <1>4, <1>5, <1>6, <1>7, <1>8, <1>9 DEF Next, Environment

\* The watch loop implements WorkList, for every set of interfaces and every
\* capacity: however events, receives, snapshots and passes interleave, a
\* change is on the list until a pass that has seen it is done, one pass at a
\* time, and is lost only before the subscriptions, by a failure or at the end.
THEOREM ListsEveryChangeHolds == Spec => ListsEveryChange
<1>1. Init => WL!Init
  <2> SUFFICES ASSUME Init PROVE WL!Init
    OBVIOUS
  <2>1. \A n \in Names : Work(n) = "claimed"
    BY DEF Init, Work
  <2> QED BY <2>1 DEF Init, WL!Init
<1>2. TypeInv /\ [Next]_vars => [WL!Next]_(WL!vars)
  BY WorkStep
<1> QED BY <1>1, <1>2, TypeInit, TypeStep, PTL DEF Spec, ListsEveryChange, WL!Spec
=============================================================================
