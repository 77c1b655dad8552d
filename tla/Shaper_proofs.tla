--------------------------- MODULE Shaper_proofs ----------------------------
(***************************************************************************)
(* Proofs about Shaper, for any number of interfaces, IFB devices,         *)
(* signatures and workers: its types; that no link is left redirected to   *)
(* a device the Shaper has deleted; that no IFB is left without use; and   *)
(* that a profile that has ended, and an interface that is skipped, are    *)
(* shaped as they should be. Of the last two the part about the link is    *)
(* for every interface, the part about its IFB for one that does not share *)
(* it; and the last theorem says what it takes for an interface that is    *)
(* skipped not to be configured.                                           *)
(*                                                                         *)
(* The second needs to know what the list of a pass says about links that  *)
(* are not in it. Such a link came after the list was taken, so nothing    *)
(* has been done for it yet: no worker has it and it has no redirection.   *)
(* The IFB of every link that is in the list is required, and so never     *)
(* pruned; a link's IFB is never that of a skipped one, and so never       *)
(* removed by the initial cleanup.                                         *)
(*                                                                         *)
(* The last two need what a worker has done so far, at each of its steps,  *)
(* and that it stays done: nobody but others takes it back, who are then   *)
(* to be named, or the IFB is gone, and then the profile does not end.     *)
(***************************************************************************)
EXTENDS Shaper, TLAPS

\* An interface is redirected to its own IFB or not at all, or to one that
\* somebody else has deleted.
OwnRedirect ==
    \A b \in Ifaces :
        \/ tc[b].redirect \in {NoIfb, IfbOf[b]}
        \/ tc[b].redirect = Dead /\ IfbOf[b] \in Vanishing

\* A link that is absent has nothing.
AbsentIsClean ==
    \A b \in Ifaces \ present : tc[b].redirect = NoIfb /\ ~tc[b].ingress

\* A link the pass does not know has nothing yet.
UnseenIsClean ==
    phase # "idle" => \A b \in Ifaces \ seen : tc[b].redirect = NoIfb

\* A worker has links of the list only.
WorkIsSeen ==
    \A b \in Ifaces : step[b] # "idle" => b \in seen /\ phase # "idle"

\* What is pruned is not required.
LeftIsStale ==
    phase = "prune" => left \cap RequiredIfbs = {}

RedirectInv ==
    /\ OwnRedirect
    /\ AbsentIsClean
    /\ UnseenIsClean
    /\ WorkIsSeen
    /\ LeftIsStale

-----------------------------------------------------------------------------
(***************************************************************************)
(* Types.                                                                  *)
(***************************************************************************)

\* The records written in the actions.
LEMMA Records ==
    /\ NoTc \in TcState
    /\ NewIfb \in IfbState
    /\ NoDevice \in IfbState
BY DEF NoTc, TcState, Redirects, OptSigs, NewIfb, NoDevice, IfbState

\* What the assumptions say of the constants' types.
LEMMA Constants ==
    /\ NoSig \in OptSigs \ BadSigs
    /\ \A b \in Ifaces : Asks[b] \subseteq OptSigs /\ NoSig \notin Asks[b]
    /\ NoIfb \in Redirects
    /\ Ifaces \subseteq Bases /\ Skipped \subseteq Bases
    /\ \A b \in Bases : IfbOf[b] \in Ifbs /\ IfbOf[b] \in Redirects
BY ShaperAssumption DEF OptSigs, Redirects, Bases

\* Cutting off a device keeps the types.
LEMMA CutOffType ==
    ASSUME NEW t \in [Bases -> TcState], NEW d
    PROVE  CutOff(t, d) \in [Bases -> TcState]
BY DEF CutOff, TcState, Redirects

\* What the initial cleanup does to the qdiscs of a skipped link.
LEMMA CleanedUp ==
    ASSUME tc \in [Bases -> TcState], NEW s \in Skipped, CleanupSkipped(s)
    PROVE  \E fails \in SUBSET {"root", "ingress", "ifb"}, t \in [Bases -> TcState] :
             /\ \A b \in Bases \ {s} : t[b] = tc[b]
             /\ "ingress" \notin fails => t[s].redirect = NoIfb
             /\ "ingress" \in fails => t[s].redirect = tc[s].redirect
             /\ tc' = t \/ tc' = CutOff(t, IfbOf[s])
             /\ unclean' = IF "ingress" \in fails THEN unclean \cup {s} ELSE unclean \ {s}
<1> DEFINE cleared(fails) ==
             LET noRoot == IF "root" \in fails THEN tc[s] ELSE [tc[s] EXCEPT !.root = NoSig]
             IN  IF "ingress" \in fails THEN noRoot
                 ELSE [noRoot EXCEPT !.ingress = FALSE, !.redirect = NoIfb]
           t(fails) == [tc EXCEPT ![s] = cleared(fails)]
<1>1. PICK fails \in SUBSET {"root", "ingress", "ifb"} :
        /\ tc' = t(fails) \/ tc' = CutOff(t(fails), IfbOf[s])
        /\ unclean' = IF "ingress" \in fails THEN unclean \cup {s} ELSE unclean \ {s}
  BY DEF CleanupSkipped
<1>2. /\ cleared(fails) \in TcState
      /\ "ingress" \notin fails => cleared(fails).redirect = NoIfb
      /\ "ingress" \in fails => cleared(fails).redirect = tc[s].redirect
  BY Constants DEF TcState
<1>3. t(fails) \in [Bases -> TcState] /\ \A b \in Bases \ {s} : t(fails)[b] = tc[b]
  <2> HIDE DEF cleared
  <2> QED
    BY <1>2
<1>4. t(fails)[s] = cleared(fails)
  BY Constants
<1> HIDE DEF t, cleared
<1> QED
  BY <1>1, <1>2, <1>3, <1>4

\* A worker that is at work has a signature in range, and none is at work before
\* the workers are started.
BusyInRange ==
    \A b \in Ifaces :
        /\ step[b] \in Busy => seenSig[b] \notin BadSigs
        /\ phase \in {"idle", "cleanup"} => step[b] = "idle"

\* The types of the kernel and of the Shaper, which no ghost has a part in.
CoreOK == KernelOK /\ ListOK /\ ShaperOK

TypeInv == CoreOK /\ BusyInRange

\* Whatever an earlier run has left has the right types.
LEMMA TypeInit == Init => TypeInv
<1> SUFFICES ASSUME Init
             PROVE  TypeInv
  OBVIOUS
<1>1. tc \in [Bases -> TcState] /\ ifb \in [Ifbs -> IfbState]
  <2>1. \A b \in Bases :
          /\ NoTc \in TcState
          /\ [NoTc EXCEPT !.ingress = TRUE, !.redirect = IfbOf[b]] \in TcState
    BY Constants DEF NoTc, TcState, OptSigs
  <2>2. NoDevice \in IfbState /\ [NewIfb EXCEPT !.up = TRUE] \in IfbState
    BY Records DEF IfbState
  <2>3. PICK old : /\ tc = [b \in Bases |-> IF b \in old
                              THEN [NoTc EXCEPT !.ingress = TRUE, !.redirect = IfbOf[b]]
                              ELSE NoTc]
                   /\ ifb = [d \in Ifbs |-> IF \E b \in old : IfbOf[b] = d
                              THEN [NewIfb EXCEPT !.up = TRUE]
                              ELSE NoDevice]
    BY DEF Init
  <2>4. tc \in [Bases -> TcState]
    BY <2>1, <2>3
  <2>5. ifb \in [Ifbs -> IfbState]
    BY <2>2, <2>3
  <2> QED
    BY <2>4, <2>5
<1>2. attrs \in [Ifaces -> IfbState]
  BY Records DEF Init
<1>3. BusyInRange
  BY DEF Init, BusyInRange, Busy
<1> QED
  BY <1>1, <1>2, <1>3, ShaperAssumption
  DEF Init, TypeInv, CoreOK, KernelOK, ListOK, ShaperOK, Steps, OptSigs

\* Each action keeps the types: those of the kernel, of the list, of the Shaper.
LEMMA TypeStep == TypeInv /\ [Next]_vars => TypeInv'
<1> SUFFICES ASSUME TypeInv, [Next]_vars
             PROVE  TypeInv'
  OBVIOUS
<1> USE Constants
<1>0. KernelOK /\ ListOK /\ ShaperOK /\ BusyInRange
  BY DEF TypeInv, CoreOK
<1> USE <1>0
<1>1. ASSUME NEW o \in SUBSET Ifaces, StartPass(o)
      PROVE  TypeInv'
  <2>1. KernelOK'
    BY <1>1 DEF StartPass, KernelOK, kernel
  <2>2. ListOK'
    BY <1>1, Constants DEF StartPass, ListOK, KernelOK, kernel
  <2>3. ShaperOK'
    BY <1>1, Constants, Records DEF StartPass, ShaperOK, ListOK, KernelOK, kernel
  <2>4. BusyInRange'
    BY <1>1 DEF StartPass, BusyInRange, ShaperOK, kernel, Busy
  <2> QED
    BY <2>1, <2>2, <2>3, <2>4 DEF TypeInv, CoreOK
<1>2. ASSUME NEW s \in Skipped, CleanupSkipped(s)
      PROVE  TypeInv'
  <2>1. KernelOK'
    <3>1. tc' \in [Bases -> TcState]
      BY <1>2, CleanedUp, CutOffType DEF KernelOK
    <3>2. ifb' \in [Ifbs -> IfbState]
      BY <1>2, Constants, Records DEF CleanupSkipped, KernelOK, ListOK
    <3>3. /\ present' \subseteq Bases
          /\ want' \in [Ifaces -> OptSigs]
          /\ tuned' \in [Ifaces -> BOOLEAN]
      BY <1>2, Constants DEF CleanupSkipped, KernelOK
    <3> QED
      BY <3>1, <3>2, <3>3 DEF KernelOK
  <2>2. ListOK'
    BY <1>2, Constants DEF CleanupSkipped, ListOK, KernelOK, list
  <2>3. ShaperOK'
    BY <1>2, Constants, Records DEF CleanupSkipped, ShaperOK, ListOK, KernelOK, list
  <2>4. BusyInRange'
    BY <1>2 DEF CleanupSkipped, BusyInRange, ShaperOK, list
  <2> QED
    BY <2>1, <2>2, <2>3, <2>4 DEF TypeInv, CoreOK
<1>3. CASE StartWorkers
  <2>1. KernelOK'
    BY <1>3 DEF StartWorkers, KernelOK, kernel, list
  <2>2. ListOK'
    BY <1>3, Constants DEF StartWorkers, ListOK, KernelOK, kernel, list
  <2>3. ShaperOK'
    BY <1>3, Constants, Records
    DEF StartWorkers, ShaperOK, ListOK, KernelOK, kernel, list, Steps
  <2>4. BusyInRange'
    BY <1>3 DEF StartWorkers, BusyInRange, ShaperOK, kernel, list, Steps, Busy
  <2> QED
    BY <2>1, <2>2, <2>3, <2>4 DEF TypeInv, CoreOK
<1>4. ASSUME NEW b \in Ifaces, Receive(b)
      PROVE  TypeInv'
  <2>1. KernelOK'
    BY <1>4 DEF Receive, KernelOK, kernel, list
  <2>2. ListOK'
    BY <1>4, Constants DEF Receive, ListOK, KernelOK, kernel, list
  <2>3. ShaperOK'
    BY <1>4, Constants, Records
    DEF Receive, ShaperOK, ListOK, KernelOK, kernel, list, Goto, Steps, Busy, Result
  <2>4. BusyInRange'
    BY <1>4 DEF Receive, BusyInRange, ShaperOK, kernel, list, Goto, Steps, Busy, Result
  <2> QED
    BY <2>1, <2>2, <2>3, <2>4 DEF TypeInv, CoreOK
<1>5. ASSUME NEW b \in Ifaces, SetLinkParams(b)
      PROVE  TypeInv'
  <2>1. KernelOK'
    <3>1. tc' \in [Bases -> TcState]
      BY <1>5 DEF SetLinkParams, KernelOK, WorkerFrame
    <3>2. ifb' \in [Ifbs -> IfbState]
      BY <1>5 DEF SetLinkParams, KernelOK, WorkerFrame
    <3>3. /\ present' \subseteq Bases
          /\ want' \in [Ifaces -> OptSigs]
          /\ tuned' \in [Ifaces -> BOOLEAN]
      BY <1>5, Constants DEF SetLinkParams, KernelOK, WorkerFrame
    <3> QED
      BY <3>1, <3>2, <3>3 DEF KernelOK
  <2>2. ListOK'
    BY <1>5, Constants DEF SetLinkParams, ListOK, KernelOK, WorkerFrame, list
  <2>3. ShaperOK'
    BY <1>5, Constants, Records
    DEF SetLinkParams, ShaperOK, ListOK, KernelOK, WorkerFrame, list, Goto, Steps,
        Busy, Result
  <2>4. BusyInRange'
    BY <1>5
    DEF SetLinkParams, BusyInRange, ShaperOK, WorkerFrame, list, Goto, Steps, Busy,
        Result
  <2> QED
    BY <2>1, <2>2, <2>3, <2>4 DEF TypeInv, CoreOK
<1>6. ASSUME NEW b \in Ifaces, ReplaceRoot(b)
      PROVE  TypeInv'
  <2>1. KernelOK'
    <3>1. tc' \in [Bases -> TcState]
      BY <1>6, Constants DEF ReplaceRoot, KernelOK, ListOK, TcState, WorkerFrame
    <3>2. ifb' \in [Ifbs -> IfbState]
      BY <1>6 DEF ReplaceRoot, KernelOK, WorkerFrame
    <3>3. /\ present' \subseteq Bases
          /\ want' \in [Ifaces -> OptSigs]
          /\ tuned' \in [Ifaces -> BOOLEAN]
      BY <1>6, Constants DEF ReplaceRoot, KernelOK, WorkerFrame
    <3> QED
      BY <3>1, <3>2, <3>3 DEF KernelOK
  <2>2. ListOK'
    BY <1>6, Constants DEF ReplaceRoot, ListOK, KernelOK, WorkerFrame, list
  <2>3. ShaperOK'
    BY <1>6, Constants, Records
    DEF ReplaceRoot, ShaperOK, ListOK, KernelOK, WorkerFrame, list, Goto, Steps, Busy,
        Result
  <2>4. BusyInRange'
    BY <1>6
    DEF ReplaceRoot, BusyInRange, ShaperOK, WorkerFrame, list, Goto, Steps, Busy,
        Result
  <2> QED
    BY <2>1, <2>2, <2>3, <2>4 DEF TypeInv, CoreOK
<1>7. ASSUME NEW b \in Ifaces, ReplaceIngress(b)
      PROVE  TypeInv'
  <2>1. KernelOK'
    <3>0. tc' = tc \/ tc' = [tc EXCEPT ![b].ingress = TRUE]
      BY <1>7 DEF ReplaceIngress, WorkerFrame
    <3>1. tc' \in [Bases -> TcState]
      <4>1. CASE tc' = tc
        BY <4>1, Constants DEF KernelOK, TcState
      <4>2. CASE tc' = [tc EXCEPT ![b].ingress = TRUE]
        BY <4>2, Constants DEF KernelOK, TcState
      <4> QED
        BY <3>0, <4>1, <4>2
    <3>2. ifb' \in [Ifbs -> IfbState]
      BY <1>7 DEF ReplaceIngress, KernelOK, WorkerFrame
    <3>3. /\ present' \subseteq Bases
          /\ want' \in [Ifaces -> OptSigs]
          /\ tuned' \in [Ifaces -> BOOLEAN]
      BY <1>7, Constants DEF ReplaceIngress, KernelOK, WorkerFrame
    <3> QED
      BY <3>1, <3>2, <3>3 DEF KernelOK
  <2>2. ListOK'
    BY <1>7, Constants DEF ReplaceIngress, ListOK, KernelOK, WorkerFrame, list
  <2>3. ShaperOK'
    BY <1>7, Constants, Records
    DEF ReplaceIngress, ShaperOK, ListOK, KernelOK, WorkerFrame, list, Goto, Steps,
        Busy, Result
  <2>4. BusyInRange'
    BY <1>7
    DEF ReplaceIngress, BusyInRange, ShaperOK, WorkerFrame, list, Goto, Steps, Busy,
        Result
  <2> QED
    BY <2>1, <2>2, <2>3, <2>4 DEF TypeInv, CoreOK
<1>8. ASSUME NEW b \in Ifaces, LookupIfb(b)
      PROVE  TypeInv'
  <2>1. KernelOK'
    BY <1>8 DEF LookupIfb, KernelOK, WorkerFrame, list
  <2>2. ListOK'
    BY <1>8, Constants DEF LookupIfb, ListOK, KernelOK, WorkerFrame, list
  <2>3. ShaperOK'
    BY <1>8, Constants, Records
    DEF LookupIfb, ShaperOK, ListOK, KernelOK, WorkerFrame, list, Goto, Steps, Busy,
        Result
  <2>4. BusyInRange'
    BY <1>8
    DEF LookupIfb, BusyInRange, ShaperOK, WorkerFrame, list, Goto, Steps, Busy, Result
  <2> QED
    BY <2>1, <2>2, <2>3, <2>4 DEF TypeInv, CoreOK
<1>9. ASSUME NEW b \in Ifaces, CreateIfb(b)
      PROVE  TypeInv'
  <2>1. KernelOK'
    <3>1. tc' \in [Bases -> TcState]
      BY <1>9 DEF CreateIfb, KernelOK, WorkerFrame
    <3>2. ifb' \in [Ifbs -> IfbState]
      BY <1>9, Constants, Records DEF CreateIfb, KernelOK, ListOK, WorkerFrame
    <3>3. /\ present' \subseteq Bases
          /\ want' \in [Ifaces -> OptSigs]
          /\ tuned' \in [Ifaces -> BOOLEAN]
      BY <1>9, Constants DEF CreateIfb, KernelOK, WorkerFrame
    <3> QED
      BY <3>1, <3>2, <3>3 DEF KernelOK
  <2>2. ListOK'
    BY <1>9, Constants DEF CreateIfb, ListOK, KernelOK, WorkerFrame, list
  <2>3. ShaperOK'
    BY <1>9, Constants, Records
    DEF CreateIfb, ShaperOK, ListOK, KernelOK, WorkerFrame, list, Goto, Steps, Busy,
        Result
  <2>4. BusyInRange'
    BY <1>9
    DEF CreateIfb, BusyInRange, ShaperOK, WorkerFrame, list, Goto, Steps, Busy, Result
  <2> QED
    BY <2>1, <2>2, <2>3, <2>4 DEF TypeInv, CoreOK
<1>10. ASSUME NEW b \in Ifaces, RelookIfb(b)
      PROVE  TypeInv'
  <2>1. KernelOK'
    BY <1>10 DEF RelookIfb, KernelOK, WorkerFrame, list
  <2>2. ListOK'
    BY <1>10, Constants DEF RelookIfb, ListOK, KernelOK, WorkerFrame, list
  <2>3. ShaperOK'
    BY <1>10, Constants, Records
    DEF RelookIfb, ShaperOK, ListOK, KernelOK, WorkerFrame, list, Goto, Steps, Busy,
        Result
  <2>4. BusyInRange'
    BY <1>10
    DEF RelookIfb, BusyInRange, ShaperOK, WorkerFrame, list, Goto, Steps, Busy, Result
  <2> QED
    BY <2>1, <2>2, <2>3, <2>4 DEF TypeInv, CoreOK
<1>11. ASSUME NEW b \in Ifaces, SetIfbParams(b)
      PROVE  TypeInv'
  <2>1. KernelOK'
    <3>1. tc' \in [Bases -> TcState]
      BY <1>11 DEF SetIfbParams, KernelOK, WorkerFrame
    <3>2. ifb' \in [Ifbs -> IfbState]
      BY <1>11, Constants, Records
      DEF SetIfbParams, KernelOK, ListOK, IfbState, WorkerFrame
    <3>3. /\ present' \subseteq Bases
          /\ want' \in [Ifaces -> OptSigs]
          /\ tuned' \in [Ifaces -> BOOLEAN]
      BY <1>11, Constants DEF SetIfbParams, KernelOK, WorkerFrame
    <3> QED
      BY <3>1, <3>2, <3>3 DEF KernelOK
  <2>2. ListOK'
    BY <1>11, Constants DEF SetIfbParams, ListOK, KernelOK, WorkerFrame, list
  <2>3. ShaperOK'
    BY <2>1, <1>11, Constants, Records
    DEF SetIfbParams, ShaperOK, ListOK, KernelOK, WorkerFrame, list, Goto, Steps,
        Busy, Result
  <2>4. BusyInRange'
    BY <1>11
    DEF SetIfbParams, BusyInRange, ShaperOK, WorkerFrame, list, Goto, Steps, Busy,
        Result
  <2> QED
    BY <2>1, <2>2, <2>3, <2>4 DEF TypeInv, CoreOK
<1>12. ASSUME NEW b \in Ifaces, SetIfbUp(b)
      PROVE  TypeInv'
  <2>1. KernelOK'
    <3>1. tc' \in [Bases -> TcState]
      BY <1>12 DEF SetIfbUp, KernelOK, WorkerFrame
    <3>4. ifb' = ifb \/ ifb' = [ifb EXCEPT ![IfbOf[b]].up = TRUE]
      BY <1>12 DEF SetIfbUp, WorkerFrame
    <3>2. ifb' \in [Ifbs -> IfbState]
      <4>1. IfbOf[b] \in Ifbs
        BY Constants
      <4>2. CASE ifb' = ifb
        BY <4>2 DEF KernelOK
      <4>3. CASE ifb' = [ifb EXCEPT ![IfbOf[b]].up = TRUE]
        BY <4>1, <4>3 DEF KernelOK, IfbState
      <4> QED
        BY <3>4, <4>2, <4>3
    <3>3. /\ present' \subseteq Bases
          /\ want' \in [Ifaces -> OptSigs]
          /\ tuned' \in [Ifaces -> BOOLEAN]
      BY <1>12, Constants DEF SetIfbUp, KernelOK, WorkerFrame
    <3> QED
      BY <3>1, <3>2, <3>3 DEF KernelOK
  <2>2. ListOK'
    BY <1>12, Constants DEF SetIfbUp, ListOK, KernelOK, WorkerFrame, list
  <2>3. ShaperOK'
    BY <1>12, Constants, Records
    DEF SetIfbUp, ShaperOK, ListOK, KernelOK, WorkerFrame, list, Goto, Steps, Busy,
        Result
  <2>4. BusyInRange'
    BY <1>12
    DEF SetIfbUp, BusyInRange, ShaperOK, WorkerFrame, list, Goto, Steps, Busy, Result
  <2> QED
    BY <2>1, <2>2, <2>3, <2>4 DEF TypeInv, CoreOK
<1>13. ASSUME NEW b \in Ifaces, ReplaceIfbRoot(b)
      PROVE  TypeInv'
  <2>1. KernelOK'
    <3>1. tc' \in [Bases -> TcState]
      BY <1>13 DEF ReplaceIfbRoot, KernelOK, WorkerFrame
    <3>2. ifb' \in [Ifbs -> IfbState]
      <4>1. seenSig[b] \in OptSigs /\ IfbOf[b] \in Ifbs
        BY Constants DEF ListOK
      <4>2. ifb' = ifb \/ ifb' = [ifb EXCEPT ![IfbOf[b]].qdisc = seenSig[b]]
        BY <1>13 DEF ReplaceIfbRoot
      <4> QED
        BY <4>1, <4>2 DEF KernelOK, IfbState
    <3>3. /\ present' \subseteq Bases
          /\ want' \in [Ifaces -> OptSigs]
          /\ tuned' \in [Ifaces -> BOOLEAN]
      BY <1>13, Constants DEF ReplaceIfbRoot, KernelOK, WorkerFrame
    <3> QED
      BY <3>1, <3>2, <3>3 DEF KernelOK
  <2>2. ListOK'
    BY <1>13, Constants DEF ReplaceIfbRoot, ListOK, KernelOK, WorkerFrame, list
  <2>3. ShaperOK'
    BY <1>13, Constants, Records
    DEF ReplaceIfbRoot, ShaperOK, ListOK, KernelOK, WorkerFrame, list, Goto, Steps,
        Busy, Result
  <2>4. BusyInRange'
    BY <1>13
    DEF ReplaceIfbRoot, BusyInRange, ShaperOK, WorkerFrame, list, Goto, Steps, Busy,
        Result
  <2> QED
    BY <2>1, <2>2, <2>3, <2>4 DEF TypeInv, CoreOK
<1>14. ASSUME NEW b \in Ifaces, DeleteFilter(b)
      PROVE  TypeInv'
  <2>1. KernelOK'
    <3>1. tc' \in [Bases -> TcState]
      BY <1>14, Constants DEF DeleteFilter, KernelOK, ListOK, TcState, WorkerFrame
    <3>2. ifb' \in [Ifbs -> IfbState]
      BY <1>14 DEF DeleteFilter, KernelOK, WorkerFrame
    <3>3. /\ present' \subseteq Bases
          /\ want' \in [Ifaces -> OptSigs]
          /\ tuned' \in [Ifaces -> BOOLEAN]
      BY <1>14, Constants DEF DeleteFilter, KernelOK, WorkerFrame
    <3> QED
      BY <3>1, <3>2, <3>3 DEF KernelOK
  <2>2. ListOK'
    BY <1>14, Constants DEF DeleteFilter, ListOK, KernelOK, WorkerFrame, list
  <2>3. ShaperOK'
    BY <1>14, Constants, Records
    DEF DeleteFilter, ShaperOK, ListOK, KernelOK, WorkerFrame, list, Goto, Steps,
        Busy, Result
  <2>4. BusyInRange'
    BY <1>14
    DEF DeleteFilter, BusyInRange, ShaperOK, WorkerFrame, list, Goto, Steps, Busy,
        Result
  <2> QED
    BY <2>1, <2>2, <2>3, <2>4 DEF TypeInv, CoreOK
<1>15. ASSUME NEW b \in Ifaces, AddFilter(b)
      PROVE  TypeInv'
  <2>1. KernelOK'
    <3>1. tc' \in [Bases -> TcState]
      BY <1>15, Constants DEF AddFilter, KernelOK, ListOK, TcState, WorkerFrame
    <3>2. ifb' \in [Ifbs -> IfbState]
      BY <1>15 DEF AddFilter, KernelOK, WorkerFrame
    <3>3. /\ present' \subseteq Bases
          /\ want' \in [Ifaces -> OptSigs]
          /\ tuned' \in [Ifaces -> BOOLEAN]
      BY <1>15, Constants DEF AddFilter, KernelOK, WorkerFrame
    <3> QED
      BY <3>1, <3>2, <3>3 DEF KernelOK
  <2>2. ListOK'
    BY <1>15, Constants DEF AddFilter, ListOK, KernelOK, WorkerFrame, list
  <2>3. ShaperOK'
    BY <1>15, Constants, Records
    DEF AddFilter, ShaperOK, ListOK, KernelOK, WorkerFrame, list, Goto, Steps, Busy,
        Result
  <2>4. BusyInRange'
    BY <1>15
    DEF AddFilter, BusyInRange, ShaperOK, WorkerFrame, list, Goto, Steps, Busy, Result
  <2> QED
    BY <2>1, <2>2, <2>3, <2>4 DEF TypeInv, CoreOK
<1>16. ASSUME NEW b \in Ifaces, Record(b)
      PROVE  TypeInv'
  <2>1. KernelOK'
    BY <1>16 DEF Record, KernelOK, kernel, list
  <2>2. ListOK'
    BY <1>16, Constants DEF Record, ListOK, KernelOK, kernel, list
  <2>3. ShaperOK'
    BY <1>16, Constants, Records
    DEF Record, ShaperOK, ListOK, KernelOK, kernel, list, Goto, Steps, Busy, Result,
        BusyInRange
  <2>4. BusyInRange'
    BY <1>16 DEF Record, BusyInRange, ShaperOK, kernel, list, Goto, Steps, Busy, Result
  <2> QED
    BY <2>1, <2>2, <2>3, <2>4 DEF TypeInv, CoreOK
<1>17. CASE Join
  <2>1. KernelOK'
    BY <1>17 DEF Join, KernelOK, kernel, list
  <2>2. ListOK'
    BY <1>17, Constants DEF Join, ListOK, KernelOK, kernel, list
  <2>3. ShaperOK'
    BY <1>17, Constants, Records DEF Join, ShaperOK, ListOK, KernelOK, kernel, list
  <2>4. BusyInRange'
    BY <1>17 DEF Join, BusyInRange, ShaperOK, kernel, list
  <2> QED
    BY <2>1, <2>2, <2>3, <2>4 DEF TypeInv, CoreOK
<1>18. ASSUME NEW d \in Ifbs, Prune(d)
      PROVE  TypeInv'
  <2>1. KernelOK'
    <3>1. tc' \in [Bases -> TcState]
      BY <1>18, CutOffType DEF Prune, KernelOK
    <3>2. ifb' \in [Ifbs -> IfbState]
      BY <1>18, Constants, Records DEF Prune, KernelOK, ListOK
    <3>3. /\ present' \subseteq Bases
          /\ want' \in [Ifaces -> OptSigs]
          /\ tuned' \in [Ifaces -> BOOLEAN]
      BY <1>18, Constants DEF Prune, KernelOK
    <3> QED
      BY <3>1, <3>2, <3>3 DEF KernelOK
  <2>2. ListOK'
    BY <1>18, Constants DEF Prune, ListOK, KernelOK, list
  <2>3. ShaperOK'
    BY <1>18, Constants, Records DEF Prune, ShaperOK, ListOK, KernelOK, list
  <2>4. BusyInRange'
    BY <1>18 DEF Prune, BusyInRange, ShaperOK, list
  <2> QED
    BY <2>1, <2>2, <2>3, <2>4 DEF TypeInv, CoreOK
<1>19. CASE EndPass
  <2>1. KernelOK'
    BY <1>19 DEF EndPass, KernelOK, kernel, ForgetList
  <2>2. ListOK'
    BY <1>19, Constants DEF EndPass, ListOK, KernelOK, kernel, ForgetList
  <2>3. ShaperOK'
    BY <1>19, Constants, Records
    DEF EndPass, ShaperOK, ListOK, KernelOK, kernel, ForgetList, Steps
  <2>4. BusyInRange'
    BY <1>19 DEF EndPass, BusyInRange, ShaperOK, kernel, ForgetList, Steps, Busy
  <2> QED
    BY <2>1, <2>2, <2>3, <2>4 DEF TypeInv, CoreOK
<1>20. CASE CleanupStaleSignatures
  <2>1. KernelOK'
    BY <1>20 DEF CleanupStaleSignatures, KernelOK, kernel, list
  <2>2. ListOK'
    BY <1>20, Constants DEF CleanupStaleSignatures, ListOK, KernelOK, kernel, list
  <2>3. ShaperOK'
    BY <1>20, Constants, Records
    DEF CleanupStaleSignatures, ShaperOK, ListOK, KernelOK, kernel, list
  <2>4. BusyInRange'
    BY <1>20 DEF CleanupStaleSignatures, BusyInRange, ShaperOK, kernel, list
  <2> QED
    BY <2>1, <2>2, <2>3, <2>4 DEF TypeInv, CoreOK
<1>21. ASSUME NEW b \in Bases, LinkAdd(b)
      PROVE  TypeInv'
  <2>1. KernelOK'
    <3>1. tc' \in [Bases -> TcState]
      BY <1>21 DEF LinkAdd, KernelOK
    <3>2. ifb' \in [Ifbs -> IfbState]
      BY <1>21 DEF LinkAdd, KernelOK
    <3>3. present' \subseteq Bases /\ tuned' \in [Ifaces -> BOOLEAN]
      BY <1>21 DEF LinkAdd, KernelOK
    <3>4. want' \in [Ifaces -> OptSigs]
      BY <1>21, Constants DEF LinkAdd, KernelOK
    <3> QED
      BY <3>1, <3>2, <3>3, <3>4 DEF KernelOK
  <2>2. ListOK'
    BY <1>21, Constants DEF LinkAdd, ListOK, KernelOK, shaper, list
  <2>3. ShaperOK'
    BY <1>21, Constants, Records DEF LinkAdd, ShaperOK, ListOK, KernelOK, shaper, list
  <2>4. BusyInRange'
    BY <1>21 DEF LinkAdd, BusyInRange, ShaperOK, shaper, list
  <2> QED
    BY <2>1, <2>2, <2>3, <2>4 DEF TypeInv, CoreOK
<1>22. ASSUME NEW b \in Bases, LinkDel(b)
      PROVE  TypeInv'
  <2>1. KernelOK'
    <3>1. tc' \in [Bases -> TcState]
      BY <1>22, Constants, Records DEF LinkDel, KernelOK, ListOK
    <3>2. ifb' \in [Ifbs -> IfbState]
      BY <1>22 DEF LinkDel, KernelOK
    <3>3. /\ present' \subseteq Bases
          /\ want' \in [Ifaces -> OptSigs]
          /\ tuned' \in [Ifaces -> BOOLEAN]
      BY <1>22, Constants DEF LinkDel, KernelOK
    <3> QED
      BY <3>1, <3>2, <3>3 DEF KernelOK
  <2>2. ListOK'
    BY <1>22, Constants DEF LinkDel, ListOK, KernelOK, shaper, list
  <2>3. ShaperOK'
    BY <1>22, Constants, Records DEF LinkDel, ShaperOK, ListOK, KernelOK, shaper, list
  <2>4. BusyInRange'
    BY <1>22 DEF LinkDel, BusyInRange, ShaperOK, shaper, list
  <2> QED
    BY <2>1, <2>2, <2>3, <2>4 DEF TypeInv, CoreOK
<1>23. ASSUME NEW b \in Ifaces, WantChange(b)
      PROVE  TypeInv'
  <2>1. KernelOK'
    <3>1. tc' \in [Bases -> TcState]
      BY <1>23 DEF WantChange, KernelOK
    <3>2. ifb' \in [Ifbs -> IfbState]
      BY <1>23 DEF WantChange, KernelOK
    <3>3. /\ present' \subseteq Bases
          /\ want' \in [Ifaces -> OptSigs]
          /\ tuned' \in [Ifaces -> BOOLEAN]
      BY <1>23, Constants DEF WantChange, KernelOK
    <3> QED
      BY <3>1, <3>2, <3>3 DEF KernelOK
  <2>2. ListOK'
    BY <1>23, Constants DEF WantChange, ListOK, KernelOK, shaper, list
  <2>3. ShaperOK'
    BY <1>23, Constants, Records
    DEF WantChange, ShaperOK, ListOK, KernelOK, shaper, list
  <2>4. BusyInRange'
    BY <1>23 DEF WantChange, BusyInRange, ShaperOK, shaper, list
  <2> QED
    BY <2>1, <2>2, <2>3, <2>4 DEF TypeInv, CoreOK
<1>24. ASSUME NEW b \in Ifaces, Drift(b)
      PROVE  TypeInv'
  <2>1. KernelOK'
    <3>0. \/ tc' = tc
          \/ tc' = [tc EXCEPT ![b].root = NoSig]
          \/ tc' = [tc EXCEPT ![b].ingress = FALSE, ![b].redirect = NoIfb]
      BY <1>24 DEF Drift
    <3>1. tc' \in [Bases -> TcState]
      <4>1. CASE tc' = tc
        BY <4>1, Constants DEF KernelOK, TcState
      <4>2. CASE tc' = [tc EXCEPT ![b].root = NoSig]
        BY <4>2, Constants DEF KernelOK, TcState
      <4>3. CASE tc' = [tc EXCEPT ![b].ingress = FALSE, ![b].redirect = NoIfb]
        BY <4>3, Constants DEF KernelOK, TcState
      <4> QED
        BY <3>0, <4>1, <4>2, <4>3
    <3>2. ifb' \in [Ifbs -> IfbState]
      BY <1>24 DEF Drift, KernelOK
    <3>3. /\ present' \subseteq Bases
          /\ want' \in [Ifaces -> OptSigs]
          /\ tuned' \in [Ifaces -> BOOLEAN]
      BY <1>24, Constants DEF Drift, KernelOK
    <3> QED
      BY <3>1, <3>2, <3>3 DEF KernelOK
  <2>2. ListOK'
    BY <1>24, Constants DEF Drift, ListOK, KernelOK, shaper, list
  <2>3. ShaperOK'
    BY <1>24, Constants, Records DEF Drift, ShaperOK, ListOK, KernelOK, shaper, list
  <2>4. BusyInRange'
    BY <1>24 DEF Drift, BusyInRange, ShaperOK, shaper, list
  <2> QED
    BY <2>1, <2>2, <2>3, <2>4 DEF TypeInv, CoreOK
<1>25. ASSUME NEW b \in Ifaces, Fail(b)
      PROVE  TypeInv'
  <2>1. KernelOK'
    BY <1>25 DEF Fail, KernelOK, WorkerFrame, list
  <2>2. ListOK'
    BY <1>25, Constants DEF Fail, ListOK, KernelOK, WorkerFrame, list
  <2>3. ShaperOK'
    BY <1>25, Constants, Records
    DEF Fail, ShaperOK, ListOK, KernelOK, WorkerFrame, list, Goto, Steps, Busy, Result
  <2>4. BusyInRange'
    BY <1>25
    DEF Fail, BusyInRange, ShaperOK, WorkerFrame, list, Goto, Steps, Busy, Result
  <2> QED
    BY <2>1, <2>2, <2>3, <2>4 DEF TypeInv, CoreOK
<1>26. ASSUME NEW d \in Ifbs, IfbVanish(d)
      PROVE  TypeInv'
  <2>1. KernelOK'
    <3>1. tc' \in [Bases -> TcState]
      BY <1>26, CutOffType DEF IfbVanish, KernelOK
    <3>2. ifb' \in [Ifbs -> IfbState]
      BY <1>26, Constants, Records DEF IfbVanish, KernelOK, ListOK
    <3>3. /\ present' \subseteq Bases
          /\ want' \in [Ifaces -> OptSigs]
          /\ tuned' \in [Ifaces -> BOOLEAN]
      BY <1>26, Constants DEF IfbVanish, KernelOK
    <3> QED
      BY <3>1, <3>2, <3>3 DEF KernelOK
  <2>2. ListOK'
    BY <1>26, Constants DEF IfbVanish, ListOK, KernelOK, shaper, list
  <2>3. ShaperOK'
    BY <1>26, Constants, Records DEF IfbVanish, ShaperOK, ListOK, KernelOK, shaper, list
  <2>4. BusyInRange'
    BY <1>26 DEF IfbVanish, BusyInRange, ShaperOK, shaper, list
  <2> QED
    BY <2>1, <2>2, <2>3, <2>4 DEF TypeInv, CoreOK
<1>27. CASE Restart
  <2>1. KernelOK'
    BY <1>27 DEF Restart, KernelOK, kernel, ForgetList
  <2>2. ListOK'
    BY <1>27, Constants DEF Restart, ListOK, KernelOK, kernel, ForgetList
  <2>3. ShaperOK'
    BY <1>27, Constants, Records
    DEF Restart, ShaperOK, ListOK, KernelOK, kernel, ForgetList, Steps
  <2>4. BusyInRange'
    BY <1>27 DEF Restart, BusyInRange, ShaperOK, kernel, ForgetList, Steps, Busy
  <2> QED
    BY <2>1, <2>2, <2>3, <2>4 DEF TypeInv, CoreOK
<1>28. CASE UNCHANGED vars
  BY <1>28
  DEF vars, kernel, shaper, list, TypeInv, CoreOK, KernelOK, ListOK, ShaperOK,
      BusyInRange
<1> QED
  BY <1>1, <1>2, <1>3, <1>4, <1>5, <1>6, <1>7, <1>8, <1>9, <1>10, <1>11, <1>12, <1>13,
     <1>14, <1>15, <1>16, <1>17, <1>18, <1>19, <1>20, <1>21, <1>22, <1>23, <1>24,
     <1>25, <1>26, <1>27, <1>28
  DEF Next, Program, Worker, Environment

\* The ghosts are sets of links: an action leaves each alone, clears it, or
\* adds or removes the link it is about.
LEMMA GhostStep == GhostsOK /\ [Next]_vars => GhostsOK'
<1> SUFFICES ASSUME GhostsOK, [Next]_vars
             PROVE  GhostsOK'
  OBVIOUS
<1>1. ASSUME NEW b \in Ifaces, WorkerFrame(b)
      PROVE  GhostsOK'
  BY <1>1 DEF WorkerFrame, GhostsOK
<1>2. ASSUME NEW b \in Ifaces, Disturb(b)
      PROVE  GhostsOK'
  BY <1>2 DEF Disturb, GhostsOK
<1>3. CASE Program
  <2>1. ASSUME NEW b \in Ifaces, Worker(b)
        PROVE  GhostsOK'
    <3>1. CASE Receive(b)
      BY <3>1 DEF Receive, ghosts, GhostsOK
    <3>2. CASE Record(b)
      BY <3>2 DEF Record, GhostsOK
    <3>3. CASE ~Receive(b) /\ ~Record(b)
      <4>1. WorkerFrame(b)
        BY <2>1, <3>3
        DEF Worker, SetLinkParams, ReplaceRoot, ReplaceIngress, LookupIfb,
            CreateIfb, RelookIfb, SetIfbParams, SetIfbUp, ReplaceIfbRoot,
            DeleteFilter, AddFilter
      <4> QED
        BY <1>1, <4>1
    <3> QED
      BY <3>1, <3>2, <3>3
  <2>2. ASSUME NEW o \in SUBSET Ifaces, StartPass(o)
        PROVE  GhostsOK'
    BY <2>2 DEF StartPass, GhostsOK
  <2>3. CASE \/ \E d \in Ifbs : Prune(d)
             \/ StartWorkers \/ Join \/ EndPass \/ CleanupStaleSignatures
    <3>1. UNCHANGED ghosts
      BY <2>3 DEF Prune, StartWorkers, Join, EndPass, CleanupStaleSignatures
    <3> QED
      BY <3>1 DEF ghosts, GhostsOK
  <2>4. ASSUME NEW s \in Skipped, CleanupSkipped(s)
        PROVE  GhostsOK'
    BY <2>4 DEF CleanupSkipped, GhostsOK
  <2> QED
    BY <1>3, <2>1, <2>2, <2>3, <2>4 DEF Program
<1>4. CASE Environment
  <2>1. ASSUME NEW b \in Bases, LinkAdd(b) \/ LinkDel(b)
        PROVE  GhostsOK'
    <3>1. CASE b \in Ifaces
      <4>1. Disturb(b)
        BY <2>1, <3>1 DEF LinkAdd, LinkDel
      <4> QED
        BY <1>2, <3>1, <4>1
    <3>2. CASE b \notin Ifaces
      BY <2>1, <3>2 DEF LinkAdd, LinkDel, ghosts, GhostsOK, Bases
    <3> QED
      BY <3>1, <3>2
  <2>2. ASSUME NEW b \in Ifaces, WantChange(b) \/ Drift(b) \/ Fail(b)
        PROVE  GhostsOK'
    <3>1. CASE WantChange(b)
      BY <3>1 DEF WantChange, ghosts, GhostsOK
    <3>2. CASE Drift(b)
      BY <1>2, <3>2 DEF Drift
    <3>3. CASE Fail(b)
      BY <1>1, <3>3 DEF Fail
    <3> QED
      BY <2>2, <3>1, <3>2, <3>3
  <2>3. ASSUME NEW d \in Ifbs, IfbVanish(d)
        PROVE  GhostsOK'
    BY <2>3 DEF IfbVanish, ghosts, GhostsOK
  <2>4. CASE Restart
    BY <2>4 DEF Restart, GhostsOK
  <2> QED
    BY <1>4, <2>1, <2>2, <2>3, <2>4 DEF Environment
<1>5. CASE UNCHANGED vars
  BY <1>5 DEF vars, ghosts, GhostsOK
<1> QED
  BY <1>3, <1>4, <1>5 DEF Next

-----------------------------------------------------------------------------
(***************************************************************************)
(* No interface is redirected to a device that has been deleted.           *)
(***************************************************************************)
\* At the start no interface is redirected and no pass is running.
LEMMA RedirectInit == Init => RedirectInv
<1> SUFFICES ASSUME Init
             PROVE  RedirectInv
  OBVIOUS
<1>1. \A b \in Ifaces : tc[b] = NoTc
  BY ShaperAssumption DEF Init, Bases
<1>2. NoTc.redirect = NoIfb /\ ~NoTc.ingress
  BY DEF NoTc
<1>3. phase = "idle" /\ \A b \in Ifaces : step[b] = "idle"
  BY DEF Init
<1> QED
  BY <1>1, <1>2, <1>3
  DEF RedirectInv, OwnRedirect, AbsentIsClean, UnseenIsClean, WorkIsSeen,
      LeftIsStale

\* Prune and CleanupSkipped delete devices that are nobody's, and others those of
\* Vanishing; only AddFilter redirects, and only a link of the list, to its own
\* IFB.
LEMMA RedirectStep == TypeInv /\ RedirectInv /\ [Next]_vars => RedirectInv'
<1> SUFFICES ASSUME TypeInv, RedirectInv, [Next]_vars
             PROVE  RedirectInv'
  OBVIOUS
<1> USE Constants
<1>0. /\ OwnRedirect /\ AbsentIsClean /\ UnseenIsClean /\ WorkIsSeen /\ LeftIsStale
      /\ tc \in [Bases -> TcState]
      /\ step \in [Ifaces -> Steps]
      /\ BusyInRange
  BY DEF RedirectInv, TypeInv, CoreOK, KernelOK, ShaperOK
<1> USE <1>0
    DEF RedirectInv, OwnRedirect, AbsentIsClean, UnseenIsClean, WorkIsSeen,
        LeftIsStale, RequiredIfbs
<1>1. ASSUME NEW o \in SUBSET Ifaces, StartPass(o)
      PROVE  RedirectInv'
  BY <1>1 DEF StartPass, kernel, BusyInRange
<1>2. ASSUME NEW s \in Skipped, CleanupSkipped(s)
      PROVE  RedirectInv'
  <2>1. \A c \in Ifaces : c # s /\ IfbOf[c] # IfbOf[s] /\ NoIfb # IfbOf[s] /\ Dead # IfbOf[s]
    BY ShaperAssumption DEF Bases
  <2>2. \A c \in Ifaces : tc[c].redirect # IfbOf[s]
    BY <2>1
  <2>3. \A c \in Ifaces : tc'[c] = tc[c]
    BY <1>2, <2>1, <2>2 DEF CleanupSkipped, CutOff
  <2> QED
    BY <1>2, <2>3 DEF CleanupSkipped,   list
<1>3. CASE StartWorkers
  BY <1>3 DEF StartWorkers, kernel, list
<1>4. ASSUME NEW b \in Ifaces, Receive(b)
      PROVE  RedirectInv'
  BY <1>4 DEF Receive, kernel, list, Goto
<1>5. ASSUME NEW b \in Ifaces, SetLinkParams(b)
      PROVE  RedirectInv'
  BY <1>5 DEF SetLinkParams, WorkerFrame, list, Goto
<1>6. ASSUME NEW b \in Ifaces, ReplaceRoot(b)
      PROVE  RedirectInv'
  <2>1. \A c \in Ifaces :
        tc'[c].redirect = tc[c].redirect /\ tc'[c].ingress = tc[c].ingress
    BY <1>6 DEF ReplaceRoot, TcState
  <2> QED
    BY <1>6, <2>1 DEF ReplaceRoot,   WorkerFrame, list, Goto
<1>7. ASSUME NEW b \in Ifaces, ReplaceIngress(b)
      PROVE  RedirectInv'
  <2>1. \A c \in Ifaces :
        /\ tc'[c].redirect = tc[c].redirect
        /\ c \notin present => tc'[c].ingress = tc[c].ingress
    BY <1>7 DEF ReplaceIngress, TcState
  <2> QED
    BY <1>7, <2>1 DEF ReplaceIngress,   WorkerFrame, list, Goto
<1>8. ASSUME NEW b \in Ifaces, LookupIfb(b)
      PROVE  RedirectInv'
  BY <1>8 DEF LookupIfb, WorkerFrame, list, Goto
<1>9. ASSUME NEW b \in Ifaces, CreateIfb(b)
      PROVE  RedirectInv'
  BY <1>9 DEF CreateIfb, WorkerFrame, list, Goto
<1>10. ASSUME NEW b \in Ifaces, RelookIfb(b)
      PROVE  RedirectInv'
  BY <1>10 DEF RelookIfb, WorkerFrame, list, Goto
<1>11. ASSUME NEW b \in Ifaces, SetIfbParams(b)
      PROVE  RedirectInv'
  BY <1>11 DEF SetIfbParams, WorkerFrame, list, Goto
<1>12. ASSUME NEW b \in Ifaces, SetIfbUp(b)
      PROVE  RedirectInv'
  BY <1>12 DEF SetIfbUp, WorkerFrame, list, Goto
<1>13. ASSUME NEW b \in Ifaces, ReplaceIfbRoot(b)
      PROVE  RedirectInv'
  BY <1>13 DEF ReplaceIfbRoot, WorkerFrame, list, Goto
<1>14. ASSUME NEW b \in Ifaces, DeleteFilter(b)
      PROVE  RedirectInv'
  <2>1. \A c \in Ifaces :
        /\ tc'[c].redirect \in {tc[c].redirect, NoIfb}
        /\ tc'[c].ingress = tc[c].ingress
    BY <1>14 DEF DeleteFilter, TcState
  <2> QED
    BY <1>14, <2>1 DEF DeleteFilter,   WorkerFrame, list, Goto
<1>15. ASSUME NEW b \in Ifaces, AddFilter(b)
      PROVE  RedirectInv'
  <2>1. /\ \A c \in Ifaces \ {b} : tc'[c] = tc[c]
        /\ tc'[b].ingress = tc[b].ingress
        /\ \/ tc'[b].redirect = tc[b].redirect
           \/ tc'[b].redirect = IfbOf[b] /\ tc[b].ingress
    BY <1>15 DEF AddFilter, TcState
  <2>2. b \in seen
    BY <1>15 DEF AddFilter
  <2> QED
    BY <1>15, <2>1, <2>2 DEF AddFilter,   WorkerFrame, list, Goto
<1>16. ASSUME NEW b \in Ifaces, Record(b)
      PROVE  RedirectInv'
  BY <1>16 DEF Record, kernel, list, Goto
<1>17. CASE Join
  BY <1>17 DEF Join, kernel, list
<1>18. ASSUME NEW d \in Ifbs, Prune(d)
      PROVE  RedirectInv'
  <2>1. \A c \in Ifaces : tc[c].redirect # d
    <3> SUFFICES ASSUME NEW c \in Ifaces
                 PROVE  tc[c].redirect # d
      OBVIOUS
    <3>1. NoIfb # d /\ Dead # d
      BY ShaperAssumption
    <3>2. CASE c \in seen
      BY <1>18, <3>1, <3>2 DEF Prune
    <3>3. CASE c \notin seen
      BY <1>18, <3>1, <3>3 DEF Prune
    <3> QED
      BY <3>2, <3>3
  <2>2. \A c \in Ifaces : tc'[c] = tc[c]
    BY <1>18, <2>1 DEF Prune, CutOff
  <2> QED
    BY <1>18, <2>2 DEF Prune,   list
<1>19. CASE EndPass
  BY <1>19 DEF EndPass, kernel, ForgetList
<1>20. CASE CleanupStaleSignatures
  BY <1>20 DEF CleanupStaleSignatures, kernel, list
<1>21. ASSUME NEW b \in Bases, LinkAdd(b)
      PROVE  RedirectInv'
  BY <1>21 DEF LinkAdd, shaper, list
<1>22. ASSUME NEW b \in Bases, LinkDel(b)
      PROVE  RedirectInv'
  <2>1. \A c \in Ifaces \ {b} : tc'[c] = tc[c]
    BY <1>22 DEF LinkDel
  <2>2. tc'[b].redirect = NoIfb /\ ~tc'[b].ingress
    BY <1>22 DEF LinkDel, NoTc
  <2> QED
    BY <1>22, <2>1, <2>2 DEF LinkDel,   shaper, list
<1>23. ASSUME NEW b \in Ifaces, WantChange(b)
      PROVE  RedirectInv'
  BY <1>23 DEF WantChange, shaper, list
<1>24. ASSUME NEW b \in Ifaces, Drift(b)
      PROVE  RedirectInv'
  <2>1. \A c \in Ifaces :
        /\ tc'[c].redirect \in {tc[c].redirect, NoIfb}
        /\ c \notin present => tc'[c] = tc[c]
    BY <1>24 DEF Drift, TcState
  <2> QED
    BY <1>24, <2>1 DEF Drift,   shaper, list
<1>25. ASSUME NEW b \in Ifaces, Fail(b)
      PROVE  RedirectInv'
  BY <1>25 DEF Fail, WorkerFrame, list, Goto, Busy
<1>26. ASSUME NEW d \in Ifbs, IfbVanish(d)
      PROVE  RedirectInv'
  <2>1. NoIfb # d /\ Dead # d /\ d \in Vanishing
    BY <1>26, ShaperAssumption DEF IfbVanish
  <2>2. \A c \in Ifaces :
          /\ tc'[c].ingress = tc[c].ingress
          /\ tc'[c].redirect = IF tc[c].redirect = d THEN Dead ELSE tc[c].redirect
    BY <1>26 DEF IfbVanish, CutOff, TcState
  <2>3. UNCHANGED <<present, phase, seen, step, left>>
    BY <1>26 DEF IfbVanish, shaper, list
  <2> QED
    BY <2>1, <2>2, <2>3
<1>27. CASE Restart
  BY <1>27 DEF Restart, kernel, ForgetList
<1>28. CASE UNCHANGED vars
  BY <1>28 DEF vars, kernel, shaper, list
<1> QED
  BY <1>1, <1>2, <1>3, <1>4, <1>5, <1>6, <1>7, <1>8, <1>9, <1>10, <1>11, <1>12, <1>13,
     <1>14, <1>15, <1>16, <1>17, <1>18, <1>19, <1>20, <1>21, <1>22, <1>23, <1>24,
     <1>25, <1>26, <1>27, <1>28
  DEF Next, Program, Worker, Environment

-----------------------------------------------------------------------------
(***************************************************************************)
(* The theorems.                                                           *)
(***************************************************************************)

\* The types, and that a signature out of range is never recorded.
THEOREM TypeCorrect == Spec => []TypeOK
<1>1. Spec => []TypeInv
  BY TypeInit, TypeStep, PTL DEF Spec
<1>2. Init => GhostsOK
  BY DEF Init, GhostsOK
<1>3. Spec => []GhostsOK
  BY <1>2, GhostStep, PTL DEF Spec
<1>4. TypeInv /\ GhostsOK => TypeOK
  BY DEF TypeInv, CoreOK, TypeOK
<1> QED
  BY <1>1, <1>3, <1>4, PTL

\* No interface whose IFB nobody but the Shaper deletes is ever redirected to a
\* deleted one: whatever fails, whichever names a pass is for, whenever links
\* come, go and come back, whichever of them share an IFB, and wherever the daemon
\* is stopped and started again.
THEOREM NoDeadRedirectHolds == Spec => []NoDeadRedirect
<1>1. Spec => []TypeInv
  BY TypeInit, TypeStep, PTL DEF Spec
<1>2. TypeInv /\ RedirectInv /\ [Next]_vars => RedirectInv'
  BY RedirectStep
<1>3. Spec => []RedirectInv
  BY RedirectInit, <1>1, <1>2, PTL DEF Spec
<1>4. RedirectInv => NoDeadRedirect
  <2> SUFFICES ASSUME RedirectInv, NEW b \in present \cap Ifaces, IfbOf[b] \notin Vanishing
               PROVE  tc[b].redirect # Dead
    BY DEF NoDeadRedirect
  <2>1. tc[b].redirect \in {NoIfb, IfbOf[b]}
    BY DEF RedirectInv, OwnRedirect
  <2>2. IfbOf[b] # Dead /\ NoIfb # Dead
    BY ShaperAssumption DEF Bases
  <2> QED
    BY <2>1, <2>2
<1> QED
  BY <1>3, <1>4, PTL

-----------------------------------------------------------------------------
(***************************************************************************)
(* Links that are not shaped.                                              *)
(***************************************************************************)

\* A skipped link that is redirected is there, and the first cleanup of the
\* process is still to come for it, or could not delete the redirection.
SkippedInv ==
    \A s \in Skipped :
        tc[s].redirect # NoIfb =>
            /\ s \in present
            /\ \/ s \in unclean
               \/ ~didInitialCleanup /\ (phase = "idle" \/ (phase = "cleanup" /\ s \in left))

LEMMA SkippedInit == Init => SkippedInv
<1> SUFFICES ASSUME Init, NEW s \in Skipped
             PROVE  tc[s].redirect = NoIfb \/ s \in present
  BY DEF SkippedInv, Init
<1>1. PICK old \in SUBSET (present \cap Skipped) :
        tc = [b \in Bases |-> IF b \in old
                THEN [NoTc EXCEPT !.ingress = TRUE, !.redirect = IfbOf[b]]
                ELSE NoTc]
  BY DEF Init
<1> QED
  BY <1>1 DEF NoTc, Bases

\* Nobody redirects a skipped link: what cuts it off has found it redirected.
LEMMA SkippedStep == TypeInv /\ SkippedInv /\ [Next]_vars => SkippedInv'
<1> SUFFICES ASSUME TypeInv, SkippedInv, [Next]_vars
             PROVE  SkippedInv'
  OBVIOUS
<1>0. /\ tc \in [Bases -> TcState] /\ Skipped \subseteq Bases
      /\ Ifaces \cap Skipped = {}
      /\ \A s \in Skipped : IfbOf[s] \in Ifbs
      /\ NoIfb \notin Ifbs
  BY ShaperAssumption DEF TypeInv, CoreOK, KernelOK, Bases
<1> DEFINE Redirected(s) == tc[s].redirect # NoIfb
<1>1. ASSUME \A s \in Skipped : Redirected(s)' => Redirected(s),
             UNCHANGED <<present, phase, didInitialCleanup, left, unclean>>
      PROVE  SkippedInv'
  BY <1>1 DEF SkippedInv
<1>2. ASSUME NEW d \in Ifbs, tc' = CutOff(tc, d), NEW s \in Skipped, Redirected(s)'
      PROVE  Redirected(s)
  BY <1>0, <1>2 DEF CutOff
<1>3. ASSUME NEW b \in Ifaces, Worker(b) \/ Fail(b) \/ WantChange(b) \/ Drift(b)
      PROVE  SkippedInv'
  <2>1. \A s \in Skipped : s # b /\ s \in Bases
    BY <1>0
  <2>2. \A s \in Skipped : tc'[s] = tc[s]
    <3>1. CASE Worker(b) \/ Fail(b)
      BY <1>0, <2>1, <3>1
      DEF Worker, Receive, SetLinkParams, ReplaceRoot, ReplaceIngress, LookupIfb,
          CreateIfb, RelookIfb, SetIfbParams, SetIfbUp, ReplaceIfbRoot, DeleteFilter,
          AddFilter, Record, Fail, kernel
    <3>2. CASE WantChange(b) \/ Drift(b)
      BY <1>0, <2>1, <3>2 DEF WantChange, Drift
    <3> QED
      BY <1>3, <3>1, <3>2
  <2>3. UNCHANGED <<present, phase, didInitialCleanup, left, unclean>>
    BY <1>3
    DEF Worker, WorkerFrame, Receive, SetLinkParams, ReplaceRoot, ReplaceIngress,
        LookupIfb,
        CreateIfb, RelookIfb, SetIfbParams, SetIfbUp, ReplaceIfbRoot, DeleteFilter,
        AddFilter, Record, Fail, WantChange, Drift, Disturb, kernel, shaper, ghosts
  <2> QED
    BY <1>1, <2>2, <2>3
<1>4. ASSUME NEW o \in SUBSET Ifaces, StartPass(o)
      PROVE  SkippedInv'
  BY <1>4 DEF StartPass, kernel, SkippedInv
<1>5. ASSUME NEW s \in Skipped, CleanupSkipped(s)
      PROVE  SkippedInv'
  <2>1. PICK fails \in SUBSET {"root", "ingress", "ifb"}, t \in [Bases -> TcState] :
          /\ \A b \in Bases \ {s} : t[b] = tc[b]
          /\ "ingress" \notin fails => t[s].redirect = NoIfb
          /\ "ingress" \in fails => t[s].redirect = tc[s].redirect
          /\ tc' = t \/ tc' = CutOff(t, IfbOf[s])
          /\ unclean' = IF "ingress" \in fails THEN unclean \cup {s} ELSE unclean \ {s}
    BY <1>0, <1>5, CleanedUp
  <2>2. \A r \in Skipped : Redirected(r)' => t[r].redirect # NoIfb
    BY <1>0, <2>1 DEF CutOff
  <2>3. \A r \in Skipped \ {s} : Redirected(r)' => Redirected(r) /\ (r \in left => r \in left')
    BY <1>0, <1>5, <2>1, <2>2 DEF CleanupSkipped
  <2>4. Redirected(s)' => Redirected(s) /\ s \in unclean'
    BY <2>1, <2>2
  <2>5. UNCHANGED <<present, phase, didInitialCleanup>>
    BY <1>5 DEF CleanupSkipped
  <2>6. \A r \in Skipped \ {s} : r \in unclean => r \in unclean'
    BY <2>1
  <2> HIDE DEF Redirected
  <2>7. ASSUME NEW r \in Skipped, Redirected(r)'
        PROVE  /\ r \in present'
               /\ \/ r \in unclean'
                  \/ ~didInitialCleanup' /\ (phase' = "idle" \/ (phase' = "cleanup" /\ r \in left'))
    <3>1. Redirected(r) => /\ r \in present
                           /\ \/ r \in unclean
                              \/ ~didInitialCleanup /\ (phase = "idle" \/ (phase = "cleanup" /\ r \in left))
      BY DEF SkippedInv, Redirected
    <3> QED
      BY <2>3, <2>4, <2>5, <2>6, <2>7, <3>1
  <2> QED
    BY <2>7 DEF SkippedInv, Redirected
<1>6. CASE StartWorkers \/ Join \/ EndPass
  BY <1>6 DEF StartWorkers, Join, EndPass, kernel, ghosts, SkippedInv
<1>7. ASSUME NEW d \in Ifbs, Prune(d) \/ IfbVanish(d)
      PROVE  SkippedInv'
  <2>1. tc' = CutOff(tc, d) \/ tc' = tc
    BY <1>7 DEF Prune, IfbVanish
  <2>2. \A s \in Skipped : Redirected(s)' => Redirected(s)
    BY <1>2, <2>1
  <2>3. UNCHANGED <<present, phase, didInitialCleanup, unclean>> /\ (left' = left \/ phase = "prune")
    BY <1>7 DEF Prune, IfbVanish, shaper, ghosts
  <2> QED
    BY <2>2, <2>3 DEF SkippedInv
<1>8. CASE CleanupStaleSignatures
  BY <1>1, <1>8 DEF CleanupStaleSignatures, kernel, ghosts
<1>9. ASSUME NEW b \in Bases, LinkAdd(b)
      PROVE  SkippedInv'
  BY <1>9 DEF LinkAdd, Disturb, shaper, ghosts, SkippedInv
<1>10. ASSUME NEW b \in Bases, LinkDel(b)
       PROVE  SkippedInv'
  <2>1. \A s \in Skipped : tc'[s] = IF s = b THEN NoTc ELSE tc[s]
    BY <1>0, <1>10 DEF LinkDel
  <2>2. /\ present' = present \ {b} /\ UNCHANGED <<phase, didInitialCleanup, left>>
        /\ \A s \in Skipped \ {b} : s \in unclean => s \in unclean'
    BY <1>10 DEF LinkDel, Disturb, shaper
  <2> QED
    BY <2>1, <2>2 DEF NoTc, SkippedInv
<1>11. CASE Restart
  BY <1>11 DEF Restart, kernel, SkippedInv
<1>12. CASE UNCHANGED vars
  BY <1>1, <1>12 DEF vars, kernel, shaper, ghosts
<1> QED
  BY <1>3, <1>4, <1>5, <1>6, <1>7, <1>8, <1>9, <1>10, <1>11, <1>12
  DEF Next, Program, Environment

\* Whatever fails, whichever links share an IFB and whoever deletes one: a link
\* that is not shaped has a redirection, to an IFB or to one that is gone, only
\* until its turn in the first cleanup, unless that could not delete it.
THEOREM NoSkippedRedirectHolds == Spec => []NoSkippedRedirect
<1>1. Spec => []TypeInv
  BY TypeInit, TypeStep, PTL DEF Spec
<1>2. Spec => []SkippedInv
  BY SkippedInit, SkippedStep, <1>1, PTL DEF Spec
<1>3. SkippedInv => NoSkippedRedirect
  BY DEF SkippedInv, NoSkippedRedirect
<1> QED
  BY <1>2, <1>3, PTL

-----------------------------------------------------------------------------
(***************************************************************************)
(* What a pass knows of an interface.                                      *)
(***************************************************************************)

\* A worker has links of the list only; each of them asked for a signature when
\* the list was taken, and still has the MTU and queue length of the list unless
\* somebody else has changed them since.
Known(b) ==
    /\ step[b] # "idle" => b \in seen /\ phase # "idle"
    /\ step[b] \in Busy \cup {"queued"} => phase = "workers"
    /\ want[b] = NoSig <=> b \notin present
    /\ b \in seen => seenSig[b] # NoSig
    /\ b \in seen \ moved /\ seenTuned[b] => tuned[b]
    /\ b \in moved => b \in touched

KnownInv == \A b \in Ifaces : Known(b)

\* What the worker of c, or others who change c, leave alone of the links and
\* interfaces beside it.
LEMMA OthersKept ==
    ASSUME TypeInv, NEW b \in Ifaces, NEW c \in Ifaces, b # c,
           Worker(c) \/ Fail(c) \/ WantChange(c) \/ Drift(c)
    PROVE  /\ step'[b] = step[b] /\ attrs'[b] = attrs[b] /\ applied'[b] = applied[b]
           /\ tuned'[b] = tuned[b] /\ tc'[b] = tc[b] /\ want'[b] = want[b]
           /\ IfbOf[b] # IfbOf[c] => ifb'[IfbOf[b]] = ifb[IfbOf[b]]
           /\ (b \in moved' <=> b \in moved) /\ (b \in touched' <=> b \in touched)
           /\ UNCHANGED <<present, phase, list, left, didInitialCleanup>>
<1>0. /\ tc \in [Bases -> TcState] /\ tuned \in [Ifaces -> BOOLEAN]
      /\ ifb \in [Ifbs -> IfbState] /\ want \in [Ifaces -> OptSigs]
      /\ step \in [Ifaces -> Steps] /\ attrs \in [Ifaces -> IfbState]
      /\ applied \in [Ifaces -> OptSigs \ BadSigs]
      /\ b \in Bases /\ c \in Bases /\ IfbOf[b] \in Ifbs
  BY Constants DEF TypeInv, CoreOK, KernelOK, ShaperOK
<1>1. CASE Receive(c) \/ Record(c) \/ Fail(c)
  BY <1>0, <1>1 DEF Receive, Record, Fail, Goto, WorkerFrame, kernel, ghosts
<1>2. CASE SetLinkParams(c) \/ ReplaceRoot(c) \/ ReplaceIngress(c)
  BY <1>0, <1>2 DEF SetLinkParams, ReplaceRoot, ReplaceIngress, Goto, WorkerFrame
<1>3. CASE LookupIfb(c) \/ CreateIfb(c) \/ RelookIfb(c)
  BY <1>0, <1>3 DEF LookupIfb, CreateIfb, RelookIfb, Goto, WorkerFrame
<1>4. CASE SetIfbParams(c)
  BY <1>0, <1>4 DEF SetIfbParams, Goto, WorkerFrame
<1>5. CASE SetIfbUp(c) \/ ReplaceIfbRoot(c)
  BY <1>0, <1>5 DEF SetIfbUp, ReplaceIfbRoot, Goto, WorkerFrame
<1>6. CASE DeleteFilter(c) \/ AddFilter(c)
  BY <1>0, <1>6 DEF DeleteFilter, AddFilter, Goto, WorkerFrame
<1>7. CASE WantChange(c) \/ Drift(c)
  BY <1>0, <1>7 DEF WantChange, Drift, Disturb, shaper, ghosts
<1> QED
  BY <1>1, <1>2, <1>3, <1>4, <1>5, <1>6, <1>7 DEF Worker

\* The same of a link that comes or goes.
LEMMA LinksKept ==
    ASSUME TypeInv, NEW b \in Ifaces, NEW c \in Bases, b # c, LinkAdd(c) \/ LinkDel(c)
    PROVE  /\ tuned'[b] = tuned[b] /\ tc'[b] = tc[b] /\ want'[b] = want[b]
           /\ (b \in present' <=> b \in present)
           /\ (b \in moved' <=> b \in moved) /\ (b \in touched' <=> b \in touched)
           /\ UNCHANGED <<ifb, shaper>>
<1>0. /\ tc \in [Bases -> TcState] /\ tuned \in [Ifaces -> BOOLEAN]
      /\ want \in [Ifaces -> OptSigs] /\ b \in Bases
  BY Constants DEF TypeInv, CoreOK, KernelOK
<1>1. CASE LinkAdd(c)
  BY <1>0, <1>1 DEF LinkAdd, Disturb, ghosts
<1>2. CASE LinkDel(c)
  BY <1>0, <1>2 DEF LinkDel, Disturb, ghosts
<1> QED
  BY <1>1, <1>2

\* At the start no pass knows anything.
LEMMA KnownInit == Init => KnownInv
<1> SUFFICES ASSUME Init, NEW b \in Ifaces
             PROVE  Known(b)
  BY DEF KnownInv
<1>1. step = [c \in Ifaces |-> "idle"] /\ seen = {} /\ moved = {}
  BY Zenon DEF Init
<1>2. want[b] \in IF b \in present THEN Asks[b] ELSE {NoSig}
  BY Zenon DEF Init
<1>3. want[b] = NoSig <=> b \notin present
  BY <1>2, Constants
<1> QED
  BY <1>1, <1>3 DEF Known, Busy

\* One case for every action that can disturb what is known of b.
LEMMA KnownStep == TypeInv /\ KnownInv /\ [Next]_vars => KnownInv'
<1> SUFFICES ASSUME TypeInv, KnownInv, [Next]_vars, NEW b \in Ifaces
             PROVE  Known(b)'
  BY DEF KnownInv
<1>0. /\ Known(b) /\ b \in Bases /\ NoSig \notin Sigs
      /\ tuned \in [Ifaces -> BOOLEAN] /\ want \in [Ifaces -> OptSigs]
      /\ step \in [Ifaces -> Steps] /\ seenTuned \in [Ifaces -> BOOLEAN]
      /\ step[b] \in Steps
  BY Constants, ShaperAssumption
  DEF KnownInv, TypeInv, CoreOK, KernelOK, ShaperOK, ListOK
<1>1. ASSUME UNCHANGED <<present, want, tuned, phase, list, step, moved, touched>>
      PROVE  Known(b)'
  BY <1>0, <1>1 DEF Known, list
<1>2. ASSUME NEW c \in Ifaces, Worker(c) \/ Fail(c) \/ WantChange(c) \/ Drift(c)
      PROVE  Known(b)'
  <2>1. CASE b # c
    <3>1. /\ step'[b] = step[b] /\ tuned'[b] = tuned[b] /\ want'[b] = want[b]
          /\ (b \in moved' <=> b \in moved) /\ (b \in touched' <=> b \in touched)
          /\ UNCHANGED <<present, phase, list>>
      BY <1>2, <2>1, OthersKept
    <3> QED
      BY <1>0, <3>1 DEF Known, list
  <2>2. CASE b = c /\ (Worker(b) \/ Fail(b))
    <3>1. /\ UNCHANGED <<present, want, phase, list, moved>>
          /\ step[b] \in Busy \cup {"queued"}
          /\ tuned[b] => tuned'[b]
          /\ b \in moved /\ b \in touched => b \in touched'
      <4>1. CASE Receive(b) \/ Record(b) \/ Fail(b)
        BY <1>0, <4>1 DEF Receive, Record, Fail, WorkerFrame, kernel, ghosts, Busy
      <4>2. CASE ~(Receive(b) \/ Record(b) \/ Fail(b))
        <5>1. WorkerFrame(b) /\ step[b] \in Busy
          BY <2>2, <4>2
          DEF Worker, SetLinkParams, ReplaceRoot, ReplaceIngress, LookupIfb,
              CreateIfb, RelookIfb,
              SetIfbParams, SetIfbUp, ReplaceIfbRoot, DeleteFilter, AddFilter, Busy
        <5>2. tuned[b] => tuned'[b]
          BY <1>0, <2>2, <4>2
          DEF Worker, SetLinkParams, ReplaceRoot, ReplaceIngress, LookupIfb,
              CreateIfb, RelookIfb,
              SetIfbParams, SetIfbUp, ReplaceIfbRoot, DeleteFilter, AddFilter
        <5> QED
          BY <5>1, <5>2 DEF WorkerFrame
      <4> QED
        BY <4>1, <4>2
    <3> QED
      BY <1>0, <3>1 DEF Known, list, Busy
  <2>3. CASE b = c /\ WantChange(b)
    BY <1>0, <2>3, Constants DEF WantChange, Known, shaper, list, ghosts
  <2>4. CASE b = c /\ Drift(b)
    BY <1>0, <2>4 DEF Drift, Disturb, Known, shaper, list
  <2> QED
    BY <1>2, <2>1, <2>2, <2>3, <2>4
<1>3. ASSUME NEW o \in SUBSET Ifaces, StartPass(o)
      PROVE  Known(b)'
  <2>1. step[b] = "idle"
    BY <1>3 DEF StartPass, TypeInv, BusyInRange
  <2> QED
    BY <1>0, <1>3, <2>1 DEF StartPass, kernel, Known, Busy
<1>4. ASSUME NEW s \in Skipped, CleanupSkipped(s)
      PROVE  Known(b)'
  BY <1>1, <1>4 DEF CleanupSkipped, ghosts
<1>5. CASE StartWorkers
  BY <1>0, <1>5 DEF StartWorkers, kernel, list, ghosts, Known, Busy
<1>6. CASE Join
  BY <1>0, <1>6 DEF Join, kernel, list, ghosts, Known, Busy, Result
<1>7. ASSUME NEW d \in Ifbs, Prune(d)
      PROVE  Known(b)'
  BY <1>1, <1>7 DEF Prune, ghosts
<1>8. CASE EndPass \/ Restart
  BY <1>0, <1>8 DEF EndPass, Restart, ForgetList, kernel, ghosts, Known, Busy
<1>9. ASSUME NEW c \in Bases, LinkAdd(c) \/ LinkDel(c)
      PROVE  Known(b)'
  <2>1. CASE b # c
    <3>1. /\ tuned'[b] = tuned[b] /\ want'[b] = want[b]
          /\ (b \in present' <=> b \in present)
          /\ (b \in moved' <=> b \in moved) /\ (b \in touched' <=> b \in touched)
          /\ UNCHANGED shaper
      BY <1>9, <2>1, LinksKept
    <3> QED
      BY <1>0, <3>1 DEF Known, shaper, list
  <2>2. CASE b = c /\ LinkAdd(b)
    BY <1>0, <2>2, Constants DEF LinkAdd, Disturb, Known, shaper, list
  <2>3. CASE b = c /\ LinkDel(b)
    BY <1>0, <2>3 DEF LinkDel, Disturb, Known, shaper, list
  <2> QED
    BY <1>9, <2>1, <2>2, <2>3
<1>10. CASE CleanupStaleSignatures
  BY <1>1, <1>10 DEF CleanupStaleSignatures, kernel, ghosts
<1>11. ASSUME NEW d \in Ifbs, IfbVanish(d)
       PROVE  Known(b)'
  BY <1>1, <1>11 DEF IfbVanish, shaper, ghosts
<1>12. CASE UNCHANGED vars
  BY <1>1, <1>12 DEF vars, kernel, shaper, ghosts
<1> QED
  BY <1>2, <1>3, <1>4, <1>5, <1>6, <1>7, <1>8, <1>9, <1>10, <1>11, <1>12
  DEF Next, Program, Environment

\* What a pass knows is so in every reachable state.
LEMMA KnownHolds == Spec => [](TypeInv /\ KnownInv)
BY TypeInit, TypeStep, KnownInit, KnownStep, PTL DEF Spec

-----------------------------------------------------------------------------
(***************************************************************************)
(* No IFB is left without use.                                             *)
(***************************************************************************)

\* The IFB devices there are, without those whose deletion may fail.
Existing == {d \in Ifbs \ Stuck : ifb[d].exists}

\* Every IFB was in the list, until it is pruned, or is one that is required:
\* what workers create is.
OrphanInv ==
    /\ phase = "cleanup" => Existing \subseteq seenIfbs
    /\ phase = "workers" => Existing \subseteq seenIfbs \cup RequiredIfbs
    /\ phase = "prune" => Existing \subseteq left \cup RequiredIfbs

\* What NoOrphanIfb says of a step.
NoneOrphaned ==
    phase = "prune" /\ phase' = "idle" /\ didInitialCleanup'
      => Existing \subseteq RequiredIfbs

\* Only workers create devices, each that of a link of the list, and pruning
\* takes from what is left to prune only what is then gone.
LEMMA OrphanStep ==
    TypeInv /\ KnownInv /\ OrphanInv /\ [Next]_vars => OrphanInv' /\ NoneOrphaned
<1> SUFFICES ASSUME TypeInv, KnownInv, OrphanInv, [Next]_vars
             PROVE  OrphanInv' /\ NoneOrphaned
  OBVIOUS
<1>0. ifb \in [Ifbs -> IfbState] /\ NoDevice.exists = FALSE
  BY DEF TypeInv, CoreOK, KernelOK, NoDevice, NewIfb
<1>1. ASSUME UNCHANGED <<phase, seen, seenIfbs, left>>, Existing' \subseteq Existing
      PROVE  OrphanInv' /\ NoneOrphaned
  BY <1>1 DEF OrphanInv, NoneOrphaned, RequiredIfbs
<1>2. ASSUME NEW b \in Ifaces, Worker(b)
      PROVE  OrphanInv' /\ NoneOrphaned
  <2>1. UNCHANGED <<phase, seen, seenIfbs, left>>
    BY <1>2
    DEF Worker, WorkerFrame, list, kernel, Receive, SetLinkParams, ReplaceRoot,
        ReplaceIngress,
        LookupIfb, CreateIfb, RelookIfb, SetIfbParams, SetIfbUp, ReplaceIfbRoot,
        DeleteFilter, AddFilter, Record
  <2>2. CASE CreateIfb(b)
    <3>1. b \in seen /\ phase = "workers"
      BY <2>2 DEF CreateIfb, KnownInv, Known, Busy
    <3>2. Existing' \subseteq Existing \cup {IfbOf[b]}
      BY <1>0, <2>2 DEF CreateIfb, Existing
    <3>3. IfbOf[b] \in RequiredIfbs /\ RequiredIfbs' = RequiredIfbs
      BY <2>1, <3>1 DEF RequiredIfbs
    <3> QED
      BY <2>1, <3>1, <3>2, <3>3 DEF OrphanInv, NoneOrphaned
  <2>3. CASE ~CreateIfb(b)
    <3>1. Existing' \subseteq Existing
      <4>1. CASE SetIfbParams(b) \/ SetIfbUp(b) \/ ReplaceIfbRoot(b)
        <5>1. \A d \in Ifbs : ifb'[d].exists => ifb[d].exists
          BY <1>0, <4>1 DEF SetIfbParams, SetIfbUp, ReplaceIfbRoot, IfbState
        <5> QED
          BY <5>1 DEF Existing
      <4>2. CASE ~(SetIfbParams(b) \/ SetIfbUp(b) \/ ReplaceIfbRoot(b))
        <5>1. ifb' = ifb
          BY <1>2, <2>3, <4>2
          DEF Worker, kernel, Receive, SetLinkParams, ReplaceRoot, ReplaceIngress,
              LookupIfb, RelookIfb, DeleteFilter, AddFilter, Record
        <5> QED
          BY <5>1 DEF Existing
      <4> QED
        BY <4>1, <4>2
    <3> QED
      BY <1>1, <2>1, <3>1
  <2> QED
    BY <2>2, <2>3
<1>3. ASSUME NEW o \in SUBSET Ifaces, StartPass(o)
      PROVE  OrphanInv' /\ NoneOrphaned
  BY <1>3 DEF StartPass, kernel, Existing, OrphanInv, NoneOrphaned
<1>4. ASSUME NEW s \in Skipped, CleanupSkipped(s)
      PROVE  OrphanInv' /\ NoneOrphaned
  <2>1. phase = "cleanup" /\ UNCHANGED <<phase, seen, seenIfbs>>
    BY <1>4 DEF CleanupSkipped, list
  <2>2. Existing' \subseteq Existing
    BY <1>0, <1>4 DEF CleanupSkipped, Existing
  <2> QED
    BY <2>1, <2>2 DEF OrphanInv, NoneOrphaned
<1>5. CASE StartWorkers \/ Join
  BY <1>5
  DEF StartWorkers, Join, kernel, list, Existing, OrphanInv, NoneOrphaned,
      RequiredIfbs
<1>6. ASSUME NEW d \in Ifbs, Prune(d)
      PROVE  OrphanInv' /\ NoneOrphaned
  <2>1. /\ phase = "prune" /\ phase' = "prune" /\ seen' = seen /\ left' = left \ {d}
        /\ ifb' = [ifb EXCEPT ![d] = NoDevice] \/ (d \in Stuck /\ ifb' = ifb)
    BY <1>6 DEF Prune, list
  <2>2. Existing' \subseteq Existing \ {d}
    BY <1>0, <2>1 DEF Existing
  <2> QED
    BY <2>1, <2>2 DEF OrphanInv, NoneOrphaned, RequiredIfbs
<1>7. CASE EndPass \/ Restart
  BY <1>7 DEF EndPass, Restart, OrphanInv, NoneOrphaned
<1>8. ASSUME NEW d \in Ifbs, IfbVanish(d)
      PROVE  OrphanInv' /\ NoneOrphaned
  <2>1. Existing' \subseteq Existing
    BY <1>0, <1>8 DEF IfbVanish, Existing
  <2> QED
    BY <1>1, <1>8, <2>1 DEF IfbVanish, shaper, list
<1>9. CASE \/ \E b \in Bases : LinkAdd(b) \/ LinkDel(b)
           \/ \E b \in Ifaces : WantChange(b) \/ Drift(b) \/ Fail(b)
           \/ CleanupStaleSignatures \/ UNCHANGED vars
  <2>1. UNCHANGED <<phase, seen, seenIfbs, left, ifb>>
    BY <1>9
    DEF LinkAdd, LinkDel, WantChange, Drift, Fail, WorkerFrame, CleanupStaleSignatures,
        vars, kernel, shaper, list
  <2> QED
    BY <1>1, <2>1 DEF Existing
<1> QED
  BY <1>2, <1>3, <1>4, <1>5, <1>6, <1>7, <1>8, <1>9 DEF Next, Program, Environment

\* A pass leaves no IFB that no link of its list needs, but those whose deletion
\* has failed, whatever else fails, and whatever comes, goes and vanishes during
\* the pass.
THEOREM NoOrphanIfbHolds == Spec => NoOrphanIfb
<1>1. Spec => [](TypeInv /\ KnownInv)
  BY KnownHolds
<1>2. Init => OrphanInv
  BY DEF Init, OrphanInv
<1>3. TypeInv /\ KnownInv /\ OrphanInv /\ [Next]_vars => OrphanInv'
  BY OrphanStep
<1>4. TypeInv /\ KnownInv /\ OrphanInv /\ [Next]_vars
        => [phase = "prune" /\ phase' = "idle" /\ didInitialCleanup'
             => {d \in Ifbs \ Stuck : ifb[d].exists} \subseteq RequiredIfbs]_vars
  BY OrphanStep DEF NoneOrphaned, Existing
<1> QED
  BY <1>1, <1>2, <1>3, <1>4, PTL DEF Spec, NoOrphanIfb

-----------------------------------------------------------------------------
(***************************************************************************)
(* Profiles that have ended, and interfaces that are skipped.              *)
(***************************************************************************)

NoIfbShared == \A b \in Ifaces : Alone(b)

\* The IFB of b is there.
HasIfb(b) == ifb[IfbOf[b]].exists

\* ShapedAs in two parts.  The interface's, for which somebody else may have
\* deleted the IFB ...
LinkShaped(b, s) ==
    /\ tuned[b] /\ tc[b].root = s /\ tc[b].ingress
    /\ tc[b].redirect \in {IfbOf[b], Dead}

\* ... and the IFB's, while there is one.
ShapedIfb(b, s) ==
    ifb[IfbOf[b]].up /\ ifb[IfbOf[b]].params = s /\ ifb[IfbOf[b]].qdisc = s

\* The steps of a profile after each of the first three commands.
AfterParams == Busy \ {"params"}
AfterRoot == AfterParams \ {"root"}
AfterIngress == AfterRoot \ {"ingress"}

\* What a worker has done for an interface stays done while nobody else changes
\* the interface.
DoneForLink(b) ==
    b \notin moved =>
        /\ step[b] \in AfterParams => tuned[b]
        /\ step[b] \in AfterRoot => tc[b].root = seenSig[b]
        /\ step[b] \in AfterIngress => tc[b].ingress
        /\ step[b] = "record" => tc[b].redirect \in {IfbOf[b], Dead}

\* What it has done for an IFB of its own stays done while there is one: the
\* attributes it has read are those of the device or the device is gone, and one
\* that is gone is not created again behind the worker's back.
DoneForIfb(b) ==
    Alone(b) /\ HasIfb(b) =>
        /\ step[b] = "ifbParams" => attrs[b] = ifb[IfbOf[b]]
        /\ step[b] = "ifbUp" => /\ ifb[IfbOf[b]].params = seenSig[b]
                                /\ attrs[b].up => ifb[IfbOf[b]].up
        /\ step[b] = "ifbQdisc" => /\ ifb[IfbOf[b]].params = seenSig[b]
                                   /\ ifb[IfbOf[b]].up
        /\ step[b] \in {"filterDel", "filterAdd", "record"} => ShapedIfb(b, seenSig[b])
        /\ step[b] = "record" /\ b \notin moved => tc[b].redirect = IfbOf[b]

\* A signature says what is there, unless the interface is being worked on or is
\* touched.
AppliedTrue(b) ==
    b \notin touched /\ step[b] \notin Busy /\ applied[b] # NoSig =>
        /\ LinkShaped(b, applied[b])
        /\ Alone(b) /\ HasIfb(b) =>
             tc[b].redirect = IfbOf[b] /\ ShapedIfb(b, applied[b])

Shaped(b) == DoneForLink(b) /\ DoneForIfb(b) /\ AppliedTrue(b)

ShapedInv == \A b \in Ifaces : Shaped(b)

\* The kernel may be in any state: no signature is recorded and no worker has a
\* link.
LEMMA ShapedInit == Init => ShapedInv
<1> SUFFICES ASSUME Init, NEW b \in Ifaces PROVE Shaped(b)
  BY DEF ShapedInv
<1>1. step = [c \in Ifaces |-> "idle"] /\ applied = [c \in Ifaces |-> NoSig]
  BY Zenon DEF Init
<1>2. step[b] = "idle" /\ applied[b] = NoSig
  BY <1>1
<1> QED
  BY <1>2
  DEF Shaped, DoneForLink, DoneForIfb, AppliedTrue, Busy, AfterParams, AfterRoot,
      AfterIngress

\* The worker of b: each command does its part, or the profile is given up.
LEMMA ShapedWorker ==
    ASSUME TypeInv, KnownInv, NEW b \in Ifaces, Shaped(b), Worker(b) \/ Fail(b)
    PROVE  Shaped(b)'
<1>0. /\ tc \in [Bases -> TcState] /\ tuned \in [Ifaces -> BOOLEAN]
      /\ ifb \in [Ifbs -> IfbState] /\ step \in [Ifaces -> Steps]
      /\ attrs \in [Ifaces -> IfbState] /\ applied \in [Ifaces -> OptSigs \ BadSigs]
      /\ b \in Bases /\ IfbOf[b] \in Ifbs
      /\ tc[b] \in TcState /\ ifb[IfbOf[b]] \in IfbState
  BY Constants DEF TypeInv, CoreOK, KernelOK, ShaperOK
<1>1. ASSUME step'[b] = "failed", b \in touched'
      PROVE  Shaped(b)'
  BY <1>1
  DEF Shaped, DoneForLink, DoneForIfb, AppliedTrue, Busy, AfterParams, AfterRoot,
              AfterIngress
<1>2. ASSUME WorkerFrame(b), step'[b] \in Busy, DoneForLink(b)', DoneForIfb(b)'
      PROVE  Shaped(b)'
  BY <1>2 DEF Shaped, AppliedTrue
<1>3. ASSUME step[b] # "record", WorkerFrame(b), step' = [step EXCEPT ![b] = "failed"]
      PROVE  Shaped(b)'
  BY <1>0, <1>1, <1>3 DEF WorkerFrame
<1>4. CASE Fail(b)
  BY <1>0, <1>1, <1>4 DEF Fail, Goto, WorkerFrame
<1>5. CASE Receive(b)
  <2>1. /\ step[b] = "queued" /\ step'[b] \in {"skipped", "failed", "params"}
        /\ UNCHANGED <<kernel, applied, list, attrs, ghosts>>
    BY <1>0, <1>5 DEF Receive, Goto
  <2> QED
    BY <2>1
    DEF Shaped, DoneForLink, DoneForIfb, AppliedTrue, LinkShaped, ShapedIfb, HasIfb,
        Busy,
        AfterParams, AfterRoot, AfterIngress, kernel, list, ghosts
<1>6. CASE SetLinkParams(b)
  <2>1. CASE step' = [step EXCEPT ![b] = "failed"]
    BY <1>3, <1>6, <2>1 DEF SetLinkParams
  <2>2. CASE step' = [step EXCEPT ![b] = "root"]
    <3>1. b \notin moved => tuned'[b]
      BY <1>0, <1>6, <2>2 DEF SetLinkParams, Goto, KnownInv, Known
    <3>2. step'[b] = "root" /\ WorkerFrame(b)
      BY <1>0, <1>6, <2>2 DEF SetLinkParams
    <3> QED
      BY <1>2, <3>1, <3>2
      DEF WorkerFrame, DoneForLink, DoneForIfb, Busy, AfterParams, AfterRoot,
          AfterIngress
  <2> QED
    BY <1>6, <2>1, <2>2 DEF SetLinkParams, Goto
<1>7. CASE ReplaceRoot(b)
  <2>1. CASE step' = [step EXCEPT ![b] = "failed"]
    BY <1>3, <1>7, <2>1 DEF ReplaceRoot
  <2>2. CASE step'[b] = "ingress"
    <3>1. tuned' = tuned /\ tc'[b].root = seenSig[b] /\ step[b] = "root" /\ WorkerFrame(b)
      BY <1>0, <1>7, <2>2 DEF ReplaceRoot, Goto, TcState
    <3> QED
      BY <1>2, <2>2, <3>1
      DEF WorkerFrame, list, Shaped, DoneForLink, DoneForIfb, Busy, AfterParams,
          AfterRoot,
          AfterIngress
  <2> QED
    BY <1>0, <1>7, <2>1, <2>2 DEF ReplaceRoot, Goto
<1>8. CASE ReplaceIngress(b)
  <2>1. CASE step' = [step EXCEPT ![b] = "failed"]
    BY <1>3, <1>8, <2>1 DEF ReplaceIngress
  <2>2. CASE step'[b] = "ifbLookup"
    <3>1. /\ tuned' = tuned /\ tc'[b].root = tc[b].root /\ tc'[b].ingress
          /\ step[b] = "ingress" /\ WorkerFrame(b)
      BY <1>0, <1>8, <2>2 DEF ReplaceIngress, Goto, TcState
    <3> QED
      BY <1>2, <2>2, <3>1
      DEF WorkerFrame, list, Shaped, DoneForLink, DoneForIfb, Busy, AfterParams,
          AfterRoot,
          AfterIngress
  <2> QED
    BY <1>0, <1>8, <2>1, <2>2 DEF ReplaceIngress, Goto
<1>9. ASSUME UNCHANGED <<tuned, tc>>, WorkerFrame(b), step[b] \in AfterIngress \ {"record"},
             step'[b] \in AfterIngress \ {"record"}, DoneForIfb(b)'
      PROVE  Shaped(b)'
  <2>1. DoneForLink(b)'
    BY <1>9 DEF WorkerFrame, list, Shaped, DoneForLink, AfterIngress, AfterRoot
  <2> QED
    BY <1>2, <1>9, <2>1 DEF AfterIngress, AfterRoot, AfterParams
<1>10. CASE LookupIfb(b) \/ RelookIfb(b) \/ CreateIfb(b)
  <2>1. CASE step' = [step EXCEPT ![b] = "failed"]
    BY <1>3, <1>10, <2>1 DEF LookupIfb, RelookIfb, CreateIfb
  <2>2. CASE step'[b] \in {"ifbCreate", "ifbRelook"}
    <3>1. DoneForIfb(b)'
      BY <2>2 DEF DoneForIfb
    <3>2. /\ UNCHANGED <<tuned, tc>> /\ WorkerFrame(b)
          /\ step[b] \in {"ifbLookup", "ifbRelook", "ifbCreate"}
      BY <1>10 DEF LookupIfb, RelookIfb, CreateIfb
    <3> QED
      BY <1>9, <2>2, <3>1, <3>2 DEF AfterIngress, AfterRoot, AfterParams, Busy
  <2>3. CASE step'[b] = "ifbParams"
    <3>1. ifb' = ifb /\ attrs'[b] = ifb[IfbOf[b]]
      BY <1>0, <1>10, <2>3 DEF LookupIfb, RelookIfb, CreateIfb, Goto
    <3>2. DoneForIfb(b)'
      BY <2>3, <3>1 DEF DoneForIfb
    <3>3. /\ UNCHANGED <<tuned, tc>> /\ WorkerFrame(b)
          /\ step[b] \in {"ifbLookup", "ifbRelook", "ifbCreate"}
      BY <1>10 DEF LookupIfb, RelookIfb, CreateIfb
    <3> QED
      BY <1>9, <2>3, <3>2, <3>3 DEF AfterIngress, AfterRoot, AfterParams, Busy
  <2> QED
    BY <1>0, <1>10, <2>1, <2>2, <2>3 DEF LookupIfb, RelookIfb, CreateIfb, Goto
<1>11. CASE SetIfbParams(b)
  <2>1. CASE step' = [step EXCEPT ![b] = "failed"]
    BY <1>3, <1>11, <2>1 DEF SetIfbParams
  <2>2. CASE step'[b] = "ifbUp"
    <3>1. /\ step[b] = "ifbParams" /\ UNCHANGED <<tuned, tc>> /\ WorkerFrame(b)
          /\ seenSig' = seenSig
      BY <1>11 DEF SetIfbParams, WorkerFrame, list
    <3>2. CASE attrs[b].params = seenSig[b]
      <4>1. UNCHANGED <<ifb, attrs>>
        BY <1>11, <3>2 DEF SetIfbParams
      <4>2. DoneForIfb(b)'
        BY <2>2, <3>1, <3>2, <4>1 DEF Shaped, DoneForIfb, HasIfb
      <4> QED
        BY <1>9, <2>2, <3>1, <4>2 DEF AfterIngress, AfterRoot, AfterParams, Busy
    <3>3. CASE attrs[b].params # seenSig[b]
      <4>1. /\ ifb[IfbOf[b]].exists
            /\ ifb' = [ifb EXCEPT ![IfbOf[b]].params = seenSig[b]]
            /\ attrs' = [attrs EXCEPT ![b] = ifb'[IfbOf[b]]] \/ attrs' = attrs
        BY <1>0, <1>11, <2>2, <3>3 DEF SetIfbParams, Goto
      <4>2. Alone(b) => attrs[b] = ifb[IfbOf[b]]
        BY <3>1, <4>1 DEF Shaped, DoneForIfb, HasIfb
      <4>3. /\ ifb'[IfbOf[b]].params = seenSig[b]
            /\ ifb'[IfbOf[b]].up = ifb[IfbOf[b]].up
        BY <1>0, <4>1 DEF IfbState
      <4>4. Alone(b) => attrs'[b].up = ifb'[IfbOf[b]].up
        BY <1>0, <4>1, <4>2, <4>3
      <4>5. DoneForIfb(b)'
        BY <2>2, <3>1, <4>3, <4>4 DEF DoneForIfb
      <4> QED
        BY <1>9, <2>2, <3>1, <4>5 DEF AfterIngress, AfterRoot, AfterParams, Busy
    <3> QED
      BY <3>2, <3>3
  <2> QED
    BY <1>0, <1>11, <2>1, <2>2 DEF SetIfbParams, Goto
<1>12. CASE SetIfbUp(b)
  <2>1. CASE step' = [step EXCEPT ![b] = "failed"]
    BY <1>3, <1>12, <2>1 DEF SetIfbUp
  <2>2. CASE step'[b] = "ifbQdisc"
    <3>1. /\ step[b] = "ifbUp" /\ UNCHANGED <<tuned, tc>> /\ WorkerFrame(b)
          /\ seenSig' = seenSig
      BY <1>12 DEF SetIfbUp, WorkerFrame, list
    <3>2. \/ ifb' = ifb /\ attrs[b].up
          \/ ifb[IfbOf[b]].exists /\ ifb' = [ifb EXCEPT ![IfbOf[b]].up = TRUE]
      BY <1>0, <1>12, <2>2 DEF SetIfbUp, Goto
    <3>3. DoneForIfb(b)'
      <4>1. CASE ifb' = ifb /\ attrs[b].up
        BY <2>2, <3>1, <4>1 DEF Shaped, DoneForIfb, HasIfb
      <4>2. CASE ifb[IfbOf[b]].exists /\ ifb' = [ifb EXCEPT ![IfbOf[b]].up = TRUE]
        <5>1. /\ ifb'[IfbOf[b]].up
              /\ ifb'[IfbOf[b]].params = ifb[IfbOf[b]].params
          BY <1>0, <4>2 DEF IfbState
        <5> QED
          BY <2>2, <3>1, <4>2, <5>1 DEF Shaped, DoneForIfb, HasIfb
      <4> QED
        BY <3>2, <4>1, <4>2
    <3> QED
      BY <1>9, <2>2, <3>1, <3>3 DEF AfterIngress, AfterRoot, AfterParams, Busy
  <2> QED
    BY <1>0, <1>12, <2>1, <2>2 DEF SetIfbUp, Goto
<1>13. CASE ReplaceIfbRoot(b)
  <2>1. CASE step' = [step EXCEPT ![b] = "failed"]
    BY <1>3, <1>13, <2>1 DEF ReplaceIfbRoot
  <2>2. CASE step'[b] = "filterDel"
    <3>1. /\ step[b] = "ifbQdisc" /\ UNCHANGED <<tuned, tc>> /\ WorkerFrame(b)
          /\ seenSig' = seenSig
      BY <1>13 DEF ReplaceIfbRoot, WorkerFrame, list
    <3>2. ifb[IfbOf[b]].exists /\ ifb' = [ifb EXCEPT ![IfbOf[b]].qdisc = seenSig[b]]
      BY <1>0, <1>13, <2>2 DEF ReplaceIfbRoot, Goto
    <3>3. /\ ifb'[IfbOf[b]].up = ifb[IfbOf[b]].up
          /\ ifb'[IfbOf[b]].params = ifb[IfbOf[b]].params
          /\ ifb'[IfbOf[b]].qdisc = seenSig[b]
      BY <1>0, <3>2 DEF IfbState
    <3>4. DoneForIfb(b)'
      BY <2>2, <3>1, <3>2, <3>3 DEF Shaped, DoneForIfb, HasIfb, ShapedIfb
    <3> QED
      BY <1>9, <2>2, <3>1, <3>4 DEF AfterIngress, AfterRoot, AfterParams, Busy
  <2> QED
    BY <1>0, <1>13, <2>1, <2>2 DEF ReplaceIfbRoot, Goto
<1>14. CASE DeleteFilter(b)
  <2>1. /\ step[b] = "filterDel" /\ step'[b] = "filterAdd" /\ WorkerFrame(b)
        /\ UNCHANGED <<tuned, ifb, seenSig>>
    BY <1>0, <1>14 DEF DeleteFilter, Goto, WorkerFrame, list
  <2>2. tc'[b].root = tc[b].root /\ tc'[b].ingress = tc[b].ingress
    BY <1>0, <1>14 DEF DeleteFilter, TcState
  <2>3. DoneForLink(b)'
    BY <2>1, <2>2
    DEF WorkerFrame, Shaped, DoneForLink, Busy, AfterParams, AfterRoot, AfterIngress
  <2>4. DoneForIfb(b)'
    BY <2>1 DEF Shaped, DoneForIfb, HasIfb, ShapedIfb
  <2> QED
    BY <1>2, <2>1, <2>3, <2>4 DEF Busy
<1>15. CASE AddFilter(b)
  <2>1. CASE step' = [step EXCEPT ![b] = "failed"]
    BY <1>3, <1>15, <2>1 DEF AddFilter
  <2>2. CASE step'[b] = "record"
    <3>1. /\ step[b] = "filterAdd" /\ WorkerFrame(b) /\ UNCHANGED <<tuned, ifb, seenSig>>
      BY <1>15 DEF AddFilter, WorkerFrame, list
    <3>2. tc' = [tc EXCEPT ![b].redirect = IfbOf[b]]
      BY <1>0, <1>15, <2>2 DEF AddFilter, Goto
    <3>3. /\ tc'[b].root = tc[b].root /\ tc'[b].ingress = tc[b].ingress
          /\ tc'[b].redirect = IfbOf[b]
      BY <1>0, <3>2 DEF TcState
    <3>4. DoneForLink(b)'
      BY <2>2, <3>1, <3>3
      DEF WorkerFrame, Shaped, DoneForLink, Busy, AfterParams, AfterRoot, AfterIngress
    <3>5. DoneForIfb(b)'
      BY <2>2, <3>1, <3>3 DEF Shaped, DoneForIfb, HasIfb, ShapedIfb
    <3> QED
      BY <1>2, <2>2, <3>1, <3>4, <3>5 DEF Busy
  <2> QED
    BY <1>0, <1>15, <2>1, <2>2 DEF AddFilter, Goto
<1>16. CASE Record(b)
  <2>1. /\ step[b] = "record" /\ step'[b] = "done" /\ applied'[b] = seenSig[b]
        /\ UNCHANGED kernel
        /\ touched' = IF b \in moved THEN touched ELSE touched \ {b}
    BY <1>0, <1>16 DEF Record, Goto
  <2>2. CASE b \in moved
    BY <2>1, <2>2
    DEF KnownInv, Known, Shaped, DoneForLink, DoneForIfb, AppliedTrue, Busy,
        AfterParams,
        AfterRoot, AfterIngress
  <2>3. CASE b \notin moved
    <3>1. LinkShaped(b, seenSig[b])
      BY <2>1, <2>3
      DEF Shaped, DoneForLink, LinkShaped, Busy, AfterParams, AfterRoot, AfterIngress
    <3>2. Alone(b) /\ HasIfb(b) => tc[b].redirect = IfbOf[b] /\ ShapedIfb(b, seenSig[b])
      BY <2>1, <2>3 DEF Shaped, DoneForIfb
    <3> QED
      BY <2>1, <3>1, <3>2
      DEF kernel, HasIfb, Shaped, DoneForLink, DoneForIfb, AppliedTrue, LinkShaped,
          ShapedIfb,
          Busy, AfterParams, AfterRoot, AfterIngress
  <2> QED
    BY <2>2, <2>3
<1> QED
  BY <1>4, <1>5, <1>6, <1>7, <1>8, <1>10, <1>11, <1>12, <1>13, <1>14, <1>15, <1>16
  DEF Worker

\* What deleting a device takes away from a link.
LEMMA CutOffLink ==
    ASSUME NEW t \in [Bases -> TcState], NEW d, NEW b \in Bases
    PROVE  /\ CutOff(t, d)[b].root = t[b].root
           /\ CutOff(t, d)[b].ingress = t[b].ingress
           /\ CutOff(t, d)[b].redirect \in {t[b].redirect, Dead}
           /\ t[b].redirect # d => CutOff(t, d)[b] = t[b]
BY DEF CutOff, TcState

\* One case for every action that can disturb what is there for b.
LEMMA ShapedStep == TypeInv /\ KnownInv /\ ShapedInv /\ [Next]_vars => ShapedInv'
<1> SUFFICES ASSUME TypeInv, KnownInv, ShapedInv, [Next]_vars, NEW b \in Ifaces
             PROVE  Shaped(b)'
  BY DEF ShapedInv
<1>0. /\ Shaped(b) /\ Known(b)
      /\ tc \in [Bases -> TcState] /\ ifb \in [Ifbs -> IfbState]
      /\ step \in [Ifaces -> Steps] /\ tuned \in [Ifaces -> BOOLEAN]
      /\ b \in Bases /\ IfbOf[b] \in Ifbs /\ NoDevice.exists = FALSE
      /\ tc[b] \in TcState
  BY Constants
  DEF ShapedInv, KnownInv, TypeInv, CoreOK, KernelOK, ShaperOK, NoDevice, NewIfb
<1> USE DEF HasIfb, LinkShaped, ShapedIfb
<1>1. ASSUME step'[b] = step[b], attrs'[b] = attrs[b], applied'[b] = applied[b],
             tuned'[b] = tuned[b], tc'[b] = tc[b], Alone(b) => ifb'[IfbOf[b]] = ifb[IfbOf[b]],
             seenSig' = seenSig, b \in moved' <=> b \in moved, b \in touched' <=> b \in touched
      PROVE  Shaped(b)'
  BY <1>0, <1>1 DEF Shaped, DoneForLink, DoneForIfb, AppliedTrue
<1>2. ASSUME step'[b] \notin Busy, AppliedTrue(b)'
      PROVE  Shaped(b)'
  BY <1>2
  DEF Shaped, DoneForLink, DoneForIfb, Busy, AfterParams, AfterRoot, AfterIngress
<1>3. ASSUME NEW c \in Ifaces, Worker(c) \/ Fail(c) \/ WantChange(c) \/ Drift(c)
      PROVE  Shaped(b)'
  <2>1. CASE b # c
    <3>1. Alone(b) => IfbOf[b] # IfbOf[c]
      BY <2>1 DEF Alone
    <3> QED
      BY <1>1, <1>3, <2>1, <3>1, OthersKept DEF list
  <2>2. CASE b = c /\ (Worker(b) \/ Fail(b))
    BY <1>0, <2>2, ShapedWorker
  <2>3. CASE b = c /\ WantChange(b)
    BY <1>1, <2>3 DEF WantChange, shaper, list, ghosts
  <2>4. CASE b = c /\ Drift(b)
    <3>1. b \in touched' /\ (b \in seen => b \in moved') /\ UNCHANGED <<ifb, shaper>>
      BY <2>4 DEF Drift, Disturb
    <3> QED
      BY <1>0, <3>1
      DEF Known, shaper, list, Shaped, DoneForLink, DoneForIfb, AppliedTrue, Busy,
          AfterParams, AfterRoot, AfterIngress
  <2> QED
    BY <1>3, <2>1, <2>2, <2>3, <2>4
<1>4. ASSUME NEW o \in SUBSET Ifaces, StartPass(o)
      PROVE  Shaped(b)'
  <2>1. step[b] = "idle" /\ UNCHANGED <<kernel, applied, step, touched>>
    BY <1>4 DEF StartPass, TypeInv, BusyInRange
  <2> QED
    BY <1>0, <1>2, <2>1 DEF kernel, Shaped, AppliedTrue, Busy
<1>5. ASSUME step[b] \notin Busy, step'[b] \notin Busy, UNCHANGED <<tuned, applied, touched>>,
             NEW d \in Ifbs, NEW t \in [Bases -> TcState], t[b] = tc[b],
             UNCHANGED <<ifb, tc>> \/ (ifb' = ifb /\ tc' = t)
               \/ (ifb' = [ifb EXCEPT ![d] = NoDevice] /\ tc' = CutOff(t, d))
      PROVE  Shaped(b)'
  <2>1. CASE (UNCHANGED <<ifb, tc>>) \/ (ifb' = ifb /\ tc' = t)
    BY <1>0, <1>2, <1>5, <2>1 DEF Shaped, AppliedTrue
  <2>2. CASE ifb' = [ifb EXCEPT ![d] = NoDevice] /\ tc' = CutOff(t, d)
    <3>1. /\ tc'[b].root = tc[b].root /\ tc'[b].ingress = tc[b].ingress
          /\ tc'[b].redirect \in {tc[b].redirect, Dead}
          /\ tc[b].redirect # d => tc'[b] = tc[b]
      BY <1>0, <1>5, <2>2, CutOffLink
    <3>2. HasIfb(b)' => d # IfbOf[b] /\ ifb'[IfbOf[b]] = ifb[IfbOf[b]]
      BY <1>0, <2>2
    <3> QED
      BY <1>0, <1>2, <1>5, <3>1, <3>2 DEF Shaped, AppliedTrue
  <2> QED
    BY <1>5, <2>1, <2>2
<1>6. ASSUME NEW s \in Skipped, CleanupSkipped(s)
      PROVE  Shaped(b)'
  <2>1. step[b] = "idle" /\ UNCHANGED <<tuned, applied, touched, step>>
    BY <1>6 DEF CleanupSkipped, TypeInv, BusyInRange, ghosts
  <2>2. b # s /\ IfbOf[b] # IfbOf[s] /\ IfbOf[s] \in Ifbs
    BY ShaperAssumption, Constants
  <2>3. PICK t \in [Bases -> TcState] : t[b] = tc[b] /\ (tc' = t \/ tc' = CutOff(t, IfbOf[s]))
    BY <1>0, <1>6, <2>2, CleanedUp
  <2>4. /\ tc'[b].root = tc[b].root /\ tc'[b].ingress = tc[b].ingress
        /\ tc'[b].redirect \in {tc[b].redirect, Dead}
        /\ tc[b].redirect = IfbOf[b] => tc'[b] = tc[b]
    BY <1>0, <2>2, <2>3, CutOffLink
  <2>5. ifb'[IfbOf[b]] = ifb[IfbOf[b]]
    BY <1>0, <1>6, <2>2 DEF CleanupSkipped
  <2> QED
    BY <1>0, <1>2, <2>1, <2>4, <2>5 DEF Shaped, AppliedTrue, Busy
<1>7. CASE StartWorkers \/ Join \/ EndPass
  <2>1. UNCHANGED <<kernel, applied, touched>> /\ step[b] \notin Busy /\ step'[b] \notin Busy
    BY <1>0, <1>7
    DEF StartWorkers, Join, EndPass, ForgetList, ghosts, Known, TypeInv, BusyInRange,
        Busy, Result
  <2> QED
    BY <1>0, <1>2, <2>1 DEF kernel, Shaped, AppliedTrue
<1>8. ASSUME NEW d \in Ifbs, Prune(d)
      PROVE  Shaped(b)'
  <2>1. step[b] \notin Busy /\ UNCHANGED <<tuned, applied, touched, step>>
    BY <1>0, <1>8 DEF Prune, ghosts, Known
  <2> QED
    BY <1>0, <1>5, <1>8, <2>1 DEF Prune
<1>9. ASSUME NEW c \in Bases, LinkAdd(c) \/ LinkDel(c)
      PROVE  Shaped(b)'
  <2>1. CASE b # c
    BY <1>1, <1>9, <2>1, LinksKept DEF shaper, list
  <2>2. CASE b = c
    <3>1. b \in touched' /\ (b \in seen => b \in moved') /\ UNCHANGED <<ifb, shaper>>
      BY <1>9, <2>2 DEF LinkAdd, LinkDel, Disturb
    <3> QED
      BY <1>0, <3>1
      DEF Known, shaper, list, Shaped, DoneForLink, DoneForIfb, AppliedTrue, Busy,
          AfterParams, AfterRoot, AfterIngress
  <2> QED
    BY <2>1, <2>2
<1>10. CASE CleanupStaleSignatures
  <2>1. /\ step[b] = "idle" /\ applied'[b] \in {applied[b], NoSig}
        /\ UNCHANGED <<kernel, step, touched>>
    BY <1>10 DEF CleanupStaleSignatures, ghosts, TypeInv, BusyInRange
  <2> QED
    BY <1>0, <1>2, <2>1 DEF kernel, Shaped, AppliedTrue, Busy
<1>11. ASSUME NEW d \in Ifbs, IfbVanish(d)
       PROVE  Shaped(b)'
  <2>1. UNCHANGED <<tuned, shaper, ghosts>>
    BY <1>11 DEF IfbVanish
  <2>2. /\ tc'[b].root = tc[b].root /\ tc'[b].ingress = tc[b].ingress
        /\ tc'[b].redirect \in {tc[b].redirect, Dead}
        /\ tc[b].redirect # d => tc'[b].redirect = tc[b].redirect
    BY <1>0, <1>11, CutOffLink DEF IfbVanish
  <2>3. HasIfb(b)' => d # IfbOf[b] /\ ifb'[IfbOf[b]] = ifb[IfbOf[b]]
    BY <1>0, <1>11 DEF IfbVanish
  <2>4. DoneForLink(b)' /\ DoneForIfb(b)'
    BY <1>0, <2>1, <2>2, <2>3 DEF shaper, list, ghosts, Shaped, DoneForLink, DoneForIfb
  <2>5. AppliedTrue(b)'
    BY <1>0, <2>1, <2>2, <2>3 DEF shaper, ghosts, Shaped, AppliedTrue
  <2> QED
    BY <2>4, <2>5 DEF Shaped
<1>12. CASE Restart
  <2>1. step'[b] \notin Busy /\ applied'[b] = NoSig
    BY <1>12 DEF Restart, ForgetList, Busy
  <2> QED
    BY <1>2, <2>1 DEF AppliedTrue
<1>13. CASE UNCHANGED vars
  BY <1>1, <1>13 DEF vars, kernel, shaper, list, ghosts
<1> QED
  BY <1>3, <1>4, <1>6, <1>7, <1>8, <1>9, <1>10, <1>11, <1>12, <1>13
  DEF Next, Program, Environment

\* What is there is so in every reachable state.
LEMMA ShapedHolds == Spec => [](TypeInv /\ KnownInv /\ ShapedInv)
BY KnownHolds, ShapedInit, ShapedStep, PTL DEF Spec

\* Only the worker of an interface gets it further than into the queue.
LEMMA StepOfWorker ==
    ASSUME TypeInv, [Next]_vars, NEW b \in Ifaces, step'[b] # step[b],
           step'[b] \notin {"idle", "queued"}
    PROVE  Worker(b) \/ Fail(b)
<1>1. ASSUME NEW c \in Ifaces, Worker(c) \/ Fail(c) \/ WantChange(c) \/ Drift(c)
      PROVE  Worker(b) \/ Fail(b)
  <2>1. b = c
    BY <1>1, OthersKept
  <2>2. ~WantChange(c) /\ ~Drift(c)
    BY <2>1 DEF WantChange, Drift, shaper
  <2> QED
    BY <1>1, <2>1, <2>2
<1>2. ASSUME \/ \E o \in SUBSET Ifaces : StartPass(o)
             \/ \E d \in Ifbs : Prune(d)
             \/ Join \/ CleanupStaleSignatures \/ UNCHANGED vars
      PROVE  FALSE
  BY <1>2 DEF StartPass, Prune, Join, CleanupStaleSignatures, vars, shaper
<1>3. ASSUME NEW s \in Skipped, CleanupSkipped(s)
      PROVE  FALSE
  BY <1>3 DEF CleanupSkipped
<1>4. ASSUME StartWorkers \/ EndPass \/ Restart
      PROVE  FALSE
  BY <1>4 DEF StartWorkers, EndPass, Restart, ForgetList
<1>5. ASSUME \/ \E c \in Bases : LinkAdd(c) \/ LinkDel(c)
             \/ \E d \in Ifbs : IfbVanish(d)
      PROVE  FALSE
  BY <1>5 DEF LinkAdd, LinkDel, IfbVanish, shaper
<1> QED
  BY <1>1, <1>2, <1>3, <1>4, <1>5 DEF Next, Program, Environment

\* A profile ends with the filter, and a link is skipped when it is received.
LEMMA StepToEnd ==
    ASSUME TypeInv, [Next]_vars, NEW b \in Ifaces
    PROVE  /\ step[b] = "filterAdd" /\ step'[b] = "record" => AddFilter(b)
           /\ step[b] = "queued" /\ step'[b] = "skipped" => Receive(b)
<1>1. step \in [Ifaces -> Steps]
  BY DEF TypeInv, CoreOK, ShaperOK
<1>2. ASSUME step[b] = "filterAdd", step'[b] = "record"
      PROVE  AddFilter(b)
  <2>1. Worker(b) \/ Fail(b)
    BY <1>2, StepOfWorker
  <2> QED
    BY <1>1, <1>2, <2>1
    DEF Worker, Fail, Goto, Receive, SetLinkParams, ReplaceRoot, ReplaceIngress,
        LookupIfb,
        CreateIfb, RelookIfb, SetIfbParams, SetIfbUp, ReplaceIfbRoot, DeleteFilter, Record
<1>3. ASSUME step[b] = "queued", step'[b] = "skipped"
      PROVE  Receive(b)
  <2>1. Worker(b) \/ Fail(b)
    BY <1>3, StepOfWorker
  <2> QED
    BY <1>1, <1>3, <2>1
    DEF Worker, Fail, Goto, Busy, SetLinkParams, ReplaceRoot, ReplaceIngress, LookupIfb,
        CreateIfb, RelookIfb, SetIfbParams, SetIfbUp, ReplaceIfbRoot, DeleteFilter, AddFilter,
        Record
<1> QED
  BY <1>2, <1>3

\* Records by their fields.
LEMMA Fields ==
    /\ \A t \in TcState : /\ t = [root |-> t.root, ingress |-> t.ingress, redirect |-> t.redirect]
                          /\ t.ingress \in BOOLEAN
    /\ \A d \in IfbState : /\ d = [exists |-> d.exists, up |-> d.up, params |-> d.params,
                                   qdisc |-> d.qdisc]
                           /\ d.exists \in BOOLEAN /\ d.up \in BOOLEAN
BY DEF TcState, IfbState

-----------------------------------------------------------------------------
(***************************************************************************)
(* The ends of profiles.                                                   *)
(***************************************************************************)

\* What FinishesShaped says of a step.
FinishesEach ==
    \A b \in Ifaces \ moved : step[b] = "filterAdd" /\ step'[b] = "record" =>
        /\ LinkShapedAs(b, seenSig[b])' /\ ifb'[IfbOf[b]].exists
        /\ Alone(b) => IfbShapedAs(b, seenSig[b])'

LEMMA FinishesStep ==
    TypeInv /\ KnownInv /\ ShapedInv /\ [Next]_vars => [FinishesEach]_vars
<1> SUFFICES ASSUME TypeInv, KnownInv, ShapedInv, [Next]_vars, NEW b \in Ifaces \ moved,
                    step[b] = "filterAdd", step'[b] = "record"
             PROVE  /\ LinkShapedAs(b, seenSig[b])' /\ ifb'[IfbOf[b]].exists
                    /\ Alone(b) => IfbShapedAs(b, seenSig[b])'
  BY DEF FinishesEach
<1>1. TypeInv' /\ Shaped(b)' /\ AddFilter(b)
  BY TypeStep, ShapedStep, StepToEnd DEF ShapedInv
<1>2. /\ tc \in [Bases -> TcState] /\ step \in [Ifaces -> Steps]
      /\ b \in Bases /\ tc[b] \in TcState
  BY Constants DEF TypeInv, CoreOK, KernelOK, ShaperOK
<1>3. HasIfb(b)' /\ b \notin moved' /\ tc'[b].redirect = IfbOf[b]
  BY <1>1, <1>2 DEF AddFilter, Goto, HasIfb, WorkerFrame, TcState
<1>4. LinkShaped(b, seenSig[b])' /\ (Alone(b) => ShapedIfb(b, seenSig[b])')
  BY <1>1, <1>3
  DEF Shaped, DoneForLink, DoneForIfb, LinkShaped, Busy, AfterParams, AfterRoot,
      AfterIngress
<1>5. LinkShapedAs(b, seenSig[b])' /\ (Alone(b) => IfbShapedAs(b, seenSig[b])')
  <2>1. tc'[b] \in TcState /\ ifb'[IfbOf[b]] \in IfbState
    BY <1>1, Constants DEF TypeInv, CoreOK, KernelOK
  <2>2. tc'[b] = [root |-> seenSig'[b], ingress |-> TRUE, redirect |-> IfbOf[b]]
    BY <1>3, <1>4, <2>1, Fields DEF LinkShaped
  <2>3. Alone(b) => ifb'[IfbOf[b]] = [exists |-> TRUE, up |-> TRUE, params |-> seenSig'[b],
                                      qdisc |-> seenSig'[b]]
    BY <1>3, <1>4, <2>1, Fields DEF ShapedIfb, HasIfb
  <2> QED
    BY <1>4, <2>2, <2>3 DEF LinkShaped, LinkShapedAs, IfbShapedAs
<1> QED
  BY <1>3, <1>5 DEF HasIfb

\* A profile that runs without an error leaves the interface as its signature
\* says and redirected to an IFB that is there, also when another interface has
\* the same IFB and its worker is at it at the same time.  When the IFB is its own
\* that is as the signature says, too, whatever it was before, whatever vanishes
\* during the profile and however many workers there are.
THEOREM FinishesShapedHolds == Spec => FinishesShaped
<1>1. Spec => [][FinishesEach]_vars
  BY ShapedHolds, FinishesStep, PTL DEF Spec
<1> QED
  BY <1>1 DEF FinishesShaped, FinishesEach

-----------------------------------------------------------------------------
(***************************************************************************)
(* Interfaces that are skipped.                                            *)
(***************************************************************************)

\* What is there for an interface that is skipped.
SkipsEach ==
    \A b \in Ifaces \ touched : Skips(b) =>
        /\ LinkShaped(b, seenSig[b])
        /\ HasIfb(b) /\ ifb[IfbOf[b]].up
        /\ Alone(b) => ShapedAs(b, seenSig[b])

LEMMA SkipsStep ==
    TypeInv /\ KnownInv /\ ShapedInv /\ [Next]_vars => [SkipsEach]_vars
<1> SUFFICES ASSUME TypeInv, KnownInv, ShapedInv, [Next]_vars, NEW b \in Ifaces \ touched,
                    Skips(b)
             PROVE  /\ LinkShaped(b, seenSig[b])
                    /\ HasIfb(b) /\ ifb[IfbOf[b]].up
                    /\ Alone(b) => ShapedAs(b, seenSig[b])
  BY DEF SkipsEach
<1>0. step \in [Ifaces -> Steps] /\ step[b] = "queued" /\ step'[b] = "skipped"
  BY DEF TypeInv, CoreOK, ShaperOK, Skips
<1>1. Receive(b)
  BY <1>0, StepToEnd
<1>2. AlreadyConfigured(b)
  BY <1>0, <1>1 DEF Receive, Goto
<1>3. seenSig[b] # NoSig
  BY <1>0 DEF KnownInv, Known
<1>4. /\ LinkShaped(b, seenSig[b])
      /\ Alone(b) => tc[b].redirect = IfbOf[b] /\ ShapedIfb(b, seenSig[b])
  BY <1>0, <1>2, <1>3
  DEF AlreadyConfigured, ShapedInv, Shaped, AppliedTrue, HasIfb, Busy
<1>5. tc[b] \in TcState /\ ifb[IfbOf[b]] \in IfbState
  BY Constants DEF TypeInv, CoreOK, KernelOK
<1>6. ASSUME Alone(b) PROVE ShapedAs(b, seenSig[b])
  <2>1. tc[b] = [root |-> seenSig[b], ingress |-> TRUE, redirect |-> IfbOf[b]]
    BY <1>4, <1>5, <1>6, Fields DEF LinkShaped
  <2>2. ifb[IfbOf[b]] = [exists |-> TRUE, up |-> TRUE, params |-> seenSig[b],
                         qdisc |-> seenSig[b]]
    BY <1>2, <1>4, <1>5, <1>6, Fields DEF ShapedIfb, AlreadyConfigured
  <2> QED
    BY <1>4, <2>1, <2>2 DEF LinkShaped, ShapedAs, LinkShapedAs, IfbShapedAs
<1> QED
  BY <1>2, <1>4, <1>6 DEF AlreadyConfigured, HasIfb

LEMMA SkipsEachHolds == Spec => [][SkipsEach]_vars
BY ShapedHolds, SkipsStep, PTL DEF Spec

\* An interface that is skipped, and was not touched since its signature was
\* recorded, is as it asks: with its IFB when it is its own, and up to the IFB
\* when it shares it and nobody else deletes it.  Somebody who does can have the
\* worker of the other interface create a new one, and this interface is then
\* skipped with its traffic redirected to the old one.
THEOREM SkipIsSoundHolds == Spec => SkipIsSound
<1>1. TypeInv /\ NoDeadRedirect /\ SkipsEach =>
        \A b \in Ifaces \ touched : Skips(b) =>
           /\ Alone(b) => ShapedAs(b, seenSig[b])
           /\ IfbOf[b] \notin Vanishing => LinkShapedAs(b, seenSig[b])
  <2> SUFFICES ASSUME TypeInv, NoDeadRedirect, SkipsEach, NEW b \in Ifaces \ touched, Skips(b),
                      IfbOf[b] \notin Vanishing
               PROVE  LinkShapedAs(b, seenSig[b])
    BY DEF SkipsEach
  <2>1. LinkShaped(b, seenSig[b]) /\ tc[b].redirect # Dead
    BY DEF SkipsEach, Skips, NoDeadRedirect
  <2>2. tc[b] \in TcState
    BY Constants DEF TypeInv, CoreOK, KernelOK
  <2>3. tc[b] = [root |-> seenSig[b], ingress |-> TRUE, redirect |-> IfbOf[b]]
    BY <2>1, <2>2, Fields DEF LinkShaped
  <2> QED
    BY <2>1, <2>3 DEF LinkShaped, LinkShapedAs
<1> QED
  BY ShapedHolds, SkipsEachHolds, NoDeadRedirectHolds, <1>1, PTL DEF SkipIsSound

-----------------------------------------------------------------------------
(***************************************************************************)
(* What it takes for an interface to be skipped wrongly.                   *)
(***************************************************************************)

\* No command is refused or killed, nobody else changes what is configured, and a
\* name comes back only after its signature has been forgotten.
Calm == NoIfbShared /\ "worker" \notin MayFail /\ Drifting = {} /\ ~NamesReused

\* Commands then fail for want of the interface or its IFB only: nobody creates
\* the IFB before ip link add, and the filter is deleted before it is added.  An
\* interface others have changed has gone or has come after the list, so one that
\* is touched has no signature, or lacks its IFB until its worker creates it.
Excused(b) ==
    /\ step[b] = "ifbCreate" => ~HasIfb(b)
    /\ step[b] = "filterAdd" => tc[b].redirect = NoIfb
    /\ b \in moved \cap seen => b \notin present
    /\ b \in touched \cap present => applied[b] = NoSig \/ ~HasIfb(b) \/ step[b] \in Busy

ExcusedInv == \A b \in Ifaces : Excused(b)

LEMMA ExcusedInit == Init => ExcusedInv
<1> SUFFICES ASSUME Init, NEW b \in Ifaces PROVE Excused(b)
  BY DEF ExcusedInv
<1>1. step = [c \in Ifaces |-> "idle"] /\ moved = {} /\ touched = {}
  BY Zenon DEF Init
<1> QED
  BY <1>1 DEF Excused

\* The worker of b: a command that fails finds the interface gone or the IFB gone.
LEMMA ExcusedWorker ==
    ASSUME Calm, TypeInv, KnownInv, NEW b \in Ifaces, Shaped(b), Excused(b), Worker(b)
    PROVE  Excused(b)'
<1>0. /\ tc \in [Bases -> TcState] /\ ifb \in [Ifbs -> IfbState]
      /\ step \in [Ifaces -> Steps] /\ Known(b)
      /\ b \in Bases /\ IfbOf[b] \in Ifbs /\ tc[b] \in TcState
      /\ step[b] \in Busy /\ b \in present => b \notin moved
  BY Constants DEF TypeInv, CoreOK, KernelOK, ShaperOK, KnownInv, Known, Excused, Busy
<1> USE DEF Excused, HasIfb
<1>1. ASSUME WorkerFrame(b), step'[b] \in Busy \ {"ifbCreate", "filterAdd"}
      PROVE  Excused(b)'
  BY <1>1 DEF WorkerFrame, list
<1>2. ASSUME WorkerFrame(b), step'[b] = "failed", b \in present => ~HasIfb(b)'
      PROVE  Excused(b)'
  BY <1>2 DEF WorkerFrame, list
<1>3. CASE Receive(b)
  BY <1>0, <1>3 DEF Receive, Goto, kernel, list, ghosts, Busy
<1>4. CASE SetLinkParams(b) \/ ReplaceRoot(b) \/ ReplaceIngress(b)
  <2>1. /\ WorkerFrame(b) /\ step'[b] \in {"root", "ingress", "ifbLookup", "failed"}
        /\ step'[b] = "failed" => b \notin present
    BY <1>0, <1>4 DEF SetLinkParams, ReplaceRoot, ReplaceIngress, Goto
  <2> QED
    BY <1>1, <1>2, <2>1 DEF Busy
<1>5. CASE LookupIfb(b)
  <2>1. /\ WorkerFrame(b) /\ ifb' = ifb
        /\ step'[b] = IF HasIfb(b) THEN "ifbParams" ELSE "ifbCreate"
    BY <1>0, <1>5 DEF LookupIfb, Goto
  <2> QED
    BY <2>1 DEF WorkerFrame, list, Busy
<1>6. CASE CreateIfb(b) \/ RelookIfb(b)
  <2>1. /\ WorkerFrame(b) /\ step'[b] \in {"ifbRelook", "ifbParams", "failed"}
        /\ step'[b] = "failed" => ~HasIfb(b)'
    BY <1>0, <1>6 DEF CreateIfb, RelookIfb, Goto
  <2> QED
    BY <1>1, <1>2, <2>1 DEF Busy
<1>7. CASE SetIfbParams(b) \/ SetIfbUp(b) \/ ReplaceIfbRoot(b)
  <2>1. /\ WorkerFrame(b) /\ step'[b] \in {"ifbUp", "ifbQdisc", "filterDel", "failed"}
        /\ step'[b] = "failed" => ~HasIfb(b)'
    BY <1>0, <1>7 DEF SetIfbParams, SetIfbUp, ReplaceIfbRoot, Goto
  <2> QED
    BY <1>1, <1>2, <2>1 DEF Busy
<1>8. CASE DeleteFilter(b)
  <2>1. WorkerFrame(b) /\ step'[b] = "filterAdd" /\ tc'[b].redirect = NoIfb
    BY <1>0, <1>8 DEF DeleteFilter, Goto, Calm, TcState
  <2> QED
    BY <2>1 DEF WorkerFrame, list, Busy
<1>9. CASE AddFilter(b)
  <2>1. b \in present => tc[b].ingress /\ tc[b].redirect = NoIfb
    BY <1>0, <1>9
    DEF AddFilter, Shaped, DoneForLink, AfterIngress, AfterRoot, AfterParams, Busy
  <2>2. /\ WorkerFrame(b) /\ step'[b] \in {"record", "failed"}
        /\ step'[b] = "failed" /\ b \in present => ~HasIfb(b)'
    BY <1>0, <1>9, <2>1 DEF AddFilter, Goto
  <2> QED
    BY <1>1, <1>2, <2>2 DEF Busy
<1>10. CASE Record(b)
  <2>1. /\ step[b] = "record" /\ step'[b] = "done" /\ UNCHANGED <<kernel, list, moved>>
        /\ touched' = IF b \in moved THEN touched ELSE touched \ {b}
    BY <1>0, <1>10 DEF Record, Goto
  <2> QED
    BY <1>0, <2>1 DEF kernel, list, Busy
<1> QED
  BY <1>3, <1>4, <1>5, <1>6, <1>7, <1>8, <1>9, <1>10 DEF Worker

\* One case for every action that can disturb it.
LEMMA ExcusedStep ==
    ASSUME Calm
    PROVE  TypeInv /\ KnownInv /\ ShapedInv /\ ExcusedInv /\ [Next]_vars => ExcusedInv'
<1> SUFFICES ASSUME TypeInv, KnownInv, ShapedInv, ExcusedInv, [Next]_vars, NEW b \in Ifaces
             PROVE  Excused(b)'
  BY DEF ExcusedInv
<1>0. /\ Excused(b) /\ Known(b) /\ Shaped(b)
      /\ tc \in [Bases -> TcState] /\ ifb \in [Ifbs -> IfbState]
      /\ step \in [Ifaces -> Steps]
      /\ b \in Bases /\ IfbOf[b] \in Ifbs /\ NoDevice.exists = FALSE
      /\ \A d \in Ifbs : d # NoIfb
  BY Constants, ShaperAssumption
  DEF ExcusedInv, ShapedInv, KnownInv, TypeInv, CoreOK, KernelOK, ShaperOK, NoDevice,
      NewIfb
<1> USE DEF Excused, HasIfb
<1>1. ASSUME step'[b] = step[b], applied'[b] \in {applied[b], NoSig}, tc'[b] = tc[b],
             HasIfb(b)' => HasIfb(b), b \in moved' \cap seen' <=> b \in moved \cap seen,
             b \in touched' <=> b \in touched, b \in present' <=> b \in present
      PROVE  Excused(b)'
  BY <1>0, <1>1
<1>2. ASSUME step'[b] \notin Busy, b \notin moved' \cap seen',
             b \in touched' => b \in touched, present' = present, HasIfb(b)' => HasIfb(b),
             step[b] \notin Busy, applied'[b] \in {applied[b], NoSig}
      PROVE  Excused(b)'
  BY <1>0, <1>2 DEF Busy
<1>3. ASSUME NEW c \in Ifaces, Worker(c) \/ Fail(c) \/ WantChange(c) \/ Drift(c)
      PROVE  Excused(b)'
  <2>1. CASE b # c
    <3>1. IfbOf[b] # IfbOf[c]
      BY <2>1 DEF Calm, NoIfbShared, Alone
    <3> QED
      BY <1>1, <1>3, <2>1, <3>1, OthersKept DEF list
  <2>2. CASE b = c /\ Worker(b)
    BY <1>0, <2>2, ExcusedWorker
  <2>3. CASE b = c /\ WantChange(b)
    BY <1>1, <2>3 DEF WantChange, shaper, list, ghosts
  <2> QED
    BY <1>3, <2>1, <2>2, <2>3 DEF Calm, Fail, Drift
<1>4. ASSUME NEW o \in SUBSET Ifaces, StartPass(o)
      PROVE  Excused(b)'
  <2>1. step[b] = "idle" /\ moved' = {} /\ UNCHANGED <<kernel, applied, step, touched>>
    BY <1>4 DEF StartPass, TypeInv, BusyInRange
  <2> QED
    BY <1>2, <2>1 DEF kernel, Busy
<1>5. ASSUME NEW s \in Skipped, CleanupSkipped(s)
      PROVE  Excused(b)'
  <2>1. step[b] = "idle" /\ UNCHANGED <<present, applied, step, seen, moved, touched>>
    BY <1>5 DEF CleanupSkipped, TypeInv, BusyInRange, list
  <2>2. IfbOf[b] # IfbOf[s] /\ IfbOf[s] \in Ifbs
    BY ShaperAssumption, Constants
  <2>3. ifb'[IfbOf[b]] = ifb[IfbOf[b]]
    BY <1>0, <1>5, <2>2 DEF CleanupSkipped
  <2> QED
    BY <1>0, <2>1, <2>3
<1>6. CASE StartWorkers \/ Join \/ EndPass
  <2>1. /\ UNCHANGED <<kernel, applied, touched, moved>>
        /\ step[b] \notin Busy /\ step'[b] \notin Busy /\ (seen' = seen \/ seen' = {})
    BY <1>0, <1>6
    DEF StartWorkers, Join, EndPass, ForgetList, ghosts, Known, TypeInv, BusyInRange,
        Busy,
        Result, list
  <2> QED
    BY <1>0, <2>1 DEF kernel, Busy
<1>7. ASSUME NEW d \in Ifbs, Prune(d)
      PROVE  Excused(b)'
  <2>1. step[b] \notin Busy /\ UNCHANGED <<present, applied, step, seen, ghosts>>
    BY <1>0, <1>7 DEF Prune, list, Known
  <2>2. HasIfb(b)' => HasIfb(b)
    BY <1>0, <1>7 DEF Prune
  <2> QED
    BY <1>0, <2>1, <2>2 DEF ghosts, Busy
<1>8. ASSUME NEW c \in Bases, LinkAdd(c) \/ LinkDel(c)
      PROVE  Excused(b)'
  <2>1. CASE b # c
    BY <1>1, <1>8, <2>1, LinksKept DEF shaper, list
  <2>2. CASE b = c /\ LinkAdd(b)
    <3>1. applied[b] = NoSig /\ b \notin seen /\ UNCHANGED <<tc, ifb, shaper>>
      BY <2>2 DEF LinkAdd, Calm
    <3> QED
      BY <1>0, <3>1 DEF shaper, list
  <2>3. CASE b = c /\ LinkDel(b)
    <3>1. b \notin present' /\ tc'[b] = NoTc /\ UNCHANGED <<ifb, shaper>>
      BY <1>0, <2>3 DEF LinkDel
    <3> QED
      BY <1>0, <3>1 DEF shaper, list, NoTc
  <2> QED
    BY <1>8, <2>1, <2>2, <2>3
<1>9. CASE CleanupStaleSignatures
  <2>1. /\ applied'[b] \in {applied[b], NoSig}
        /\ UNCHANGED <<kernel, seen, step, ghosts>>
    BY <1>9 DEF CleanupStaleSignatures, list
  <2> QED
    BY <1>1, <2>1 DEF kernel, ghosts
<1>10. ASSUME NEW d \in Ifbs, IfbVanish(d)
       PROVE  Excused(b)'
  <2>1. UNCHANGED <<present, shaper, ghosts>> /\ (HasIfb(b)' => HasIfb(b))
    BY <1>0, <1>10 DEF IfbVanish
  <2>2. tc[b].redirect = NoIfb => tc'[b] = tc[b]
    BY <1>0, <1>10, CutOffLink DEF IfbVanish
  <2> QED
    BY <1>0, <2>1, <2>2 DEF shaper, list, ghosts
<1>11. CASE Restart
  <2>1. step'[b] = "idle" /\ moved' = {} /\ touched' = {}
    BY <1>11 DEF Restart, ForgetList
  <2> QED
    BY <2>1
<1>12. CASE UNCHANGED vars
  BY <1>1, <1>12 DEF vars, kernel, shaper, list, ghosts
<1> QED
  BY <1>3, <1>4, <1>5, <1>6, <1>7, <1>8, <1>9, <1>10, <1>11, <1>12
  DEF Next, Program, Environment

\* An interface that is skipped "is already configured", unless a command is
\* refused or killed, somebody else changes its settings, a name comes back
\* before its signature is forgotten, or two interfaces share an IFB.  Signatures
\* out of range, requests that change, links that go in the middle of a profile,
\* IFB devices that others delete, failing cleanups and restarts are no reason.
THEOREM SkippedIsConfiguredWhenCalm ==
    ASSUME Calm
    PROVE  Spec => SkippedIsConfigured
<1>1. TypeInv /\ KnownInv /\ ShapedInv /\ ExcusedInv /\ [Next]_vars => ExcusedInv'
  BY ExcusedStep
<1>2. Spec => []ExcusedInv
  BY ShapedHolds, ExcusedInit, <1>1, PTL DEF Spec
<1>3. TypeInv /\ KnownInv /\ ExcusedInv /\ [Next]_vars /\ SkipsEach
        => \A b \in Ifaces : Skips(b) => ShapedAs(b, seenSig[b])
  <2> SUFFICES ASSUME TypeInv, KnownInv, ExcusedInv, [Next]_vars, SkipsEach, NEW b \in Ifaces,
                      Skips(b)
               PROVE  ShapedAs(b, seenSig[b])
    OBVIOUS
  <2>1. step \in [Ifaces -> Steps] /\ Receive(b)
    BY StepToEnd DEF TypeInv, CoreOK, ShaperOK, Skips
  <2>2. applied[b] # NoSig /\ HasIfb(b)
    BY <2>1 DEF Receive, Goto, AlreadyConfigured, Skips, KnownInv, Known, HasIfb
  <2>3. b \notin touched
    BY <2>2 DEF ExcusedInv, Excused, Skips, Busy
  <2> QED
    BY <2>3 DEF SkipsEach, Calm, NoIfbShared
<1> QED
  BY ShapedHolds, <1>2, SkipsEachHolds, <1>3, PTL DEF Spec, SkippedIsConfigured

=============================================================================
