------------------------- MODULE SysctlApply_proofs -------------------------
(***************************************************************************)
(* Proofs about SysctlApply, for every set of keys and of faults.          *)
(* Whatever fails, Apply succeeds only with a settled file.  A settled     *)
(* file is one that was loaded, with the hugepage mode set after it, but   *)
(* for what the faults have harmed: that is what makes it right to do      *)
(* nothing when the file is settled.  The last theorem says which of the   *)
(* faults make success a false promise.                                    *)
(***************************************************************************)
EXTENDS SysctlApply, TLAPS

LEMMA MergeFiles == \A f \in Files : Merge(f) \in Files /\ Settled(Merge(f))
BY DEF Files, Merge, Settled, Lines

LEMMA EmptyFile == Empty \in Files /\ ~Settled(Empty)
<1>1. Empty \in Files
  BY DEF Empty, Files
<1>2. PICK k \in Params : k \in Keys
  BY SysctlAssumption
<1>3. Empty[k] # Merge(Empty)[k]
  BY <1>2 DEF Empty, Merge, Absent
<1> QED BY <1>1, <1>3 DEF Settled

LEMMA LoadedValues ==
    ASSUME NEW f \in Files, NEW ks, NEW now \in [KernelKeys -> Values]
    PROVE  Loaded(f, ks, now) \in [KernelKeys -> Values]
BY DEF Loaded, Means, Values

LEMMA BootValues == \A f \in Files : Boot(f) \in [KernelKeys -> Values]
<1> SUFFICES ASSUME NEW f \in Files PROVE Boot(f) \in [KernelKeys -> Values]
  OBVIOUS
<1>1. [k \in KernelKeys |-> "default"] \in [KernelKeys -> Values]
  BY DEF Values
<1> QED BY <1>1, LoadedValues DEF Boot

\* A settled file that is loaded completely puts every parameter in force.
LEMMA SettledLoaded ==
    ASSUME NEW f \in Files, Settled(f), NEW now, NEW k \in Params \cap KernelKeys,
           NEW ks, InFile(f) \subseteq ks
    PROVE  Loaded(f, ks, now)[k] = "tpl"
<1>1. k \in Keys /\ f[k] = "tpl"
  BY SysctlAssumption DEF Settled, Merge
<1>2. k \in InFile(f)
  BY <1>1 DEF InFile, Absent
<1> QED BY <1>1, <1>2 DEF Loaded, Means

-----------------------------------------------------------------------------
(***************************************************************************)
(* Whatever fails.                                                         *)
(***************************************************************************)
SettledInv ==
    /\ phase = "sync" => file = merged
    /\ phase \in {"reload", "hugepage", "applied"} => Settled(file)

TypeInv == TypeOK /\ SettledInv

LEMMA TypeInit == Init => TypeInv
<1> SUFFICES ASSUME Init PROVE TypeInv
  OBVIOUS
<1>1. kernel \in [KernelKeys -> Values]
  BY BootValues DEF Init
<1> QED BY <1>1, EmptyFile DEF Init, TypeInv, TypeOK, SettledInv, Phases

LEMMA TypeStep == TypeInv /\ [Next]_vars => TypeInv'
<1> SUFFICES ASSUME TypeInv, [Next]_vars PROVE TypeInv'
  OBVIOUS
<1> USE DEF TypeInv, TypeOK, SettledInv
<1>1. CASE Start
  BY <1>1 DEF Start, Phases
<1>2. CASE StartFails
  BY <1>2 DEF StartFails, Phases
<1>3. CASE Read
  <2>1. PICK existing \in {file} \cup {Empty} :
          /\ merged' = Merge(existing)
          /\ phase' = IF merged' = existing THEN "applied" ELSE "truncate"
    BY <1>3 DEF Read
  <2>2. existing \in Files
    BY <2>1, EmptyFile
  <2>3. merged' \in Files /\ Settled(merged')
    BY <2>1, <2>2, MergeFiles
  <2>4. phase' = "applied" => Settled(file)
    BY <2>1, EmptyFile DEF Settled
  <2> QED BY <1>3, <2>1, <2>3, <2>4 DEF Read, Phases
<1>4. CASE Truncate
  BY <1>4, EmptyFile DEF Truncate, Phases
<1>5. CASE Write
  BY <1>5 DEF Write, Phases
<1>6. CASE Sync
  BY <1>6 DEF Sync, Phases
<1>7. CASE WriteFails
  BY <1>7 DEF WriteFails, Torn, Phases
<1>8. CASE Reload
  <2>1. kernel' \in [KernelKeys -> Values]
    BY <1>8, LoadedValues DEF Reload
  <2> QED BY <1>8, <2>1 DEF Reload, Phases
<1>9. CASE SetHugepage
  BY <1>9 DEF SetHugepage, Phases
<1>10. CASE Cancel
  BY <1>10 DEF Cancel
<1>11. CASE Stop \/ Kill
  BY <1>11 DEF Stop, Kill, Phases
<1>12. CASE Reboot \/ PowerFailure
  <2>1. PICK f \in {disk, file, Empty}, lost \in SUBSET {"lines"} : Restarted(f, lost)
    <3>1. CASE Reboot
      BY <3>1 DEF Reboot
    <3>2. CASE PowerFailure
      BY <3>2 DEF PowerFailure
    <3> QED BY <1>12, <3>1, <3>2
  <2>2. f \in Files
    BY <2>1, EmptyFile
  <2>3. kernel' \in [KernelKeys -> Values]
    BY <2>1, <2>2, BootValues DEF Restarted
  <2> QED BY <2>1, <2>2, <2>3 DEF Restarted, Phases
<1>13. CASE Edit
  <2>1. file' \in Files
    BY <1>13 DEF Edit, Files, Lines
  <2> QED BY <1>13, <2>1 DEF Edit
<1>14. CASE UNCHANGED vars
  BY <1>14 DEF vars
<1> QED BY <1>1, <1>2, <1>3, <1>4, <1>5, <1>6, <1>7, <1>8, <1>9, <1>10, <1>11,
           <1>12, <1>13, <1>14 DEF Next, Apply

\* Every variable keeps a value the program can give it, and only a settled
\* file is ever going to be written.
THEOREM TypeCorrect == Spec => []TypeOK
<1>1. TypeInv => TypeOK
  BY DEF TypeInv
<1> QED BY <1>1, TypeInit, TypeStep, PTL DEF Spec

\* Apply never succeeds with a file that lacks one of the templates' lines,
\* whatever was cut short, refused or lost before, in this life of the daemon
\* or in another.
THEOREM AppliedInFileHolds == Spec => []AppliedInFile
<1>1. TypeInv => AppliedInFile
  BY DEF TypeInv, SettledInv, AppliedInFile
<1> QED BY <1>1, TypeInit, TypeStep, PTL DEF Spec

-----------------------------------------------------------------------------
(***************************************************************************)
(* What has not been harmed.                                               *)
(***************************************************************************)
AtRest == phase \in {"down", "start", "failed", "applied"}

\* A settled file found at rest has been loaded ...
LoadedInv ==
    "kernel" \notin harmed =>
        /\ AtRest /\ Settled(file) => InForce
        /\ phase = "hugepage" => InForce

\* ... and the hugepage mode was set after it.
HugepageInv ==
    "thp" \notin harmed => (AtRest /\ Settled(file) => thp = "madvise")

\* The administrator's other lines are in the file, or in what is to be
\* written.
OthersInv ==
    "lines" \notin harmed =>
        \A k \in Keys \ Params :
            /\ phase \in {"truncate", "write", "sync"} => merged[k] = admin[k]
            /\ phase # "write" => file[k] = admin[k]

AppliedInv == TypeInv /\ LoadedInv /\ HugepageInv /\ OthersInv

LEMMA AppliedInit == Init => AppliedInv
BY TypeInit DEF Init, AppliedInv, LoadedInv, HugepageInv, OthersInv, AtRest

LEMMA AppliedStep ==
    ASSUME AppliedInv, [Next]_vars
    PROVE  AppliedInv'
<1>0. TypeInv'
  BY TypeStep DEF AppliedInv
<1> SUFFICES LoadedInv' /\ HugepageInv' /\ OthersInv'
  BY <1>0 DEF AppliedInv
<1> USE DEF AppliedInv, LoadedInv, HugepageInv, OthersInv, AtRest, InForce
<1>1. CASE Start
  BY <1>1 DEF Start
<1>2. CASE StartFails
  BY <1>2 DEF StartFails
<1>3. CASE Read
  <2>1. PICK existing \in {file} \cup {Empty} :
          /\ merged' = Merge(existing)
          /\ phase' = IF merged' = existing THEN "applied" ELSE "truncate"
          /\ harmed' = harmed \cup IF existing = file THEN {} ELSE {"lines"}
    BY <1>3 DEF Read
  <2>2. phase' = "applied" => existing = file /\ Settled(file)
    BY <2>1, EmptyFile DEF Settled
  <2>3. \A k \in Keys \ Params : merged'[k] = existing[k]
    BY <2>1 DEF Merge
  <2>4. phase = "start" /\ UNCHANGED <<file, admin, kernel, thp>>
    BY <1>3 DEF Read
  <2>5. LoadedInv' /\ HugepageInv'
    BY <2>1, <2>2, <2>4
  <2>6. OthersInv'
    BY <2>1, <2>2, <2>3, <2>4
  <2> QED BY <2>5, <2>6
<1>4. CASE Truncate
  BY <1>4 DEF Truncate
<1>5. CASE Write
  BY <1>5 DEF Write
<1>6. CASE Sync
  BY <1>6 DEF Sync
<1>7. CASE WriteFails
  BY <1>7 DEF WriteFails
<1>8. CASE Reload
  <2>1. PICK done \in SUBSET InFile(file) :
          /\ kernel' = Loaded(file, done, kernel)
          /\ phase' = IF done = InFile(file) \/ done \ KernelKeys # {}
                      THEN "hugepage" ELSE "failed"
          /\ harmed' = IF done = InFile(file) THEN harmed \ {"kernel"}
                                              ELSE harmed \cup {"kernel", "thp"}
    BY <1>8 DEF Reload
  <2>2. file \in Files /\ Settled(file)
    BY <1>8 DEF Reload, TypeInv, TypeOK, SettledInv
  <2>3. "kernel" \notin harmed' => InForce'
    BY <2>1, <2>2, SettledLoaded
  <2>4. phase = "reload" /\ UNCHANGED <<file, admin, thp, merged>>
    BY <1>8 DEF Reload
  <2> QED BY <2>1, <2>3, <2>4
<1>9. CASE SetHugepage
  BY <1>9 DEF SetHugepage
<1>10. CASE Cancel
  BY <1>10 DEF Cancel
<1>11. CASE Kill
  BY <1>11 DEF Kill
<1>12. CASE Stop
  BY <1>12 DEF Stop
<1>13. CASE Reboot \/ PowerFailure
  <2>1. PICK f \in {disk, file, Empty}, lost \in SUBSET {"lines"} :
          /\ Restarted(f, lost)
          /\ "lines" \notin lost => f = file /\ phase # "write"
    <3>1. CASE Reboot
      BY <3>1 DEF Reboot
    <3>2. CASE PowerFailure
      <4>1. PICK f \in {disk, file} \cup IF disk # file THEN {Empty} ELSE {} :
              Restarted(f, IF Running \/ disk # file THEN {"lines"} ELSE {})
        BY <3>2 DEF PowerFailure
      <4>2. ~Running /\ disk = file => f = file /\ phase # "write"
        BY <4>1 DEF Running
      <4> DEFINE lost == IF Running \/ disk # file THEN {"lines"} ELSE {}
      <4>3. lost \in SUBSET {"lines"} /\ ("lines" \notin lost => ~Running /\ disk = file)
        OBVIOUS
      <4>4. f \in {disk, file, Empty} /\ Restarted(f, lost)
        BY <4>1
      <4> HIDE DEF lost
      <4> QED BY <4>2, <4>3, <4>4
    <3> QED BY <1>13, <3>1, <3>2
  <2>2. f \in Files
    BY <2>1, EmptyFile DEF TypeInv, TypeOK
  <2>3. Settled(f) => InForce'
    BY <2>1, <2>2, SettledLoaded DEF Restarted, Boot, InFile
  <2>4. /\ file' = f
        /\ phase' = "down"
        /\ admin' = admin
        /\ harmed' = (harmed \ {"kernel"}) \cup {"thp"} \cup lost
    BY <2>1 DEF Restarted
  <2> QED BY <2>1, <2>3, <2>4
<1>14. CASE Edit
  <2>1. PICK k \in Keys, line \in {"spelled", "other", Absent} :
          file' = [file EXCEPT ![k] = line] /\ file' # file /\ admin' = file'
    BY <1>14 DEF Edit
  <2>2. file \in Files
    BY DEF TypeInv, TypeOK
  <2>3. Settled(file') => Settled(file)
    <3> SUFFICES ASSUME Settled(file'), NEW j \in Params PROVE file[j] = "tpl"
      BY <2>2, SysctlAssumption DEF Settled, Merge, Files
    <3>1. j \in Keys /\ file'[j] = "tpl"
      BY SysctlAssumption DEF Settled, Merge
    <3> QED BY <2>1, <2>2, <3>1 DEF Files, Absent
  <2> QED BY <1>14, <2>1, <2>3 DEF Edit
<1>15. CASE UNCHANGED vars
  BY <1>15 DEF vars
<1> QED BY <1>1, <1>2, <1>3, <1>4, <1>5, <1>6, <1>7, <1>8, <1>9, <1>10, <1>11,
           <1>12, <1>13, <1>14, <1>15 DEF Next, Apply

LEMMA AppliedAlways == Spec => []AppliedInv
BY AppliedInit, AppliedStep, PTL DEF Spec

\* The early return for a settled file is right: when Apply succeeds, in this
\* life of the daemon or a later one, the parameters the kernel knows are in
\* force, unless a write, a reload or the daemon was cut short and neither a
\* complete reload nor a reboot has come since.  A signal, a template
\* or file that cannot be read and a power failure alone do no such harm.
THEOREM AppliedInKernelHolds == Spec => []AppliedInKernel
<1>1. AppliedInv => AppliedInKernel
  BY DEF AppliedInv, TypeInv, SettledInv, LoadedInv, AtRest, AppliedInKernel
<1> QED BY <1>1, AppliedAlways, PTL

\* ... and the hugepage mode is set, although only a start that changes the
\* file sets it, unless the same faults, a reboot or a failure to set it have
\* come since.
THEOREM HugepageSetHolds == Spec => []HugepageSet
<1>1. AppliedInv => HugepageSet
  BY DEF AppliedInv, TypeInv, SettledInv, HugepageInv, AtRest, HugepageSet
<1> QED BY <1>1, AppliedAlways, PTL

\* ... and the lines of other keys are the administrator's, unless a read failed
\* or a write was cut short since he last edited the file.
THEOREM OtherLinesKeptHolds == Spec => []OtherLinesKept
<1>1. AppliedInv => OtherLinesKept
  BY DEF AppliedInv, OthersInv, OtherLinesKept
<1> QED BY <1>1, AppliedAlways, PTL
-----------------------------------------------------------------------------
(***************************************************************************)
(* Which faults do the harm.                                               *)
(***************************************************************************)
LoadFaults == {"write", "reload", "cancel", "kill"}

\* A template or a file that cannot be read, a refused hugepage mode, a power
\* failure and a reboot put no parameter out of step with a settled file.
LEMMA LoadHarmless ==
    ASSUME Faults \cap LoadFaults = {}
    PROVE  Spec => []("kernel" \notin harmed)
<1> DEFINE Harmless == "kernel" \notin harmed /\ ~cancelled
<1>1. Init => Harmless
  BY DEF Init
<1>2. Harmless /\ [Next]_vars => Harmless'
  <2> SUFFICES ASSUME Harmless, [Next]_vars PROVE Harmless'
    OBVIOUS
  <2> USE DEF LoadFaults
  <2>1. CASE Start \/ StartFails
    BY <2>1 DEF Start, StartFails
  <2>2. CASE Read \/ Truncate \/ Write \/ Sync
    BY <2>2 DEF Read, Truncate, Write, Sync
  <2>3. CASE WriteFails \/ Cancel \/ Kill
    BY <2>3 DEF WriteFails, Cancel, Kill
  <2>4. CASE Reload
    BY <2>4 DEF Reload
  <2>5. CASE SetHugepage \/ Stop
    BY <2>5 DEF SetHugepage, Stop
  <2>6. CASE Reboot \/ PowerFailure
    BY <2>6 DEF Reboot, PowerFailure, Restarted
  <2>7. CASE Edit
    BY <2>7 DEF Edit
  <2>8. CASE UNCHANGED vars
    BY <2>8 DEF vars
  <2> QED BY <2>1, <2>2, <2>3, <2>4, <2>5, <2>6, <2>7, <2>8 DEF Next, Apply
<1>3. Harmless => "kernel" \notin harmed
  OBVIOUS
<1> QED BY <1>1, <1>2, <1>3, PTL DEF Spec

\* "Apply kernel parameters (sysctl)" is kept, in every life of the daemon and
\* without a ghost, as long as no write or reload fails and the daemon is not
\* interrupted in Apply by a signal or a kill: these four are all the causes there are
\* of a success without the parameters in force.  Files that cannot be read,
\* failing templates, edits, reboots and power failures in the middle of a
\* write are none.
THEOREM InForceWithoutLoadFaults ==
    ASSUME Faults \cap LoadFaults = {}
    PROVE  Spec => []AppliedMeansInForce
<1>1. AppliedInKernel /\ "kernel" \notin harmed => AppliedMeansInForce
  BY DEF AppliedInKernel, AppliedMeansInForce
<1> QED BY <1>1, AppliedInKernelHolds, LoadHarmless, PTL
=============================================================================
