---------------------------- MODULE Startup_proofs ----------------------------
(***************************************************************************)
(* Proofs about Startup: that it implements Daemon, its types, and what an *)
(* undisturbed start leaves behind.  The last rests on three facts about   *)
(* such a start: what it has read is what the directory holds, what it has *)
(* written is for the tier it has read, and the limits it has been at are  *)
(* those of that tier.                                                     *)
(***************************************************************************)
EXTENDS Startup, Daemon_proofs

\* The template directory has not changed, and the merged file is of its tier.
HasRead ==
    /\ main \in {"validate", "sysctl"} => Valid(dir)
    /\ main = "sysctl" => mode = LoadTrafficInitConfig(dir)
    /\ main \in {"limits", "rlimit"} \/ Started =>
         set = DetectTemplateSet /\ (set # NoTier => conf = set)

\* A file whose turn is over is written, and systemd has loaded its own.
HasWritten ==
    /\ main = "limits" /\ step \in {"open2", "write2", "reexec"} =>
         file["limits.conf"] = set /\ done # {}
    /\ main = "limits" /\ step = "reexec" => file["system.conf"] = set
    /\ (main = "rlimit" \/ Started) /\ set # NoTier =>
         file["limits.conf"] = set /\ file["system.conf"] = set /\ manager = set

\* No limit that the kernel would refuse is asked for.
HasSet ==
    InForce =>
      /\ main = "rlimit" => \A r \in done : rlims[r] = Bytes(set, r)
      /\ Started /\ set # NoTier => \A r \in Resources : rlims[r] = Bytes(set, r)

StartupInv ==
    /\ StartupTypeOK
    /\ ~disturbed => HasRead /\ HasWritten /\ HasSet

-----------------------------------------------------------------------------
(***************************************************************************)
(* Startup implements Daemon.                                              *)
(***************************************************************************)

LEMMA NextIsDaemons == [StartupNext]_allVars => [Next]_vars
<1> SUFFICES ASSUME StartupNext PROVE [Next]_vars
  BY DEF allVars
<1>1. CASE Applying
  BY <1>1 DEF Applying, Next, Starting, Resolve, Validate, EndStage, Sysctl, SysctlFails,
              Detect, Truncate, Write, WriteFails, LimitsCancelled, Reexec, SetLimit,
              SetLimitFails, RlimitCancelled, RlimitDone
<1>2. CASE HandlingC \/ RunningC \/ WatchingC \/ SystemdC
  BY <1>2 DEF HandlingC, RunningC, WatchingC, SystemdC, Next
<1>3. CASE Outside \/ RebootC
  BY <1>3 DEF Outside, RebootC, Next
<1>4. CASE EditTemplates
  BY <1>4 DEF EditTemplates
<1> QED BY <1>1, <1>2, <1>3, <1>4 DEF StartupNext

\* Every behaviour of Startup is one of Daemon: the appliers change nothing of the
\* daemon's life but the moment a stage ends.
THEOREM ImplementsDaemon == StartupSpec => Spec
<1>1. StartupInit => Init
  BY DEF StartupInit
<1> QED BY <1>1, NextIsDaemons, PTL DEF StartupSpec, Spec

\* With the appliers at work, the daemon still does not live on without its watch
\* loop.
THEOREM StartupNoSilentDeath == StartupSpec => []NoSilentDeath
BY ImplementsDaemon, NoSilentDeathHolds, PTL

-----------------------------------------------------------------------------
(***************************************************************************)
(* The invariant.                                                          *)
(***************************************************************************)

LEMMA Product ==
    ASSUME NEW a \in Nat, NEW b \in Nat
    PROVE  a * b \in Nat
OBVIOUS

LEMMA Remainder ==
    ASSUME NEW a \in Nat, NEW b \in Nat \ {0}
    PROVE  a % b \in Nat
OBVIOUS

\* A number of bytes is a number, whatever wraps.
LEMMA BytesIsNat ==
    ASSUME NEW t \in Tiers, NEW r \in Resources
    PROVE  Bytes(t, r) \in Nat
<1>1. Limits[t].stack \in Nat /\ Limits[t].nofile \in Nat
  BY StartupAssumption
<1>2. KB \in Nat /\ Word \in Nat \ {0}
  BY StartupAssumption
<1>3. Limits[t].stack * KB \in Nat
  BY <1>1, <1>2, Product
<1>4. (Limits[t].stack * KB) % Word \in Nat
  BY <1>2, <1>3, Remainder
<1> QED BY <1>1, <1>4 DEF Bytes

LEMMA InheritedType ==
    ASSUME manager \in Tiers \cup {Other}
    PROVE  Inherited \in [Resources -> Nat]
<1> SUFFICES ASSUME NEW r \in Resources
             PROVE  (IF r = "nofile" THEN UnitNofile
                     ELSE IF manager \in Tiers THEN OfService(r) ELSE DefaultStack) \in Nat
  BY DEF Inherited
<1>1. UnitNofile \in Nat /\ DefaultStack \in Nat
  BY StartupAssumption
<1>2. ASSUME manager \in Tiers PROVE OfService(r) \in Nat
  BY <1>2, BytesIsNat DEF OfService
<1> QED BY <1>1, <1>2

LEMMA StartupInvInit == StartupInit => StartupInv
<1> SUFFICES ASSUME StartupInit PROVE StartupInv
  OBVIOUS
<1>1. rlims \in [Resources -> Nat]
  BY InheritedType DEF StartupInit
<1>2. StartupTypeOK
  <2>1. DefaultNrOpen \in Nat /\ MaxFaults \in Nat /\ nrOpen = DefaultNrOpen
    BY StartupAssumption DEF StartupInit
  <2>2. dir \in Directories /\ conf = Other /\ manager = Other
        /\ file \in [Files -> Tiers \cup {Other}]
    BY DEF StartupInit
  <2>3. mode = "" /\ set = NoTier /\ step = "begin" /\ done = {}
        /\ disturbed \in BOOLEAN
    BY DEF StartupInit
  <2>4. nrOpen \in Nat
    BY <2>1
  <2>5. faults = 0
    BY DEF StartupInit
  <2>6. faults \in 0..MaxFaults
    BY <2>1, <2>5
  <2> QED BY <1>1, <2>2, <2>3, <2>4, <2>6 DEF StartupTypeOK
<1>3. main = "none"
  BY DEF StartupInit, Init
<1> QED BY <1>2, <1>3 DEF StartupInv, HasRead, HasWritten, HasSet, Started, StartupInit

LEMMA DisturbType ==
    ASSUME StartupInv, Disturb
    PROVE  faults' \in 0..MaxFaults /\ disturbed' = TRUE
<1>1. MaxFaults \in Nat /\ faults \in 0..MaxFaults /\ faults < MaxFaults
  BY StartupAssumption DEF Disturb, StartupInv, StartupTypeOK
<1>2. faults' = faults + 1
  BY DEF Disturb
<1>3. faults' \in 0..MaxFaults
  BY <1>1, <1>2
<1> QED BY <1>3 DEF Disturb

\* An applier of an undisturbed start reads the tier there is.
LEMMA DetectSetType ==
    ASSUME StartupInv, NEW t \in Tiers \cup {NoTier}, DetectSet(t)
    PROVE  /\ set' = t
           /\ faults' \in 0..MaxFaults
           /\ disturbed' \in BOOLEAN
           /\ ~disturbed' => ~disturbed /\ t = DetectTemplateSet
<1>1. faults \in 0..MaxFaults /\ disturbed \in BOOLEAN
  BY DEF StartupInv, StartupTypeOK
<1> QED BY <1>1, DisturbType DEF DetectSet

\* A process that is over, or new, has read, written and set nothing yet.
LEMMA FreshInv ==
    ASSUME StartupInv, Fresh,
           main' \in {"none", "init"}, dir' \in Directories, nrOpen' \in Nat,
           conf' \in Tiers \cup {Other}, file' \in [Files -> Tiers \cup {Other}],
           manager' \in Tiers \cup {Other}
    PROVE  StartupInv'
<1>1. rlims' \in [Resources -> Nat]
  BY InheritedType DEF Fresh, StartupInv, StartupTypeOK
<1>2. StartupTypeOK'
  BY <1>1 DEF StartupInv, StartupTypeOK, Fresh
<1> QED BY <1>2 DEF StartupInv, HasRead, HasWritten, HasSet, Started

LEMMA DiesInv ==
    ASSUME StartupInv, Dies, main' \in {"none", "init"}
    PROVE  StartupInv'
<1>1. dir' \in Directories /\ nrOpen' \in Nat /\ conf' \in Tiers \cup {Other}
      /\ file' \in [Files -> Tiers \cup {Other}] /\ manager' \in Tiers \cup {Other}
  BY DEF StartupInv, StartupTypeOK, Dies
<1> QED BY <1>1, FreshInv DEF Dies

\* Nothing changes for a process that stays at its statement, or that shapes.
LEMMA StaysInv ==
    ASSUME StartupInv, UNCHANGED <<system, process, faults>>,
           main' = main \/ (Started /\ Started')
    PROVE  StartupInv'
<1> USE DEF system, process
<1>1. StartupTypeOK'
  <2>1. main' = main \/ (step = "begin" /\ done = {})
    BY DEF StartupInv, StartupTypeOK, Started
  <2> QED BY <2>1 DEF StartupInv, StartupTypeOK
<1>2. ASSUME ~disturbed' PROVE HasRead' /\ HasWritten' /\ HasSet'
  <2>1. HasRead /\ HasWritten /\ HasSet
    BY <1>2 DEF StartupInv
  <2>2. InForce' <=> InForce
    BY DEF InForce
  <2>3. DetectTemplateSet' = DetectTemplateSet
    BY DEF DetectTemplateSet
  <2>4. ASSUME NEW r PROVE Bytes(set, r)' = Bytes(set, r)
    BY DEF Bytes
  <2>5. HasRead'
    BY <2>1, <2>3 DEF HasRead, Started
  <2>6. HasWritten'
    BY <2>1 DEF HasWritten, Started
  <2>7. HasSet'
    BY <2>1, <2>2, <2>4 DEF HasSet, Started
  <2> QED BY <2>5, <2>6, <2>7
<1> QED BY <1>1, <1>2 DEF StartupInv

LEMMA CarryInv ==
    ASSUME StartupInv, Carry,
           Handling \/ Running \/ Watching \/ Systemd \/ Signal \/ PassBegins \/ WatchFails
             \/ StartUnit \/ StopUnit \/ StopTimeout \/ Kill
    PROVE  StartupInv'
<1>1. main' \in {"none", "init"} \/ main' = main \/ (Started /\ Started')
  <2>1. CASE Handling \/ Watching \/ PassBegins \/ WatchFails
    BY <2>1 DEF Handling, HandleSignal, StopNotify, Watching, Report, WatchDone, PassEnds,
                PassBegins, WatchFails
  <2>2. CASE Running
    BY <2>2 DEF Running, EnterSelect, SelectDone, SelectErr, Wait, Die, Started
  <2>3. CASE Systemd \/ StartUnit
    BY <2>3 DEF Systemd, Restart, UnitEnds, StartUnit, NewProcess
  <2>4. CASE Signal \/ StopUnit \/ StopTimeout \/ Kill
    BY <2>4 DEF Signal, StopUnit, StopTimeout, Kill, Deliver, Die
  <2> QED BY <2>1, <2>2, <2>3, <2>4
<1> QED BY <1>1, DiesInv, StaysInv DEF Carry

LEMMA RebootInv ==
    ASSUME StartupInv, RebootC
    PROVE  StartupInv'
<1>1. main' = "none"
  BY DEF RebootC, Reboot, Die
<1>2. nrOpen' \in Nat
  <2>1. ASSUME conf \in Tiers PROVE Limits[conf].nrOpen \in Nat
    BY <2>1, StartupAssumption
  <2>2. DefaultNrOpen \in Nat
    BY StartupAssumption
  <2> QED BY <2>1, <2>2 DEF RebootC
<1>3. manager' \in Tiers \cup {Other}
  BY DEF RebootC, StartupInv, StartupTypeOK, Files
<1>4. dir' \in Directories /\ conf' \in Tiers \cup {Other}
      /\ file' \in [Files -> Tiers \cup {Other}]
  BY DEF RebootC, StartupInv, StartupTypeOK
<1> QED BY <1>1, <1>2, <1>3, <1>4, FreshInv DEF RebootC

LEMMA EditInv ==
    ASSUME StartupInv, EditTemplates
    PROVE  StartupInv'
<1>1. StartupTypeOK'
  <2>1. MaxFaults \in Nat /\ faults \in 0..MaxFaults /\ faults < MaxFaults
    BY StartupAssumption DEF EditTemplates, StartupInv, StartupTypeOK
  <2>2. faults' = faults + 1
    BY DEF EditTemplates
  <2>3. faults' \in 0..MaxFaults
    BY <2>1, <2>2
  <2>4. disturbed' \in BOOLEAN
    BY DEF EditTemplates
  <2>5. dir' \in Directories /\ main' = main
    BY DEF EditTemplates, vars
  <2> QED BY <2>3, <2>4, <2>5 DEF EditTemplates, StartupInv, StartupTypeOK
<1>2. ASSUME ~disturbed' PROVE HasRead' /\ HasWritten' /\ HasSet'
  <2>1. main' \notin Stages /\ ~Started'
    BY <1>2 DEF EditTemplates, Started, vars
  <2> QED BY <2>1 DEF HasRead, HasWritten, HasSet, Started, Stages
<1> QED BY <1>1, <1>2 DEF StartupInv


-----------------------------------------------------------------------------
(***************************************************************************)
(* The steps of the start.                                                 *)
(***************************************************************************)
LEMMA ResolveInv ==
    ASSUME StartupInv, Resolve
    PROVE  StartupInv'
<1>1. CASE SignalContext /\ Valid(dir) /\ UNCHANGED <<system, process, faults>>
  <2> USE DEF system, process
  <2>1. main = "init" /\ main' = "validate"
    BY <1>1 DEF SignalContext
  <2>2. StartupTypeOK'
    BY <1>1, <2>1 DEF StartupInv, StartupTypeOK
  <2>3. HasRead' /\ HasWritten' /\ HasSet'
    BY <1>1, <2>1 DEF HasRead, HasWritten, HasSet, Started, Valid
  <2> QED BY <2>2, <2>3 DEF StartupInv
<1>2. CASE NoTemplates /\ Dies
  BY <1>2, DiesInv DEF NoTemplates, Die
<1> QED BY <1>1, <1>2 DEF Resolve

LEMMA FailsInv ==
    ASSUME StartupInv, StageFails, Dies
    PROVE  StartupInv'
BY DiesInv DEF StageFails, Die

\* The mode is one of the three, and one there is a file for, if there can be.
LEMMA DetectTrafficModeFound ==
    ASSUME NEW d \in Directories, d.modes # {}
    PROVE  DetectTrafficMode(d) \in d.modes
<1>1. d.modes \subseteq {"client", "server", "aggregate"}
  BY StartupAssumption DEF Modes
<1>2. Priority["client"] = 1 /\ Priority["server"] = 2 /\ Priority["aggregate"] = 3
  BY DEF Priority
<1> DEFINE Best(m) == m \in d.modes /\ \A n \in d.modes : Priority[m] <= Priority[n]
<1>3. \E m : Best(m)
  <2>1. CASE "client" \in d.modes
    <3>1. Best("client")
      BY <1>1, <1>2, <2>1
    <3> QED BY <3>1
  <2>2. CASE "client" \notin d.modes /\ "server" \in d.modes
    <3>1. Best("server")
      BY <1>1, <1>2, <2>2
    <3> QED BY <3>1
  <2>3. CASE "client" \notin d.modes /\ "server" \notin d.modes
    <3>1. d.modes = {"aggregate"}
      BY <1>1, <2>3
    <3>2. Best("aggregate")
      BY <1>2, <3>1
    <3> QED BY <3>2
  <2> QED BY <2>1, <2>2, <2>3
<1> QED BY <1>3 DEF DetectTrafficMode

LEMMA ModeType ==
    ASSUME NEW d \in Directories
    PROVE  LoadTrafficInitConfig(d) \in Modes
<1>1. d.modes \subseteq Modes
  BY StartupAssumption
<1> QED BY <1>1 DEF LoadTrafficInitConfig, Parsed, Modes

LEMMA ValidateInv ==
    ASSUME StartupInv, Validate
    PROVE  StartupInv'
<1>1. CASE EndStage /\ mode' = LoadTrafficInitConfig(dir)
           /\ UNCHANGED <<system, set, rlims, disturbed, faults>>
  <2> USE DEF system
  <2>1. main' = "sysctl" /\ step' = "begin" /\ done' = {}
    BY <1>1 DEF Validate, EndStage, StageDone, After
  <2>2. dir \in Directories
    BY DEF StartupInv, StartupTypeOK
  <2>3. StartupTypeOK'
    BY <1>1, <2>1, <2>2, ModeType DEF StartupInv, StartupTypeOK
  <2>4. ASSUME ~disturbed' PROVE HasRead' /\ HasWritten' /\ HasSet'
    <3>1. Valid(dir)
      BY <1>1, <2>4 DEF Validate, StartupInv, HasRead
    <3>2. Valid(dir)' /\ mode' = LoadTrafficInitConfig(dir)'
      BY <1>1, <3>1
    <3> QED BY <2>1, <3>2 DEF HasRead, HasWritten, HasSet, Started
  <2> QED BY <2>3, <2>4 DEF StartupInv
<1>2. CASE StageFails /\ Dies
  BY <1>2, FailsInv
<1> QED BY <1>1, <1>2 DEF Validate

LEMMA SysctlInv ==
    ASSUME StartupInv, Sysctl
    PROVE  StartupInv'
<1>1. main' = "limits" /\ step' = "begin" /\ done' = {}
  BY DEF Sysctl, EndStage, StageDone, After
<1>2. PICK t \in Tiers \cup {NoTier} :
        /\ DetectSet(t)
        /\ IF t \in {conf, NoTier} THEN UNCHANGED <<conf, nrOpen>>
           ELSE conf' = t /\ nrOpen' \in {nrOpen, Limits[t].nrOpen}
  BY DEF Sysctl
<1>3. /\ set' = t
      /\ faults' \in 0..MaxFaults
      /\ disturbed' \in BOOLEAN
      /\ ~disturbed' => ~disturbed /\ t = DetectTemplateSet
  BY <1>2, DetectSetType
<1>4. UNCHANGED <<dir, file, manager, mode, rlims>>
  BY DEF Sysctl
<1>5. nrOpen' \in Nat /\ conf' \in Tiers \cup {Other}
  <2>1. CASE t \in {conf, NoTier}
    BY <1>2, <2>1 DEF StartupInv, StartupTypeOK
  <2>2. CASE t \notin {conf, NoTier}
    <3>1. t \in Tiers /\ Limits[t].nrOpen \in Nat
      BY <2>2, StartupAssumption
    <3> QED BY <1>2, <2>2, <3>1 DEF StartupInv, StartupTypeOK
  <2> QED BY <2>1, <2>2
<1>6. StartupTypeOK'
  BY <1>1, <1>3, <1>4, <1>5 DEF StartupInv, StartupTypeOK
<1>7. ASSUME ~disturbed' PROVE HasRead' /\ HasWritten' /\ HasSet'
  <2>1. set' = DetectTemplateSet'
    BY <1>3, <1>4, <1>7 DEF DetectTemplateSet
  <2>2. set' # NoTier => conf' = set'
    BY <1>2, <1>3
  <2> QED BY <1>1, <2>1, <2>2 DEF HasRead, HasWritten, HasSet, Started
<1> QED BY <1>6, <1>7 DEF StartupInv

LEMMA DetectInv ==
    ASSUME StartupInv, Detect("limits", "open1") \/ Detect("rlimit", "set")
    PROVE  StartupInv'
<1>1. PICK stage \in {"limits", "rlimit"}, first \in {"open1", "set"} :
        Detect(stage, first) /\ (stage = "limits" => first = "open1")
                             /\ (stage = "rlimit" => first = "set")
  OBVIOUS
<1>2. main = stage /\ step = "begin" /\ done = {} /\ UNCHANGED <<system, mode, rlims>>
  BY <1>1 DEF Detect, StartupInv, StartupTypeOK, Writing
<1>3. PICK t \in Tiers \cup {NoTier} :
        /\ DetectSet(t)
        /\ IF t = NoTier THEN EndStage ELSE step' = first /\ UNCHANGED <<vars, done>>
  BY <1>1 DEF Detect
<1>4. /\ set' = t
      /\ faults' \in 0..MaxFaults
      /\ disturbed' \in BOOLEAN
      /\ ~disturbed' => ~disturbed /\ t = DetectTemplateSet
  BY <1>3, DetectSetType
<1>5. CASE t = NoTier
  <2>1. EndStage /\ step' = "begin" /\ done' = {}
    BY <1>3, <1>5 DEF EndStage
  <2>2. main' = IF stage = "limits" THEN "rlimit" ELSE "apply"
    BY <1>1, <1>2, <2>1 DEF EndStage, StageDone, After
  <2>3. StartupTypeOK'
    BY <1>2, <1>4, <2>1 DEF StartupInv, StartupTypeOK, system
  <2>4. ASSUME ~disturbed' PROVE HasRead' /\ HasWritten' /\ HasSet'
    <3>1. set' = NoTier /\ set' = DetectTemplateSet'
      BY <1>2, <1>4, <1>5, <2>4 DEF DetectTemplateSet, system
    <3> QED BY <2>1, <2>2, <3>1 DEF HasRead, HasWritten, HasSet, Started
  <2> QED BY <2>3, <2>4 DEF StartupInv
<1>6. CASE t # NoTier
  <2>1. step' = first /\ done' = {} /\ main' = main /\ t \in Tiers
    BY <1>2, <1>3, <1>6 DEF vars
  <2>2. StartupTypeOK'
    BY <1>1, <1>2, <1>4, <2>1 DEF StartupInv, StartupTypeOK, system, Writing
  <2>3. ASSUME ~disturbed' PROVE HasRead' /\ HasWritten' /\ HasSet'
    <3>1. HasRead /\ HasWritten
      BY <1>4, <2>3 DEF StartupInv
    <3>2. t = DetectTemplateSet /\ set' = set /\ set' = DetectTemplateSet'
      BY <1>2, <1>4, <2>3, <3>1 DEF HasRead, DetectTemplateSet, system
    <3> QED BY <1>1, <1>2, <2>1, <3>1, <3>2 DEF HasRead, HasWritten, HasSet, Started, system
  <2> QED BY <2>2, <2>3 DEF StartupInv
<1> QED BY <1>5, <1>6

\* What the limits applier is at.
LEMMA AtFileType ==
    ASSUME StartupInv, AtFile
    PROVE  /\ main = "limits" /\ set \in Tiers /\ done \subseteq Files
           /\ step \in {"open1", "write1", "open2", "write2"}
           /\ Writing[step] \in Files
           /\ Writing[step] = "limits.conf" <=> step \in {"open1", "write1"}
           /\ Writing[step] = "system.conf" <=> step \in {"open2", "write2"}
BY DEF AtFile, Writing, Files, StartupInv, StartupTypeOK

LEMMA TruncateInv ==
    ASSUME StartupInv, Truncate
    PROVE  StartupInv'
<1>1. AtFile /\ Opening
  BY DEF Truncate
<1>2. UNCHANGED <<vars, dir, nrOpen, conf, manager, mode, set, done, rlims, disturbed, faults>>
  BY DEF Truncate
<1>3. main' = main
  BY <1>2 DEF vars
<1>4. CASE step = "open1"
  <2>1. step' = "write1"
    BY <1>4 DEF Truncate
  <2>2. file' \in [Files -> Tiers \cup {Other}]
    BY <1>1, AtFileType DEF Truncate, StartupInv, StartupTypeOK
  <2>3. StartupTypeOK'
    BY <1>1, <1>2, <1>3, <2>1, <2>2, AtFileType DEF StartupInv, StartupTypeOK, Writing
  <2>4. ASSUME ~disturbed' PROVE HasRead' /\ HasWritten' /\ HasSet'
    <3>1. HasRead
      BY <1>2, <2>4 DEF StartupInv
    <3>2. DetectTemplateSet' = DetectTemplateSet
      BY <1>2 DEF DetectTemplateSet
    <3> QED BY <1>1, <1>2, <1>3, <2>1, <3>1, <3>2, AtFileType
            DEF HasRead, HasWritten, HasSet, Started
  <2> QED BY <2>3, <2>4 DEF StartupInv
<1>5. CASE step = "open2"
  <2>1. step' = "write2" /\ file' = [file EXCEPT !["system.conf"] = Other]
    BY <1>1, <1>5, AtFileType DEF Truncate
  <2>2. file' \in [Files -> Tiers \cup {Other}]
        /\ file'["limits.conf"] = file["limits.conf"]
    BY <2>1 DEF StartupInv, StartupTypeOK, Files
  <2>3. StartupTypeOK'
    BY <1>1, <1>2, <1>3, <2>1, <2>2, AtFileType DEF StartupInv, StartupTypeOK, Writing
  <2>4. ASSUME ~disturbed' PROVE HasRead' /\ HasWritten' /\ HasSet'
    <3>1. HasRead /\ HasWritten
      BY <1>2, <2>4 DEF StartupInv
    <3>2. DetectTemplateSet' = DetectTemplateSet
      BY <1>2 DEF DetectTemplateSet
    <3> QED BY <1>1, <1>2, <1>3, <1>5, <2>1, <2>2, <3>1, <3>2, AtFileType
            DEF HasRead, HasWritten, HasSet, Started
  <2> QED BY <2>3, <2>4 DEF StartupInv
<1> QED BY <1>1, <1>4, <1>5 DEF Opening

LEMMA WriteInv ==
    ASSUME StartupInv, Write
    PROVE  StartupInv'
<1>1. AtFile /\ ~Opening /\ AfterFile(done \cup {Writing[step]})
      /\ file' = [file EXCEPT ![Writing[step]] = set]
  BY DEF Write
<1>2. UNCHANGED <<vars, dir, nrOpen, conf, manager, mode, set, rlims, disturbed, faults>>
  BY DEF Write
<1>3. main' = main
  BY <1>2 DEF vars
<1>4. set \in Tiers /\ done' = done \cup {Writing[step]} /\ done' \subseteq Files /\ done' # {}
  BY <1>1, AtFileType DEF AfterFile
<1>5. file' \in [Files -> Tiers \cup {Other}]
  BY <1>1, <1>4, AtFileType DEF StartupInv, StartupTypeOK
<1>6. step' \in {"open2", "reexec"}
  BY <1>1 DEF AfterFile
<1>7. StartupTypeOK'
  BY <1>1, <1>2, <1>3, <1>4, <1>5, <1>6, AtFileType DEF StartupInv, StartupTypeOK, Writing
<1>8. ASSUME ~disturbed' PROVE HasRead' /\ HasWritten' /\ HasSet'
  <2>1. HasRead /\ HasWritten
    BY <1>2, <1>8 DEF StartupInv
  <2>2. DetectTemplateSet' = DetectTemplateSet
    BY <1>2 DEF DetectTemplateSet
  <2>3. HasRead' /\ HasSet'
    BY <1>1, <1>2, <1>3, <2>1, <2>2, AtFileType DEF HasRead, HasSet, Started
  <2>4. CASE step = "write1"
    <3>1. step' = "open2" /\ file'["limits.conf"] = set
      BY <1>1, <2>4, AtFileType DEF AfterFile, StartupInv, StartupTypeOK
    <3> QED BY <1>1, <1>2, <1>3, <1>4, <2>3, <3>1, AtFileType DEF HasWritten, Started
  <2>5. CASE step = "write2"
    <3>1. /\ step' = "reexec"
          /\ file'["system.conf"] = set /\ file'["limits.conf"] = file["limits.conf"]
      BY <1>1, <2>5, AtFileType DEF AfterFile, StartupInv, StartupTypeOK, Files
    <3> QED BY <1>1, <1>2, <1>3, <1>4, <2>1, <2>3, <2>5, <3>1, AtFileType
            DEF HasWritten, Started
  <2> QED BY <1>1, <2>4, <2>5, AtFileType DEF Opening
<1> QED BY <1>7, <1>8 DEF StartupInv

LEMMA WriteFailsInv ==
    ASSUME StartupInv, WriteFails
    PROVE  StartupInv'
<1>1. AtFile /\ AfterFile(done) /\ Disturb
  BY DEF WriteFails
<1>2. UNCHANGED <<vars, dir, nrOpen, conf, manager, mode, set, rlims>>
  BY DEF WriteFails
<1>3. faults' \in 0..MaxFaults /\ disturbed' = TRUE
  BY <1>1, DisturbType
<1>4. file' \in [Files -> Tiers \cup {Other}]
  <2>1. file \in [Files -> Tiers \cup {Other}]
    BY DEF StartupInv, StartupTypeOK
  <2>2. [file EXCEPT ![Writing[step]] = set] \in [Files -> Tiers \cup {Other}]
    BY <1>1, <2>1, AtFileType
  <2> QED BY <2>1, <2>2 DEF WriteFails
<1>5. main' = "limits" /\ done' \subseteq Files /\ step' \in {"open2", "reexec"}
  BY <1>1, <1>2, AtFileType DEF AfterFile, vars
<1>6. StartupTypeOK'
  BY <1>1, <1>2, <1>3, <1>4, <1>5, AtFileType DEF StartupInv, StartupTypeOK, Writing
<1> QED BY <1>3, <1>6 DEF StartupInv

LEMMA ReexecInv ==
    ASSUME StartupInv, Reexec
    PROVE  StartupInv'
<1>1. main = "limits" /\ step = "reexec" /\ set \in Tiers
  BY DEF Reexec, StartupInv, StartupTypeOK
<1>2. main' = "rlimit" /\ step' = "begin" /\ done' = {}
  BY <1>1 DEF Reexec, EndStage, StageDone, After
<1>3. UNCHANGED <<dir, nrOpen, conf, file, mode, set, rlims>>
  BY DEF Reexec
<1>4. manager' \in {manager, file["system.conf"]} /\ manager' \in Tiers \cup {Other}
  BY DEF Reexec, StartupInv, StartupTypeOK, Files
<1>5. faults' \in 0..MaxFaults /\ disturbed' \in BOOLEAN
      /\ (~disturbed' => ~disturbed
                           /\ manager' = IF done = {} THEN manager ELSE file["system.conf"])
  <2>1. faults \in 0..MaxFaults /\ disturbed \in BOOLEAN
    BY DEF StartupInv, StartupTypeOK
  <2> QED BY <2>1, DisturbType DEF Reexec
<1>6. StartupTypeOK'
  BY <1>2, <1>3, <1>4, <1>5 DEF StartupInv, StartupTypeOK
<1>7. ASSUME ~disturbed' PROVE HasRead' /\ HasWritten' /\ HasSet'
  <2>1. HasRead /\ HasWritten
    BY <1>5, <1>7 DEF StartupInv
  <2>2. DetectTemplateSet' = DetectTemplateSet
    BY <1>3 DEF DetectTemplateSet
  <2>3. file["limits.conf"] = set /\ file["system.conf"] = set /\ manager' = set
    BY <1>1, <1>5, <1>7, <2>1 DEF HasWritten
  <2> QED BY <1>1, <1>2, <1>3, <2>1, <2>2, <2>3 DEF HasRead, HasWritten, HasSet, Started
<1> QED BY <1>6, <1>7 DEF StartupInv

\* A limit of the tier whose parameters are in force is not refused.
LEMMA NotRefused ==
    ASSUME StartupInv, InForce, conf = set, NEW r \in Resources
    PROVE  ~Refused(r)
<1>1. set \in Tiers /\ nrOpen = Limits[set].nrOpen
  BY DEF InForce
<1>2. Limits[set].nofile <= Limits[set].nrOpen
  BY <1>1, StartupAssumption
<1>3. Limits[set].nofile \in Nat /\ Limits[set].nrOpen \in Nat
  BY <1>1, StartupAssumption
<1>4. Bytes(set, "nofile") = Limits[set].nofile
  BY DEF Bytes
<1> QED BY <1>1, <1>2, <1>3, <1>4 DEF Refused

LEMMA SetLimitInv ==
    ASSUME StartupInv, NEW r \in Resources, SetLimit(r)
    PROVE  StartupInv'
<1>1. main = "rlimit" /\ step = "set" /\ set \in Tiers /\ done \subseteq Resources
  BY DEF SetLimit, AtLimit, StartupInv, StartupTypeOK, Writing
<1>2. UNCHANGED <<vars, system, mode, set, step, disturbed, faults>> /\ done' = done \cup {r}
  BY DEF SetLimit
<1>3. main' = main
  BY <1>2 DEF vars
<1>4. rlims \in [Resources -> Nat] /\ rlims' \in [Resources -> Nat]
  BY <1>1, BytesIsNat DEF SetLimit, StartupInv, StartupTypeOK
<1>5. StartupTypeOK'
  BY <1>1, <1>2, <1>3, <1>4 DEF StartupInv, StartupTypeOK, system
<1>6. ASSUME ~disturbed' PROVE HasRead' /\ HasWritten' /\ HasSet'
  <2>1. HasRead /\ HasWritten /\ HasSet
    BY <1>2, <1>6 DEF StartupInv
  <2>2. DetectTemplateSet' = DetectTemplateSet
    BY <1>2 DEF DetectTemplateSet, system
  <2>3. HasRead' /\ HasWritten'
    BY <1>1, <1>2, <1>3, <2>1, <2>2 DEF HasRead, HasWritten, Started, system
  <2>4. ASSUME InForce', NEW s \in done' PROVE rlims'[s] = Bytes(set, s)'
    <3>1. InForce /\ conf = set
      BY <1>1, <1>2, <2>1, <2>4, StartupAssumption DEF InForce, system, HasRead, NoTier
    <3>2. rlims' = [rlims EXCEPT ![r] = Bytes(set, r)]
      BY <3>1, NotRefused DEF SetLimit
    <3>3. s \in Resources /\ Bytes(set, s)' = Bytes(set, s)
      BY <1>1, <1>2, <2>4 DEF Bytes
    <3>4. CASE s = r
      BY <1>4, <3>2, <3>3, <3>4
    <3>5. CASE s # r
      <4>1. rlims[s] = Bytes(set, s)
        BY <1>1, <1>2, <2>1, <2>4, <3>1, <3>5 DEF HasSet
      <4> QED BY <1>4, <3>2, <3>3, <3>5, <4>1
    <3> QED BY <3>4, <3>5
  <2>5. HasSet'
    BY <1>1, <1>3, <2>4 DEF HasSet, Started
  <2> QED BY <2>3, <2>5
<1> QED BY <1>5, <1>6 DEF StartupInv

LEMMA SetLimitFailsInv ==
    ASSUME StartupInv, NEW r \in Resources, SetLimitFails(r)
    PROVE  StartupInv'
<1>1. main = "rlimit" /\ step = "set" /\ set \in Tiers /\ done \subseteq Resources
  BY DEF SetLimitFails, AtLimit, StartupInv, StartupTypeOK, Writing
<1>2. UNCHANGED <<vars, system, mode, set, step, rlims>> /\ done' = done \cup {r}
  BY DEF SetLimitFails
<1>3. main' = main
  BY <1>2 DEF vars
<1>4. faults' \in 0..MaxFaults /\ disturbed' = TRUE
  BY DisturbType DEF SetLimitFails
<1>5. StartupTypeOK'
  BY <1>1, <1>2, <1>3, <1>4 DEF StartupInv, StartupTypeOK, system
<1> QED BY <1>4, <1>5 DEF StartupInv

LEMMA RlimitDoneInv ==
    ASSUME StartupInv, RlimitDone
    PROVE  StartupInv'
<1>1. main = "rlimit" /\ step = "set" /\ done = Resources
      /\ UNCHANGED <<system, mode, set, rlims, disturbed, faults>>
  BY DEF RlimitDone
<1>2. main' = "apply" /\ step' = "begin" /\ done' = {}
  BY <1>1 DEF RlimitDone, EndStage, StageDone, After
<1>3. StartupTypeOK'
  BY <1>1, <1>2 DEF StartupInv, StartupTypeOK, system
<1>4. ASSUME ~disturbed' PROVE HasRead' /\ HasWritten' /\ HasSet'
  <2>1. HasRead /\ HasWritten /\ HasSet
    BY <1>1, <1>4 DEF StartupInv
  <2>2. DetectTemplateSet' = DetectTemplateSet
    BY <1>1 DEF DetectTemplateSet, system
  <2>3. HasRead' /\ HasWritten'
    BY <1>1, <1>2, <2>1, <2>2 DEF HasRead, HasWritten, Started, system
  <2>4. ASSUME NEW s PROVE Bytes(set, s)' = Bytes(set, s)
    BY <1>1 DEF Bytes
  <2>5. InForce' <=> InForce
    BY <1>1 DEF InForce, system
  <2>6. HasSet'
    BY <1>1, <1>2, <2>1, <2>4, <2>5 DEF HasSet, Started
  <2> QED BY <2>3, <2>6
<1> QED BY <1>3, <1>4 DEF StartupInv

-----------------------------------------------------------------------------
LEMMA StartupInvStep == StartupInv /\ [StartupNext]_allVars => StartupInv'
<1> SUFFICES ASSUME StartupInv, [StartupNext]_allVars PROVE StartupInv'
  OBVIOUS
<1>1. CASE Applying
  <2>1. CASE Resolve \/ Validate \/ Sysctl
    BY <2>1, ResolveInv, ValidateInv, SysctlInv
  <2>2. CASE SysctlFails \/ LimitsCancelled \/ RlimitCancelled
             \/ (main = "apply" /\ StageFails /\ Dies)
    BY <2>2, FailsInv DEF SysctlFails, LimitsCancelled, RlimitCancelled
  <2>3. CASE Detect("limits", "open1") \/ Detect("rlimit", "set")
    BY <2>3, DetectInv
  <2>4. CASE Truncate \/ Write \/ WriteFails \/ Reexec
    BY <2>4, TruncateInv, WriteInv, WriteFailsInv, ReexecInv
  <2>5. CASE RlimitDone \/ \E r \in Resources : SetLimit(r) \/ SetLimitFails(r)
    BY <2>5, RlimitDoneInv, SetLimitInv, SetLimitFailsInv
  <2>6. CASE Spawn /\ UNCHANGED <<system, process, faults>>
    BY <2>6, StaysInv DEF Spawn, Started
  <2> QED BY <1>1, <2>1, <2>2, <2>3, <2>4, <2>5, <2>6 DEF Applying
<1>2. CASE HandlingC \/ RunningC \/ WatchingC \/ SystemdC \/ Outside
  BY <1>2, CarryInv DEF HandlingC, RunningC, WatchingC, SystemdC, Outside
<1>3. CASE RebootC \/ EditTemplates
  BY <1>3, RebootInv, EditInv
<1>4. CASE UNCHANGED allVars
  BY <1>4, StaysInv DEF allVars, vars
<1> QED BY <1>1, <1>2, <1>3, <1>4 DEF StartupNext

-----------------------------------------------------------------------------
\* Every variable keeps a value the program can give it; in particular an applier
\* writes or sets nothing before it has read a tier.
THEOREM StartupTypeCorrect == StartupSpec => []StartupTypeOK
<1>1. StartupInv => StartupTypeOK
  BY DEF StartupInv
<1> QED BY <1>1, StartupInvInit, StartupInvStep, PTL DEF StartupSpec

\* The order of Run matters: when the daemon sets its own limits, the sysctl
\* applier has already raised what the kernel checks them against.
THEOREM RuntimeGuaranteedHolds == StartupSpec => []RuntimeGuaranteed
<1>1. StartupInv => RuntimeGuaranteed
  BY DEF StartupInv, HasSet, RuntimeGuaranteed
<1> QED BY <1>1, StartupInvInit, StartupInvStep, PTL DEF StartupSpec

\* Files cut short by earlier starts are written again, and systemd loads them
\* before the daemon shapes.
THEOREM SameForAllHolds == StartupSpec => []SameForAll
<1>1. StartupInv => SameForAll
  <2> SUFFICES ASSUME StartupInv, Started, ~disturbed, set # NoTier, NEW r \in Resources,
                      Limits[set].stack * KB < Word
               PROVE  OfSession(r) = Bytes(set, r) /\ OfService(r) = Bytes(set, r)
    BY DEF SameForAll
  <2>1. file["limits.conf"] = set /\ manager = set /\ set \in Tiers
    BY DEF StartupInv, HasWritten, StartupTypeOK
  <2>2. Limits[set].stack * KB \in Nat /\ Word \in Nat
    BY <2>1, StartupAssumption, Product
  <2>3. ASSUME NEW n \in Nat, NEW w \in Nat, n < w PROVE n % w = n
    BY <2>3
  <2>4. (Limits[set].stack * KB) % Word = Limits[set].stack * KB
    BY <2>2, <2>3
  <2> QED BY <2>1, <2>4 DEF OfSession, OfService, Bytes
<1> QED BY <1>1, StartupInvInit, StartupInvStep, PTL DEF StartupSpec

\* The mode with the best priority is one there is a file for, and validateTemplateDir
\* has seen to it that there is a mode to choose.
THEOREM TemplateFoundHolds == StartupSpec => []TemplateFound
<1>1. StartupInv => TemplateFound
  <2> SUFFICES ASSUME StartupInv, main = "sysctl", ~disturbed, dir.bad = {},
                      Asked \in dir.modes \cup {""}
               PROVE  mode \in dir.modes
    BY DEF TemplateFound
  <2>1. Valid(dir) /\ mode = LoadTrafficInitConfig(dir) /\ dir \in Directories
    BY DEF StartupInv, HasRead, StartupTypeOK
  <2>2. CASE Asked = ""
    <3>1. DetectTrafficMode(dir) \in dir.modes
      BY <2>1, DetectTrafficModeFound DEF Valid
    <3> QED BY <2>1, <2>2, <3>1 DEF LoadTrafficInitConfig, Parsed, Valid
  <2>3. CASE Asked # ""
    BY <2>1, <2>3 DEF LoadTrafficInitConfig, Parsed
  <2> QED BY <2>2, <2>3
<1> QED BY <1>1, StartupInvInit, StartupInvStep, PTL DEF StartupSpec
=============================================================================
