------------------------------- MODULE Startup -------------------------------
(***************************************************************************)
(* What Run does before it shapes, as part of Daemon's life: the templates *)
(* of internal/config/selector.go, and the three appliers that each read   *)
(* them anew, of the sysctl parameters, the limits of sessions and         *)
(* services (internal/syslimit/limits.go) and the daemon's own limits      *)
(* (rlimit.go).  They act on each other: setrlimit refuses more open files *)
(* than fs.nr_open, which the first applier sets, and a process starts     *)
(* with the limits systemd has got from the second.                        *)
(*                                                                         *)
(* The sysctl applier is one step: SysctlApply opens it up.                *)
(***************************************************************************)
EXTENDS Daemon, Integers

CONSTANTS
    Tiers,           \* sizes of limits_*.conf, in the unit of Memory
    Limits,          \* what each of them says
    Memory,          \* the system's
    MaximumSupported,
    Directories,     \* what the template directory may hold
    Asked,           \* --mode
    UnitNofile,      \* LimitNOFILE of the unit
    DefaultNrOpen,
    DefaultStack,
    MaxFaults,       \* of the disturbances below there are at most so many
    KB,              \* 1024 ...
    Word             \* ... and 2^64

Files == {"limits.conf", "system.conf"}
Resources == {"nofile", "stack"}
Modes == {"client", "server", "aggregate"}
NoTier == 0
Other == -1          \* content of the administrator's, or that was cut short

\* stack is in KB.
ASSUME StartupAssumption ==
    /\ Tiers \subseteq Nat \ {0}
    /\ Limits \in [Tiers -> [nofile : Nat, stack : Nat, nrOpen : Nat]]
    /\ \A t \in Tiers : Limits[t].nofile <= Limits[t].nrOpen
    /\ Memory \in Int /\ MaximumSupported \in Nat
    /\ Directories \subseteq [common : BOOLEAN, tiers : SUBSET Tiers,
                              modes : SUBSET Modes, bad : SUBSET Modes]
    /\ Asked \in Modes \cup {"", "unknown"}
    /\ {UnitNofile, DefaultNrOpen, DefaultStack} \subseteq Nat
    /\ MaxFaults \in Nat
    /\ KB \in Nat /\ Word \in Nat \ {0}

VARIABLES
    dir,       \* the template directory
    nrOpen,    \* fs.nr_open
    conf,      \* the tier that sysctl.conf has been merged with
    file,      \* the tier each of Files has been written for
    manager,   \* ... and that systemd has loaded its defaults of
    mode,      \* this process: initConfig.Mode
    set,       \* the tier of the TemplateSet of the applier at work
    step,      \* the statement the applier is at
    done,      \* the files it has written, or the limits it has been at
    rlims,     \* the limits of this process
    disturbed, \* ghost: in this life, a step has failed or dir has changed
    faults     \* ... which has happened so many times in all

system == <<dir, nrOpen, conf, file, manager>>
process == <<mode, set, step, done, rlims, disturbed>>
allVars == <<vars, system, process, faults>>

-----------------------------------------------------------------------------
(***************************************************************************)
(* Templates.                                                              *)
(***************************************************************************)
Priority == [client |-> 1, server |-> 2, aggregate |-> 3]

\* The files validateTemplateDir asks for: common.conf, one for a tier, one for a
\* mode.
Valid(d) == d.common /\ d.tiers # {} /\ d.modes # {}

\* The greatest tier within 80 % of the memory, or else the smallest one.
SelectBestMemoryTier(tiers) ==
    LET fitting == {t \in tiers : 5 * t <= 4 * Memory} IN
    IF fitting # {} THEN CHOOSE t \in fitting : \A u \in fitting : u <= t
                    ELSE CHOOSE t \in tiers : \A u \in tiers : t <= u

DetectTemplateSet ==
    IF dir.tiers = {} \/ ~dir.common \/ Memory <= 0 \/ Memory > MaximumSupported THEN NoTier
    ELSE SelectBestMemoryTier(dir.tiers)

MutDetectTrafficMode(d) == "client"

\* The mode with the best priority among those the directory has a file for.
DetectTrafficMode(d) ==
    CHOOSE m \in d.modes : \A n \in d.modes : Priority[m] <= Priority[n]

\* The templates that can be read and of which the three windows can be evaluated,
\* products of numbers that are not negative.
Parsed(d) == d.modes \ d.bad

\* The mode asked for, or the one detected; client when that mode is not known,
\* or its template cannot be read or parsed.
LoadTrafficInitConfig(d) ==
    LET selected == IF Asked # "" THEN Asked
                    ELSE IF d.modes # {} THEN DetectTrafficMode(d) ELSE "unknown"
    IN IF selected \in Parsed(d) THEN selected ELSE "client"

-----------------------------------------------------------------------------
(***************************************************************************)
(* Limits.                                                                 *)
(***************************************************************************)

MutBytesInKB(t, r) ==
    IF r = "stack" THEN Limits[t].stack ELSE Limits[t].nofile

\* In rlimit.go and for system.conf the stack is multiplied in a uint64.
Bytes(t, r) ==
    IF r = "stack" THEN (Limits[t].stack * KB) % Word ELSE Limits[t].nofile

\* The limit of a login session, for which PAM reads the number as KB, of a
\* service systemd starts, and of the daemon when it starts.
OfSession(r) ==
    IF r = "stack" THEN Limits[file["limits.conf"]].stack * KB
    ELSE Limits[file["limits.conf"]].nofile
OfService(r) == Bytes(manager, r)
Inherited ==
    [r \in Resources |->
       IF r = "nofile" THEN UnitNofile
       ELSE IF manager \in Tiers THEN OfService(r) ELSE DefaultStack]

-----------------------------------------------------------------------------
StartupInit ==
    /\ Init
    /\ dir \in Directories
    /\ nrOpen = DefaultNrOpen
    /\ conf = Other
    /\ file = [f \in Files |-> Other]
    /\ manager = Other
    /\ mode = ""
    /\ set = NoTier
    /\ step = "begin"
    /\ done = {}
    /\ rlims = Inherited
    /\ disturbed = FALSE
    /\ faults = 0

Fresh ==
    /\ mode' = ""
    /\ set' = NoTier
    /\ step' = "begin"
    /\ done' = {}
    /\ rlims' = Inherited
    /\ disturbed' = FALSE
    /\ UNCHANGED faults

Disturb ==
    /\ faults < MaxFaults
    /\ faults' = faults + 1
    /\ disturbed' = TRUE

EndStage ==
    /\ StageDone
    /\ step' = "begin"
    /\ done' = {}

\* The process ends, or a new one begins.  The sysctl applier may have got as far
\* as sysctl.conf.
Dies ==
    /\ \/ UNCHANGED conf
       \/ main = "sysctl" /\ conf' \in {Other} \cup {t \in Tiers : t = DetectTemplateSet}
    /\ Fresh
    /\ UNCHANGED <<dir, nrOpen, file, manager>>

\* resolveTemplateDir.  Of its four candidates dir is the first that is valid; when
\* it is not valid, none is.
Resolve ==
    \/ SignalContext /\ Valid(dir) /\ UNCHANGED <<system, process, faults>>
    \/ NoTemplates /\ ~Valid(dir) /\ Dies

\* ValidateKernelModules, ValidateRuntime and LoadTrafficInitConfig.
Validate ==
    /\ main = "validate"
    /\ \/ /\ EndStage
          /\ mode' = LoadTrafficInitConfig(dir)
          /\ UNCHANGED <<system, set, rlims, disturbed, faults>>
       \/ StageFails /\ Dies

\* Each applier begins with a DetectTemplateSet of its own.
DetectSet(t) ==
    /\ set' = t
    /\ \/ t = DetectTemplateSet /\ UNCHANGED <<disturbed, faults>>
       \/ t = NoTier /\ Disturb

\* SysctlConfApplier.Apply: a file that is as it would be written is not loaded
\* again, and a reload that does not set everything may be taken for a success.
\* Without a TemplateSet the merge keeps the tier there is.
Sysctl ==
    /\ main = "sysctl"
    /\ mode \in dir.modes
    /\ EndStage
    /\ \E t \in Tiers \cup {NoTier} :
         /\ DetectSet(t)
         /\ IF t \in {conf, NoTier} THEN UNCHANGED <<conf, nrOpen>>
            ELSE conf' = t /\ nrOpen' \in {nrOpen, Limits[t].nrOpen}
    /\ UNCHANGED <<dir, file, manager, mode, rlims>>

SysctlFails == main = "sysctl" /\ StageFails /\ Dies

(***************************************************************************)
(* LimitsConfApplier.Apply.                                                *)
(***************************************************************************)
MutDetectGoesOn(stage, first) ==
    /\ main = stage /\ step = "begin"
    /\ \E t \in Tiers \cup {NoTier} : DetectSet(t)
    /\ step' = first
    /\ UNCHANGED <<vars, done, system, mode, rlims>>

\* Nothing is done without a TemplateSet.
Detect(stage, first) ==
    /\ main = stage /\ step = "begin"
    /\ \E t \in Tiers \cup {NoTier} :
         /\ DetectSet(t)
         /\ IF t = NoTier THEN EndStage
            ELSE step' = first /\ UNCHANGED <<vars, done>>
    /\ UNCHANGED <<system, mode, rlims>>

Writing ==
    [s \in {"open1", "write1", "open2", "write2"} |->
       IF s \in {"open1", "write1"} THEN "limits.conf" ELSE "system.conf"]
AtFile == main = "limits" /\ step \in DOMAIN Writing
Opening == step \in {"open1", "open2"}

\* The next file; after the last one, daemon-reexec if there is one written.
AfterFile(written) ==
    /\ done' = written
    /\ step' = IF Writing[step] = "limits.conf" THEN "open2" ELSE "reexec"

Truncate ==
    /\ AtFile /\ Opening
    /\ file' = [file EXCEPT ![Writing[step]] = Other]
    /\ step' = IF step = "open1" THEN "write1" ELSE "write2"
    /\ UNCHANGED <<vars, dir, nrOpen, conf, manager, mode, set, done, rlims, disturbed, faults>>

Write ==
    /\ AtFile /\ ~Opening
    /\ file' = [file EXCEPT ![Writing[step]] = set]
    /\ AfterFile(done \cup {Writing[step]})
    /\ UNCHANGED <<vars, dir, nrOpen, conf, manager, mode, set, rlims, disturbed, faults>>

\* The directory, the file, the write or the sync fails: the next file is tried.
WriteFails ==
    /\ AtFile
    /\ file' \in {file} \cup
                 IF Opening THEN {} ELSE {[file EXCEPT ![Writing[step]] = set]}
    /\ AfterFile(done)
    /\ Disturb
    /\ UNCHANGED <<vars, dir, nrOpen, conf, manager, mode, set, rlims>>

\* The context is looked at before each file.
LimitsCancelled == AtFile /\ Opening /\ cancelled /\ StageFails /\ Dies

\* systemctl daemon-reexec, if there is a file written; Apply succeeds without it
\* as well.
Reexec ==
    /\ main = "limits" /\ step = "reexec"
    /\ EndStage
    /\ \/ /\ manager' = IF done = {} THEN manager ELSE file["system.conf"]
          /\ UNCHANGED <<disturbed, faults>>
       \/ UNCHANGED manager /\ Disturb
       \/ UNCHANGED <<manager, faults>> /\ cancelled /\ disturbed' = TRUE
    /\ UNCHANGED <<dir, nrOpen, conf, file, mode, set, rlims>>

(***************************************************************************)
(* RlimitApplier.Apply: the limits in any order.                           *)
(***************************************************************************)
AtLimit(r) == main = "rlimit" /\ step = "set" /\ r \in Resources \ done

Refused(r) == r = "nofile" /\ Bytes(set, r) > nrOpen

SetLimit(r) ==
    /\ AtLimit(r)
    /\ rlims' = IF Refused(r) THEN rlims ELSE [rlims EXCEPT ![r] = Bytes(set, r)]
    /\ done' = done \cup {r}
    /\ UNCHANGED <<vars, system, mode, set, step, disturbed, faults>>

SetLimitFails(r) ==
    /\ AtLimit(r)
    /\ done' = done \cup {r}
    /\ Disturb
    /\ UNCHANGED <<vars, system, mode, set, step, rlims>>

RlimitCancelled == (\E r \in Resources : AtLimit(r)) /\ cancelled /\ StageFails /\ Dies

RlimitDone ==
    /\ main = "rlimit" /\ step = "set" /\ done = Resources
    /\ EndStage
    /\ UNCHANGED <<system, mode, set, rlims, disturbed, faults>>

-----------------------------------------------------------------------------
(***************************************************************************)
(* The rest of the daemon's life.                                          *)
(***************************************************************************)
Applying ==
    \/ Resolve \/ Validate \/ Sysctl \/ SysctlFails
    \/ Detect("limits", "open1") \/ Truncate \/ Write \/ WriteFails
    \/ LimitsCancelled \/ Reexec
    \/ Detect("rlimit", "set") \/ RlimitCancelled \/ RlimitDone
    \/ \E r \in Resources : SetLimit(r) \/ SetLimitFails(r)
    \/ Spawn /\ UNCHANGED <<system, process, faults>>
    \/ main = "apply" /\ StageFails /\ Dies

\* The start is over.
Started == main \in {"apply", "spawned", "select", "wait"}

\* A step of Daemon that leaves the process what it is, ends it or starts one.
Carry ==
    IF main' \in {"none", "init"} THEN Dies ELSE UNCHANGED <<system, process, faults>>

HandlingC == Handling /\ Carry
RunningC == Running /\ Carry
WatchingC == Watching /\ Carry
SystemdC == Systemd /\ Carry

\* The machine boots with the files it has.
RebootC ==
    /\ Reboot
    /\ nrOpen' = IF conf \in Tiers THEN Limits[conf].nrOpen ELSE DefaultNrOpen
    /\ manager' = file["system.conf"]
    /\ Fresh
    /\ UNCHANGED <<dir, conf, file>>

\* The administrator or a package changes the templates.  Nobody reads them while
\* the daemon shapes, so that a change meanwhile is as good as one after it.
EditTemplates ==
    /\ ~Started
    /\ dir' \in Directories \ {dir}
    /\ faults < MaxFaults
    /\ faults' = faults + 1
    /\ disturbed' = (disturbed \/ main \in Stages)
    /\ UNCHANGED <<vars, nrOpen, conf, file, manager, mode, set, step, done, rlims>>

Outside ==
    (Signal \/ PassBegins \/ WatchFails \/ StartUnit \/ StopUnit \/ StopTimeout \/ Kill)
      /\ Carry

StartupNext ==
    \/ Applying
    \/ HandlingC \/ RunningC \/ WatchingC \/ SystemdC
    \/ Outside \/ RebootC \/ EditTemplates

StartupSpec == StartupInit /\ [][StartupNext]_allVars

\* As in Daemon; the appliers do not stop on their own.
StartupFairSpec ==
    /\ StartupSpec
    /\ WF_allVars(Applying) /\ WF_allVars(HandlingC) /\ WF_allVars(RunningC)
    /\ WF_allVars(Report /\ Carry) /\ WF_allVars(PassEnds /\ Carry)
    /\ SF_allVars(WatchDone /\ Carry)
    /\ WF_allVars(SystemdC)

-----------------------------------------------------------------------------
(***************************************************************************)
(* Properties.                                                             *)
(***************************************************************************)

\* Every variable has a value the program can give it; only the limits and rlimit
\* appliers have statements between their calls, and all of them have read a tier.
StartupTypeOK ==
    /\ dir \in Directories
    /\ nrOpen \in Nat
    /\ conf \in Tiers \cup {Other}
    /\ file \in [Files -> Tiers \cup {Other}]
    /\ manager \in Tiers \cup {Other}
    /\ mode \in Modes \cup {""}
    /\ set \in Tiers \cup {NoTier}
    /\ rlims \in [Resources -> Nat]
    /\ disturbed \in BOOLEAN
    /\ faults \in 0..MaxFaults
    /\ \/ step = "begin" /\ done = {}
       \/ main = "limits" /\ step \in {"reexec"} \cup DOMAIN Writing /\ done \subseteq Files
       \/ main = "rlimit" /\ step = "set" /\ done \subseteq Resources
    /\ step # "begin" => set \in Tiers

\* The parameters of sysctl.conf are those of the kernel.
InForce == conf \in Tiers /\ nrOpen = Limits[conf].nrOpen

\* "setrlimit is applied immediately after startup to guarantee runtime
\* resources": a daemon whose start was not disturbed has the limits of its
\* tier, if the parameters are in force, whatever happened to the starts before.
RuntimeGuaranteed ==
    Started /\ ~disturbed /\ set # NoTier /\ InForce => \A r \in Resources : rlims[r] = Bytes(set, r)

\* Then a login session, a service and the daemon have the same limits, in bytes,
\* provided that the number of bytes fits the word: what starts that were cut
\* short have left in the files is gone.
SameForAll ==
    Started /\ ~disturbed /\ set # NoTier =>
        \A r \in Resources :
            Limits[set].stack * KB < Word =>
                OfSession(r) = Bytes(set, r) /\ OfService(r) = Bytes(set, r)

\* A directory that resolveTemplateDir has accepted, and in which every template
\* can be parsed, does not stop the sysctl applier for want of a traffic template,
\* unless a mode is asked for that it has no file for.
TemplateFound ==
    main = "sysctl" /\ ~disturbed /\ dir.bad = {} /\ Asked \in dir.modes \cup {""}
        => mode \in dir.modes

=============================================================================
