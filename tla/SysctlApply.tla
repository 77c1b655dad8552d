---------------------------- MODULE SysctlApply -----------------------------
(***************************************************************************)
(* SysctlConfApplier.Apply of internal/syslimit/sysctlconf.go over several *)
(* lives of the daemon: the file it merges its templates into, the kernel  *)
(* parameters and the transparent hugepage mode it is to set with it.      *)
(*                                                                         *)
(* Each call of Apply that can be cut short is a step of its own: reading  *)
(* the file, truncating, writing and syncing it, `sysctl --system`, the    *)
(* hugepage mode.  Between two lives the administrator may edit the file   *)
(* and the machine may be rebooted.  A line of the file is what the merge  *)
(* writes for a key ("tpl"), the same value spelled in another way, or     *)
(* another value.                                                          *)
(***************************************************************************)
EXTENDS FiniteSets

CONSTANTS
    Keys,        \* the keys of sysctl.conf
    Params,      \* those the templates have a value for
    KernelKeys,  \* those the running kernel knows
    Faults       \* what may go wrong, see AllFaults

AllFaults == {"template", "read", "write", "reload", "hugepage", "cancel", "kill",
              "power", "reboot"}

ASSUME SysctlAssumption ==
    /\ Params \subseteq Keys /\ Params # {}
    /\ KernelKeys \subseteq Keys
    /\ Faults \subseteq AllFaults

Lines == {"tpl", "spelled", "other"}
Absent == "absent"
Files == [Keys -> Lines \cup {Absent}]
Values == {"default", "tpl", "other"}

Phases == {"down", "start", "truncate", "write", "sync", "reload", "hugepage",
           "applied", "failed"}

VARIABLES
    file,      \* sysctl.conf as programs read it
    disk,      \* ... as a power failure leaves it
    admin,     \* ghost: the file as the administrator left it
    kernel,    \* the parameters in force
    thp,       \* the transparent hugepage mode
    phase,     \* the next step of Apply; "applied" and "failed" are its ends
    merged,    \* what Apply is going to write
    cancelled, \* the context of this life is cancelled
    harmed     \* ghost: what a fault has put out of step, and nothing has put
               \* right since: the "kernel" or "thp" with a settled file, the
               \* "lines" of other keys with those of the administrator

vars == <<file, disk, admin, kernel, thp, phase, merged, cancelled, harmed>>

Empty == [k \in Keys |-> Absent]
InFile(f) == {k \in Keys : f[k] # Absent}
Means(line) == IF line = "other" THEN "other" ELSE "tpl"

\* What the parameters are once those of f in ks have been loaded.
Loaded(f, ks, now) ==
    [k \in KernelKeys |-> IF k \in ks \cap InFile(f) THEN Means(f[k]) ELSE now[k]]

Boot(f) == Loaded(f, Keys, [k \in KernelKeys |-> "default"])

\* merge: the templates' keys get the templates' lines, in place or appended;
\* every other line is kept.  An empty file is no special case.
Merge(existing) ==
    [k \in Keys |-> IF k \in Params THEN "tpl" ELSE existing[k]]

\* isConfigUnchanged compares the texts.
Settled(f) == Merge(f) = f

\* A machine that has booted with a file tcsss has not been at.
Init ==
    /\ file \in {f \in Files : ~Settled(f)}
    /\ disk = file
    /\ admin = file
    /\ kernel = Boot(file)
    /\ thp = "default"
    /\ phase = "down"
    /\ merged = Empty
    /\ cancelled = FALSE
    /\ harmed = {}

-----------------------------------------------------------------------------
(***************************************************************************)
(* Apply.                                                                  *)
(***************************************************************************)

\* systemd starts the daemon: by hand, or again after a failure.
Start ==
    /\ phase \in {"down", "failed"}
    /\ phase' = "start"
    /\ cancelled' = FALSE
    /\ UNCHANGED <<file, disk, admin, kernel, thp, merged, harmed>>

\* The early returns: the context is cancelled already, or the template of the
\* traffic mode cannot be read.
StartFails ==
    /\ phase = "start"
    /\ cancelled \/ "template" \in Faults
    /\ phase' = "failed"
    /\ UNCHANGED <<file, disk, admin, kernel, thp, merged, cancelled, harmed>>

MutReadForgetsMerge ==
    /\ phase = "start"
    /\ ~cancelled
    /\ merged' = file
    /\ phase' = IF Settled(file) THEN "applied" ELSE "truncate"
    /\ UNCHANGED <<file, disk, admin, kernel, thp, cancelled, harmed>>

\* loadExistingConfig, merge and isConfigUnchanged.  A file that cannot be read
\* counts as an empty one.  Nothing else is done when the file is as it would be
\* written.
Read ==
    /\ phase = "start"
    /\ ~cancelled
    /\ \E existing \in {file} \cup IF "read" \in Faults THEN {Empty} ELSE {} :
         /\ merged' = Merge(existing)
         /\ phase' = IF merged' = existing THEN "applied" ELSE "truncate"
         /\ harmed' = harmed \cup IF existing = file THEN {} ELSE {"lines"}
    /\ UNCHANGED <<file, disk, admin, kernel, thp, cancelled>>

\* writeFileWithSync: open with O_TRUNC ...
Truncate ==
    /\ phase = "truncate"
    /\ file' = Empty
    /\ phase' = "write"
    /\ UNCHANGED <<disk, admin, kernel, thp, merged, cancelled, harmed>>

MutWriteDropsOthers ==
    /\ phase = "write"
    /\ file' = [k \in Keys |-> IF k \in Params THEN merged[k] ELSE Absent]
    /\ phase' = "sync"
    /\ UNCHANGED <<disk, admin, kernel, thp, merged, cancelled, harmed>>

\* ... write ...
Write ==
    /\ phase = "write"
    /\ file' = merged
    /\ phase' = "sync"
    /\ UNCHANGED <<disk, admin, kernel, thp, merged, cancelled, harmed>>

\* ... and sync.
Sync ==
    /\ phase = "sync"
    /\ disk' = file
    /\ phase' = "reload"
    /\ UNCHANGED <<file, admin, kernel, thp, merged, cancelled, harmed>>

\* What a write that stops in the middle leaves: some of the lines, the last of
\* them perhaps cut short, which makes it another value.
Torn ==
    {f \in Files :
       /\ \A k \in Keys : f[k] \in {merged[k], Absent, "other"}
       /\ f # merged}

MutWriteFailsForgiven ==
    /\ "write" \in Faults
    /\ phase \in {"truncate", "write", "sync"}
    /\ IF phase = "write" THEN file' \in Torn ELSE UNCHANGED file
    /\ harmed' = {"kernel", "thp", "lines"}
    /\ phase' = "reload"
    /\ UNCHANGED <<disk, admin, kernel, thp, merged, cancelled>>

\* The file cannot be opened, written or synced: the daemon ends.
WriteFails ==
    /\ "write" \in Faults
    /\ phase \in {"truncate", "write", "sync"}
    /\ IF phase = "write" THEN file' \in Torn ELSE UNCHANGED file
    /\ harmed' = {"kernel", "thp", "lines"}
    /\ phase' = "failed"
    /\ UNCHANGED <<disk, admin, kernel, thp, merged, cancelled>>

MutReloadEndsHere ==
    /\ phase = "reload"
    /\ kernel' = Loaded(file, InFile(file), kernel)
    /\ phase' = IF InFile(file) \ KernelKeys # {} THEN "applied" ELSE "hugepage"
    /\ harmed' = harmed \ {"kernel"}
    /\ UNCHANGED <<file, disk, admin, thp, merged, cancelled>>

MutReloadStopsAtUnknown ==
    /\ phase = "reload"
    /\ \E done \in IF InFile(file) \subseteq KernelKeys THEN {InFile(file)}
                   ELSE SUBSET InFile(file) :
         kernel' = Loaded(file, done, kernel)
    /\ phase' = "hugepage"
    /\ harmed' = harmed \ {"kernel"}
    /\ UNCHANGED <<file, disk, admin, thp, merged, cancelled>>

\* `sysctl --system` and handleReloadResult.  Keys the kernel does not know are
\* reported ("cannot stat") and make the command fail; a failure that reports
\* one is taken for a success, whatever else went wrong.  The command may be
\* refused a value, or be killed with the context.
Reload ==
    /\ phase = "reload"
    /\ \E done \in IF "reload" \in Faults \/ cancelled THEN SUBSET InFile(file)
                   ELSE {InFile(file)} :
         /\ kernel' = Loaded(file, done, kernel)
         /\ phase' = IF done = InFile(file) \/ done \ KernelKeys # {}
                     THEN "hugepage" ELSE "failed"
         /\ harmed' = IF done = InFile(file) THEN harmed \ {"kernel"}
                                             ELSE harmed \cup {"kernel", "thp"}
    /\ UNCHANGED <<file, disk, admin, thp, merged, cancelled>>

\* setTransparentHugepage, which is skipped when the context is cancelled; Apply
\* succeeds without it as well.
SetHugepage ==
    /\ phase = "hugepage"
    /\ \/ ~cancelled /\ thp' = "madvise" /\ harmed' = harmed \ {"thp"}
       \/ /\ cancelled \/ "hugepage" \in Faults
          /\ harmed' = harmed \cup {"thp"}
          /\ UNCHANGED thp
    /\ phase' = "applied"
    /\ UNCHANGED <<file, disk, admin, kernel, merged, cancelled>>

-----------------------------------------------------------------------------
(***************************************************************************)
(* What happens around it.                                                 *)
(***************************************************************************)
Running == phase \notin {"down", "failed"}

\* A signal; the rest of Run ends when it sees it.
Cancel ==
    /\ "cancel" \in Faults
    /\ Running
    /\ ~cancelled
    /\ cancelled' = TRUE
    /\ UNCHANGED <<file, disk, admin, kernel, thp, phase, merged, harmed>>

\* The daemon, which has gone on with its work, ends.
Stop ==
    /\ phase = "applied"
    /\ phase' = "down"
    /\ UNCHANGED <<file, disk, admin, kernel, thp, merged, cancelled, harmed>>

\* SIGKILL, a panic: at any step.
Kill ==
    /\ "kill" \in Faults
    /\ Running
    /\ phase' = "down"
    /\ harmed' = IF phase \in {"start", "applied"} THEN harmed
                                                  ELSE {"kernel", "thp", "lines"}
    /\ UNCHANGED <<file, disk, admin, kernel, thp, merged, cancelled>>

\* The system starts again and loads the file; the hugepage mode is not kept.
Restarted(f, lost) ==
    /\ file' = f
    /\ disk' = f
    /\ kernel' = Boot(f)
    /\ thp' = "default"
    /\ phase' = "down"
    /\ harmed' = (harmed \ {"kernel"}) \cup {"thp"} \cup lost
    /\ UNCHANGED <<admin, merged, cancelled>>

Reboot ==
    /\ "reboot" \in Faults
    /\ phase = "down"
    /\ Restarted(file, {})

\* The power fails: what was not synced may be lost, or its length only.
PowerFailure ==
    /\ "power" \in Faults
    /\ \E f \in {disk, file} \cup IF disk # file THEN {Empty} ELSE {} :
         Restarted(f, IF Running \/ disk # file THEN {"lines"} ELSE {})

\* The administrator edits a line, of a key the templates set or not.  The text
\* the merge writes is not what he types.
Edit ==
    /\ phase = "down"
    /\ \E k \in Keys, line \in {"spelled", "other", Absent} :
         /\ file' = [file EXCEPT ![k] = line]
         /\ file' # file
         /\ admin' = file'
         /\ disk' = file'
    /\ harmed' = harmed \ {"lines"}
    /\ UNCHANGED <<kernel, thp, phase, merged, cancelled>>

Apply ==
    \/ StartFails \/ Read
    \/ Truncate \/ Write \/ Sync \/ WriteFails
    \/ Reload \/ SetHugepage

Next ==
    \/ Start \/ Apply
    \/ Cancel \/ Stop \/ Kill
    \/ Reboot \/ PowerFailure \/ Edit

Spec == Init /\ [][Next]_vars

-----------------------------------------------------------------------------
(***************************************************************************)
(* Properties.                                                             *)
(***************************************************************************)

\* Every variable has a value the program can give it; what is going to be
\* written is settled.
TypeOK ==
    /\ {file, disk, admin, merged} \subseteq Files
    /\ kernel \in [KernelKeys -> Values]
    /\ thp \in {"default", "madvise"}
    /\ phase \in Phases
    /\ cancelled \in BOOLEAN
    /\ harmed \subseteq {"kernel", "thp", "lines"}
    /\ phase \in {"truncate", "write", "sync"} => Settled(merged)

\* Whatever has failed before, when Apply succeeds the file has the templates'
\* line for each of their keys: the next start changes nothing.
AppliedInFile == phase = "applied" => Settled(file)

InForce == \A k \in Params \cap KernelKeys : kernel[k] = "tpl"

\* When Apply succeeds the parameters of the templates that the kernel knows
\* are in force, unless a write, a reload or the daemon was cut short and
\* neither a complete reload nor a reboot has come since.
AppliedInKernel == phase = "applied" /\ "kernel" \notin harmed => InForce

\* "Apply kernel parameters (sysctl)": they are in force whenever it succeeds.
AppliedMeansInForce == phase = "applied" => InForce

\* When Apply succeeds the hugepage mode is set, unless the same faults, a
\* reboot or a failure to set it have come since it was.
HugepageSet == phase = "applied" /\ "thp" \notin harmed => thp = "madvise"

\* The administrator's other lines survive ("preserving other lines"), unless
\* the file could not be read or its writing was cut short.
OtherLinesKept ==
    phase \in {"down", "applied", "failed"} /\ "lines" \notin harmed =>
        \A k \in Keys \ Params : file[k] = admin[k]

=============================================================================
