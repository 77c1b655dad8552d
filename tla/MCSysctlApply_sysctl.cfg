SPECIFICATION Spec
CONSTANTS
    somaxconn = somaxconn
    conntrack = conntrack
    ownkey = ownkey
    Keys = {somaxconn, conntrack, ownkey}
    Params = {somaxconn, conntrack}
    KernelKeys = {somaxconn, ownkey}
    Faults = {"template", "read", "write", "reload", "hugepage", "cancel", "kill", "power", "reboot"}
INVARIANTS
    TypeOK
    AppliedInFile
    AppliedInKernel
    HugepageSet
    OtherLinesKept
