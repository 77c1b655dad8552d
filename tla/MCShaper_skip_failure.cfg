SPECIFICATION Spec
CONSTANTS
    eth0 = eth0
    eth1 = eth1
    eth2 = eth2
    veth0 = veth0
    ifb0 = ifb0
    ifb1 = ifb1
    ifbV = ifbV
    s1 = s1
    s2 = s2
    s3 = s3
    NoSig = NoSig
    NoIfb = NoIfb
    Dead = Dead
    Ifaces = {eth0}
    Skipped = {}
    Ifbs = {ifb0}
    IfbOf <- OneIfb
    Sigs = {s1, s2}
    BadSigs = {}
    MaxWorkers = 2
    PoolReturns = TRUE
    Machines = {{eth0}}
    Asks <- OneAsks
    MayFail = {"cleanup", "worker"}
    Stuck = {ifb0}
    Vanishing = {}
    Drifting = {}
    NamesReused = FALSE
PROPERTY
    SkippedIsConfigured
