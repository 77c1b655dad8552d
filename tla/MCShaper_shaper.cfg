SPECIFICATION Spec
CONSTANTS
    eth0 = eth0
    eth1 = eth1
    eth2 = eth2
    veth0 = veth0
    ifb0 = ifb0
    ifb1 = ifb1
    ifbV = ifbV
    s1 = s1
    s2 = s2
    s3 = s3
    NoSig = NoSig
    NoIfb = NoIfb
    Dead = Dead
    Ifaces = {eth0, eth1, eth2}
    Skipped = {veth0}
    Ifbs = {ifb0, ifb1, ifbV}
    IfbOf <- AllIfbs
    Sigs = {s1, s2, s3}
    BadSigs = {s3}
    MaxWorkers = 2
    PoolReturns = TRUE
    Machines = {{eth0, veth0}, {eth1, eth2}}
    Asks <- AllAsk
    MayFail = {"cleanup", "worker"}
    Stuck = {ifb1}
    Vanishing = {ifb0, ifbV}
    Drifting = {eth1}
    NamesReused = TRUE
INVARIANTS
    TypeOK
    NoDeadRedirect
    NoSkippedRedirect
PROPERTIES
    FinishesShaped
    SkipIsSound
    NoOrphanIfb
