SPECIFICATION FairSpec
CONSTANTS
    eth0 = eth0
    eth1 = eth1
    Names = {eth0, eth1}
    NoName = NoName
    Cap = 2
    MaxChanges = 4
    PoolReturns = TRUE
    MayFail = {"Apply", "Watch"}
    ChangesInGap = TRUE
INVARIANTS
    TypeOK
    NoLostChange
PROPERTIES
    ListsEveryChange
    ChangesReapplied
    Quiesces
    ShutdownCompletes
