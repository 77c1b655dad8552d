SPECIFICATION FairSpec
CONSTANTS
    eth0 = eth0
    eth1 = eth1
    Names = {eth0, eth1}
    NoName = NoName
    Cap = 2
    MaxChanges = 2
    PoolReturns = TRUE
    MayFail = {"Watch"}
    ChangesInGap = FALSE
PROPERTY
    EveryChangeReapplied
