SPECIFICATION Spec
CONSTANTS
    somaxconn = somaxconn
    conntrack = conntrack
    ownkey = ownkey
    Keys = {somaxconn, conntrack, ownkey}
    Params = {somaxconn, conntrack}
    KernelKeys = {somaxconn, conntrack, ownkey}
    Faults = {"reload"}
INVARIANT
    AppliedMeansInForce
