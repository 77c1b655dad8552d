SPECIFICATION Spec
CONSTANTS
    lo = lo
    eth0 = eth0
    cubic = cubic
    NoDev = NoDev
    NoCc = NoCc
    NumRoutes = 3
    Keys = {"address", "net"}
    KeyOf <- OneAndTwo
    KindsOf <- TwoTables
    Devs = {lo, eth0}
    Lo = lo
    Virtual = {lo}
    Windows <- TwoWindows
    MSSBytes = 3
    CongCtls = {cubic}
    Cubic = cubic
    MaxMoved = 1
INVARIANTS
    TypeOK
    SuccessMeansTuned
PROPERTIES
    ForwardingKept
    DecidedIsKept
