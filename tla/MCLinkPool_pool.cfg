SPECIFICATION FairSpec
CONSTANTS
    MaxLinks <- MCMaxLinks
    DefaultWorkerCount <- MCDefaultWorkerCount
    CloseOrders = {TRUE, FALSE}
INVARIANTS
    TypeOK
    SendsSucceed
    SummaryExact
    NeverPastDrain
PROPERTIES
    HandlesEachOnce
    PoolJoins
CHECK_DEADLOCK FALSE
