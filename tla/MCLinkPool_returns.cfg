SPECIFICATION FairSpec
CONSTANTS
    MaxLinks <- MCMaxLinks
    DefaultWorkerCount <- MCDefaultWorkerCount
    CloseOrders = {TRUE}
PROPERTY
    ApplyToLinksReturns
CHECK_DEADLOCK FALSE
