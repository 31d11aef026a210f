SPECIFICATION WriterSpec
CONSTANTS
    usage = usage  quota = quota  request = request  details = details
    h1 = h1  h2 = h2  A = A  B = B
    Handlers = {h1}
    Providers = {A}
    Plans <- QuietPlans
    CloseOrder <- InOrder
    Quota = quota
    Capacity = 2
    BufferSize = 2
    MaxRequests = 2
    FaultSets <- NoFault
INVARIANT RowHoldsTheDay
CHECK_DEADLOCK FALSE
