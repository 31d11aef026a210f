SPECIFICATION WriterFairSpec
CONSTANTS
    usage = usage  quota = quota  request = request  details = details
    h1 = h1  h2 = h2  A = A  B = B
    Handlers = {h1, h2}
    Providers = {A}
    Plans <- PairPlans
    CloseOrder <- PairOrder
    Quota = quota
    Capacity = 1
    BufferSize = 2
    MaxRequests = 2
    FaultSets <- AnyFault
INVARIANTS LogIsComplete NoPanic
PROPERTIES WriterDelivers ShutdownEnds
CHECK_DEADLOCK FALSE
