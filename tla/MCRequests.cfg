SPECIFICATION RequestsSpec
CONSTANTS
    r1 = r1  r2 = r2  A = A  B = B  C = C  x = x
    chat = chat  direct = direct  Star = Star
    Kinds = {TRUE, FALSE}
    Impatient = {}
    Requests = {r1, r2}
    Providers = {A, B, C}
    TargetModels = {x}
    Models = {chat}
    Accounts <- SingleAccounts
    Configs <- ShrinkByOne
    Initial <- ThreeTargets
    Direct <- NoDirect
    Answers <- OnlyServed
    FailureThreshold = 2
    SuccessThreshold = 1
    OpenTimeout = 1
    MaxCooldown = 1
    LockTime = 1
    LevelCap = 1

    m1 = "m1"  m2 = "m2"  k1 = "k1"  k2 = "k2"
    PipeHandlers = {r1, r2}
    PipeModels = {"m1", "m2"}
    ApiKeys = {"k1", "k2"}
    Policies <- MCPolicies
    ServiceChain <- MCChain
    CacheSize = 1
    KeySets <- MCKeySets
    MaxCounted = 2

    g = g
    GoogleRequests = {r1, r2}
    GoogleAccounts <- OneAccount
    Lead = 3
    Lifetime = 4
    MaxTokens = 2

    a1 = a1  a2 = a2
    CloudHandlers = {r1, r2}
    CloudAccounts = {a1, a2}
    NoAccount = NoAccount  NoData = NoData
    UploadPlans <- MCPlans
    CloudPriority <- SamePriority
SYMMETRY Handlers
INVARIANTS
    RequestsTypeOK RotationServes
    MetricsBalance AnswersObeyPolicy ServiceTriesAll
    KnownTokensAreLive ExpiryIsNotSeen TableAgrees
CHECK_DEADLOCK FALSE
