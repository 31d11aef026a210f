SPECIFICATION FairHistSpec
CONSTANTS
    r1 = r1  r2 = r2  A = A  B = B  C = C  x = x
    chat = chat  direct = direct  Star = Star
    Kinds = {TRUE}
    Impatient = {r1}
    Requests = {r1, r2}
    Providers = {A}
    TargetModels = {x}
    Models = {chat}
    Accounts <- SharedAccounts
    Configs <- SharedConfigs
    Initial <- SharedConfig
    Direct <- NoDirect
    Answers <- SharedAnswers
    FailureThreshold = 2
    SuccessThreshold = 1
    OpenTimeout = 1
    MaxCooldown = 1
    LockTime = 1
    LevelCap = 0
INVARIANT LateOutcomesBounded
PROPERTY BreakersRecover
