SPECIFICATION FairSpec
CONSTANTS
    r1 = r1  r2 = r2  A = A  B = B  C = C  x = x
    chat = chat  direct = direct  Star = Star
    Kinds = {FALSE}
    Impatient = {r1}
    Requests = {r1}
    Providers = {A, B}
    TargetModels = {x}
    Models = {chat, direct}
    Accounts <- PairAccounts
    Configs <- ChainConfigs
    Initial <- ChainConfig
    Direct <- ChainDirect
    Answers <- ChainAnswers
    FailureThreshold = 2
    SuccessThreshold = 1
    OpenTimeout = 1
    MaxCooldown = 1
    LockTime = 1
    LevelCap = 1
INVARIANT CallsOnlyAfterRetryable
PROPERTY RequestsEnd
