SPECIFICATION Spec
CONSTANTS
    r1 = r1  r2 = r2  A = A  B = B  C = C  x = x
    chat = chat  direct = direct  Star = Star
    Kinds = {FALSE}
    Impatient = {}
    Requests = {r1}
    Providers = {A, B, C}
    TargetModels = {x}
    Models = {chat}
    Accounts <- SingleAccounts
    Configs <- ShrinkByTwo
    Initial <- ThreeTargets
    Direct <- NoDirect
    Answers <- OnlyServed
    FailureThreshold = 2
    SuccessThreshold = 1
    OpenTimeout = 1
    MaxCooldown = 1
    LockTime = 1
    LevelCap = 1
INVARIANT NoPanic
