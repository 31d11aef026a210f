SPECIFICATION ManagedSpec
CONSTANTS
    Providers = {A, B}
    FailureThreshold = 2
    SuccessThreshold = 2
    OpenTimeout = 2
    MaxFailures = 3
    Accounts = {main}
    Models = {x, y}
    Star = Star
    MaxCooldown = 1
    LockTime = 2
    LevelCap = 1

    OAuthProviders <- MCProviders
    Offers <- MCOffers
    Patches <- MCPatches
    Nodes = {"n1"}
    Pools = {"p1"}
    Urls = {"u1"}
    MaxRows = 1
    MaxGrants = 1
    MaxGen = 3
    MaxAttempts = 1
    Handlers = {h1, h2}
    Rotating = {"codex", "kiro"}

    Names = {"p1", "p2"}
    Types = {"openai", "opencode-go", "planned", "unknown"}
    HaveUrl = {"openai", "opencode-go", "planned"}
    RouteNames = {"r"}
    AliasNames = {"a"}
    ModelNames = {"m"}
    Keys = {"k1", "k2", "k3"}
    Planned = {"planned"}
    FactoryTypes = {"openai", "opencode-go", "planned"}
    HydratedTypes = {"openai", "planned"}
    Conns = {"db1"}
    Admins = {h1, h2}
    Offered <- MCOffered
    Files <- MCFiles
    Areas <- MCAreas

    MitmHandlers = {h1, h2}
    Tools = {"t"}
    RouterUrls = {"u1", "u2"}
    DefaultUrl = "u1"
    NoHelper = NoHelper

    ToolHandlers = {h1, h2}
    ToolModels = {m1, m2}
    ToolNames = {"claude", "codex", "opencode", "copilot", "droid", "hermes",
                 "openclaw", "other"}
    MaxEdits = 1

    Updaters = {h1, h2}
SYMMETRY Symmetry
INVARIANTS
    ManagedTypeOK CountersMatchState ChallengeIsAnswered UnsavedTokenIsLive
    ReferencesResolve StateSurvives SettingsSound LeavesExecutable
PROPERTIES
    ImplementsGate ClosingIsEarned LocksEndOnTime LocksComeFromLocks
    NoResurrection KeyActsOnWhatWasRead
CHECK_DEADLOCK FALSE
