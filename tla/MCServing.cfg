SPECIFICATION ServingSpec
CONSTANTS
    u1 = u1  u2 = u2  f1 = f1  f2 = f2  f3 = f3  f4 = f4  f5 = f5
    route = route  alias = alias  key = key
    None = None  Partial = Partial
    Updaters = {u1, u2}
    Edits = {route, alias, key}
    EngineEdits = {route, alias}
    Invalid <- AliasAlone
    Inodes = {f1, f2, f3, f4, f5}
    Worlds <- AllWorlds

    MaxLines = 3
    ChannelCapacity = 1
    Answers <- AllAnswers
    Readers = {"checks", "plain", "select", "finish", "github"}
    Writers = {"net/http", "logging"}

    TunnelProviders = {"cloudflare"}
    MaxEnables = 1
    Manners = {"orderly", "crash"}

    Bridges = {b1}
INVARIANTS
    ServingTypeOK SettledAgree
    DisableStops
PROPERTIES
    CrashIsAtomic UpdatesEnd MemoryIsRegister RelayDelivers RelayEnds
    DisableReturns BridgesEnd
CHECK_DEADLOCK FALSE
