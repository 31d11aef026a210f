SPECIFICATION StoreSpec
CONSTANTS
    u1 = u1  u2 = u2  f1 = f1  f2 = f2  f3 = f3  f4 = f4  f5 = f5
    route = route  alias = alias  key = key
    None = None  Partial = Partial
    Updaters = {u1, u2}
    Edits = {route, alias, key}
    EngineEdits = {route, alias}
    Invalid <- AliasAlone
    Inodes = {f1, f2, f3, f4, f5}
    Worlds <- TunnelHandlers
INVARIANT PersistIsAtomic
