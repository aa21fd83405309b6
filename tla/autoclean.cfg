SPECIFICATION Spec
CONSTANTS
    root = root
    dir = dir
    f = f
    g = g
    NoCtx = NoCtx
    Ctx = {root, dir, f, g}
    Up <- TreeUp
    Name <- DistinctNames
    Reclaims = {root, dir, f, g}
    AutoCleanUpCall = TRUE
    MaxInFreeList = 1
    MaxFreeAtOnce = 1
    MaxRefCount = 5
    Removable = {f}
    Unreadable = {dir}
    MaxHandles = 1
    MaxResolve = 1
    MaxSub = 2
CHECK_DEADLOCK FALSE
INVARIANTS
    FlagMatchesFreeList
    FreeListIsLive
    
PROPERTIES
    ResolveKeepsAll
