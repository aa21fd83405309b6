SPECIFICATION Spec
CONSTANTS
    root = root
    dir = dir
    f = f
    g = g
    NoCtx = NoCtx
    Ctx = {root, dir, f}
    Up <- TreeUp
    Name <- DistinctNames
    Reclaims = {root, dir, f}
    AutoCleanUpCall = FALSE
    MaxInFreeList = 1
    MaxFreeAtOnce = 1
    MaxRefCount = 100
    Removable = {f}
    Unreadable = {}
    MaxHandles = 2
    MaxResolve = 0
    MaxSub = 2
PROPERTIES
    FreesOnlyUnused
