SPECIFICATION FairSpec
CONSTANTS
    root = root
    dir = dir
    f = f
    g = g
    NoCtx = NoCtx
    Ctx = {root, dir, f, g}
    Up <- TreeUp
    Name <- DistinctNames
    Reclaims = {root, dir, f}
    AutoCleanUpCall = FALSE
    MaxInFreeList = 1
    MaxFreeAtOnce = 1
    MaxRefCount = 100
    Removable = {}
    Unreadable = {dir}
    MaxHandles = 1
    MaxResolve = 1
    MaxSub = 2
INVARIANTS
    TypeOK
    CountsOwners
    FreeListIsRight
    UnheldIsClaimable
    PagedOutIsMissed
    UseReachesTheRoot
PROPERTIES
    UnusedIsReclaimed
    ImplementsPromise
