\* a build between the look at the lock and the lease of the prune
SPECIFICATION Spec
CONSTANTS
    c1 = c1
    c2 = c2
    r1 = r1
    r2 = r2
    Caches = {c1}
    Repositories = {r1}
    RepositoryOf <- OneCache
    Depth = "recursive"
    Hooks = {}
    Overflow = FALSE
    MaxEvents = 4
    MaxOpaque = 0
INVARIANT WritesAreServed
CHECK_DEADLOCK FALSE
