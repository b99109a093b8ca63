\* directories watched one by one, where a watch may be denied, events may be lost and
\* a lock may become one that cannot be opened, under fair scheduling
SPECIFICATION FairSpec
CONSTANTS
    c1 = c1
    c2 = c2
    r1 = r1
    r2 = r2
    Caches = {c1}
    Repositories = {r1}
    RepositoryOf <- OneCache
    Depth = "named"
    Hooks = {r1}
    Overflow = TRUE
    MaxEvents = 2
    MaxOpaque = 1
PROPERTIES NotedIsServed RequestReaps ComesToRest
CHECK_DEADLOCK FALSE
