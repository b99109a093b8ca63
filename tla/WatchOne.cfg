\* one cache under a stream that may overflow and a lock that cannot be opened
SPECIFICATION AnswersSpec
CONSTANTS
    c1 = c1
    c2 = c2
    r1 = r1
    r2 = r2
    Caches = {c1}
    Repositories = {r1}
    RepositoryOf <- OneCache
    Depth = "recursive"
    Hooks = {}
    Overflow = TRUE
    MaxEvents = 3
    MaxOpaque = 1
    MaxChanges = 1
    MaxCommits = 4
    MaxMoves = 3
    Trees <- TwoFiles
    Walked = {1, 2}
    Elsewhere = {3}
    ManifestsAbove <- Above
    Contents <- Texts
    Toolchains <- Installable
    Stocks <- Held
    AskedIds <- AskedFor
    Places <- ThreeFiles
    LengthOf <- HowLong
    First <- FirstContents
    Rewritten <- ThatAreWritten
    Methods <- Either
    Observations <- AnyThree
    MaxWrites = 2
    MaxLosses = 1
INVARIANTS
    ToldIsNoted
    NotedIsPending
    WaiterReportsOnce
    StaleIsNoticed
    LandedIsThere
    LandingIsHeard
    ReviewedAndUnnamed
    NothingLeftUnshared
    SharingConverges
CHECK_DEADLOCK FALSE
