CONSTANTS
    Files = {d1, d2}
    MaxInodes = 9
    MaxEvents = 2
    MaxFaults = 2
    Chunks = 2
    Roots = {r1}
    Names = {a, b}
    Parts = {a}
    Overflow = TRUE
    MaxSwaps = 1
    MaxMoves = 1
    MaxFileWrites = 2
    MaxSessionDeaths = 1
    Earlier = {e1, e2}
    Runs = {n1}
    MaxPrunes = 1
    MaxWrites = 4
    MaxDeaths = 1
    MaxMonitors = 2
    MaxAsks = 1
SPECIFICATION FilesSpec
INVARIANTS
    LeasedNamesShowCurrent CurrentIsKept
    JournalRecovers InventoryIsCurrent
    SessionsSurvive ImagesKeepTheirObjects
    ReleasedIsUntouched
VIEW View
SYMMETRY Symmetry
CHECK_DEADLOCK FALSE
