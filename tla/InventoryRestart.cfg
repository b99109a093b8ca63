CONSTANTS
    Roots = {r1}
    Names = {a}
    Parts = {a}
    Overflow = FALSE
    MaxFileWrites = 2
    MaxSwaps = 1
    MaxSessionDeaths = 1
    MaxMoves = 1
SPECIFICATION InventorySpec
INVARIANT RestartReplays
CHECK_DEADLOCK FALSE
