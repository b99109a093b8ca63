CONSTANTS
    Roots = {r1}
    Names = {a}
    Parts = {a}
    Overflow = FALSE
    MaxFileWrites = 2
    MaxSwaps = 1
    MaxSessionDeaths = 0
    MaxMoves = 0
SPECIFICATION FairInventory
PROPERTY EveryCacheTakesPart
CHECK_DEADLOCK FALSE
