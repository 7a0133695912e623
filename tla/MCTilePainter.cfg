CONSTANTS
    Store = s1
    Stores = {s1}
    f0 = f0
    f1 = f1
    mid = mid
    all = all
    cell = cell
    left = left
    right = right
    whole = whole
    Tiles <- MCTiles
    Cells <- MCCells
    LevelOf <- MCLevelOf
    Shown <- MCShown
    Bytes <- MCBytes
    Windows <- MCWindows
    Wanted <- MCWanted
    Active <- MCActive
    Pyramids <- MCPyramids
    CountMax = 1
    Top = 2
    GpuBudget = 4
    Opacities = {1, 2}
    MaxLooks = 2
    MaxGeneration = 2

SPECIFICATION FairPainterSpec
CHECK_DEADLOCK FALSE
INVARIANTS
    ShowsTheCounts
PROPERTIES
    RefinementEnds
