SPECIFICATION FairSpec
CONSTANTS
    Stores <- MCStores
    Keys <- MCKeys
    Cells <- MCCells
    Levels <- MCLevels
    KeyOf <- MCKeyOf
    LevelOf <- MCLevelOf
    Children <- MCChildren
    CountMax = 2
    Torn = Torn
    Pyramids <- MCPyramids
    Windows <- MCWindows
    Batches <- MCBatches
    TileBytes <- MCTileBytes
    Budgets <- MCBudgets
    DefaultBudget = 4
VIEW View
INVARIANTS
    TypeOK
    FileHoldsCleanTiles
    TotalsAgree
PROPERTIES
    ImplementsCountStore
    CallReturns
    EvictsWhatItMust
