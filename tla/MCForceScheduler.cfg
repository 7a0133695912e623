SPECIFICATION FairRunSpec
CONSTANTS
    TickChunks <- MCChunks
    Absent = Absent
CHECK_DEADLOCK FALSE
INVARIANTS
    RunConsistent
    SettledMeansGone
PROPERTIES
    FirstCauseWins
    RunSettles
