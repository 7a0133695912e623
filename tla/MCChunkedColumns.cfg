SPECIFICATION FairSpec
CONSTANTS
    Readers = {r1, r2}
    Size <- MCSize
    ResidentLimit = 2
    Requests <- MCRequests
    MaxGeneration = 3
    None = None
INVARIANTS
    Accounted
PROPERTIES
    NewerSlabsSurvive
    Answers
    Returns
CHECK_DEADLOCK FALSE
