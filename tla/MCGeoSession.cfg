SPECIFICATION FairSpec
CONSTANTS
    Sessions = {s1, s2}
    Chunks = 2
    whole = whole
    later = later
    Snapshots <- MCSnapshots
    RevisionOf <- MCRevisionOf
    Selects <- MCSelects
    MaxSequence = 2
    MaxRetired = 1
    ProcessLimit = 10
    LocalLimit = 9
    CreateBytes = 3
    BuildBytes = 2
    SourceBytes = 1
    Overhead = 1
    JobBytes = 3
    ResultBytes = 1
    ReadBytes = 2
    None = None
CHECK_DEADLOCK FALSE
INVARIANTS
    Consistent
    PublishedWhole
PROPERTIES
    ResultSurvives
    Drains
