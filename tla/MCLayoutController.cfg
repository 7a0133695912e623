SPECIFICATION FairSpec
CONSTANTS
    Revisions <- MCRevisions
    Watched <- MCWatched
    Chunks = 2
    None = None
CHECK_DEADLOCK FALSE
INVARIANTS
    Consistent
PROPERTIES
    NoLateUpdate
    Settles
