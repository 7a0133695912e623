SPECIFICATION FairSpec
CONSTANTS
    Owners = {t1, t2}
    Places = {here, there}
    Cameras = {near}
    Hidden <- MCHidden
    MaxRevision = 3
    MaxFrame = 2
    Own = Own
    None = None
CHECK_DEADLOCK FALSE
VIEW View
INVARIANTS
    Consistent
PROPERTIES
    ActsOnWhatWasSeen
    PinnedStays
    Recovers
