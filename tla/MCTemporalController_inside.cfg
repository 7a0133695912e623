SPECIFICATION Spec
CONSTANTS
    MinInt <- MCMin
    MaxInt = 4
    RateUnit = 2
    MaxIds = 1
    Sources = {1, 2}
    None = None
    Domains <- MCInside
    Group = 1
    Self = 1
    Widths <- MCWidths
    Steps <- MCSteps
    Rates <- MCRates
    Times <- MCTimes
    EventTimes <- MCEventTimes
    Elapsed <- MCElapsed
    Selections <- MCSelections
    Peers = {2}
    MaxRevision = 3
INVARIANTS
    Consistent
    Canonical
    PeersAcceptOutbound
PROPERTIES
    RevisionsAreChanges
