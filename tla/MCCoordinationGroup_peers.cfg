SPECIFICATION GroupSpec
CONSTANTS
    MinInt <- MCMin
    MaxInt = 4
    RateUnit = 2
    MaxIds = 1
    Sources = {i1, i2, i3}
    None = None
    Couriers = {d1, d2}
    MaxHandles = 3
    Movers = {1}
    Selectors = {1, 3}
    Groups = {1}
    DomainsOf <- MCDomains
    Cursors <- MCCursors
    Choices <- MCSelections
    MaxRevision = 3
    MaxWire = 1
CHECK_DEADLOCK FALSE
SYMMETRY MCSymmetry
INVARIANTS
    GroupConsistent
    PeersShowTheSource
PROPERTIES
    DeliveryAllOrNothing
