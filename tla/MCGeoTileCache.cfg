SPECIFICATION CacheSpec
CONSTANTS
    c1 = c1
    c2 = c2
    v1 = v1
    v2 = v2
    r1 = r1
    r2 = r2
    x1 = x1
    l1 = l1
    Nothing = Nothing
    Caches <- MCCaches
    Views <- MCViews
    Keys <- MCKeys
    Leases = {l1}
    RasterKeys <- MCRasterKeys
    Cameras <- MCCameras
    Metadata = 1
    Payload = 1
    DecodeOverhead = 1
    ProcessBytes = 13
    MaxBytes = 10
    MaxEntries = 3
    MaxPending = 2
    MaxViews = 2
    LeaseBytes = {1}
    MaxEpoch <- MCMaxEpoch
SYMMETRY MCSymmetry
CHECK_DEADLOCK FALSE
INVARIANTS
    CacheConsistent
PROPERTIES
    FreshTiles
