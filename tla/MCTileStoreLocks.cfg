SPECIFICATION FairLocksSpec
CONSTANTS
    Threads = {t1, t2}
    MaxHandles = 3
    None = None
INVARIANTS
    Serialized
PROPERTIES
    OperationReturns
