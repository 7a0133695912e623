SPECIFICATION ReceiptsFairSpec
CONSTANTS
    i1 = i1
    i2 = i2
    Issuers <- MCIssuers
    MaxNonce <- MCMaxNonce
    Slots = 2
    NoTarget = NoTarget
INVARIANTS
    ReceiptsConsistent
PROPERTIES
    BankDrains
CHECK_DEADLOCK FALSE
