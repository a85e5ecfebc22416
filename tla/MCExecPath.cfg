CONSTANTS
    NumKeys = 2
    INBOX_CAP = 2
    MaxBlock = 3
    MaxTrace = 3
    MaxGovTxs = 2
    MaxReorgs = 1
SPECIFICATION Spec
CHECK_DEADLOCK FALSE
INVARIANTS NonceInOrder PostedFromFullSync
