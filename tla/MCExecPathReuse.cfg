CONSTANTS
    NumKeys = 1
    INBOX_CAP = 2
    MaxBlock = 3
    MaxTrace = 3
    MaxGovTxs = 1
    MaxReorgs = 0
SPECIFICATION Spec
CHECK_DEADLOCK FALSE
INVARIANT NeverReuseNonce
