CONSTANTS
    p = p
    q = q
    Pos <- Positions
    vault = vault
    RESYNC_TTL_BLOCKS = 1
    SWEEP_READS_PER_BLOCK = 1
    READS_REFRESH_BLOCKS = 3
    MaxHeight = 3
    MaxBlocks = 3
    MaxSpan = 2
    MaxEvents = 1
SPECIFICATION Spec
CHECK_DEADLOCK FALSE
SYMMETRY Swap
INVARIANTS ReadSetExact FoldedAtTip SettledAtRest
