CONSTANTS
    g = g
    a = a
    b = b
    Hash <- HashSet
    Genesis = g
    UNDO_DEPTH = 1
    NOTIF_CAP = 1
    MaxChain = 3
    MaxSpan = 1
    MaxNotes = 3
SPECIFICATION FairSpec
CHECK_DEADLOCK FALSE
PROPERTIES
    NeverWaitsForever
