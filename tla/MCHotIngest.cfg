CONSTANTS
    g = g
    a = a
    b = b
    Hash <- HashSet
    Genesis = g
    UNDO_DEPTH = 2
    NOTIF_CAP = 1
    MaxChain = 3
    MaxSpan = 2
    MaxNotes = 3
SPECIFICATION FairSpec
CHECK_DEADLOCK FALSE
INVARIANTS
    AnswersExact
    HookSeesChain
    DivergenceStops
PROPERTIES
    WaitEndsOrExited
