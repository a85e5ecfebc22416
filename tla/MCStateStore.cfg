SPECIFICATION Spec
CONSTANTS
    Market = {m1, m2}
    User = {u1}
    Shares = {0, 1}
    Extra = {z, x}
    ZERO = z
    Row = {r}
    MaxSlots = 2
    UNDO_DEPTH = 2
    Base = 0
    MaxTip = 3
    MaxWrites = 4
INVARIANTS NeverInconsistent MaskExact
PROPERTIES UnwindExact ImplementsVersionedStore
