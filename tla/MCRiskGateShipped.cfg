CONSTANTS
    a1 = a1
    a2 = a2
    Protocol = {p1}
    Market = {m1}
    Asset <- Assets
    Flash = {f1}
    Key = {k1}
    SimChainThreshold = 2
    CallbackThreshold = 2
    MaxConditions = 3
SPECIFICATION Spec
CONSTRAINT FewConditions
SYMMETRY AssetSymmetry
PROPERTY
    ClassBNeverAutoCleared
