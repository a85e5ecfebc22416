SPECIFICATION Spec
CONSTANTS
  Protocol = {p1}
  Market = {m1}
  Flash = {f1}
  Key = {k1}
  SimChainThreshold = 2
  CallbackThreshold = 2
  GAsset = {a1, a2}
  Unattested = TRUE
  CMD_CAP = 1
  OUT_CAP = 1
  MaxHead = 3
  MaxFaults = 0
  direct = direct
  backrun = backrun
  BPos = {p1, p2, p3, p4}
  NO_SLOT = NO_SLOT
  NoBand = NoBand
  TPrice = {1, 2}
  MERGE_DIV = 2
  merge_min = 1
  MaxGen = 1
  MaxEntries = 3
  TAsset = {a1}
  TPos = {1, 2}
  HPos = {p1, p2}
  Time = {1, 2}
  NONE = NONE
  SLACK = 1
  MaxHGen = 3
  QPos = {p1, p2}
  Follows = {h1}
  Canonical = Canonical
  Predicted = Predicted
  Value = {1, 2}
  NoCand = NoCand
  Capacity = 2
  MaxSeq = 4
  Pos = {p1, p2}
  APrice = {400, 1000}
  BPrice = {1000, 2200}
  Coll = {21}
  Params = {45, 100}
  Closed = {p1}
  Rates = {0, 40}
  CORRELATED_ASSETS = 3
  HOT_BELOW = 102
  WARM_BELOW = 115
  COOL_BELOW = 150
  MARGIN = 3
  MaxBlock = 3
  MaxBorn = 1
  MaxChanges = 2
  MaxPending = 1
  BOUND = 2
  UNDO_DEPTH = 2
  MaxOps = 5
  MaxCrashes = 2
  idle = idle
CONSTRAINT Bounded
INVARIANTS
    TypesOK  
  QueueExact CrossingFound AnnouncedExact NoneForgotten 
CHECK_DEADLOCK FALSE
