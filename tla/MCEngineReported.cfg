SPECIFICATION Spec
CONSTANTS
  Pos = {p1, p2}
  APrice = {400, 1000}
  BPrice = {1000, 2200}
  Coll = {21}
  Params = {45, 100}
  Closed = {p1}
  Rates = {0, 40}
  CORRELATED_ASSETS = 3
  HOT_BELOW = 102
  WARM_BELOW = 115
  COOL_BELOW = 150
  MARGIN = 3
  NoBand = NoBand
  MaxBlock = 3
  MaxBorn = 1
  MaxChanges = 2
  MaxPending = 1
INVARIANT ReportedFolded
CHECK_DEADLOCK FALSE
