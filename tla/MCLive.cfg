SPECIFICATION Spec
CONSTANTS
  Unattested = TRUE
  CMD_CAP = 1
  OUT_CAP = 1
  backrun = backrun
  WatchFaults = 2
  Binding = {b1, b2}
  UNDO_DEPTH = 1
  SNAPSHOT_EVERY = 1
  Quiet = {1}
  None = None
  Torn = Torn
  MaxHeight = 3
  MaxBlocks = 4
  MaxRebinds = 1
  RestartCrashes = 2
  idle = idle
INVARIANTS
  RivalNotMissed HeldIsFaithful
PROPERTIES
  TrackedResolves HeadAdvances 
CHECK_DEADLOCK FALSE
