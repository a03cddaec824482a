SPECIFICATION FairSpec
CONSTANTS
  Writer = {w1, w2, w3}
  NoWriter = NoWriter
  Key = {k1, k2}
  MaxOps = 2
  DriverMayFail = TRUE
PROPERTIES
  BatchIsAtomic
  CommitIsPushed
CHECK_DEADLOCK FALSE
