SPECIFICATION MCSpec
CONSTANTS
  Snap = {k1, k2, k3}
  Slots = 2
  RemoveMayFail = TRUE
  MayCrash = TRUE
  MaxPageBytes = 7
  Envelope = 1
  MaxRows = 4
  MaxBytes = 18
  PageSizes = {1, 2, 3}
  Metadata = {0, 2}
  RowLengths = {1, 2, 3, 4, 6, 7, 8}
INVARIANTS
  SlotAccounting
  OwnFilesBounded
  PagesPartitionResult
  FailsOnlyAtBudget
PROPERTIES
  CapacityReturns
