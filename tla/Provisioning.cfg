SPECIFICATION FairSpec
CONSTANTS
  Doc = {"nested", "twice"}
  Entries <- MCEntries
  MaxDepth = 2
  NPaths = 3
  Id = {"a", "b"}
  NInstances = 5
  Optional = {1}
  Worker = {"w1", "w2"}
  MaxEvents = 5
  PathOf <- MCPathOf
  InitialFiles <- MCInitialFiles
  Creator = {"owner", "app"}
  App = {"app"}
  Writer = {"x"}
  NoOne = NoOne
  Unmountable = {"a", "b"}
INVARIANTS
  AcknowledgedIsOnFile
  AcknowledgedIsServed
  OpenIsOwned
  MountingIsWhole
  CatalogueDescribes
  ObservedIsKept
PROPERTY WorkEnds
CHECK_DEADLOCK FALSE
