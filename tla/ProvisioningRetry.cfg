SPECIFICATION Spec
CONSTANTS
  Doc = {"nested", "twice"}
  Entries <- MCEntries
  MaxDepth = 2
  NPaths = 3
  Id = {"a", "b"}
  NInstances = 5
  Optional = {1}
  Worker = {"w1", "w2"}
  MaxEvents = 6
  PathOf <- MCPathOf
  InitialFiles <- MCInitialFiles
  Creator = {"owner", "app"}
  App = {"app"}
  Writer = {}
  NoOne = NoOne
  Unmountable = {}
INVARIANT AcknowledgedIsKept
CHECK_DEADLOCK FALSE
