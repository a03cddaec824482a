SPECIFICATION Spec
CONSTANTS
  Req = {"r1", "r2"}
  DB <- MCDB
  NoDB = NoDB
  NoJob = NoJob
  NoRequest = NoRequest
  Engine <- MCEngine
  Policies = {"l"}
  Queryable = {"s", "p", "v", "w", "l", "i"}
  Declared <- MCDeclared
  TooLong <- MCTooLong
  Native = {"p"}
  Holds <- MCHolds
  Capacity <- MCCapacity
  MaxSources = 2
  MaxSourceRows = 2
  MaxResultRows = 2
  MayFail = {"r1"}
  Asked <- MCAsked
  Unmountable = {"p"}
  NoRetention = {"v", "w"}
  Profiled = {"i"}
  Ordinary = {"i"}
  Provider = {"v", "w"}
  Restricted = {"v"}
  Planned <- MCPlanned
  BrokenRights = {"l"}
  Licensed = {"s", "v", "w"}
  Cacheable = {"s", "p"}
  ReadOnlyNoAuth = TRUE
  Listed = {"sqlite", "http"}
  AlwaysCleared = {"sqlite", "ingitdb", "firestore", "http"}
  Query <- MCQuery
INVARIANT OnlySuccessIsPublic
