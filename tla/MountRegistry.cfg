SPECIFICATION RegistryFairSpec
CONSTANTS
  p = p
  q = q
  s = s
  alias = alias
  pid = pid
  qid = qid
  NoDB = NoDB
  Id <- MCId
  Instance <- MCInstance
  Request = {r1, r2}
  Unmounter = {u1, u2}
  IdOf <- MCIdOf
  Startup <- MCStartup
  ReadProfile <- MCReadProfile
  ProviderProfiled = {}
  Inadmissible = {}
INVARIANTS
  NoUseAfterClose
PROPERTIES
  RemovedIsClosed
  ImplementsLife
CHECK_DEADLOCK FALSE
