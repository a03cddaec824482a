SPECIFICATION FairSpec
CONSTANTS
  a = a
  d1 = d1
  d2 = d2
  NoDB = NoDB
  NoRequest = NoRequest
  Id = {a}
  Instance <- MCInstance
  Request = {r1, r2}
  Unmounter = {u1}
  IdOf <- MCIdOf
  Startup <- MCStartup
  ReadProfile = {}
  ProviderProfiled = {}
  Inadmissible = {}
  Snap = {k1, k2}
  Slots = 1
  RemoveMayFail = FALSE
  MayCrash = FALSE
INVARIANTS
  SweptForGood
PROPERTIES
  RemovedIsCleaned
CHECK_DEADLOCK FALSE
