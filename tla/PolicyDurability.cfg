SPECIFICATION Spec
CONSTANTS
  Proc = {p1}
  Rev = {a}
  None = None
  NoProc = NoProc
  NoReq = NoReq
  PowerMayFail = TRUE
  MaxPublish = 2
INVARIANTS
  AcknowledgedLoads
