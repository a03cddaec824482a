SPECIFICATION CtlFairSpec
CONSTANTS
  p1 = p1
  w1 = w1
  w2 = w2
  Proc = {p1, p2}
  Rev = {a, b}
  None = None
  NoProc = NoProc
  NoReq = NoReq
  PowerMayFail = TRUE
  MaxPublish = 2
  Worker = {w1, w2}
  Serving = {p1}
  HomeOf <- MCHomeOf
INVARIANTS
  LeasePinsActive
  AdmitsPointerOrNothing
PROPERTIES
  RefinesRegister
  ControllerReturns
