SPECIFICATION AuthSpec
CONSTANTS
  Grant = {g1, g2, g3}
  Timeless = {g3}
  Code = {c1, c2}
  Client = {app1, app2}
  NoClient = NoClient
  SaveMayFail = TRUE
INVARIANTS
  IssuedIsKept
  RevokedIsRefused
  CodeYieldsOne
