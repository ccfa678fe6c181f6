CONSTANTS
  e1 = e1
  w1 = w1
  w2 = w2
  r1 = r1
  r2 = r2
  c1 = c1
  k1 = k1
  k2 = k2
  u1 = u1
  u2 = u2
  None = None
  Email = {e1}
  Workflow = {w1}
  NamedAsType = {w1}
  ApproveFirst = {w1}
  RunId = {r1}
  Category = {c1}
  Worker = {k1}
  User = {u1,u2}
  CanDisconnect = FALSE
  LlmMayFail = FALSE
  GmailMayFail = FALSE
  MaxCrashes = 0
  MaxReconnects = 0
  MaxEdits = 0
SPECIFICATION Spec
PROPERTIES
  SendsOnlyAwaiting
CHECK_DEADLOCK FALSE
