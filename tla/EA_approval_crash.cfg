CONSTANTS
  e1 = e1
  w1 = w1
  w2 = w2
  r1 = r1
  r2 = r2
  c1 = c1
  k1 = k1
  k2 = k2
  u1 = u1
  u2 = u2
  None = None
  Email = {e1}
  Workflow = {w1}
  NamedAsType = {w1}
  ApproveFirst = {w1}
  RunId = {r1,r2}
  Category = {c1}
  Worker = {k1,k2}
  User = {u1}
  CanDisconnect = FALSE
  LlmMayFail = TRUE
  GmailMayFail = TRUE
  MaxCrashes = 1
  MaxReconnects = 0
  MaxEdits = 1
SPECIFICATION Spec
SYMMETRY Symmetry
INVARIANTS
  CompletedIsAccounted
  AwaitingHasDraft
  ApprovalComesFirst
  OneRunPerEmail
  NoRunForgotten
  AtMostOneReply
CHECK_DEADLOCK FALSE
