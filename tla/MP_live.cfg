CONSTANTS
  e1 = e1
  h1 = h1
  w1 = w1
  w2 = w2
  r1 = r1
  r2 = r2
  c1 = c1
  k1 = k1
  None = None
  Email = {e1}
  Own = {}
  Handler = {h1}
  FirstSync = 1
  PageSize = 1
  Clerk = {}
  ApiMayFail = FALSE
  GrantMayLapse = FALSE
  MaxExpiries = 0
  MaxDuplicates = 1
  MaxErrands = 0
  Workflow = {w1,w2}
  NamedAsType = {w1}
  ApproveFirst = {}
  RunId = {r1,r2}
  Category = {c1}
  Worker = {k1}
  User = {}
  CanDisconnect = FALSE
  LlmMayFail = TRUE
  GmailMayFail = TRUE
  MaxCrashes = 1
  MaxReconnects = 0
  MaxEdits = 0
SPECIFICATION MailSpec
INVARIANTS
  SkippedNeverReplied
PROPERTIES
  RepliesAreSent
  MailIsDecided
CHECK_DEADLOCK FALSE
