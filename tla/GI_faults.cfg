CONSTANTS
  m1 = m1
  m2 = m2
  m3 = m3
  h1 = h1
  h2 = h2
  c1 = c1
  None = None
  Mail = {m1,m2}
  Own = {}
  Handler = {h1,h2}
  FirstSync = 2
  PageSize = 1
  Clerk = {c1}
  ApiMayFail = TRUE
  GrantMayLapse = TRUE
  MaxExpiries = 1
  MaxDuplicates = 1
  MaxCrashes = 1
  MaxErrands = 1
SPECIFICATION Spec
SYMMETRY Symmetry
INVARIANTS
  NoMailSlipsThrough
  StoredOnce
  CursorCoversMail
CONSTRAINT
  FewFaults
CHECK_DEADLOCK FALSE
