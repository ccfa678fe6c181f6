CONSTANTS
  f1 = f1
  f2 = f2
  u1 = u1
  u2 = u2
  None = None
  Workflow = {f1, f2}
  User = {u1, u2}
  AwsMayFail = TRUE
  MaxCrashes = 1
SPECIFICATION Spec
SYMMETRY Symmetry
INVARIANTS
  InstancesAreKnown
PROPERTIES
  StopAndDeleteStay
  StrandedForGood
CHECK_DEADLOCK FALSE
