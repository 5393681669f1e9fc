SPECIFICATION Spec
CONSTANTS
  i1 = i1  i2 = i2  i3 = i3  c1 = c1  c2 = c2
  Key = {"svc:1", "other:1"}
  Name = {"svc", "other"}
  Doc = {"doc1", "docO", "doc3"}
  Request <- TwoServices
  InstanceID = {i1, i2, i3}
  None = None
  MaxRuns = 2
  MaxLate = 0
  Faults = {"crash"}
  Caller = {c1}
SYMMETRY Symmetry
INVARIANTS NoDuplicateRegistration ServingInRotation NoOldRunLeft
PROPERTY CleanExitLeavesNothing
CHECK_DEADLOCK FALSE
