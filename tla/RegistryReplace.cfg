SPECIFICATION Spec
CONSTANTS
  i1 = i1  i2 = i2  i3 = i3  c1 = c1  c2 = c2
  Key = {"svc:1"}
  Name = {"svc"}
  Doc = {"doc1", "doc3"}
  Request <- OnePort
  InstanceID = {i1, i2, i3}
  None = None
  MaxRuns = 1
  MaxLate = 0
  Faults = {}
  Caller = {c1}
PROPERTY ReplaceRebuilds
CHECK_DEADLOCK FALSE
