SPECIFICATION Spec
CONSTANTS
  i1 = i1  i2 = i2  c1 = c1  c2 = c2
  i3 = i3
  Key = {"svc:1"}
  Name = {"svc"}
  Doc = {"doc1"}
  Request <- SamePort
  InstanceID = {i1, i2}
  None = None
  MaxRuns = 1
  MaxLate = 1
  Faults = {"call", "expiry", "app", "crash"}
  Caller = {c1, c2}
SYMMETRY Symmetry
INVARIANTS TypeOK RegistryInv
PROPERTIES OnlyOvertakenLost OnlyReplaysGoBack CleanExit EachInstanceLivesOnce
CHECK_DEADLOCK FALSE
