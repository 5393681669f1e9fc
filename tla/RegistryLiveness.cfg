SPECIFICATION FairSpec
CONSTANTS
  i1 = i1  i2 = i2  i3 = i3  c1 = c1  c2 = c2
  Key = {"svc:1"}
  Name = {"svc"}
  Doc = {"doc1"}
  Request <- SamePort
  InstanceID = {i1, i2}
  None = None
  MaxRuns = 2
  MaxLate = 1
  Faults = {"call", "expiry", "crash", "stale"}
  Caller = {c1}
PROPERTIES OrphansReaped LeaseRestored
CHECK_DEADLOCK FALSE
