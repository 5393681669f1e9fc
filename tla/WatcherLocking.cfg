SPECIFICATION Spec
CONSTANTS
  s1 = s1
  s2 = s2
  h1 = h1
  h2 = h2
  Poller = Poller
  None = None
  Service = {s1}
  Caller <- TwoHandlers
  MaxChanges = 2
  MaxFaults = 2
  Faults = {"read", "stale", "build", "set"}
CHECK_DEADLOCK FALSE
SYMMETRY Interchangeable
INVARIANTS TypeOK LockInv
PROPERTIES VersionsGrow
