SPECIFICATION Spec
CONSTANTS
  Service = {s1, s2}
  None = None
  Configs <- SomeConfigs
  MaxMissed = 1
  MaxHandlers = 1
  MaxLate = 1
SYMMETRY Symmetry
CHECK_DEADLOCK FALSE
INVARIANTS TypeOK LeaseInv LeaseKept
