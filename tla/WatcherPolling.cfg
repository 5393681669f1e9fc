SPECIFICATION FairSpec
CONSTANTS
  s1 = s1
  s2 = s2
  h1 = h1
  h2 = h2
  Poller = Poller
  None = None
  Service = {s1}
  Caller = {}
  MaxChanges = 2
  MaxFaults = 1
  Faults = {"read"}
CHECK_DEADLOCK FALSE
PROPERTIES PollingGoesOn
