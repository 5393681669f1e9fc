SPECIFICATION FairSpec
CONSTANTS
  MaxProcs = 1
  Faults = {}
CHECK_DEADLOCK FALSE
PROPERTIES StopSeesExit
