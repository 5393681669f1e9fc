SPECIFICATION FairSpec
CONSTANTS
  MaxProcs = 4
  Faults = {"crash", "fork", "exit0", "timeout", "sigterm"}
CHECK_DEADLOCK FALSE
INVARIANTS EnvoyInv OneEnvoy StopIsFinal
PROPERTIES Restarted Supervises
