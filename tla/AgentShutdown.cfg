SPECIFICATION FairSpec
CONSTANTS
  Managed = TRUE
  MaxStreams = 1
  MaxProcs = 3
  Faults = {"fork", "crash", "exit0", "timeout", "sigterm", "start", "dns", "consul", "slow", "signal", "export"}
CHECK_DEADLOCK FALSE
INVARIANTS AgentInv ControlPlaneFirst CleanShutdown DNSReleased
PROPERTIES ShutdownEnds
