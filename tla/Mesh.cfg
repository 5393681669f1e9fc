SPECIFICATION Spec
CONSTANTS
  MaxPort = 1
  Host <- Agents
  ClusterOf <- Clusters
  ZoneOf <- Zones
  EnvOf <- Envs
  Offered <- Requests
  Foreign <- Strangers
  None = None
  Caller = {c1, c2}
  MaxRuns <- Runs
  MaxTwins = 2
  MaxEntries = 2
  Faults = {"consul"}
SYMMETRY Handlers
CHECK_DEADLOCK FALSE
INVARIANTS MeshInv SnapshotsAccepted RequestsArrive OrderDetermined
PROPERTIES OnlyFirstsDisagree SweepSparesOthers
