SPECIFICATION DFairSpec
CONSTANTS
  fleet_mini = fleet_mini
  eks = eks  gke = gke  aks = aks
  v1 = v1  v2 = v2
  aws = aws  gcp = gcp  azure = azure
  None = None
  NodeId = {1, 2, 3, 4, 5, 6, 7, 8}
  Cluster = {fleet_mini}
  Pool = {eks, gke, aks}
  ClusterOf <- OneCluster
  Image = {v1, v2}
  Provider = {aws, gcp, azure}
  PoolSpecs <- ThreeSpecs
  GlobalMaxReplacements = 50
  Ops = {"update", "decommission", "force", "crash"}
  Reports = {"failed"}
  Fleet <- ThreeClouds
  Rolled = eks
  Struck = gke
  NewImage = v2
  MaxKills = 2
CHECK_DEADLOCK FALSE
INVARIANTS
  TelemetryTypeOK
  RecordsAccounted
  FailuresAccounted
  ActionsAgree
  GaugesTrue
  SeriesAgree
PROPERTIES
  LoopsDeliver
  ScriptEnds
