SPECIFICATION OFairSpec
CONSTANTS
  n1 = n1  n2 = n2
  c1 = c1  p1 = p1  v1 = v1  v2 = v2  aws = aws
  None = None
  NodeId = {n1, n2}
  Cluster = {c1}
  Pool = {p1}
  ClusterOf <- OnePool
  Image = {v1, v2}
  Provider = {aws}
  PoolSpecs <- TwoNodes
  GlobalMaxReplacements = 1
  Ops = {"update", "decommission", "createFails", "crash"}
  Reports = {"failed", "stale"}
  MaxTicks = 8
INVARIANTS
  RunTypeOK
  QuietMeansDone
  ConvergedRunIsOk
PROPERTIES
  RunReturns
