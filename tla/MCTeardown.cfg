SPECIFICATION Spec
CONSTANTS
  n1 = n1  n2 = n2  n3 = n3
  c1 = c1  p1 = p1  p2 = p2  v1 = v1  v2 = v2  aws = aws  gcp = gcp
  None = None
  NodeId = {n1, n2, n3}
  Cluster = {c1}
  Pool = {p1, p2}
  ClusterOf <- TwoPools
  Image = {v1}
  Provider = {aws}
  PoolSpecs <- SmallSpecs
  GlobalMaxReplacements = 1
  Ops = {"reapply", "decommission", "force", "crash"}
  Reports = {"failed"}
SYMMETRY Symmetry
INVARIANTS
  RateLimited
PROPERTIES
  DrainWithinBudget
  TeardownDeletesRecorded
  LostByForceOnly
  RefinesLifecycle
