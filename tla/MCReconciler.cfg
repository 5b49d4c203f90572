SPECIFICATION Spec
CONSTANTS
  n1 = n1  n2 = n2  n3 = n3
  c1 = c1  p1 = p1  p2 = p2  v1 = v1  v2 = v2  aws = aws  gcp = gcp
  None = None
  NodeId = {n1, n2, n3}
  Cluster = {c1}
  Pool = {p1}
  ClusterOf <- OnePool
  Image = {v1, v2}
  Provider = {aws}
  PoolSpecs <- CoreSpecs
  GlobalMaxReplacements = 1
  Ops = {"scale", "update", "createFails", "crash"}
  Reports = {"failed"}
SYMMETRY Symmetry
INVARIANTS
  TypeOK
  HealthyIsAdmitted
  NoOrphan
  BudgetHeld
PROPERTIES
  NoOverProvision
  RefinesLifecycle
  QuietWhenConverged
