SPECIFICATION FairSpec
CONSTANTS
  n1 = n1
  n2 = n2
  n3 = n3
  n4 = n4
  p1 = p1
  p2 = p2
  o1 = o1
  o2 = o2
  orders = orders
  service = service
  users = users
  Nodes = {n1, n2, n3, n4}
  Owners = {o1, o2}
  NoOwner = NoOwner
  Roots <- MCRoots
  Overlapping <- MCOverlapping
  WriteRoots <- MCWriteRoots
  Rank <- MCRank
  Batches <- MCBatches
  Tokens = {tokA}
  NoToken = NoToken
  Processes = {p1, p2}
  WorkerId <- MCWorkerId
  TreeNodes = {n2, n3, n4}
  MaxParallel = 2
  MaxAttempts = 2
  MaxFaults = 3
INVARIANTS TypeOK DependenciesFirst ScopesExclusive LocksMatchLeases ResultsBounded TreesExclusive
PROPERTIES SuccessIsFinal FinishIsOwn NodesSettle
