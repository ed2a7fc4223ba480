CONSTANTS
  a = a  b = b  d = d
  f1 = f1  f2 = f2  e1 = e1  x = x
  bridge = bridge
  s = s  t = t
  MaxRoutes = 3
  Claim <- MCClaim
  Receipt <- MCReceipt
  Relation <- MCRelation
  Scope <- MCScope
  Graphs <- MCGraphs
  NoRelation = NoRelation
  NoGraph = NoGraph
  NoSnapshot = NoSnapshot
SPECIFICATION Spec
INVARIANTS
  TypeOK
  LeastFixedPoint
  NoUnrootedCycle
  OwnBoundaryReceipt
  WithdrawalOnlyRemoves
  StaleMeansLost
PROPERTIES
  KeepsPromise
