SPECIFICATION SceneSpec
CONSTANTS
  b1 = b1
  b2 = b2
  e1 = e1
  e2 = e2
  g1 = g1
  g2 = g2
  None = None
  Process = {p1, p2}
  Article = {a}
  Token = {t1, t2, t3}
  Lease = 3
  Margin = 1
  RequestTime = 1
  Slots = 2
  Corpus = {b1, b2}
  Outlet = {g1, g2}
  OutletOf <- Own
  Attempt <- Attempts
  Workers = 2
  PerOutlet = 1
  CheckpointRows = 2
  EventRows = 2
  MaxRestarts = 1
  RunLease = 1
SYMMETRY Symmetry
CHECK_DEADLOCK FALSE
INVARIANTS
  ExclusiveRequests
  CleanEndHoldsNothing
  EndedIsDurable
