CONSTANTS
  Worker = {w1, w2}
  Token = {t1, t2, t3, t4}
  a1 = a1
  a2 = a2
  o1 = o1
  s1 = s1
  s2 = s2
  Article = {a1, a2}
  Outlet = {o1}
  Shard = {s1, s2}
  OutletOf <- OneOutletOf
  ShardOf <- TwoShardOf
  Service = {archive}
  Status = {"saved", "failed"}
  RunState = {"ready"}
  None = None
  Lease = 2
  Lag = 1
  RetryDelay = {0}
  PerOutlet = {1, 2}
  MaxClaims = 2
  MaxAttempts = 1
SPECIFICATION SceneSpec
SYMMETRY Symmetry
INVARIANTS
  RepeatedCompletionAgrees
  RequestsAreFenced
  CountersMatchRows
PROPERTIES
  ImplementsLedger
