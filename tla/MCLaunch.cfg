SPECIFICATION LaunchSpec
CONSTANTS
  l1 = l1
  l2 = l2
  l3 = l3
  t1 = t1
  t2 = t2
  i1 = i1
  i2 = i2
  i3 = i3
  a1 = a1
  a2 = a2
  s1 = s1
  s2 = s2
  Launcher = {l1, l2, l3}
  RunOf <- Runs
  Handover = {l2}
  MaxGuards = 2
  None = None
  Task = {t1, t2}
  MaxRetries = 1
  MaxRestarts = 1
  GuardTtl = 2
  GuardDeadline = 2
  Total = 1
  MaxExecutions = 2
  Interventions = 1
  Other = Other
  Initializer = {i1, i2, i3}
  Article = {a1, a2}
  Shard = {s1, s2}
  ShardOf <- Sharded
  DoneOf <- Done
  ManifestOf <- Manifests
  Lease = 2
  Lag = 1
  MaxVersions = 9
  Worker = Worker
SYMMETRY TaskSymmetry
CONSTRAINT Coordinated
CHECK_DEADLOCK FALSE
INVARIANTS
  OneCoordinator
  ReadyIsWhole
PROPERTIES
  OneExecution
  RecoveryIsMarked
  StopHonored
