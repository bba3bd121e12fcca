CONSTANTS
  None = None
  Permit = {p1, p2, p3}
  Legacy = {l1}
  LateLegacy = TRUE
  Ttl = 2
  Lag = 1
  Capacity = {1, 2}
  MaxCapacity = 2
  Delay = {1}
  Robots = {0, 2}
  Default = 1
  Pause = {1, 2}
  Owner = {o1, o2}
  Requests = None
  Samples = 6
  MinDelay = 2
  InitialDelay = 5
  MaxDelay = 20
  FallbackDelay = 10
  MaxConcurrency = 2
  DefaultCapacity = 1
  Window = 5
  ShortPause = 1
  LongPause = 2
  MaxPause = 5
  RetryAfter = {3}
  SampleTtl = 3
  Faults = 4
  a1 = a1
  a2 = a2
  a3 = a3
  h1 = h1
  h2 = h2
  Article = {a1, a2, a3}
  Hostname = {h1, h2}
  HostOf <- TwoHosts
  Workers = 2
  ArchiveSlots = 1
  PerOutlet = 2
  Thread = {1, 2, 3}
  Heavy = 2
  Browser = 1
SPECIFICATION MCSpec
SYMMETRY Symmetry
CONSTRAINT OneRemembered
INVARIANTS
  UsableIsLeased
  PermitsBounded
  ProbesAlone
  PoolsBounded
  ProcessesBounded
PROPERTIES
  RobotsRuleKept
  PausesHold
  LegacyWaits
