\* A process of the earlier release still acquires beside the new ones.
CONSTANTS
  None = None
  Permit = {p1, p2}
  Legacy = {l1}
  LateLegacy = TRUE
  Ttl = 2
  Lag = 0
  Capacity = {2}
  MaxCapacity = 2
  Delay = {0}
  Robots = {0}
  Default = 0
  Pause = {1}
SPECIFICATION Spec
INVARIANTS
  LegacyExclusive
