SPECIFICATION StoreSpec
CONSTANTS
  b1 = b1
  b2 = b2
  c1 = c1
  c2 = c2
  r1 = r1
  r2 = r2
  None = None
  Article = {a1, a2}
  Cohort = {1, 2}
  Task = {0, 1}
  Batch = 1
  MaxFailures = 1
  Nobody = 0
  Operator = {x1, x2}
  Manifest = {b1, b2}
  Object = {c1, c2}
  Holds <- Overlapping
  MaxRuns = 3
  MaxCrashes = 1
  MayLift = TRUE
  Text = {d1, d2}
  Reader = {r1, r2}
  Preparer = {r2}
  LastRun = 2
  MaxFailed = 1
SYMMETRY Symmetry
CHECK_DEADLOCK FALSE
INVARIANTS
  FinishedMeansExported
  ImportedIsExported
  ServedAsCounted
PROPERTIES
  NeverShrinks
