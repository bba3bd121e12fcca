CONSTANTS
  e1 = e1
  e2 = e2
  e3 = e3
  t1 = t1
  t2 = t2
  o1 = o1
  o2 = o2
  h = h
  a0 = a0
  b0 = b0
  b1 = b1
  c0 = c0
  None = None
  Execution = {e1, e2, e3}
  Task = {t1, t2}
  Operator = {o1, o2}
  Handover = {h}
  ExecutionOf <- HandoverExecutionOf
  PreviousOf <- Replaced
  Scaleover = Scaleover
  GuardTtl = 1
  ReservationTtl = 1
  Renewal = 0
  Process = {a0, b0, b1, c0}
  RunsIn <- CohortOfAttempt
  TaskOf <- TaskOfAttempt
  AttemptOf <- Number
  Total = 1
  MaxConflicts = 1
  Successor <- Next2
  Goals = {"continuing"}
  Fragile = {a0, b0}
SPECIFICATION SceneSpec
SYMMETRY Operators
CHECK_DEADLOCK FALSE
INVARIANTS
  OneAssignee
  StoredBeforeRelease
  ReplacementCounts
PROPERTIES
  FencedOut
  LiveGuardKept
  HandoverKeepsOwner
  NewerCohortKept
