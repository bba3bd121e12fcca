SPECIFICATION Spec
CONSTANTS
  e1 = e1
  t1 = t1
  t2 = t2
  a0 = a0
  b0 = b0
  None = None
  Execution = {e1}
  Task = {t1, t2}
  Process = {a0, b0}
  ExecutionOf <- TasksExecutionOf
  TaskOf <- TasksTaskOf
  AttemptOf <- FirstAttemptOf
  Successor <- NoSuccessor
  Total = 1
  MaxConflicts = 0
  Goals = {"completed", "continuing"}
  Fragile = {}
CHECK_DEADLOCK FALSE
PROPERTIES
  DrainedBeforeRelease
