SPECIFICATION Spec
CONSTANTS
  e1 = e1
  e2 = e2
  t2 = t2
  h = h
  o1 = o1
  t1 = t1
  t3 = t3
  None = None
  Execution = {e1}
  Task = {t1, t3}
  Operator = {}
  Handover = {}
  ExecutionOf <- PeerExecutionOf
  PreviousOf <- PreviousIsFirst
  Scaleover = None
  GuardTtl = 2
  ReservationTtl = 1
  Renewal = 1
PROPERTIES NeverUnderNewerAttempt
