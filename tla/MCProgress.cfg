SPECIFICATION ProgressSpec
CONSTANTS
  o1 = o1
  o2 = o2
  a1 = a1
  a2 = a2
  h1 = h1
  e1 = e1
  e2 = e2
  t1 = t1
  x = x
  h = h
  Scaleover = Scaleover
  None = None
CHECK_DEADLOCK FALSE
PROPERTIES
  Recovers
  PublisherServed
  EveryResultExported
  LostStops
  Converges
  SlotsReturned
