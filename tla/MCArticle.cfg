SPECIFICATION FairSpec
CONSTANTS
  RetryPasses = 2
  RetryDelay = 1
  Backoff = 1
  PublisherWait = {None, 1}
  ServiceWait = {2}
  Stamps = 1
  Preflights = 2
  Outages = 1
  Kills = 1
  None = None
CHECK_DEADLOCK FALSE
INVARIANTS
  EvidenceKept
  PublisherTried
PROPERTIES
  Ends
