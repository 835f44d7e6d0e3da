SPECIFICATION FairSpec
CONSTANTS
  Events = {e1}
  Dispatchers = {d1, d2}
  Workers = {w1}
  MaxRetries = 1
  MaxRequeues = 1
  MaxCopies = 2
  None = None
INVARIANTS TypeOK NeverLost
PROPERTIES KeepsPromise
CHECK_DEADLOCK FALSE
