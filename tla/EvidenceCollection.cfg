SPECIFICATION FairSpec
CONSTANTS
  Keys = {k1}
  Inapplicable = {}
  Connectors = {c1, c2}
  Workers = {w1, w2}
  MaxVersion = 2
  MaxAttempts = 2
  PausesPossible = FALSE
  None = None
INVARIANTS TypeOK LeaseDiscipline PendingHasBudget RunningHoldsLease ScheduledHasWork AnswersCiteLedger
PROPERTIES KeepsQueue LiveLeaseRespected JobsSettle
CHECK_DEADLOCK FALSE
