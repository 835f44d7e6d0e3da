SPECIFICATION FairSpec
CONSTANTS
  Incidents = {i1}
  Slots = {s1, s2}
  MaxApprovals = 2
  MaxBuilds = 1
  MaxTries = 3
  Results = {"passed", "unproved", "broke"}
  Faults = {"stale"}
  None = None
PROPERTY TargetReleased
CHECK_DEADLOCK FALSE
