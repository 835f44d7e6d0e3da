SPECIFICATION Spec
CONSTANTS
  Incidents = {i1}
  Slots = {s1, s2}
  MaxApprovals = 1
  MaxBuilds = 2
  MaxTries = 2
  Results = {"passed", "unproved", "broke"}
  Faults = {"crash"}
  None = None
INVARIANT OneBuildPerApproval
CHECK_DEADLOCK FALSE
