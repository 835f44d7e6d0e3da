SPECIFICATION Spec
CONSTANTS
  Incidents = {i1}
  Slots = {s1, s2}
  MaxApprovals = 2
  MaxBuilds = 1
  MaxTries = 1
  Results = {"passed", "unproved", "broke"}
  Faults = {"overlap"}
  None = None
SYMMETRY Symmetry
VIEW NoOutbox
INVARIANT OutcomesAreObserved
PROPERTY NewerApprovalKeepsAction
CHECK_DEADLOCK FALSE
