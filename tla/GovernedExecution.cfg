SPECIFICATION Spec
CONSTANTS
  Incidents = {i1, i2}
  Slots = {s1, s2}
  MaxApprovals = 1
  MaxBuilds = 1
  MaxTries = 2
  Results = {"passed", "unproved", "broke"}
  Faults = {"crash", "unreachable", "expiry"}
  None = None
SYMMETRY Symmetry
INVARIANTS TypeOK TargetExclusive EventsAreTrue
PROPERTY SuccessStays
CHECK_DEADLOCK FALSE
