SPECIFICATION Spec
CONSTANTS
  Keys = {k1, k2}
  Inapplicable = {}
  Connectors = {c1}
  Workers = {w1, w2}
  MaxVersion = 1
  MaxAttempts = 2
  PausesPossible = TRUE
  None = None
SYMMETRY Symmetry
INVARIANTS CollectedIsHandedOff
PROPERTIES EvidenceFromHolder
CHECK_DEADLOCK FALSE
