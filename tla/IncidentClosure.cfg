SPECIFICATION FairSpec
CONSTANTS
  Repairs = {a, b}
  Watches = {w}
  Consumers = {c1}
  Replayers = {p1}
  Operators = {m1}
  Assessors = {e1}
  Scenes = {{a, b}, {a, w, "decision"}, {a, w, "alert"}, {a, w, "operator"},
            {a, "assessment"}}
  None = None
INVARIANTS TypeOK ClosureJustified ProjectionNotAhead
PROPERTIES ClosedStays LifecycleForward StabilityAwaited RecoveryCloses
CHECK_DEADLOCK FALSE
