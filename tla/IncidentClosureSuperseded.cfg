SPECIFICATION Spec
CONSTANTS
  Repairs = {a, b}
  Watches = {w}
  Consumers = {c1}
  Replayers = {p1}
  Operators = {m1}
  Assessors = {e1}
  Scenes = {{a, w}}
  None = None
PROPERTY SupersededDoesNotControl
CHECK_DEADLOCK FALSE
