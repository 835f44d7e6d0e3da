SPECIFICATION Spec
CONSTANTS
  Notices = {n1, n2}
  Handlers = {h1}
  LastOnset = 2
  Scenes = {{n1, n2, "steal"}}
  None = None
INVARIANT AnsweredIsAccepted
CHECK_DEADLOCK FALSE
