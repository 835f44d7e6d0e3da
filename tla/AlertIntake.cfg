SPECIFICATION FairSpec
CONSTANTS
  Notices = {n1, n2}
  Handlers = {h1, h2}
  LastOnset = 2
  Scenes = {{n1, n2, "steal"}, {n1, "failure", "stop", "poison", "redelivery"},
            {n1, "decision"}, {n1, n2, "lapse"}}
  None = None
INVARIANTS TypeOK OneOwner SuppressedIsAccepted
PROPERTY FiringIsInvestigated
CHECK_DEADLOCK FALSE
