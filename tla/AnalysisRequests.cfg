SPECIFICATION FairSpec
CONSTANTS
  Explicit = {r1}
  Background = {b1, b2}
  Collectors = {c1}
  Analysts = {a1, a2}
  MaxAttempts = 2
  MaxCommands = 1
  MaxCopies = 2
  Scenes = {{r1, b1, "repeat"}, {r1, b1, "deadline", "refusal", "failure"},
            {r1, b1, "end", "failure"}, {b1, b2, "repeat", "recovery"}}
  None = None
INVARIANTS TypeOK VersionsUnique CompleteIsBound CoalescedIsCovered
PROPERTIES ReceiptsDoNotReopen KeepsBook RequestsSettle AnswersAnnounced
CHECK_DEADLOCK FALSE
