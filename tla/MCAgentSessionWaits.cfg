SPECIFICATION FairSpec
CHECK_DEADLOCK FALSE
CONSTANTS
  Requests = {r1, r2}
  NoRequest = NoRequest
  CompactionId = CompactionId
  MaxConns = 1
  MaxFaults = 0
  MaxInputs = 3
  AutoCompact = FALSE
  CompactionMayFail = FALSE
  SwiftReturn = TRUE
  Repertoire = {"command", "clear", "pick", "compact"}
  UserWaits = TRUE
  Reloads = FALSE
  Breaks = FALSE
INVARIANTS
  AnswersStayHome
  HonestStream
PROPERTIES
  PromptedWithTimeline
  AnswerStored
