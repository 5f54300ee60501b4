SPECIFICATION FairSpec
CHECK_DEADLOCK FALSE
CONSTANTS
  Requests = {r1, r2}
  NoRequest = NoRequest
  CompactionId = CompactionId
  MaxConns = 1
  MaxFaults = 0
  MaxInputs = 2
  AutoCompact = TRUE
  CompactionMayFail = FALSE
  SwiftReturn = FALSE
  Repertoire = {"command", "clear", "pick", "compact", "esc"}
  UserWaits = FALSE
  Reloads = FALSE
  Breaks = FALSE
PROPERTIES
  StreamEnds
