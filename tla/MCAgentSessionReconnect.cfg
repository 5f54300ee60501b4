SPECIFICATION Spec
CHECK_DEADLOCK FALSE
CONSTANTS
  Requests = {r1, r2}
  NoRequest = NoRequest
  CompactionId = CompactionId
  MaxConns = 2
  MaxFaults = 1
  MaxInputs = 1
  AutoCompact = FALSE
  CompactionMayFail = FALSE
  SwiftReturn = FALSE
  Repertoire = {"command", "pick", "esc"}
  UserWaits = FALSE
  Reloads = TRUE
  Breaks = TRUE
SYMMETRY PromptSymmetry
INVARIANTS
  NoDuplicates
  ViewMatches
PROPERTIES
  DropsExplained
